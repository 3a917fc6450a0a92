---------------------------- MODULE ThassaMarkets ----------------------------
(***************************************************************************)
(* The contract ThassaMarkets (contracts/src/markets/ThassaMarkets.sol):   *)
(* binary YES/NO markets whose orders are matched on chain at integer      *)
(* cents, settled through the oracle hub, and paid out by pull payments.   *)
(*                                                                         *)
(* A call that changes several things at once is one action.  A call that  *)
(* matches an order loops over the opposing book: it is one transaction    *)
(* made of steps, the variable tx holding the loop's local variables.      *)
(* While tx is not Idle only the transaction's own steps are enabled, as   *)
(* the EVM runs a transaction to its end before it starts the next one.    *)
(* A call that reverts changes nothing and is not an action.               *)
(***************************************************************************)
EXTENDS Totals, Integers, Sequences

CONSTANTS
  Dollar,          \* cents per dollar: 100 in the code
  Cent,            \* token units per cent: _cent
  Bps,             \* basis points of the whole: 10000 in the code
  MaxTakerFeeBps,  \* MAX_TAKER_FEE_BPS
  Accounts,        \* the addresses that trade, create markets and are paid
  Nobody,          \* address(0)
  Posts,           \* affiliate post ids other than 0
  NoPost,          \* affiliate post id 0
  SignedOrders,    \* the orders signed off chain, each with its authorization
  Sizes,           \* share counts of the orders placed directly
  TakerFees,       \* what takerFeeBps may be set to
  FeeShares,       \* what the two fee shares may be set to
  FlatFees,        \* what the two flat fees may be set to
  Amounts,         \* amounts asked of withdraw, or authorized for a settlement
  InitialFees,     \* the configuration the constructor leaves
  MaxMarkets,      \* bound: markets ever created
  MaxOrders,       \* bound: orders ever placed
  MaxBids,         \* bound: settlement bids ever placed
  MaxTime          \* bound: the last instant of the clock

Markets == 1..MaxMarkets
Sides == {"YES", "NO"}
Prices == 1..(Dollar - 1)
Levels == Markets \X Sides \X Prices
Holdings == Markets \X Sides \X Accounts
Unit == Dollar * Cent

Slot == [maker : Accounts \cup {Nobody}, shares : Nat]
EmptySlot == [maker |-> Nobody, shares |-> 0]

\* An order id is the place of the order in the book.
OrderIds == Sides \X Prices \X (Nat \ {0})
NoOrder == <<"YES", 0, 0>>

Statuses == {"NONE", "OPEN", "MATCHED", "SETTLING", "SETTLED", "VOID"}

Market ==
  [status : Statuses, creator : Accounts \cup {Nobody},
   direction : BOOLEAN, fiftyFifty : BOOLEAN, expiry : Nat,
   opening : OrderIds \cup {NoOrder}, pendingBid : Nat, volume : Nat, creatorFees : Nat]

NoMarket ==
  [status |-> "NONE", creator |-> Nobody, direction |-> FALSE,
   fiftyFifty |-> FALSE, expiry |-> 0, opening |-> NoOrder, pendingBid |-> 0,
   volume |-> 0, creatorFees |-> 0]

Position == [shares : Nat, costBasis : Nat]
NoPosition == [shares |-> 0, costBasis |-> 0]

Bid == [market : Markets, amount : Nat, open : BOOLEAN]

\* MAX_SHARE_BPS: the two shares of a fee never exceed the fee.
Fees ==
  {f \in [taker : 0..MaxTakerFeeBps, creatorShare : Nat, affiliateShare : Nat,
          withdrawal : Nat, settlement : Nat] :
     f.creatorShare + f.affiliateShare <= Bps}

\* market is 0 in an opening order: the market has no id when it is signed.
SignedOrder ==
  [maker : Accounts, market : Markets \cup {0}, side : Sides, price : Prices,
   shares : Nat \ {0}, maxCost : Nat, post : Posts \cup {NoPost},
   expiry : Nat, nonce : Nat, value : Nat]

ASSUME PriceAssumption ==
  Dollar \in Nat \ {0} /\ Dollar % 2 = 0 /\ Cent \in Nat \ {0}

ASSUME FeeAssumption ==
  /\ Bps \in Nat \ {0}
  /\ MaxTakerFeeBps \in 0..Bps
  /\ InitialFees \in Fees
  /\ TakerFees \subseteq Nat /\ FeeShares \subseteq Nat
  /\ FlatFees \subseteq Nat /\ Amounts \subseteq Nat

ASSUME PartiesAssumption ==
  /\ IsFiniteSet(Accounts) /\ Nobody \notin Accounts
  /\ IsFiniteSet(Posts) /\ NoPost \notin Posts

ASSUME OrdersAssumption ==
  SignedOrders \subseteq SignedOrder /\ Sizes \subseteq Nat \ {0}

ASSUME BoundsAssumption ==
  MaxMarkets \in Nat /\ MaxOrders \in Nat /\ MaxBids \in Nat /\ MaxTime \in Nat

VARIABLES
  \* the book, by <<market, side, price>>
  queue,          \* _orderQueues: the slots in FIFO order
  head,           \* Level.head: slots of the queue already consumed
  resting,        \* Level.totalShares
  bitmap,         \* _levelBitmaps, by <<market, side>>: the set bits
  market,         \* _markets, with _openingOrderIds, marketExpiry, fiftyFifty
  position,       \* _positions, by <<market, side, account>>
  \* money
  balance,        \* payment tokens the contract holds
  freeBalance,
  affiliateFees,  \* affiliateFeesAccrued
  protocolFees,   \* protocolFeesAccrued
  \* configuration
  fees,           \* takerFeeBps, the two shares of it, and the two flat fees
  affiliatePayee,
  \* signed orders
  nonces,
  usedAuths,      \* order digests consumed as EIP-3009 nonces
  \* the environment
  bids,           \* the hub's bids for this client: [market, amount, open]
  now,            \* block.timestamp
  tx              \* the matching transaction in progress

bookVars   == <<queue, head, resting, bitmap>>
moneyVars  == <<balance, freeBalance, affiliateFees, protocolFees>>
configVars == <<fees, affiliatePayee>>
signedVars == <<nonces, usedAuths>>
vars == <<bookVars, market, position, moneyVars, configVars, signedVars,
          bids, now, tx>>

-----------------------------------------------------------------------------
(* Prices and fees *)

Opposite(s) == IF s = "YES" THEN "NO" ELSE "YES"

CeilDiv(n, d) == (n + d - 1) \div d

\* Mutant: a fill is not limited by what the maker's order has left.
SmallerLeft(x, y) == x

Smaller(x, y) == IF x < y THEN x ELSE y

\* Mutant: a settled market can be resolved again.
TradesOrSettled == {"OPEN", "MATCHED", "SETTLING", "SETTLED"}

Trades == {"OPEN", "MATCHED", "SETTLING"}
Terminal == {"SETTLED", "VOID"}

Escrow(p, n) == p * n * Cent

TakerFee(n, p) ==
  CeilDiv(fees.taker * n * p * (Dollar - p) * Unit, Bps * Dollar * Dollar)

\* Mutant: no headroom for the rounding of each fill's fee.
WorstCaseCostNoHeadroom(p, n) == Escrow(p, n) + TakerFee(n, p)

WorstCaseCost(p, n) == Escrow(p, n) + TakerFee(n, p) + n

FeeShare(fee, bps) == (fee * bps) \div Bps

-----------------------------------------------------------------------------
(* Matching: _executeOrder and _fillAtLevel as steps of tx *)

Idle == [pc |-> "idle"]

\* The locals of _executeOrder and of MatchContext.  charge says who pays the
\* total at the end; prepaid is the escrow a creation collects beforehand.
Matching ==
  [pc : {"match", "level"}, market : Markets, taker : Accounts, side : Sides,
   price : Prices, size : Nat, left : Nat, index : Nat \ {0},
   post : Posts \cup {NoPost}, escrow : Nat, fee : Nat,
   makerPrice : Prices \cup {0},
   charge : {"wallet", "free", "prepaid"}, prepaid : Nat]

OrdersPlaced == Total([l \in Levels |-> Len(queue[l])])

\* The order takes the level's next slot even if nothing of it comes to rest.
Execute(m, a, s, p, n, post, charge, prepaid) ==
  /\ tx = Idle
  /\ OrdersPlaced < MaxOrders
  /\ queue' = [queue EXCEPT ![<<m, s, p>>] = Append(@, EmptySlot)]
  /\ tx' = [pc |-> "match", market |-> m, taker |-> a, side |-> s,
            price |-> p, size |-> n, left |-> n,
            index |-> Len(queue[<<m, s, p>>]) + 1, post |-> post,
            escrow |-> 0, fee |-> 0, makerPrice |-> 0,
            charge |-> charge, prepaid |-> prepaid]
  /\ UNCHANGED <<head, resting, bitmap>>

OwnLevel == <<tx.market, tx.side, tx.price>>
MakerLevel == <<tx.market, Opposite(tx.side), tx.makerPrice>>
OpposingBits == bitmap[<<tx.market, Opposite(tx.side)>>]

\* Mutant: the crossing test is off by one.
CrossingStrict == {q \in OpposingBits : q + tx.price > Dollar}

Crossing == {q \in OpposingBits : q + tx.price >= Dollar}

\* Mutant: the lowest crossing bit instead of the highest.
LowestCrossing(q) == q \in Crossing /\ \A r \in Crossing : q <= r

BestCrossing(q) == q \in Crossing /\ \A r \in Crossing : r <= q

EnterLevel ==
  /\ tx # Idle /\ tx.pc = "match" /\ tx.left > 0
  /\ \E q \in Prices :
       BestCrossing(q) /\ tx' = [tx EXCEPT !.pc = "level", !.makerPrice = q]
  /\ UNCHANGED <<bookVars, market, position, moneyVars, configVars, signedVars,
                 bids, now>>

AtSlot ==
  /\ tx # Idle /\ tx.pc = "level" /\ tx.left > 0
  /\ head[MakerLevel] < Len(queue[MakerLevel])

NextIndex == head[MakerLevel] + 1
NextSlot == queue[MakerLevel][NextIndex]

\* A cancelled order, or one that was filled when it was placed.
SkipHole ==
  /\ AtSlot
  /\ NextSlot.shares = 0
  /\ head' = [head EXCEPT ![MakerLevel] = @ + 1]
  /\ UNCHANGED <<queue, resting, bitmap, market, position, moneyVars, configVars,
                 signedVars, bids, now, tx>>

\* Mutant: the taker pays its own limit.
ExecPriceLimit == tx.price

\* The taker executes at the complement of the maker's price.
ExecPrice == Dollar - tx.makerPrice

\* Both sides of a fill enter the positions with what each escrowed.
Credit(maker, n) ==
  position' = [position EXCEPT
    ![<<tx.market, tx.side, tx.taker>>] =
      [shares |-> @.shares + n, costBasis |-> @.costBasis + Escrow(ExecPrice, n)],
    ![<<tx.market, Opposite(tx.side), maker>>] =
      [shares |-> @.shares + n, costBasis |-> @.costBasis + Escrow(tx.makerPrice, n)]]

AffiliateRouted == tx.post # NoPost /\ affiliatePayee[tx.post] # Nobody

\* Mutant: the protocol keeps the share of an affiliate as well.
AccrueFeesTwice(fee, toCreator, toAffiliate) ==
  /\ affiliateFees' = IF AffiliateRouted
                      THEN [affiliateFees EXCEPT ![tx.post] = @ + toAffiliate]
                      ELSE affiliateFees
  /\ protocolFees' = protocolFees + fee - toCreator

\* _accrueFees but for the creator's share; without an affiliate the protocol
\* gets its share.
AccrueFees(fee, toCreator, toAffiliate) ==
  IF AffiliateRouted
  THEN /\ affiliateFees' = [affiliateFees EXCEPT ![tx.post] = @ + toAffiliate]
       /\ protocolFees' = protocolFees + (fee - toCreator - toAffiliate)
  ELSE /\ protocolFees' = protocolFees + toAffiliate + (fee - toCreator - toAffiliate)
       /\ UNCHANGED affiliateFees

\* One iteration of _fillAtLevel with its _settleFill: as much of the next
\* slot as the order can take, at the maker's price, with its taker fee.
Fill ==
  /\ AtSlot
  /\ NextSlot.shares > 0
  /\ LET n == Smaller(tx.left, NextSlot.shares)
         fee == TakerFee(n, ExecPrice)
         toCreator == FeeShare(fee, fees.creatorShare)
         meetsOpening ==
           market[tx.market].opening = <<Opposite(tx.side), tx.makerPrice, NextIndex>>
     IN  /\ queue' = [queue EXCEPT ![MakerLevel][NextIndex].shares = @ - n]
         /\ head' = IF n = NextSlot.shares
                    THEN [head EXCEPT ![MakerLevel] = @ + 1] ELSE head
         /\ resting' = [resting EXCEPT ![MakerLevel] = @ - n]
         /\ Credit(NextSlot.maker, n)
         /\ AccrueFees(fee, toCreator, FeeShare(fee, fees.affiliateShare))
         /\ market' = [market EXCEPT
              ![tx.market].volume = @ + n * Unit,
              ![tx.market].creatorFees = @ + toCreator,
              ![tx.market].status = IF meetsOpening /\ @ = "OPEN" THEN "MATCHED" ELSE @]
         /\ tx' = [tx EXCEPT !.left = @ - n, !.fee = @ + fee,
                             !.escrow = @ + Escrow(ExecPrice, n)]
  /\ UNCHANGED <<bitmap, balance, freeBalance, configVars, signedVars, bids, now>>

\* The bit of a level: set when an order comes to rest there, cleared when
\* nothing rests there any more.
SetBit(l) == [bitmap EXCEPT ![<<l[1], l[2]>>] = @ \cup {l[3]}]

\* Mutant: an emptied level keeps its bit.
KeepBit(l, left) == bitmap

ClearBitIfEmpty(l, left) ==
  IF left = 0 THEN [bitmap EXCEPT ![<<l[1], l[2]>>] = @ \ {l[3]}] ELSE bitmap

LeaveLevel ==
  /\ tx # Idle /\ tx.pc = "level"
  /\ tx.left = 0 \/ head[MakerLevel] = Len(queue[MakerLevel])
  /\ bitmap' = ClearBitIfEmpty(MakerLevel, resting[MakerLevel])
  /\ tx' = [tx EXCEPT !.pc = "match", !.makerPrice = 0]
  /\ UNCHANGED <<queue, head, resting, market, position, moneyVars, configVars,
                 signedVars, bids, now>>

\* The loop of _executeOrder is over: what is left of the order rests.
Rest ==
  /\ tx # Idle /\ tx.pc = "match"
  /\ tx.left = 0 \/ Crossing = {}
  /\ IF tx.left = 0
     THEN UNCHANGED <<queue, resting, bitmap>>
     ELSE /\ queue' = [queue EXCEPT ![OwnLevel][tx.index] =
                         [maker |-> tx.taker, shares |-> tx.left]]
          /\ resting' = [resting EXCEPT ![OwnLevel] = @ + tx.left]
          /\ bitmap' = SetBit(OwnLevel)
  /\ tx' = Idle
  /\ UNCHANGED <<head, position, affiliateFees, protocolFees, configVars,
                 signedVars, bids, now>>

\* Mutant: the escrow of what comes to rest is not charged.
TotalCostFilled == tx.escrow + tx.fee

TotalCost == tx.escrow + Escrow(tx.price, tx.left) + tx.fee

\* placeOrder pulls the total cost from the caller's wallet.
FinishDirect ==
  /\ Rest /\ tx.charge = "wallet"
  /\ balance' = balance + TotalCost
  /\ UNCHANGED <<market, freeBalance>>

\* _processSignedOrder charges the maker's free balance.
FinishSigned ==
  /\ Rest /\ tx.charge = "free"
  /\ freeBalance' = [freeBalance EXCEPT ![tx.taker] = @ - TotalCost]
  /\ UNCHANGED <<market, balance>>

\* _createMarket has collected the escrow and records the opening order.
FinishCreation ==
  /\ Rest /\ tx.charge = "prepaid"
  /\ market' = [market EXCEPT ![tx.market].opening = <<tx.side, tx.price, tx.index>>]
  /\ UNCHANGED <<balance, freeBalance>>

MatchingStep ==
  \/ EnterLevel \/ SkipHole \/ Fill \/ LeaveLevel
  \/ FinishDirect \/ FinishSigned \/ FinishCreation

-----------------------------------------------------------------------------
(* Creating markets, placing and cancelling orders *)

\* Market ids are handed out in order (nextMarketId).
Created(m, a) ==
  /\ market[m].status = "NONE"
  /\ \A k \in Markets : k < m => market[k].status # "NONE"
  /\ market' = [market EXCEPT ![m].status = "OPEN", ![m].creator = a]

CreateMarketDirect(a, s, p, n) ==
  /\ Escrow(p, n) >= Unit
  /\ \E m \in Markets :
       Created(m, a) /\ Execute(m, a, s, p, n, NoPost, "prepaid", Escrow(p, n))
  /\ balance' = balance + Escrow(p, n)
  /\ UNCHANGED <<position, freeBalance, affiliateFees, protocolFees, configVars,
                 signedVars, bids, now>>

\* orderDigest: the EIP-3009 nonce commits to the order, not to the value.
Digest(o) == [o EXCEPT !.value = 0]

\* What createMarket and _processSignedOrder require of a signed order: in
\* time, next in its maker's sequence, its authorization not yet consumed.
Authorized(o) ==
  /\ o.expiry >= now
  /\ o.nonce = nonces[o.maker]
  /\ Digest(o) \notin usedAuths
  /\ o.value <= o.maxCost

Consume(o) ==
  /\ usedAuths' = usedAuths \cup {Digest(o)}
  /\ balance' = balance + o.value
  /\ UNCHANGED <<position, affiliateFees, protocolFees, configVars, bids, now>>

CreateMarket(o) ==
  /\ o.market = 0
  /\ Authorized(o)
  /\ LET escrow == Escrow(o.price, o.shares)
         available == freeBalance[o.maker] + o.value
     IN  /\ Unit <= escrow /\ escrow <= o.maxCost /\ escrow <= available
         /\ freeBalance' = [freeBalance EXCEPT ![o.maker] = available - escrow]
         /\ \E m \in Markets :
              /\ Created(m, o.maker)
              /\ Execute(m, o.maker, o.side, o.price, o.shares, NoPost,
                         "prepaid", escrow)
  /\ nonces' = [nonces EXCEPT ![o.maker] = o.nonce + 1]
  /\ Consume(o)

PlaceOrder(a, m, s, p, n, post) ==
  /\ market[m].status \in Trades
  /\ Execute(m, a, s, p, n, post, "wallet", 0)
  /\ UNCHANGED <<market, position, moneyVars, configVars, signedVars, bids, now>>

\* An order of a batch that passes every check up to its authorization.
Acceptable(o) ==
  /\ o.market \in Markets /\ market[o.market].status \in {"OPEN", "MATCHED"}
  /\ Authorized(o)
  /\ WorstCaseCost(o.price, o.shares) <= o.maxCost

Funded(o) == freeBalance[o.maker] + o.value >= WorstCaseCost(o.price, o.shares)

\* _processSignedOrder of one order: a batch is a sequence of these.
PlaceSignedOrder(o) ==
  /\ Acceptable(o) /\ Funded(o)
  /\ Consume(o)
  /\ freeBalance' = [freeBalance EXCEPT ![o.maker] = @ + o.value]
  /\ nonces' = [nonces EXCEPT ![o.maker] = o.nonce + 1]
  /\ Execute(o.market, o.maker, o.side, o.price, o.shares, o.post, "free", 0)
  /\ UNCHANGED market

\* Rejected with FUNDS: what the authorization brought stays with the maker.
RejectUnfunded(o) ==
  /\ tx = Idle
  /\ Acceptable(o) /\ ~Funded(o)
  /\ Consume(o)
  /\ freeBalance' = [freeBalance EXCEPT ![o.maker] = @ + o.value]
  /\ UNCHANGED <<bookVars, market, nonces, tx>>

\* Only the order's maker; whatever the market's status.
CancelOrder(l, i) ==
  /\ tx = Idle
  /\ queue[l][i].shares > 0
  /\ LET slot == queue[l][i]
         left == resting[l] - slot.shares
     IN  /\ queue' = [queue EXCEPT ![l][i].shares = 0]
         /\ resting' = [resting EXCEPT ![l] = left]
         /\ bitmap' = ClearBitIfEmpty(l, left)
         /\ freeBalance' = [freeBalance EXCEPT
              ![slot.maker] = @ + Escrow(l[3], slot.shares)]
  /\ UNCHANGED <<head, market, position, balance, affiliateFees, protocolFees,
                 configVars, signedVars, bids, now, tx>>

-----------------------------------------------------------------------------
(* Resolving a market *)

BidOpen(m) == market[m].pendingBid # 0 /\ bids[market[m].pendingBid].open

\* Mutant: a second bid may be placed while the first is open.
SettleableAnyTime(m) == market[m].status \in Trades

\* While SETTLING, only once the last bid closed without settling the market.
Settleable(m) ==
  /\ market[m].status \in Trades
  /\ market[m].status = "SETTLING" => ~BidOpen(m)

\* settleMarket and settleMarketWithAuth: the fee goes straight to the hub,
\* which refuses less than its base fee of a cent; what the payer authorized
\* beyond it becomes free balance.
SettleMarket(m, payer, surplus) ==
  /\ tx = Idle
  /\ Settleable(m)
  /\ fees.settlement >= Cent
  /\ Len(bids) < MaxBids
  /\ bids' = Append(bids, [market |-> m, amount |-> fees.settlement, open |-> TRUE])
  /\ market' = [market EXCEPT ![m].status = "SETTLING",
                              ![m].pendingBid = Len(bids) + 1]
  /\ balance' = balance + surplus
  /\ freeBalance' = [freeBalance EXCEPT ![payer] = @ + surplus]
  /\ UNCHANGED <<bookVars, position, affiliateFees, protocolFees, configVars,
                 signedVars, now, tx>>

\* _updateOracle, called by the hub for a market named in the callback data.
\* b is the bid the update closes, of whichever market; 0 when it is manual.
UpdateOracle(m, outcome, b) ==
  /\ tx = Idle
  /\ market[m].status = "SETTLING"
  /\ IF b = 0
     THEN UNCHANGED bids
     ELSE bids[b].open /\ bids' = [bids EXCEPT ![b].open = FALSE]
  /\ market' = [market EXCEPT ![m].direction = outcome, ![m].status = "SETTLED"]
  /\ UNCHANGED <<bookVars, position, moneyVars, configVars, signedVars, now, tx>>

\* Mutant: books today's settlement fee instead of what the bid held.
ReclaimCurrentFee(m) ==
  IF market[m].status = "SETTLING" /\ BidOpen(m)
  THEN /\ bids' = [bids EXCEPT ![market[m].pendingBid].open = FALSE]
       /\ balance' = balance + bids[market[m].pendingBid].amount
       /\ protocolFees' = protocolFees + fees.settlement
  ELSE UNCHANGED <<bids, balance, protocolFees>>

\* voidMarket and expireMarket cancel an open bid; the hub refunds it.
ReclaimBid(m) ==
  IF market[m].status = "SETTLING" /\ BidOpen(m)
  THEN /\ bids' = [bids EXCEPT ![market[m].pendingBid].open = FALSE]
       /\ balance' = balance + bids[market[m].pendingBid].amount
       /\ protocolFees' = protocolFees + bids[market[m].pendingBid].amount
  ELSE UNCHANGED <<bids, balance, protocolFees>>

VoidMarket(m) ==
  /\ tx = Idle
  /\ market[m].status \in Trades
  /\ ReclaimBid(m)
  /\ market' = [market EXCEPT ![m].status = "VOID"]
  /\ UNCHANGED <<bookVars, position, freeBalance, affiliateFees, configVars,
                 signedVars, now, tx>>

SetMarketExpiry(m, expiry) ==
  /\ tx = Idle
  /\ market[m].status # "NONE"
  /\ market' = [market EXCEPT ![m].expiry = expiry]
  /\ UNCHANGED <<bookVars, position, moneyVars, configVars, signedVars, bids, now, tx>>

\* Anyone may expire a market that is past due: both sides share alike.
ExpireMarket(m) ==
  /\ tx = Idle
  /\ market[m].status \in Trades
  /\ market[m].expiry # 0 /\ now >= market[m].expiry
  /\ ReclaimBid(m)
  /\ market' = [market EXCEPT ![m].status = "SETTLED", ![m].fiftyFifty = TRUE]
  /\ UNCHANGED <<bookVars, position, freeBalance, affiliateFees, configVars,
                 signedVars, now, tx>>

-----------------------------------------------------------------------------
(* Pull payments *)

WinningSide(m) == IF market[m].direction THEN "YES" ELSE "NO"

\* What an account's positions are worth: what redeem pays before its fee
\* once the market is resolved, and what they cost until then.
Claim(m, a) ==
  LET yes == position[<<m, "YES", a>>]
      no == position[<<m, "NO", a>>]
  IN  IF market[m].status # "SETTLED" THEN yes.costBasis + no.costBasis
      ELSE IF market[m].fiftyFifty THEN ((yes.shares + no.shares) * Unit) \div 2
      ELSE position[<<m, WinningSide(m), a>>].shares * Unit

\* Mutant: a claim on a void market leaves one of its positions in place.
RedeemedSidesOne(m) == {WinningSide(m)}

\* The loser's shares of a directional outcome stay on record.
RedeemedSides(m) ==
  IF market[m].status = "SETTLED" /\ ~market[m].fiftyFifty
  THEN {WinningSide(m)} ELSE Sides

Redeem(m, a) ==
  /\ tx = Idle
  /\ market[m].status \in Terminal
  /\ Claim(m, a) > fees.withdrawal
  /\ position' = [k \in Holdings |->
       IF k[1] = m /\ k[2] \in RedeemedSides(m) /\ k[3] = a
       THEN NoPosition ELSE position[k]]
  /\ protocolFees' = protocolFees + fees.withdrawal
  /\ balance' = balance - (Claim(m, a) - fees.withdrawal)
  /\ UNCHANGED <<bookVars, market, freeBalance, affiliateFees, configVars,
                 signedVars, bids, now, tx>>

Withdraw(a, amount) ==
  /\ tx = Idle
  /\ amount > fees.withdrawal
  /\ freeBalance[a] >= amount
  /\ freeBalance' = [freeBalance EXCEPT ![a] = @ - amount]
  /\ protocolFees' = protocolFees + fees.withdrawal
  /\ balance' = balance - (amount - fees.withdrawal)
  /\ UNCHANGED <<bookVars, market, position, affiliateFees, configVars, signedVars,
                 bids, now, tx>>

ClaimCreatorFees(m) ==
  /\ tx = Idle
  /\ market[m].creatorFees > 0
  /\ market' = [market EXCEPT ![m].creatorFees = 0]
  /\ balance' = balance - market[m].creatorFees
  /\ UNCHANGED <<bookVars, position, freeBalance, affiliateFees, protocolFees,
                 configVars, signedVars, bids, now, tx>>

ClaimAffiliateFees(post) ==
  /\ tx = Idle
  /\ affiliateFees[post] > 0
  /\ affiliateFees' = [affiliateFees EXCEPT ![post] = 0]
  /\ balance' = balance - affiliateFees[post]
  /\ UNCHANGED <<bookVars, market, position, freeBalance, protocolFees, configVars,
                 signedVars, bids, now, tx>>

WithdrawProtocolFees ==
  /\ tx = Idle
  /\ protocolFees > 0
  /\ protocolFees' = 0
  /\ balance' = balance - protocolFees
  /\ UNCHANGED <<bookVars, market, position, freeBalance, affiliateFees, configVars,
                 signedVars, bids, now, tx>>

-----------------------------------------------------------------------------
(* Administration and time *)

\* By the platform role or the owner; the payee may change while fees accrue.
RegisterAffiliatePost(post, payee) ==
  /\ tx = Idle
  /\ affiliatePayee' = [affiliatePayee EXCEPT ![post] = payee]
  /\ UNCHANGED <<bookVars, market, position, moneyVars, fees, signedVars, bids, now, tx>>

\* The setters of the owner; the contract refuses what is not in Fees.
SetFees(new) ==
  /\ tx = Idle
  /\ new \in Fees
  /\ fees' = new
  /\ UNCHANGED <<bookVars, market, position, moneyVars, affiliatePayee, signedVars,
                 bids, now, tx>>

Tick ==
  /\ tx = Idle
  /\ now < MaxTime
  /\ now' = now + 1
  /\ UNCHANGED <<bookVars, market, position, moneyVars, configVars, signedVars, bids, tx>>

-----------------------------------------------------------------------------
Init ==
  /\ queue = [l \in Levels |-> << >>]
  /\ head = [l \in Levels |-> 0]
  /\ resting = [l \in Levels |-> 0]
  /\ bitmap = [b \in Markets \X Sides |-> {}]
  /\ market = [m \in Markets |-> NoMarket]
  /\ position = [k \in Holdings |-> NoPosition]
  /\ balance = 0
  /\ freeBalance = [a \in Accounts |-> 0]
  /\ affiliateFees = [post \in Posts |-> 0]
  /\ protocolFees = 0
  /\ fees = InitialFees
  /\ affiliatePayee = [post \in Posts |-> Nobody]
  /\ nonces = [a \in Accounts |-> 0]
  /\ usedAuths = {}
  /\ bids = << >>
  /\ now = 0
  /\ tx = Idle

CreateStep ==
  \/ \E a \in Accounts, s \in Sides, p \in Prices, n \in Sizes :
       CreateMarketDirect(a, s, p, n)
  \/ \E o \in SignedOrders : CreateMarket(o)

TradeStep ==
  \/ \E a \in Accounts, m \in Markets, s \in Sides, p \in Prices, n \in Sizes,
        post \in Posts \cup {NoPost} : PlaceOrder(a, m, s, p, n, post)
  \/ \E o \in SignedOrders : PlaceSignedOrder(o) \/ RejectUnfunded(o)
  \/ \E l \in Levels : \E i \in DOMAIN queue[l] : CancelOrder(l, i)

ResolveStep ==
  \E m \in Markets :
    \/ \E payer \in Accounts, surplus \in Amounts \cup {0} : SettleMarket(m, payer, surplus)
    \/ \E outcome \in BOOLEAN, b \in {0} \cup DOMAIN bids : UpdateOracle(m, outcome, b)
    \/ VoidMarket(m)
    \/ \E expiry \in 0..MaxTime : SetMarketExpiry(m, expiry)
    \/ ExpireMarket(m)

PayoutStep ==
  \/ \E m \in Markets, a \in Accounts : Redeem(m, a)
  \/ \E a \in Accounts, amount \in Amounts : Withdraw(a, amount)
  \/ \E m \in Markets : ClaimCreatorFees(m)
  \/ \E post \in Posts : ClaimAffiliateFees(post)
  \/ WithdrawProtocolFees

AdminStep ==
  \/ \E post \in Posts, payee \in Accounts : RegisterAffiliatePost(post, payee)
  \/ \E bps \in TakerFees : SetFees([fees EXCEPT !.taker = bps])
  \/ \E bps \in FeeShares : \/ SetFees([fees EXCEPT !.creatorShare = bps])
                            \/ SetFees([fees EXCEPT !.affiliateShare = bps])
  \/ \E fee \in FlatFees : \/ SetFees([fees EXCEPT !.withdrawal = fee])
                           \/ SetFees([fees EXCEPT !.settlement = fee])

Next == MatchingStep \/ CreateStep \/ TradeStep \/ ResolveStep \/ PayoutStep
        \/ AdminStep \/ Tick

\* A transaction that started runs to its end.
Spec == Init /\ [][Next]_vars /\ WF_vars(MatchingStep)

-----------------------------------------------------------------------------
(* What the contract promises *)

(* Every variable keeps its type.  The three balances the code subtracts     *)
(* from are integers here: that they stay natural is NoOverdraft.            *)
TypeOK ==
  /\ queue \in [Levels -> Seq(Slot)]
  /\ head \in [Levels -> Nat] /\ resting \in [Levels -> Nat]
  /\ bitmap \in [Markets \X Sides -> SUBSET Prices]
  /\ market \in [Markets -> Market]
  /\ position \in [Holdings -> Position]
  /\ balance \in Int /\ protocolFees \in Int /\ freeBalance \in [Accounts -> Int]
  /\ affiliateFees \in [Posts -> Nat]
  /\ fees \in Fees /\ affiliatePayee \in [Posts -> Accounts \cup {Nobody}]
  /\ nonces \in [Accounts -> Nat] /\ usedAuths \subseteq SignedOrder
  /\ bids \in Seq(Bid)
  /\ \A m \in Markets : market[m].pendingBid <= Len(bids)
  /\ now \in Nat
  /\ tx \in Matching \cup {Idle}

(* A level's cursors and its total describe its queue: the total is what     *)
(* its slots hold, nothing is left below the head, and the level's bit is    *)
(* set exactly when something rests there (placeOrder, _fillAtLevel and      *)
(* cancelOrder each maintain a part of it).  A stale bit would make          *)
(* _executeOrder loop for ever, a missing one would hide liquidity.          *)
SlotShares(q) == [i \in DOMAIN q |-> q[i].shares]

LevelTotals == \A l \in Levels : resting[l] = Total(SlotShares(queue[l]))

HeadPassed ==
  \A l \in Levels :
    /\ head[l] <= Len(queue[l])
    /\ \A i \in 1..head[l] : queue[l][i].shares = 0

BitsExact ==
  \A l \in Levels :
    \/ l[3] \in bitmap[<<l[1], l[2]>>] <=> resting[l] > 0
    \/ tx # Idle /\ tx.pc = "level" /\ l = MakerLevel

BookConsistent == LevelTotals /\ HeadPassed /\ BitsExact

(* The book as its users see it.  The queues with their holes, the cursors   *)
(* and the bitmap implement price-time priority at the maker's price.        *)
RestingOrders ==
  UNION {{[market |-> l[1], side |-> l[2], price |-> l[3], arrival |-> i,
           maker |-> queue[l][i].maker, shares |-> queue[l][i].shares] :
            i \in {j \in DOMAIN queue[l] : queue[l][j].shares > 0}} : l \in Levels}

IncomingOrder ==
  IF tx = Idle
  THEN [market |-> 0]
  ELSE [market |-> tx.market, side |-> tx.side, price |-> tx.price,
        maker |-> tx.taker, shares |-> tx.left, paid |-> tx.escrow \div Cent]

PriceTime == INSTANCE PriceTimeBook
               WITH resting <- RestingOrders, incoming <- IncomingOrder

(* Matching implements PriceTimeBook: every step of _executeOrder,           *)
(* _fillAtLevel and cancelOrder is a step of it or leaves it unchanged.      *)
PriceTimePriority == PriceTime!Spec

(* The book never holds two orders that could trade with each other, not     *)
(* even while one is being matched: an order comes to rest only when         *)
(* nothing of the opposing side crosses it any more.                         *)
NeverCrossed ==
  \A m \in Markets, p, q \in Prices :
    resting[<<m, "YES", p>>] > 0 /\ resting[<<m, "NO", q>>] > 0 => p + q < Dollar

(* Until a market is resolved its shares come in pairs, one YES for each NO, *)
(* and each pair has exactly a dollar escrowed behind it, as its volume      *)
(* says: price improvement and partial fills never create or lose a cent.    *)
SharesOf(m, s) == Total([a \in Accounts |-> position[<<m, s, a>>].shares])
BasisOf(m, s) == Total([a \in Accounts |-> position[<<m, s, a>>].costBasis])

FullyCollateralized ==
  \A m \in Markets :
    market[m].status \notin Terminal =>
      /\ SharesOf(m, "YES") = SharesOf(m, "NO")
      /\ BasisOf(m, "YES") + BasisOf(m, "NO") = SharesOf(m, "YES") * Unit
      /\ market[m].volume = SharesOf(m, "YES") * Unit

(* Every token the contract holds belongs to someone: free balances, the     *)
(* escrow of resting orders, the claims of positions and the accrued fees    *)
(* add up to the balance.  So every pull payment the code grants can be      *)
(* paid, in whatever order they are made.                                    *)
RestingEscrow == Total([l \in Levels |-> Escrow(l[3], resting[l])])
Claims == Total([k \in Markets \X Accounts |-> Claim(k[1], k[2])])
Liabilities == Total(freeBalance) + RestingEscrow + Claims
               + Total([m \in Markets |-> market[m].creatorFees]) + Total(affiliateFees) + protocolFees

Uncollected == IF tx = Idle THEN 0 ELSE tx.escrow + tx.fee
Prepaid == IF tx = Idle THEN 0 ELSE tx.prepaid

Solvent == balance + Uncollected = Liabilities + Prepaid

(* A signed order never costs its maker more than the worst case checked     *)
(* before it was matched (_worstCaseCost), so the charge to the free balance *)
(* cannot underflow and revert a batch because of one order.                 *)
ChargeWithinBound ==
  tx # Idle =>
    /\ tx.charge = "free" =>
         /\ TotalCost <= WorstCaseCost(tx.price, tx.size)
         /\ TotalCost <= freeBalance[tx.taker]
    /\ tx.charge = "prepaid" => TotalCost = tx.prepaid

(* No balance the code subtracts from goes below zero: no payment or charge  *)
(* the code has granted reverts because another was made before it.          *)
NoOverdraft ==
  /\ balance >= 0 /\ protocolFees >= 0
  /\ \A a \in Accounts : freeBalance[a] >= 0

(* Every open settlement bid is the pending bid of its market: there is at   *)
(* most one, and it is the one that voidMarket or expireMarket reclaims.     *)
OneOpenBid ==
  \A b \in DOMAIN bids :
    bids[b].open => market[bids[b].market].pendingBid = b

(* An outcome is final: once a market is settled or void, neither its        *)
(* status, its direction nor its 50/50 mark ever changes.                    *)
OutcomeFinal ==
  [][\A m \in Markets :
       market[m].status \in Terminal =>
         /\ market'[m].status = market[m].status
         /\ market'[m].direction = market[m].direction
         /\ market'[m].fiftyFifty = market[m].fiftyFifty]_vars

(* Matching ends: the loops of _executeOrder and _fillAtLevel run out of     *)
(* shares or of liquidity.                                                   *)
MatchingEnds == (tx # Idle) ~> (tx = Idle)

=============================================================================
