------------------------ MODULE ThassaMarketsProofs ------------------------
(***************************************************************************)
(* The order book and the markets of ThassaMarkets, for every number of    *)
(* prices, accounts, markets and orders: their types, the agreement of     *)
(* levels, cursors and bitmap, that a book is never crossed, that outcomes *)
(* are final, and that queues, holes, cursors and bitmap are nothing but   *)
(* price-time priority.  Then the money, for every fee the contract        *)
(* accepts: each unresolved market is backed by exactly a dollar a pair of *)
(* shares, the tokens held are exactly what is owed, no balance is         *)
(* overdrawn, and no order costs more than the worst case checked before.  *)
(*                                                                         *)
(* The argument about the money: two matched orders escrow a dollar a      *)
(* share between them, and a dollar a share is what their positions are    *)
(* worth however the market is resolved.  So a market's positions claim    *)
(* its volume (Backed), a fill turns escrow into claims of the same        *)
(* amount, and resolving a market moves no money.  Everything else the     *)
(* contract does adds the same to both sides of the ledger.                *)
(***************************************************************************)
EXTENDS ThassaMarkets, TotalsProofs

-----------------------------------------------------------------------------
(* Arithmetic of fees and sizes *)

LEMMA ProductType == \A x, y \in Nat : x * y \in Nat
OBVIOUS

(* Dividing upwards stays within the naturals. *)
LEMMA CeilDivType ==
  ASSUME NEW n \in Nat, NEW d \in Nat \ {0}
  PROVE  CeilDiv(n, d) \in Nat
BY DEF CeilDiv

(* _takerFee of a size and a price of the book is a natural number. *)
LEMMA TakerFeeType ==
  ASSUME fees \in Fees, NEW n \in Nat, NEW p \in Prices
  PROVE  TakerFee(n, p) \in Nat
<1>1. /\ Dollar \in Nat \ {0} /\ Cent \in Nat \ {0} /\ Bps \in Nat \ {0}
      /\ fees.taker \in Nat /\ p \in Nat /\ Dollar - p \in Nat
  BY PriceAssumption, FeeAssumption DEF Fees, Prices
<1>2. Unit \in Nat /\ fees.taker * n \in Nat
  BY <1>1 DEF Unit
<1>3. fees.taker * n * p \in Nat
  BY <1>1, <1>2, ProductType
<1>4. fees.taker * n * p * (Dollar - p) \in Nat
  BY <1>1, <1>3, ProductType
<1>5. fees.taker * n * p * (Dollar - p) * Unit \in Nat
  BY <1>2, <1>4, ProductType
<1>6. Bps * Dollar * Dollar \in Nat \ {0}
  <2>1. Bps * Dollar \in Nat \ {0}
    BY <1>1
  <2> QED BY <1>1, <2>1
<1> QED BY <1>5, <1>6, CeilDivType DEF TakerFee

(* What an order escrows is a natural number. *)
LEMMA EscrowType ==
  ASSUME NEW n \in Nat, NEW p \in Nat
  PROVE  Escrow(p, n) \in Nat
BY PriceAssumption, ProductType DEF Escrow

(* A fill takes no more than either side has. *)
LEMMA SmallerBounds ==
  ASSUME NEW x \in Nat, NEW y \in Nat
  PROVE  Smaller(x, y) \in Nat /\ Smaller(x, y) <= x /\ Smaller(x, y) <= y
BY DEF Smaller

(* A share of a fee is a natural number. *)
LEMMA FeeShareType ==
  ASSUME NEW fee \in Nat, NEW bps \in Nat
  PROVE  FeeShare(fee, bps) \in Nat
<1>1. fee * bps \in Nat /\ Bps \in Nat \ {0}
  BY ProductType, FeeAssumption
<1> QED BY <1>1 DEF FeeShare

-----------------------------------------------------------------------------
\* f with y at x: an update as a term the provers need not look into.
Put(f, x, y) == [f EXCEPT ![x] = y]

(* Queues *)

(* The shares in a queue are natural numbers over a finite domain, each at  *)
(* most their total.                                                        *)
LEMMA SlotSharesType ==
  ASSUME NEW q \in Seq(Slot)
  PROVE  /\ SlotShares(q) \in [1..Len(q) -> Nat]
         /\ \A i \in 1..Len(q) : SlotShares(q)[i] = q[i].shares
         /\ IsFiniteSet(1..Len(q))
         /\ Total(SlotShares(q)) \in Nat
         /\ \A i \in 1..Len(q) : q[i].shares <= Total(SlotShares(q))
<1>1. DOMAIN q = 1..Len(q)
  OBVIOUS
<1>2. ASSUME NEW i \in 1..Len(q) PROVE q[i].shares \in Nat
  <2>1. q[i] \in Slot
    OBVIOUS
  <2> QED BY <2>1 DEF Slot
<1>3. /\ SlotShares(q) \in [1..Len(q) -> Nat]
      /\ \A i \in 1..Len(q) : SlotShares(q)[i] = q[i].shares
  BY <1>1, <1>2 DEF SlotShares
<1>4. IsFiniteSet(1..Len(q))
  BY FS_Interval
<1> QED BY <1>3, <1>4, TotalType, TotalBound

(* Changing one slot changes the total by what the slot changed. *)
LEMMA SlotChange ==
  ASSUME NEW q \in Seq(Slot), NEW r \in Seq(Slot), NEW i \in 1..Len(q),
         Len(r) = Len(q), \A j \in 1..Len(q) : j # i => r[j] = q[j]
  PROVE  Total(SlotShares(r)) + q[i].shares = Total(SlotShares(q)) + r[i].shares
<1> DEFINE f == SlotShares(q)
           g == SlotShares(r)
<1>1. /\ f \in [1..Len(q) -> Nat] /\ g \in [1..Len(q) -> Nat]
      /\ IsFiniteSet(1..Len(q))
      /\ f[i] = q[i].shares /\ g[i] = r[i].shares
      /\ \A j \in 1..Len(q) : j # i => f[j] = g[j]
  BY SlotSharesType
<1> HIDE DEF f, g
<1>2. AgreeBut(1..Len(q), f, g, i)
  BY <1>1 DEF AgreeBut
<1>3. Total(g) + f[i] = Total(f) + g[i]
  BY <1>2, TotalUpdate
<1> QED BY <1>1, <1>3 DEF f, g

(* Appending an empty slot leaves the total alone. *)
LEMMA EmptySlotTotal ==
  ASSUME NEW q \in Seq(Slot)
  PROVE  /\ Append(q, EmptySlot) \in Seq(Slot)
         /\ Total(SlotShares(Append(q, EmptySlot))) = Total(SlotShares(q))
<1> DEFINE r == Append(q, EmptySlot)
           x == Len(q) + 1
           f == SlotShares(q)
           g == SlotShares(r)
<1>1. EmptySlot \in Slot /\ EmptySlot.shares = 0
  BY DEF EmptySlot, Slot
<1>2. /\ r \in Seq(Slot) /\ Len(r) = x /\ r[x] = EmptySlot
      /\ \A j \in 1..Len(q) : r[j] = q[j]
  BY <1>1
<1> HIDE DEF r
<1>3. /\ f \in [1..Len(q) -> Nat] /\ g \in [1..x -> Nat]
      /\ IsFiniteSet(1..Len(q)) /\ IsFiniteSet(1..x)
      /\ g[x] = 0
      /\ \A j \in 1..Len(q) : f[j] = g[j]
      /\ Total(f) \in Nat /\ Total(g) \in Nat
  BY <1>1, <1>2, SlotSharesType
<1> HIDE DEF f, g
<1>4. Extends(1..Len(q), f, g, x)
  <2>1. x \notin 1..Len(q) /\ 1..x = (1..Len(q)) \cup {x}
    OBVIOUS
  <2> HIDE DEF x
  <2> QED BY <1>3, <2>1 DEF Extends
<1>5. Total(g) = Total(f) + g[x]
  BY <1>4, TotalExtend
<1> QED BY <1>2, <1>3, <1>5 DEF r, f, g

-----------------------------------------------------------------------------
(* The inductive invariant *)

\* The transaction in progress owns a slot that is still empty and that no
\* cursor has passed; the level it is matching at still has its bit.
TransactionOK ==
  tx # Idle =>
    /\ OwnLevel \in Levels /\ tx.index \in 1..Len(queue[OwnLevel])
    /\ queue[OwnLevel][tx.index].shares = 0
    /\ head[OwnLevel] < tx.index
    /\ tx.pc = "level" => tx.makerPrice \in OpposingBits

BookTypes ==
  /\ queue \in [Levels -> Seq(Slot)]
  /\ head \in [Levels -> Nat] /\ resting \in [Levels -> Nat]
  /\ bitmap \in [Markets \X Sides -> SUBSET Prices]
  /\ tx \in Matching \cup {Idle}

BookInv ==
  BookTypes /\ LevelTotals /\ HeadPassed /\ BitsExact /\ TransactionOK /\ NeverCrossed

Inv == TypeOK /\ BookInv

(* The levels of the transaction in progress are levels of the book, and     *)
(* they are not the same one.                                                *)
LEMMA TxTypes ==
  ASSUME BookTypes, tx # Idle
  PROVE  /\ tx \in Matching /\ OwnLevel \in Levels
         /\ Opposite(tx.side) \in Sides
         /\ tx.makerPrice \in Prices => MakerLevel \in Levels /\ MakerLevel # OwnLevel
<1>1. tx \in Matching
  BY DEF BookTypes
<1>2. tx.market \in Markets /\ tx.side \in Sides /\ tx.price \in Prices
  BY <1>1 DEF Matching
<1>3. Opposite(tx.side) \in Sides /\ Opposite(tx.side) # tx.side
  BY <1>2 DEF Opposite, Sides
<1> QED BY <1>1, <1>2, <1>3 DEF OwnLevel, MakerLevel, Levels

(* Replacing one slot of the book leaves every other slot alone. *)
LEMMA SlotReplaced ==
  ASSUME queue \in [Levels -> Seq(Slot)], NEW l \in Levels,
         NEW i \in 1..Len(queue[l]), NEW s \in Slot,
         queue' = Put(queue, l, Put(queue[l], i, s))
  PROVE  /\ queue' \in [Levels -> Seq(Slot)]
         /\ \A k \in Levels : Len(queue'[k]) = Len(queue[k])
         /\ \A k \in Levels \ {l} : queue'[k] = queue[k]
         /\ queue'[l][i] = s
         /\ \A j \in 1..Len(queue[l]) : j # i => queue'[l][j] = queue[l][j]
<1> DEFINE q == queue[l]
           r == Put(q, i, s)
<1>1. q \in Seq(Slot) /\ i \in 1..Len(q)
  OBVIOUS
<1>2. /\ r \in Seq(Slot) /\ Len(r) = Len(q) /\ r[i] = s
      /\ \A j \in 1..Len(q) : j # i => r[j] = q[j]
  BY <1>1 DEF Put
<1> HIDE DEF r
<1>3. /\ queue' \in [Levels -> Seq(Slot)]
      /\ queue'[l] = r
      /\ \A k \in Levels \ {l} : queue'[k] = queue[k]
  BY <1>2 DEF Put, r
<1> QED BY <1>2, <1>3

(* The levels' totals stay exact when a slot and its level's total change    *)
(* together.                                                                 *)
LEMMA TotalsFollow ==
  ASSUME queue \in [Levels -> Seq(Slot)], resting \in [Levels -> Nat], LevelTotals,
         NEW l \in Levels, NEW i \in 1..Len(queue[l]), NEW s \in Slot, NEW x,
         queue' = Put(queue, l, Put(queue[l], i, s)),
         x = resting[l] - queue[l][i].shares + s.shares,
         resting' = Put(resting, l, x)
  PROVE  x \in Nat /\ resting' \in [Levels -> Nat] /\ LevelTotals'
<1>1. /\ queue' \in [Levels -> Seq(Slot)] /\ Len(queue'[l]) = Len(queue[l])
      /\ \A k \in Levels \ {l} : queue'[k] = queue[k]
      /\ queue'[l][i] = s
      /\ \A j \in 1..Len(queue[l]) : j # i => queue'[l][j] = queue[l][j]
  BY SlotReplaced
<1>2. Total(SlotShares(queue'[l])) + queue[l][i].shares
        = Total(SlotShares(queue[l])) + s.shares
  BY <1>1, SlotChange
<1>3. /\ Total(SlotShares(queue[l])) \in Nat /\ Total(SlotShares(queue'[l])) \in Nat
      /\ queue[l][i].shares <= Total(SlotShares(queue[l]))
      /\ queue[l][i] \in Slot
  BY <1>1, SlotSharesType
<1>4. resting[l] = Total(SlotShares(queue[l]))
  BY DEF LevelTotals
<1>5. s.shares \in Nat /\ queue[l][i].shares \in Nat
  BY <1>3 DEF Slot
<1>6. x \in Nat /\ x = Total(SlotShares(queue'[l]))
  BY <1>2, <1>3, <1>4, <1>5
<1>7. /\ resting' \in [Levels -> Nat] /\ resting'[l] = x
      /\ \A k \in Levels \ {l} : resting'[k] = resting[k]
  BY <1>6 DEF Put
<1>8. ASSUME NEW k \in Levels PROVE resting'[k] = Total(SlotShares(queue'[k]))
  <2>1. CASE k = l
    BY <1>6, <1>7, <2>1
  <2>2. CASE k # l
    BY <1>1, <1>7, <2>2 DEF LevelTotals
  <2> QED BY <2>1, <2>2
<1> QED BY <1>6, <1>7, <1>8 DEF LevelTotals

-----------------------------------------------------------------------------
(* Types *)

\* r differs from q in fields of a market other than its pending bid.
SameBid(q, r) == r \in Market /\ r.pendingBid = q.pendingBid

(* Writing well-typed fields into a market keeps its type. *)
LEMMA MarketFields ==
  ASSUME NEW r \in Market
  PROVE  /\ \A s \in Statuses : SameBid(r, [r EXCEPT !.status = s])
         /\ \A s \in Statuses, b \in BOOLEAN :
              /\ SameBid(r, [r EXCEPT !.direction = b, !.status = s])
              /\ SameBid(r, [r EXCEPT !.status = s, !.fiftyFifty = b])
         /\ \A n \in Nat : /\ SameBid(r, [r EXCEPT !.expiry = n])
                           /\ SameBid(r, [r EXCEPT !.creatorFees = n])
         /\ \A s \in Statuses, n \in Nat :
              LET t == [r EXCEPT !.status = s, !.pendingBid = n]
              IN  t \in Market /\ t.pendingBid = n
BY DEF Market, SameBid

(* The markets keep their type when the record of one of them is replaced by *)
(* one whose pending bid has been placed.                                    *)
LEMMA MarketsType ==
  ASSUME TypeOK, NEW m \in Markets, NEW r \in Market,
         market' = Put(market, m, r), r.pendingBid <= Len(bids'),
         Len(bids') \in Nat, Len(bids) <= Len(bids')
  PROVE  /\ market' \in [Markets -> Market]
         /\ \A k \in Markets : market'[k].pendingBid <= Len(bids')
<1>1. /\ market \in [Markets -> Market] /\ bids \in Seq(Bid)
      /\ \A k \in Markets : market[k].pendingBid <= Len(bids)
  BY DEF TypeOK
<1>2. Len(bids) \in Nat
  BY <1>1
<1>3. \A k \in Markets : market[k].pendingBid \in Nat
  BY <1>1 DEF Market
<1>4. ASSUME NEW k \in Markets PROVE market'[k].pendingBid <= Len(bids')
  <2>1. CASE k = m
    BY <1>1, <2>1 DEF Put
  <2>2. CASE k # m
    <3>1. market'[k] = market[k]
      BY <1>1, <2>2 DEF Put
    <3> QED BY <1>1, <1>2, <1>3, <3>1
  <2> QED BY <2>1, <2>2
<1> QED BY <1>1, <1>4 DEF Put

(* Closing a bid keeps the type of the bids. *)
LEMMA BidClosed ==
  ASSUME TypeOK, NEW b \in DOMAIN bids, bids' = [bids EXCEPT ![b].open = FALSE]
  PROVE  bids' \in Seq(Bid) /\ Len(bids') \in Nat /\ Len(bids') = Len(bids)
<1> DEFINE r == [bids[b] EXCEPT !.open = FALSE]
<1>1. bids \in Seq(Bid) /\ b \in 1..Len(bids)
  BY DEF TypeOK
<1>2. bids[b] \in Bid
  BY <1>1
<1>3. r \in Bid
  BY <1>2 DEF Bid
<1>4. bids' = Put(bids, b, r)
  BY DEF Put
<1>5. ASSUME NEW s \in Bid
      PROVE  /\ Put(bids, b, s) \in Seq(Bid)
             /\ Len(Put(bids, b, s)) \in Nat /\ Len(Put(bids, b, s)) = Len(bids)
  BY <1>1 DEF Put
<1> HIDE DEF r
<1>6. /\ Put(bids, b, r) \in Seq(Bid)
      /\ Len(Put(bids, b, r)) \in Nat /\ Len(Put(bids, b, r)) = Len(bids)
  BY <1>3, <1>5
<1> QED BY <1>4, <1>6

(* Reclaiming the pending bid of a market keeps the types of bids and money. *)
LEMMA ReclaimTypes ==
  ASSUME TypeOK, NEW m \in Markets, ReclaimBid(m)
  PROVE  /\ bids' \in Seq(Bid)
         /\ Len(bids') \in Nat /\ Len(bids') = Len(bids)
         /\ balance' \in Int /\ protocolFees' \in Int
<1>1. CASE market[m].status = "SETTLING" /\ BidOpen(m)
  <2>1. market[m].pendingBid \in DOMAIN bids
    BY <1>1 DEF TypeOK, Market, BidOpen
  <2>2. bids[market[m].pendingBid].amount \in Nat
    <3>1. bids[market[m].pendingBid] \in Bid
      BY <2>1 DEF TypeOK
    <3> QED BY <3>1 DEF Bid
  <2>3. bids' = [bids EXCEPT ![market[m].pendingBid].open = FALSE]
    BY <1>1 DEF ReclaimBid
  <2>4. balance' \in Int /\ protocolFees' \in Int
    BY <1>1, <2>2 DEF ReclaimBid, TypeOK
  <2> QED BY <2>1, <2>3, <2>4, BidClosed
<1>2. CASE ~(market[m].status = "SETTLING" /\ BidOpen(m))
  BY <1>2 DEF ReclaimBid, TypeOK
<1> QED BY <1>1, <1>2

(* Calls that resolve a market. *)
LEMMA ResolveTypes ==
  ASSUME TypeOK, ResolveStep
  PROVE  TypeOK'
<1>0. /\ \A m \in Markets : /\ market[m] \in Market
                             /\ market[m].pendingBid \in Nat
                             /\ market[m].pendingBid <= Len(bids)
      /\ Len(bids) \in Nat
  BY DEF TypeOK, Market
<1>1. ASSUME NEW m \in Markets, NEW payer \in Accounts, NEW surplus \in Amounts \cup {0},
             SettleMarket(m, payer, surplus)
      PROVE  TypeOK'
  <2> DEFINE r == [market[m] EXCEPT !.status = "SETTLING", !.pendingBid = Len(bids) + 1]
  <2>1. /\ bids' \in Seq(Bid)
        /\ Len(bids') \in Nat /\ Len(bids') = Len(bids) + 1
    <3>1. [market |-> m, amount |-> fees.settlement, open |-> TRUE] \in Bid
      BY DEF TypeOK, Fees, Bid
    <3> QED BY <1>1, <3>1 DEF SettleMarket, TypeOK
  <2>2. market' = Put(market, m, r)
    BY <1>1 DEF SettleMarket, TypeOK, Put
  <2>3. r \in Market /\ r.pendingBid = Len(bids) + 1
    <3>1. Len(bids) + 1 \in Nat
      BY <1>0
    <3> QED BY <1>0, <3>1, MarketFields DEF Statuses
  <2> HIDE DEF r
  <2>4. Len(bids') \in Nat /\ Len(bids) <= Len(bids') /\ r.pendingBid <= Len(bids')
    BY <1>0, <2>1, <2>3
  <2>5. /\ market' \in [Markets -> Market]
        /\ \A k \in Markets : market'[k].pendingBid <= Len(bids')
    BY <1>0, <2>2, <2>3, <2>4, MarketsType DEF SameBid
  <2>6. balance' \in Int /\ freeBalance' \in [Accounts -> Int]
    BY <1>1, FeeAssumption DEF TypeOK, SettleMarket
  <2> QED BY <1>1, <2>1, <2>5, <2>6
          DEF TypeOK, SettleMarket, bookVars, configVars, signedVars
<1>2. ASSUME NEW m \in Markets, NEW outcome \in BOOLEAN, NEW b \in {0} \cup DOMAIN bids,
             UpdateOracle(m, outcome, b)
      PROVE  TypeOK'
  <2> DEFINE r == [market[m] EXCEPT !.direction = outcome, !.status = "SETTLED"]
  <2>1. /\ bids' \in Seq(Bid) /\ Len(bids') \in Nat /\ Len(bids') = Len(bids)
    <3>1. CASE b = 0
      <4>1. bids' = bids
        BY <1>2, <3>1 DEF UpdateOracle
      <4> QED BY <4>1 DEF TypeOK
    <3>2. CASE b # 0
      BY <1>2, <3>2, BidClosed DEF UpdateOracle
    <3> QED BY <3>1, <3>2
  <2>2. market' = Put(market, m, r)
    BY <1>2 DEF UpdateOracle, TypeOK, Put
  <2>3. SameBid(market[m], r)
    BY <1>0, MarketFields DEF Statuses
  <2> HIDE DEF r
  <2>4. Len(bids') \in Nat /\ Len(bids) <= Len(bids')
    BY <1>0, <2>1
  <2>5. /\ market' \in [Markets -> Market]
        /\ \A k \in Markets : market'[k].pendingBid <= Len(bids')
    BY <1>0, <2>2, <2>3, <2>4, MarketsType DEF SameBid
  <2> QED BY <1>2, <2>1, <2>5 DEF TypeOK, UpdateOracle, bookVars, moneyVars, configVars, signedVars
<1>3. ASSUME NEW m \in Markets, VoidMarket(m)
      PROVE  TypeOK'
  <2> DEFINE r == [market[m] EXCEPT !.status = "VOID"]
  <2>1. /\ bids' \in Seq(Bid) /\ Len(bids') \in Nat /\ Len(bids') = Len(bids)
        /\ balance' \in Int /\ protocolFees' \in Int
    BY <1>3, ReclaimTypes DEF VoidMarket
  <2>2. market' = Put(market, m, r)
    BY <1>3 DEF VoidMarket, TypeOK, Put
  <2>3. SameBid(market[m], r)
    BY <1>0, MarketFields DEF Statuses
  <2> HIDE DEF r
  <2>4. Len(bids') \in Nat /\ Len(bids) <= Len(bids')
    BY <1>0, <2>1
  <2>5. /\ market' \in [Markets -> Market]
        /\ \A k \in Markets : market'[k].pendingBid <= Len(bids')
    BY <1>0, <2>2, <2>3, <2>4, MarketsType DEF SameBid
  <2> QED BY <1>3, <2>1, <2>5 DEF TypeOK, VoidMarket, bookVars, configVars, signedVars
<1>4. ASSUME NEW m \in Markets, NEW expiry \in 0..MaxTime, SetMarketExpiry(m, expiry)
      PROVE  TypeOK'
  <2> DEFINE r == [market[m] EXCEPT !.expiry = expiry]
  <2>1. bids' = bids /\ Len(bids') \in Nat
    BY <1>4 DEF SetMarketExpiry, TypeOK
  <2>2. market' = Put(market, m, r)
    BY <1>4 DEF SetMarketExpiry, TypeOK, Put
  <2>3. SameBid(market[m], r)
    <3>1. expiry \in Nat
      BY BoundsAssumption
    <3> QED BY <1>0, <3>1, MarketFields
  <2> HIDE DEF r
  <2>4. Len(bids') \in Nat /\ Len(bids) <= Len(bids')
    BY <1>0, <2>1
  <2>5. /\ market' \in [Markets -> Market]
        /\ \A k \in Markets : market'[k].pendingBid <= Len(bids')
    BY <1>0, <2>2, <2>3, <2>4, MarketsType DEF SameBid
  <2> QED BY <1>4, <2>1, <2>5 DEF TypeOK, SetMarketExpiry, bookVars, moneyVars, configVars, signedVars
<1>5. ASSUME NEW m \in Markets, ExpireMarket(m)
      PROVE  TypeOK'
  <2> DEFINE r == [market[m] EXCEPT !.status = "SETTLED", !.fiftyFifty = TRUE]
  <2>1. /\ bids' \in Seq(Bid) /\ Len(bids') \in Nat /\ Len(bids') = Len(bids)
        /\ balance' \in Int /\ protocolFees' \in Int
    BY <1>5, ReclaimTypes DEF ExpireMarket
  <2>2. market' = Put(market, m, r)
    BY <1>5 DEF ExpireMarket, TypeOK, Put
  <2>3. SameBid(market[m], r)
    BY <1>0, MarketFields DEF Statuses
  <2> HIDE DEF r
  <2>4. Len(bids') \in Nat /\ Len(bids) <= Len(bids')
    BY <1>0, <2>1
  <2>5. /\ market' \in [Markets -> Market]
        /\ \A k \in Markets : market'[k].pendingBid <= Len(bids')
    BY <1>0, <2>2, <2>3, <2>4, MarketsType DEF SameBid
  <2> QED BY <1>5, <2>1, <2>5 DEF TypeOK, ExpireMarket, bookVars, configVars, signedVars
<1> QED BY <1>1, <1>2, <1>3, <1>4, <1>5 DEF ResolveStep

(* What a claim pays is a natural number. *)
LEMMA ClaimType ==
  ASSUME TypeOK, NEW m \in Markets, NEW a \in Accounts
  PROVE  Claim(m, a) \in Nat
<1> DEFINE yes == position[<<m, "YES", a>>]
           no == position[<<m, "NO", a>>]
           won == position[<<m, WinningSide(m), a>>]
<1>1. \A s \in Sides : position[<<m, s, a>>] \in Position
  BY DEF TypeOK, Holdings
<1>2. WinningSide(m) \in Sides /\ "YES" \in Sides /\ "NO" \in Sides
  BY DEF WinningSide, Sides
<1>3. /\ yes.shares \in Nat /\ yes.costBasis \in Nat
      /\ no.shares \in Nat /\ no.costBasis \in Nat /\ won.shares \in Nat
  BY <1>1, <1>2 DEF Position
<1> HIDE DEF yes, no, won
<1>4. Unit \in Nat
  BY PriceAssumption, ProductType DEF Unit
<1>5. (yes.shares + no.shares) * Unit \in Nat /\ won.shares * Unit \in Nat
  BY <1>3, <1>4, ProductType
<1>6. ((yes.shares + no.shares) * Unit) \div 2 \in Nat
  BY <1>5
<1> QED BY <1>3, <1>5, <1>6 DEF Claim, yes, no, won

(* Pull payments. *)
LEMMA PayoutTypes ==
  ASSUME TypeOK, PayoutStep
  PROVE  TypeOK'
<1>0. fees.withdrawal \in Nat
  BY DEF TypeOK, Fees
<1>1. ASSUME NEW m \in Markets, NEW a \in Accounts, Redeem(m, a)
      PROVE  TypeOK'
  <2>1. Claim(m, a) \in Nat
    BY ClaimType
  <2>2. position' \in [Holdings -> Position]
    BY <1>1 DEF TypeOK, Redeem, NoPosition, Position
  <2>3. balance' \in Int /\ protocolFees' \in Int
    BY <1>0, <1>1, <2>1 DEF TypeOK, Redeem
  <2> QED BY <1>1, <2>2, <2>3 DEF TypeOK, Redeem, bookVars, configVars, signedVars
<1>2. ASSUME NEW a \in Accounts, NEW amount \in Amounts, Withdraw(a, amount)
      PROVE  TypeOK'
  <2>1. /\ balance' \in Int /\ protocolFees' \in Int
        /\ freeBalance' \in [Accounts -> Int]
    <3>1. /\ amount \in Int /\ balance \in Int /\ protocolFees \in Int /\ fees.withdrawal \in Int
          /\ \A b \in Accounts : freeBalance[b] \in Int
      BY <1>0, FeeAssumption DEF TypeOK
    <3>2. /\ freeBalance' = [freeBalance EXCEPT ![a] = @ - amount]
          /\ protocolFees' = protocolFees + fees.withdrawal
          /\ balance' = balance - (amount - fees.withdrawal)
      BY <1>2 DEF Withdraw
    <3>3. freeBalance \in [Accounts -> Int]
      BY DEF TypeOK
    <3>4. freeBalance[a] - amount \in Int
      BY <3>1
    <3>5. freeBalance' \in [Accounts -> Int]
      BY <3>2, <3>3, <3>4
    <3> QED
      BY <3>1, <3>2, <3>5
  <2> QED BY <1>2, <2>1 DEF TypeOK, Withdraw, bookVars, configVars, signedVars
<1>3. ASSUME NEW m \in Markets, ClaimCreatorFees(m)
      PROVE  TypeOK'
  <2> DEFINE r == [market[m] EXCEPT !.creatorFees = 0]
  <2>1. /\ market[m] \in Market /\ market[m].pendingBid <= Len(bids)
        /\ bids' = bids /\ Len(bids) \in Nat
    BY <1>3 DEF TypeOK, ClaimCreatorFees
  <2>2. market' = Put(market, m, r)
    BY <1>3 DEF ClaimCreatorFees, TypeOK, Put
  <2>3. SameBid(market[m], r)
    BY <2>1, MarketFields
  <2> HIDE DEF r
  <2>4. Len(bids') \in Nat /\ Len(bids) <= Len(bids')
    BY <2>1
  <2>5. /\ market' \in [Markets -> Market]
        /\ \A k \in Markets : market'[k].pendingBid <= Len(bids')
    BY <2>1, <2>2, <2>3, <2>4, MarketsType DEF SameBid
  <2>6. balance' \in Int
    BY <1>3, <2>1 DEF TypeOK, ClaimCreatorFees, Market
  <2> QED BY <1>3, <2>5, <2>6 DEF TypeOK, ClaimCreatorFees, bookVars, configVars, signedVars
<1>4. ASSUME NEW post \in Posts, ClaimAffiliateFees(post)
      PROVE  TypeOK'
  BY <1>4 DEF TypeOK, ClaimAffiliateFees, bookVars, configVars, signedVars
<1>5. CASE WithdrawProtocolFees
  BY <1>5 DEF TypeOK, WithdrawProtocolFees, bookVars, configVars, signedVars
<1> QED BY <1>1, <1>2, <1>3, <1>4, <1>5 DEF PayoutStep

(* Administration and the clock. *)
LEMMA AdminTypes ==
  ASSUME TypeOK, AdminStep \/ Tick
  PROVE  TypeOK'
<1>1. ASSUME NEW post \in Posts, NEW payee \in Accounts, RegisterAffiliatePost(post, payee)
      PROVE  TypeOK'
  BY <1>1 DEF TypeOK, RegisterAffiliatePost, bookVars, moneyVars, signedVars
<1>2. ASSUME NEW new, SetFees(new)
      PROVE  TypeOK'
  BY <1>2 DEF TypeOK, SetFees, bookVars, moneyVars, signedVars
<1>3. CASE Tick
  BY <1>3 DEF TypeOK, Tick, bookVars, moneyVars, configVars, signedVars
<1> QED BY <1>1, <1>2, <1>3 DEF AdminStep

-----------------------------------------------------------------------------
(* The book: every step that touches it keeps BookInv *)

(* Entering a level: the price chosen has its bit. *)
LEMMA EnterLevelBook ==
  ASSUME BookInv, EnterLevel
  PROVE  BookInv'
<1>1. /\ tx # Idle /\ tx.pc = "match" /\ tx \in Matching
      /\ bookVars' = bookVars
  BY TxTypes DEF EnterLevel, BookInv, bookVars
<1>2. PICK q \in Prices :
        BestCrossing(q) /\ tx' = [tx EXCEPT !.pc = "level", !.makerPrice = q]
  BY DEF EnterLevel
<1>3. q \in OpposingBits
  BY <1>2 DEF BestCrossing, Crossing
<1>4. tx' \in Matching /\ tx' # Idle
  BY <1>1, <1>2 DEF Matching, Idle
<1>5. /\ tx'.market = tx.market /\ tx'.side = tx.side /\ tx'.price = tx.price
      /\ tx'.index = tx.index /\ tx'.makerPrice = q
  BY <1>1, <1>2 DEF Matching
<1>6. BookTypes' /\ LevelTotals' /\ HeadPassed' /\ NeverCrossed'
  BY <1>1, <1>4 DEF BookInv, BookTypes, LevelTotals, HeadPassed, NeverCrossed, bookVars
<1>7. BitsExact'
  BY <1>1 DEF BookInv, BitsExact, bookVars
<1>8. TransactionOK'
  BY <1>1, <1>3, <1>5 DEF BookInv, TransactionOK, OwnLevel, OpposingBits, bookVars
<1> QED BY <1>6, <1>7, <1>8 DEF BookInv

(* At a slot: the level is one of the book, the slot is the next one of it. *)
LEMMA AtSlotTypes ==
  ASSUME BookInv, AtSlot
  PROVE  /\ tx \in Matching /\ tx # Idle /\ tx.pc = "level"
         /\ MakerLevel \in Levels /\ OwnLevel \in Levels /\ MakerLevel # OwnLevel
         /\ NextIndex \in 1..Len(queue[MakerLevel]) /\ NextSlot \in Slot
         /\ head[MakerLevel] \in Nat /\ NextIndex = head[MakerLevel] + 1
<1>1. tx \in Matching /\ tx # Idle /\ tx.pc = "level" /\ OwnLevel \in Levels
  BY TxTypes DEF BookInv, AtSlot
<1>2. tx.makerPrice \in Prices
  <2>1. tx.makerPrice \in OpposingBits
    BY <1>1 DEF BookInv, TransactionOK
  <2>2. OpposingBits \subseteq Prices
    <3>1. <<tx.market, Opposite(tx.side)>> \in Markets \X Sides
      BY <1>1, TxTypes DEF Matching, BookInv
    <3> QED BY <3>1 DEF BookInv, BookTypes, OpposingBits
  <2> QED BY <2>1, <2>2
<1>3. MakerLevel \in Levels /\ MakerLevel # OwnLevel
  BY <1>1, <1>2, TxTypes DEF BookInv
<1>4. head[MakerLevel] \in Nat /\ queue[MakerLevel] \in Seq(Slot)
  BY <1>3 DEF BookInv, BookTypes
<1>5. NextIndex \in 1..Len(queue[MakerLevel])
  BY <1>4 DEF AtSlot, NextIndex
<1>6. NextSlot \in Slot
  BY <1>4, <1>5 DEF NextSlot
<1> QED BY <1>1, <1>3, <1>4, <1>5, <1>6 DEF NextIndex

(* Skipping a hole: what the head passes holds nothing. *)
LEMMA SkipHoleBook ==
  ASSUME BookInv, SkipHole
  PROVE  BookInv'
<1>1. /\ tx # Idle /\ tx' = tx /\ queue' = queue /\ resting' = resting /\ bitmap' = bitmap
      /\ head' = [head EXCEPT ![MakerLevel] = @ + 1]
      /\ NextSlot.shares = 0
  BY DEF SkipHole, AtSlot
<1>2. /\ MakerLevel \in Levels /\ OwnLevel \in Levels /\ MakerLevel # OwnLevel
      /\ NextIndex \in 1..Len(queue[MakerLevel])
      /\ head[MakerLevel] \in Nat /\ NextIndex = head[MakerLevel] + 1
  BY AtSlotTypes DEF SkipHole
<1>3. /\ head' \in [Levels -> Nat] /\ head'[MakerLevel] = NextIndex
      /\ \A k \in Levels \ {MakerLevel} : head'[k] = head[k]
  BY <1>1, <1>2 DEF BookInv, BookTypes
<1>4. BookTypes' /\ LevelTotals' /\ BitsExact' /\ NeverCrossed'
  BY <1>1, <1>3
     DEF BookInv, BookTypes, LevelTotals, BitsExact, MakerLevel, NeverCrossed
<1>5. HeadPassed'
  <2>1. ASSUME NEW k \in Levels
        PROVE  /\ head'[k] <= Len(queue[k])
               /\ \A i \in 1..head'[k] : queue[k][i].shares = 0
    <3>1. CASE k = MakerLevel
      BY <1>1, <1>2, <1>3, <3>1 DEF BookInv, HeadPassed, NextSlot
    <3>2. CASE k # MakerLevel
      BY <1>3, <3>2 DEF BookInv, HeadPassed
    <3> QED BY <3>1, <3>2
  <2> QED BY <1>1, <2>1 DEF HeadPassed
<1>6. TransactionOK'
  BY <1>1, <1>2, <1>3 DEF BookInv, TransactionOK, OwnLevel, OpposingBits
<1> QED BY <1>4, <1>5, <1>6 DEF BookInv

(* The quantities of a fill. *)
LEMMA FillTypes ==
  ASSUME BookInv, fees \in Fees, AtSlot, NextSlot.shares > 0
  PROVE  LET n == Smaller(tx.left, NextSlot.shares)
         IN  /\ n \in Nat /\ n <= tx.left /\ n <= NextSlot.shares
             /\ ExecPrice \in Prices
             /\ TakerFee(n, ExecPrice) \in Nat /\ Escrow(ExecPrice, n) \in Nat
<1> DEFINE n == Smaller(tx.left, NextSlot.shares)
<1>1. /\ tx \in Matching /\ NextSlot \in Slot /\ MakerLevel \in Levels
  BY AtSlotTypes
<1>2. tx.left \in Nat /\ NextSlot.shares \in Nat /\ tx.makerPrice \in Prices
  BY <1>1 DEF Matching, Slot, MakerLevel, Levels
<1>3. n \in Nat /\ n <= tx.left /\ n <= NextSlot.shares
  BY <1>2, SmallerBounds
<1>4. ExecPrice \in Prices
  BY <1>2, PriceAssumption DEF ExecPrice, Prices
<1> HIDE DEF n
<1>5. TakerFee(n, ExecPrice) \in Nat
  BY <1>3, <1>4, TakerFeeType
<1>6. Escrow(ExecPrice, n) \in Nat
  <2>1. ExecPrice \in Nat
    BY <1>4 DEF Prices
  <2> QED BY <1>3, <2>1, EscrowType
<1> QED BY <1>3, <1>4, <1>5, <1>6 DEF n

(* A fill: slot, level total and cursor move together, and the book loses    *)
(* liquidity only at the level that the transaction is matching at.          *)
LEMMA FillBook ==
  ASSUME BookInv, fees \in Fees, Fill
  PROVE  BookInv'
<1> DEFINE n == Smaller(tx.left, NextSlot.shares)
           fee == TakerFee(n, ExecPrice)
           cost == Escrow(ExecPrice, n)
           l == MakerLevel
           i == NextIndex
           s == [NextSlot EXCEPT !.shares = @ - n]
           x == resting[l] - n
<1>1. /\ tx \in Matching /\ tx # Idle /\ tx.pc = "level"
      /\ l \in Levels /\ OwnLevel \in Levels /\ l # OwnLevel
      /\ i \in 1..Len(queue[l]) /\ NextSlot \in Slot
      /\ head[l] \in Nat /\ i = head[l] + 1
  BY AtSlotTypes DEF Fill
<1>2. n \in Nat /\ n <= tx.left /\ n <= NextSlot.shares /\ fee \in Nat /\ cost \in Nat
  BY FillTypes DEF Fill
<1>3. /\ queue' = Put(queue, l, Put(queue[l], i, s))
      /\ resting' = Put(resting, l, x)
      /\ head' = IF n = NextSlot.shares THEN Put(head, l, i) ELSE head
      /\ bitmap' = bitmap
      /\ tx' = [tx EXCEPT !.left = @ - n, !.fee = @ + fee, !.escrow = @ + cost]
  BY <1>1 DEF Fill, Put, NextSlot, BookInv, BookTypes
<1>4. NextSlot = queue[l][i]
  BY DEF NextSlot
<1> HIDE DEF n, fee, cost, l, i
<1>5. s \in Slot /\ s.shares = NextSlot.shares - n /\ NextSlot.shares \in Nat
  BY <1>1, <1>2 DEF Slot
<1> HIDE DEF s
<1>6. /\ queue' \in [Levels -> Seq(Slot)]
      /\ \A k \in Levels : Len(queue'[k]) = Len(queue[k])
      /\ \A k \in Levels \ {l} : queue'[k] = queue[k]
      /\ queue'[l][i] = s
      /\ \A j \in 1..Len(queue[l]) : j # i => queue'[l][j] = queue[l][j]
  BY <1>1, <1>3, <1>5, SlotReplaced DEF BookInv, BookTypes
<1>7. resting[l] \in Nat
  BY <1>1 DEF BookInv, BookTypes
<1>8. x \in Nat /\ resting' \in [Levels -> Nat] /\ LevelTotals'
  <2>1. x = resting[l] - queue[l][i].shares + s.shares
    BY <1>2, <1>4, <1>5, <1>7
  <2> HIDE DEF x
  <2> QED BY <1>1, <1>3, <1>5, <2>1, TotalsFollow DEF BookInv, BookTypes
<1>9. \A k \in Levels : resting'[k] <= resting[k] /\ (k # l => resting'[k] = resting[k])
  BY <1>2, <1>3, <1>7, <1>8 DEF Put, BookInv, BookTypes
<1>10. /\ tx' \in Matching /\ tx' # Idle
       /\ tx'.market = tx.market /\ tx'.side = tx.side /\ tx'.price = tx.price
       /\ tx'.index = tx.index /\ tx'.makerPrice = tx.makerPrice /\ tx'.pc = tx.pc
  <2>1. tx.left - n \in Nat /\ tx.fee + fee \in Nat /\ tx.escrow + cost \in Nat
    <3>1. tx.left \in Nat /\ tx.fee \in Nat /\ tx.escrow \in Nat
      BY <1>1 DEF Matching
    <3> QED BY <1>2, <3>1
  <2> QED BY <1>1, <1>3, <2>1 DEF Matching, Idle
<1>11. head' \in [Levels -> Nat] /\ \A k \in Levels \ {l} : head'[k] = head[k]
  BY <1>1, <1>3 DEF Put, BookInv, BookTypes
<1>12. BookTypes'
  BY <1>3, <1>6, <1>8, <1>10, <1>11 DEF BookInv, BookTypes
<1>13. HeadPassed'
  <2>1. ASSUME NEW k \in Levels
        PROVE  /\ head'[k] <= Len(queue'[k])
               /\ \A j \in 1..head'[k] : queue'[k][j].shares = 0
    <3>1. CASE k # l
      BY <1>6, <1>11, <3>1 DEF BookInv, HeadPassed
    <3>2. CASE k = l /\ n = NextSlot.shares
      <4>1. head'[l] = i /\ s.shares = 0
        BY <1>1, <1>2, <1>3, <1>5, <3>2 DEF Put, BookInv, BookTypes
      <4>2. \A j \in 1..i : j = i \/ j \in 1..head[l]
        BY <1>1
      <4>3. \A j \in 1..head[l] : j \in 1..Len(queue[l]) /\ j # i /\ queue[l][j].shares = 0
        BY <1>1 DEF BookInv, HeadPassed
      <4>4. Len(queue'[l]) = Len(queue[l]) /\ i <= Len(queue[l])
        BY <1>1, <1>6
      <4> QED BY <1>6, <3>2, <4>1, <4>2, <4>3, <4>4
    <3>3. CASE k = l /\ n # NextSlot.shares
      <4>1. head'[l] = head[l]
        BY <1>3, <3>3
      <4>2. \A j \in 1..head[l] : j \in 1..Len(queue[l]) /\ j # i /\ queue[l][j].shares = 0
        BY <1>1 DEF BookInv, HeadPassed
      <4>3. Len(queue'[l]) = Len(queue[l]) /\ head[l] <= Len(queue[l])
        BY <1>1, <1>6
      <4> QED BY <1>6, <3>3, <4>1, <4>2, <4>3
    <3> QED BY <3>1, <3>2, <3>3
  <2> QED BY <2>1 DEF HeadPassed
<1>14. BitsExact'
  <2>1. MakerLevel' = l
    BY <1>10 DEF MakerLevel, l
  <2>2. ASSUME NEW k \in Levels, k # l
        PROVE  k[3] \in bitmap'[<<k[1], k[2]>>] <=> resting'[k] > 0
    BY <1>3, <1>9, <2>2 DEF BookInv, BitsExact, l
  <2> QED BY <1>1, <1>10, <2>1, <2>2 DEF BitsExact
<1>15. TransactionOK'
  <2>1. OwnLevel' = OwnLevel /\ OpposingBits' = OpposingBits
    BY <1>3, <1>10 DEF OwnLevel, OpposingBits
  <2>2. queue'[OwnLevel] = queue[OwnLevel] /\ head'[OwnLevel] = head[OwnLevel]
    BY <1>1, <1>6, <1>11
  <2>3. tx'.index = tx.index /\ tx'.makerPrice = tx.makerPrice /\ tx'.pc = tx.pc
    BY <1>10
  <2> QED BY <1>1, <2>1, <2>2, <2>3 DEF BookInv, TransactionOK
<1>16. NeverCrossed'
  <2>1. ASSUME NEW m \in Markets, NEW p \in Prices, NEW q \in Prices,
               resting'[<<m, "YES", p>>] > 0, resting'[<<m, "NO", q>>] > 0
        PROVE  p + q < Dollar
    <3>1. <<m, "YES", p>> \in Levels /\ <<m, "NO", q>> \in Levels
      BY DEF Levels, Sides
    <3>2. /\ resting[<<m, "YES", p>>] \in Nat /\ resting[<<m, "NO", q>>] \in Nat
          /\ resting'[<<m, "YES", p>>] \in Nat /\ resting'[<<m, "NO", q>>] \in Nat
      BY <1>8, <3>1 DEF BookInv, BookTypes
    <3>3. resting[<<m, "YES", p>>] > 0 /\ resting[<<m, "NO", q>>] > 0
      BY <1>9, <2>1, <3>1, <3>2
    <3> QED BY <3>3 DEF BookInv, NeverCrossed
  <2> QED BY <2>1 DEF NeverCrossed
<1> QED BY <1>8, <1>12, <1>13, <1>14, <1>15, <1>16 DEF BookInv

(* Leaving a level: its bit goes exactly when nothing rests there.           *)
LEMMA LeaveLevelBook ==
  ASSUME BookInv, LeaveLevel
  PROVE  BookInv'
<1> DEFINE l == MakerLevel
<1>1. /\ tx # Idle /\ tx.pc = "level" /\ tx \in Matching
      /\ queue' = queue /\ head' = head /\ resting' = resting
      /\ bitmap' = ClearBitIfEmpty(l, resting[l])
      /\ tx' = [tx EXCEPT !.pc = "match", !.makerPrice = 0]
  BY TxTypes DEF LeaveLevel, BookInv
<1>2. tx.makerPrice \in OpposingBits
  BY <1>1 DEF BookInv, TransactionOK
<1>3. tx.market \in Markets /\ Opposite(tx.side) \in Sides
  BY <1>1, TxTypes DEF Matching, BookInv
<1>4. OpposingBits \subseteq Prices
  BY <1>3 DEF BookInv, BookTypes, OpposingBits
<1>5. l \in Levels /\ l[1] = tx.market /\ l[2] = Opposite(tx.side) /\ l[3] = tx.makerPrice
  BY <1>2, <1>3, <1>4 DEF MakerLevel, Levels
<1>6. l[3] \in bitmap[<<l[1], l[2]>>]
  BY <1>2, <1>5 DEF OpposingBits
<1>7. resting[l] \in Nat
  BY <1>5 DEF BookInv, BookTypes
<1>8. /\ tx' \in Matching /\ tx' # Idle /\ tx'.pc = "match"
      /\ tx'.market = tx.market /\ tx'.side = tx.side /\ tx'.price = tx.price
      /\ tx'.index = tx.index
  BY <1>1 DEF Matching, Idle
<1>9. bitmap' \in [Markets \X Sides -> SUBSET Prices]
  BY <1>1, <1>3, <1>5 DEF BookInv, BookTypes, ClearBitIfEmpty
<1>10. ASSUME NEW k \in Levels
       PROVE  k[3] \in bitmap'[<<k[1], k[2]>>] <=> resting'[k] > 0
  <2>1. k[1] \in Markets /\ k[2] \in Sides /\ k[3] \in Prices
    BY DEF Levels
  <2>2. k # l => (k[3] \in bitmap[<<k[1], k[2]>>] <=> resting[k] > 0)
    BY DEF BookInv, BitsExact
  <2>3. k = l <=> k[1] = l[1] /\ k[2] = l[2] /\ k[3] = l[3]
    BY <1>5 DEF Levels
  <2>4. CASE resting[l] = 0
    <3>1. bitmap' = [bitmap EXCEPT ![<<l[1], l[2]>>] = @ \ {l[3]}]
      BY <1>1, <2>4 DEF ClearBitIfEmpty
    <3>2. <<k[1], k[2]>> \in DOMAIN bitmap
      BY <2>1 DEF BookInv, BookTypes
    <3>3. k[3] \in bitmap'[<<k[1], k[2]>>] <=> k[3] \in bitmap[<<k[1], k[2]>>] /\ k # l
      BY <2>3, <3>1, <3>2
    <3> QED BY <1>1, <2>2, <2>4, <3>3
  <2>5. CASE resting[l] # 0
    BY <1>1, <1>6, <1>7, <2>2, <2>5 DEF ClearBitIfEmpty
  <2> QED BY <2>4, <2>5
<1>11. BookTypes' /\ LevelTotals' /\ HeadPassed' /\ NeverCrossed'
  BY <1>1, <1>8, <1>9 DEF BookInv, BookTypes, LevelTotals, HeadPassed, NeverCrossed
<1>12. BitsExact'
  BY <1>10 DEF BitsExact
<1>13. TransactionOK'
  BY <1>1, <1>8 DEF BookInv, TransactionOK, OwnLevel
<1> QED BY <1>11, <1>12, <1>13 DEF BookInv

(* An order comes to rest: only where nothing crosses it.                    *)
LEMMA RestBook ==
  ASSUME BookInv, Rest
  PROVE  BookInv'
<1> DEFINE l == OwnLevel
           i == tx.index
           s == [maker |-> tx.taker, shares |-> tx.left]
           x == resting[l] + tx.left
<1>1. /\ tx # Idle /\ tx.pc = "match" /\ tx \in Matching /\ tx' = Idle /\ head' = head
      /\ l \in Levels /\ i \in 1..Len(queue[l])
      /\ queue[l][i].shares = 0 /\ head[l] < i
  BY TxTypes DEF Rest, BookInv, TransactionOK
<1>3. TransactionOK'
  BY <1>1 DEF TransactionOK
<1>4. CASE tx.left = 0
  <2>1. queue' = queue /\ resting' = resting /\ bitmap' = bitmap
    BY <1>4 DEF Rest
  <2>2. BookTypes' /\ LevelTotals' /\ HeadPassed' /\ NeverCrossed'
    BY <1>1, <2>1 DEF BookInv, BookTypes, LevelTotals, HeadPassed, NeverCrossed
  <2>3. BitsExact'
    BY <1>1, <2>1 DEF BookInv, BitsExact
  <2> QED BY <1>3, <2>2, <2>3 DEF BookInv
<1>5. CASE tx.left # 0
  <2>1. /\ queue' = Put(queue, l, Put(queue[l], i, s))
        /\ resting' = Put(resting, l, x)
        /\ bitmap' = SetBit(l)
        /\ Crossing = {}
    BY <1>1, <1>5 DEF Rest, Put, BookInv, BookTypes
  <2>2. s \in Slot /\ s.shares = tx.left /\ tx.left \in Nat /\ tx.left > 0
    BY <1>1, <1>5 DEF Matching, Slot
  <2>3. /\ l[1] = tx.market /\ l[2] = tx.side /\ l[3] = tx.price
        /\ tx.market \in Markets /\ tx.side \in Sides /\ tx.price \in Prices
    BY <1>1 DEF Matching, OwnLevel
  <2> HIDE DEF l, i, s
  <2>4. /\ queue' \in [Levels -> Seq(Slot)]
        /\ \A k \in Levels : Len(queue'[k]) = Len(queue[k])
        /\ \A k \in Levels \ {l} : queue'[k] = queue[k]
        /\ \A j \in 1..Len(queue[l]) : j # i => queue'[l][j] = queue[l][j]
    BY <1>1, <2>1, <2>2, SlotReplaced DEF BookInv, BookTypes
  <2>5. resting[l] \in Nat /\ head[l] \in Nat
    BY <1>1 DEF BookInv, BookTypes
  <2>6. x \in Nat /\ resting' \in [Levels -> Nat] /\ LevelTotals'
    <3>1. x = resting[l] - queue[l][i].shares + s.shares
      BY <1>1, <2>2, <2>5
    <3> HIDE DEF x
    <3> QED BY <1>1, <2>1, <2>2, <3>1, TotalsFollow DEF BookInv, BookTypes
  <2>7. resting'[l] > 0 /\ \A k \in Levels \ {l} : resting'[k] = resting[k]
    BY <1>1, <2>1, <2>2, <2>5 DEF Put, BookInv, BookTypes
  <2>8. /\ bitmap' \in [Markets \X Sides -> SUBSET Prices]
        /\ l[3] \in bitmap'[<<l[1], l[2]>>]
        /\ \A k \in Levels \ {l} :
             k[3] \in bitmap'[<<k[1], k[2]>>] <=> k[3] \in bitmap[<<k[1], k[2]>>]
    <3>1. \A k \in Levels : /\ k[1] \in Markets /\ k[2] \in Sides /\ k[3] \in Prices
                            /\ k = l <=> k[1] = l[1] /\ k[2] = l[2] /\ k[3] = l[3]
      BY <1>1 DEF Levels
    <3> QED BY <2>1, <2>3, <3>1 DEF SetBit, BookInv, BookTypes
  <2>9. BookTypes'
    BY <1>1, <2>4, <2>6, <2>8 DEF BookInv, BookTypes
  <2>10. BitsExact'
    <3>1. \A k \in Levels : k[3] \in bitmap[<<k[1], k[2]>>] <=> resting[k] > 0
      BY <1>1 DEF BookInv, BitsExact
    <3>2. \A k \in Levels : k[3] \in bitmap'[<<k[1], k[2]>>] <=> resting'[k] > 0
      BY <2>7, <2>8, <3>1
    <3> QED BY <3>2 DEF BitsExact
  <2>11. HeadPassed'
    <3>1. ASSUME NEW k \in Levels
          PROVE  /\ head[k] <= Len(queue'[k])
                 /\ \A j \in 1..head[k] : queue'[k][j].shares = 0
      <4>1. CASE k = l
        <5>1. head[l] <= Len(queue'[l])
          BY <1>1, <2>4 DEF BookInv, HeadPassed
        <5>2. \A j \in 1..head[l] : j \in 1..Len(queue[l]) /\ j # i /\ queue[l][j].shares = 0
          BY <1>1, <2>5 DEF BookInv, HeadPassed
        <5> QED BY <2>4, <4>1, <5>1, <5>2
      <4>2. CASE k # l
        BY <2>4, <4>2 DEF BookInv, HeadPassed
      <4> QED BY <4>1, <4>2
    <3> QED BY <1>1, <3>1 DEF HeadPassed
  <2>12. NeverCrossed'
    <3>1. ASSUME NEW q \in Prices, resting[<<tx.market, Opposite(tx.side), q>>] > 0
          PROVE  q + tx.price < Dollar
      <4>1. <<tx.market, Opposite(tx.side), q>> \in Levels
        BY <1>1, <2>3, TxTypes DEF Levels, BookInv
      <4>2. q \in OpposingBits
        BY <1>1, <3>1, <4>1 DEF BookInv, BitsExact, OpposingBits
      <4>3. q \notin Crossing
        BY <2>1
      <4> QED BY <2>3, <4>2, <4>3, PriceAssumption DEF Crossing, Prices
    <3>2. ASSUME NEW m \in Markets, NEW p \in Prices, NEW q \in Prices,
                 resting'[<<m, "YES", p>>] > 0, resting'[<<m, "NO", q>>] > 0
          PROVE  p + q < Dollar
      <4>1. <<m, "YES", p>> \in Levels /\ <<m, "NO", q>> \in Levels
        BY DEF Levels, Sides
      <4>2. CASE <<m, "YES", p>> = l
        <5>1. resting[<<m, "NO", q>>] > 0 /\ m = tx.market /\ tx.side = "YES" /\ p = tx.price
          BY <2>3, <2>7, <3>2, <4>1, <4>2
        <5> QED BY <3>1, <5>1, PriceAssumption DEF Opposite, Prices
      <4>3. CASE <<m, "NO", q>> = l
        <5>1. resting[<<m, "YES", p>>] > 0 /\ m = tx.market /\ tx.side = "NO" /\ q = tx.price
          BY <2>3, <2>7, <3>2, <4>1, <4>3
        <5> QED BY <3>1, <5>1, PriceAssumption DEF Opposite, Prices
      <4>4. CASE <<m, "YES", p>> # l /\ <<m, "NO", q>> # l
        BY <2>7, <3>2, <4>1, <4>4 DEF BookInv, NeverCrossed
      <4> QED BY <4>2, <4>3, <4>4
    <3> QED BY <3>2 DEF NeverCrossed
  <2> QED BY <1>3, <2>6, <2>9, <2>10, <2>11, <2>12 DEF BookInv
<1> QED BY <1>4, <1>5

(* Starting to match an order: its slot is appended empty.                  *)
LEMMA ExecuteBook ==
  ASSUME BookInv, NEW m \in Markets, NEW a \in Accounts, NEW s \in Sides,
         NEW p \in Prices, NEW n \in Nat, NEW post \in Posts \cup {NoPost},
         NEW charge \in {"wallet", "free", "prepaid"}, NEW prepaid \in Nat,
         Execute(m, a, s, p, n, post, charge, prepaid)
  PROVE  BookInv'
<1> DEFINE l == <<m, s, p>>
           q == Append(queue[l], EmptySlot)
<1>1. /\ tx = Idle /\ l \in Levels
      /\ head' = head /\ resting' = resting /\ bitmap' = bitmap
      /\ queue' = Put(queue, l, q)
  BY DEF Execute, Put, Levels, BookInv, BookTypes
<1>2. queue[l] \in Seq(Slot)
  BY <1>1 DEF BookInv, BookTypes
<1>3. /\ q \in Seq(Slot) /\ Len(q) = Len(queue[l]) + 1 /\ Len(queue[l]) \in Nat
      /\ q[Len(queue[l]) + 1] = EmptySlot
      /\ \A i \in 1..Len(queue[l]) : q[i] = queue[l][i]
      /\ Total(SlotShares(q)) = Total(SlotShares(queue[l]))
  <2>1. EmptySlot \in Slot
    BY DEF EmptySlot, Slot
  <2> QED BY <1>2, <2>1, EmptySlotTotal
<1>4. /\ tx'.pc = "match" /\ tx'.market = m /\ tx'.side = s /\ tx'.price = p
      /\ tx'.index = Len(queue[l]) + 1
      /\ tx' \in Matching /\ tx' # Idle
  <2>1. Len(queue[l]) + 1 \in Nat \ {0}
    BY <1>3
  <2> HIDE DEF l
  <2>2. tx' = [pc |-> "match", market |-> m, taker |-> a, side |-> s,
               price |-> p, size |-> n, left |-> n,
               index |-> Len(queue[l]) + 1, post |-> post,
               escrow |-> 0, fee |-> 0, makerPrice |-> 0,
               charge |-> charge, prepaid |-> prepaid]
    BY DEF Execute, l
  <2> QED BY <2>1, <2>2 DEF Matching, Idle
<1>5. OwnLevel' = l
  BY <1>4 DEF OwnLevel
<1> HIDE DEF l, q
<1>6. /\ queue' \in [Levels -> Seq(Slot)] /\ queue'[l] = q
      /\ \A k \in Levels \ {l} : queue'[k] = queue[k]
  BY <1>1, <1>3 DEF Put, BookInv, BookTypes
<1>7. head[l] \in Nat /\ head[l] <= Len(queue[l])
  BY <1>1 DEF BookInv, BookTypes, HeadPassed
<1>8. BookTypes' /\ NeverCrossed'
  BY <1>1, <1>4, <1>6 DEF BookInv, BookTypes, NeverCrossed
<1>9. LevelTotals'
  BY <1>1, <1>3, <1>6 DEF BookInv, LevelTotals
<1>10. HeadPassed'
  <2>1. ASSUME NEW k \in Levels
        PROVE  /\ head[k] <= Len(queue'[k])
               /\ \A i \in 1..head[k] : queue'[k][i].shares = 0
    <3>1. CASE k = l
      <4>1. \A i \in 1..head[l] : i \in 1..Len(queue[l]) /\ queue[l][i].shares = 0
        BY <1>1, <1>3, <1>7 DEF BookInv, HeadPassed
      <4> QED BY <1>3, <1>6, <1>7, <3>1, <4>1
    <3>2. CASE k # l
      BY <1>6, <3>2 DEF BookInv, HeadPassed
    <3> QED BY <3>1, <3>2
  <2> QED BY <1>1, <2>1 DEF HeadPassed
<1>11. BitsExact'
  BY <1>1 DEF BookInv, BitsExact
<1>12. TransactionOK'
  <2>1. tx'.index \in 1..Len(queue'[l]) /\ queue'[l][tx'.index].shares = 0
    BY <1>3, <1>4, <1>6 DEF EmptySlot
  <2>2. head'[l] < tx'.index
    BY <1>1, <1>3, <1>4, <1>7
  <2> QED BY <1>1, <1>4, <1>5, <2>1, <2>2 DEF TransactionOK
<1> QED BY <1>8, <1>9, <1>10, <1>11, <1>12 DEF BookInv

(* Cancelling: the slot is emptied in place, the cursor stays.              *)
LEMMA CancelBook ==
  ASSUME BookInv, NEW l \in Levels, NEW i \in DOMAIN queue[l], CancelOrder(l, i)
  PROVE  BookInv'
<1> DEFINE s == [queue[l][i] EXCEPT !.shares = 0]
           x == resting[l] - queue[l][i].shares
<1>0. queue[l] \in Seq(Slot) /\ i \in 1..Len(queue[l])
  BY DEF BookInv, BookTypes
<1>1. /\ queue[l][i] \in Slot /\ queue[l][i].shares > 0
  BY <1>0 DEF CancelOrder
<1>2. /\ tx = Idle /\ tx' = Idle /\ head' = head
      /\ queue' = Put(queue, l, Put(queue[l], i, s))
      /\ resting' = Put(resting, l, x)
      /\ bitmap' = ClearBitIfEmpty(l, x)
  BY DEF CancelOrder, Put, BookInv, BookTypes
<1>3. s \in Slot /\ s.shares = 0 /\ queue[l][i].shares \in Nat
  BY <1>1 DEF Slot
<1> HIDE DEF s
<1>4. /\ queue' \in [Levels -> Seq(Slot)]
      /\ \A k \in Levels : Len(queue'[k]) = Len(queue[k])
      /\ \A k \in Levels \ {l} : queue'[k] = queue[k]
      /\ queue'[l][i] = s
      /\ \A j \in 1..Len(queue[l]) : j # i => queue'[l][j] = queue[l][j]
  BY <1>0, <1>2, <1>3, SlotReplaced DEF BookInv, BookTypes
<1>5. resting[l] \in Nat /\ head[l] \in Nat
  BY DEF BookInv, BookTypes
<1>6. x \in Nat /\ resting' \in [Levels -> Nat] /\ LevelTotals'
  <2>1. x = resting[l] - queue[l][i].shares + s.shares
    BY <1>3, <1>5
  <2> HIDE DEF x
  <2> QED BY <1>0, <1>2, <1>3, <2>1, TotalsFollow DEF BookInv, BookTypes
<1>7. /\ resting'[l] = x /\ x <= resting[l]
      /\ \A k \in Levels \ {l} : resting'[k] = resting[k]
  BY <1>1, <1>2, <1>3, <1>5 DEF Put, BookInv, BookTypes
<1>8. \A k \in Levels : k[3] \in bitmap[<<k[1], k[2]>>] <=> resting[k] > 0
  BY <1>2 DEF BookInv, BitsExact
<1> HIDE DEF x
<1>9. /\ bitmap' \in [Markets \X Sides -> SUBSET Prices]
      /\ \A k \in Levels : k[3] \in bitmap'[<<k[1], k[2]>>] <=> resting'[k] > 0
  <2>1. \A k \in Levels : /\ k[1] \in Markets /\ k[2] \in Sides /\ k[3] \in Prices
                          /\ <<k[1], k[2]>> \in DOMAIN bitmap
                          /\ k = l <=> k[1] = l[1] /\ k[2] = l[2] /\ k[3] = l[3]
    <3>1. \A k \in Levels : /\ k[1] \in Markets /\ k[2] \in Sides /\ k[3] \in Prices
                            /\ k = l <=> k[1] = l[1] /\ k[2] = l[2] /\ k[3] = l[3]
      BY DEF Levels
    <3> QED BY <3>1 DEF BookInv, BookTypes
  <2>2. CASE x = 0
    <3>1. bitmap' = [bitmap EXCEPT ![<<l[1], l[2]>>] = @ \ {l[3]}]
      BY <1>2, <2>2 DEF ClearBitIfEmpty
    <3>2. bitmap' \in [Markets \X Sides -> SUBSET Prices]
      BY <3>1 DEF BookInv, BookTypes
    <3>3. \A k \in Levels : k[3] \in bitmap'[<<k[1], k[2]>>]
                              <=> k[3] \in bitmap[<<k[1], k[2]>>] /\ k # l
      BY <2>1, <3>1
    <3> QED BY <1>7, <1>8, <2>2, <3>2, <3>3
  <2>3. CASE x # 0
    <3>1. bitmap' = bitmap
      BY <1>2, <2>3 DEF ClearBitIfEmpty
    <3>2. resting[l] > 0 /\ resting'[l] > 0
      BY <1>5, <1>6, <1>7, <2>3
    <3> QED BY <1>7, <1>8, <3>1, <3>2 DEF BookInv, BookTypes
  <2> QED BY <2>2, <2>3
<1>10. BookTypes'
  BY <1>2, <1>4, <1>6, <1>9 DEF BookInv, BookTypes
<1>11. HeadPassed'
  <2>1. ASSUME NEW k \in Levels
        PROVE  /\ head[k] <= Len(queue'[k])
               /\ \A j \in 1..head[k] : queue'[k][j].shares = 0
    <3>1. CASE k = l
      <4>1. head[l] <= Len(queue'[l])
        BY <1>4 DEF BookInv, HeadPassed
      <4>2. \A j \in 1..head[l] : j \in 1..Len(queue[l]) /\ queue[l][j].shares = 0
        BY <1>0, <1>5 DEF BookInv, HeadPassed
      <4> QED BY <1>3, <1>4, <3>1, <4>1, <4>2
    <3>2. CASE k # l
      BY <1>4, <3>2 DEF BookInv, HeadPassed
    <3> QED BY <3>1, <3>2
  <2> QED BY <1>2, <2>1 DEF HeadPassed
<1>12. BitsExact' /\ TransactionOK'
  BY <1>2, <1>9 DEF BitsExact, TransactionOK
<1>13. NeverCrossed'
  <2>1. ASSUME NEW m \in Markets, NEW p \in Prices, NEW q \in Prices,
               resting'[<<m, "YES", p>>] > 0, resting'[<<m, "NO", q>>] > 0
        PROVE  p + q < Dollar
    <3>1. <<m, "YES", p>> \in Levels /\ <<m, "NO", q>> \in Levels
      BY DEF Levels, Sides
    <3>2. \A k \in Levels : resting'[k] > 0 => resting[k] > 0
      BY <1>5, <1>6, <1>7
    <3> QED BY <2>1, <3>1, <3>2 DEF BookInv, NeverCrossed
  <2> QED BY <2>1 DEF NeverCrossed
<1> QED BY <1>6, <1>10, <1>11, <1>12, <1>13 DEF BookInv

-----------------------------------------------------------------------------
(* Types of the steps that trade *)

(* What a fill writes outside of the book keeps its type.                   *)
LEMMA FillMoney ==
  ASSUME TypeOK, BookInv, Fill
  PROVE  /\ position' \in [Holdings -> Position]
         /\ market' \in [Markets -> Market]
         /\ \A k \in Markets : market'[k].pendingBid <= Len(bids)
         /\ affiliateFees' \in [Posts -> Nat] /\ protocolFees' \in Int
<1> DEFINE n == Smaller(tx.left, NextSlot.shares)
           fee == TakerFee(n, ExecPrice)
           cost == Escrow(ExecPrice, n)
           toCreator == FeeShare(fee, fees.creatorShare)
           toAffiliate == FeeShare(fee, fees.affiliateShare)
           maker == NextSlot.maker
           makerCost == Escrow(tx.makerPrice, n)
<1>1. /\ tx \in Matching /\ MakerLevel \in Levels /\ fees \in Fees
      /\ fees.creatorShare \in Nat /\ fees.affiliateShare \in Nat
  BY AtSlotTypes DEF Fill, TypeOK, Fees
<1>2. n \in Nat /\ fee \in Nat /\ cost \in Nat
  BY <1>1, FillTypes DEF Fill
<1>3. tx.market \in Markets /\ tx.makerPrice \in Nat
  BY <1>1 DEF Matching, Prices
<1> HIDE DEF n
<1>4. makerCost \in Nat
  BY <1>2, <1>3, EscrowType
<1> HIDE DEF fee
<1>5. toCreator \in Nat /\ toAffiliate \in Nat
  BY <1>1, <1>2, FeeShareType
<1> HIDE DEF cost, toCreator, toAffiliate, maker, makerCost
<1>6. position' \in [Holdings -> Position]
  <2> DEFINE add(r, c) == [shares |-> r.shares + n, costBasis |-> r.costBasis + c]
             A == <<tx.market, tx.side, tx.taker>>
             B == <<tx.market, Opposite(tx.side), maker>>
             once == Put(position, A, add(position[A], cost))
  <2>1. \A r \in Position, c \in Nat : add(r, c) \in Position
    BY <1>2 DEF Position
  <2>2. position' = Put(once, B, add(position[B], makerCost))
    BY DEF Fill, Credit, n, cost, maker, makerCost, Put
  <2>3. position \in [Holdings -> Position]
    BY DEF TypeOK
  <2> HIDE DEF add, A, B
  <2>4. once \in [Holdings -> Position]
    BY <1>2, <2>1, <2>3 DEF Put
  <2> HIDE DEF once
  <2> QED BY <1>4, <2>1, <2>2, <2>3, <2>4 DEF Put
<1>7. /\ market' \in [Markets -> Market]
      /\ \A k \in Markets : market'[k].pendingBid <= Len(bids)
  <2> DEFINE r == market[tx.market]
             v == r.volume + n * Unit
             c == r.creatorFees + toCreator
             t(status) == [r EXCEPT !.volume = v, !.creatorFees = c, !.status = status]
  <2>1. r \in Market /\ market \in [Markets -> Market]
    BY <1>3 DEF TypeOK
  <2>2. r.volume \in Nat /\ r.creatorFees \in Nat /\ r.status \in Statuses
    BY <2>1 DEF Market
  <2>3. v \in Nat /\ c \in Nat
    <3>1. Unit \in Nat
      BY PriceAssumption, ProductType DEF Unit
    <3>2. n * Unit \in Nat
      BY <1>2, <3>1, ProductType
    <3> QED BY <1>5, <2>2, <3>2
  <2>4. PICK status \in Statuses : market' = Put(market, tx.market, t(status))
    <3>1. market' = Put(market, tx.market,
                        t(IF /\ r.opening = <<Opposite(tx.side), tx.makerPrice, NextIndex>>
                             /\ r.status = "OPEN"
                          THEN "MATCHED" ELSE r.status))
      BY <1>3, <2>1 DEF Fill, Put, n, fee, toCreator
    <3>2. "MATCHED" \in Statuses
      BY DEF Statuses
    <3> HIDE DEF t
    <3> QED BY <2>2, <3>1, <3>2
  <2> HIDE DEF v, c
  <2>5. t(status) \in Market /\ t(status).pendingBid = r.pendingBid
    BY <2>1, <2>3 DEF Market
  <2> HIDE DEF t
  <2>6. \A k \in Markets : market[k].pendingBid <= Len(bids)
    BY DEF TypeOK
  <2> QED BY <1>3, <2>1, <2>4, <2>5, <2>6 DEF Put
<1>8. affiliateFees' \in [Posts -> Nat] /\ protocolFees' \in Int
  <2>1. AccrueFees(fee, toCreator, toAffiliate)
    BY DEF Fill, n, fee, toCreator, toAffiliate
  <2>2. affiliateFees \in [Posts -> Nat] /\ protocolFees \in Int
    BY DEF TypeOK
  <2> QED BY <1>2, <1>5, <2>1, <2>2 DEF AccrueFees
<1> QED BY <1>6, <1>7, <1>8

(* Every matching step keeps the types.  Rest's three endings charge the     *)
(* wallet, the free balance, or what was prepaid.                            *)
LEMMA MatchingTypes ==
  ASSUME TypeOK, BookInv, BookTypes', MatchingStep
  PROVE  TypeOK'
<1>1. CASE EnterLevel
  BY <1>1 DEF TypeOK, BookTypes, EnterLevel, moneyVars, configVars, signedVars
<1>2. CASE SkipHole
  BY <1>2 DEF TypeOK, BookTypes, SkipHole, moneyVars, configVars, signedVars
<1>3. CASE Fill
  <2>1. /\ position' \in [Holdings -> Position]
        /\ market' \in [Markets -> Market]
        /\ \A k \in Markets : market'[k].pendingBid <= Len(bids)
        /\ affiliateFees' \in [Posts -> Nat] /\ protocolFees' \in Int
    BY <1>3, FillMoney
  <2> QED BY <1>3, <2>1 DEF TypeOK, BookTypes, Fill, configVars, signedVars
<1>4. CASE LeaveLevel
  BY <1>4 DEF TypeOK, BookTypes, LeaveLevel, moneyVars, configVars, signedVars
<1>5. CASE FinishDirect \/ FinishSigned \/ FinishCreation
  <2>1. Rest /\ tx \in Matching
    BY <1>5, TxTypes DEF FinishDirect, FinishSigned, FinishCreation, Rest, BookInv
  <2>2. TotalCost \in Int
    <3>1. tx.left \in Nat /\ tx.price \in Nat /\ tx.escrow \in Nat /\ tx.fee \in Nat
      BY <2>1 DEF Matching, Prices
    <3>2. Escrow(tx.price, tx.left) \in Nat
      BY <3>1, EscrowType
    <3> QED BY <3>1, <3>2 DEF TotalCost
  <2>3. balance' \in Int /\ freeBalance' \in [Accounts -> Int]
    BY <1>5, <2>2 DEF TypeOK, FinishDirect, FinishSigned, FinishCreation
  <2>4. /\ market' \in [Markets -> Market]
        /\ \A k \in Markets : market'[k].pendingBid <= Len(bids)
    <3>1. CASE ~FinishCreation
      BY <1>5, <3>1 DEF TypeOK, FinishDirect, FinishSigned
    <3>2. CASE FinishCreation
      <4> DEFINE o == <<tx.side, tx.price, tx.index>>
                 r == [market[tx.market] EXCEPT !.opening = o]
      <4>1. market' = Put(market, tx.market, r)
        BY <3>2 DEF FinishCreation, Put
      <4>2. tx.market \in Markets /\ o \in OrderIds
        BY <2>1 DEF Matching, OrderIds
      <4>3. market[tx.market] \in Market /\ market \in [Markets -> Market]
        BY <4>2 DEF TypeOK
      <4> HIDE DEF o
      <4>4. r \in Market /\ r.pendingBid = market[tx.market].pendingBid
        BY <4>2, <4>3 DEF Market
      <4> HIDE DEF r
      <4>5. \A k \in Markets : market[k].pendingBid <= Len(bids)
        BY DEF TypeOK
      <4> QED BY <4>1, <4>2, <4>3, <4>4, <4>5 DEF Put
    <3> QED BY <3>1, <3>2
  <2>5. /\ UNCHANGED <<position, affiliateFees, protocolFees, configVars, signedVars,
                       bids, now>>
    BY <2>1 DEF Rest
  <2> QED BY <2>3, <2>4, <2>5 DEF TypeOK, BookTypes, configVars, signedVars
<1> QED BY <1>1, <1>2, <1>3, <1>4, <1>5 DEF MatchingStep

(* A market is created with an id of its own and nothing in it.             *)
LEMMA CreatedTypes ==
  ASSUME TypeOK, NEW m \in Markets, NEW a \in Accounts, Created(m, a)
  PROVE  /\ market' \in [Markets -> Market]
         /\ \A k \in Markets : market'[k].pendingBid <= Len(bids)
<1> DEFINE r == [market[m] EXCEPT !.status = "OPEN", !.creator = a]
<1>1. market[m] \in Market /\ market \in [Markets -> Market]
  BY DEF TypeOK
<1>2. market' = Put(market, m, r)
  BY <1>1 DEF Created, Put
<1>3. r \in Market /\ r.pendingBid = market[m].pendingBid
  BY <1>1 DEF Market, Statuses
<1> HIDE DEF r
<1>4. \A k \in Markets : market[k].pendingBid <= Len(bids)
  BY DEF TypeOK
<1> QED BY <1>1, <1>2, <1>3, <1>4 DEF Put

(* Consuming an authorization keeps the types.                              *)
LEMMA ConsumeTypes ==
  ASSUME TypeOK, NEW o \in SignedOrder, Consume(o)
  PROVE  usedAuths' \subseteq SignedOrder /\ balance' \in Int
<1>1. Digest(o) \in SignedOrder /\ o.value \in Nat
  BY DEF Digest, SignedOrder
<1> QED BY <1>1 DEF Consume, TypeOK

(* Creating a market keeps the book and the types.                          *)
LEMMA CreateInv ==
  ASSUME Inv, CreateStep
  PROVE  Inv'
<1>1. ASSUME NEW a \in Accounts, NEW s \in Sides, NEW p \in Prices, NEW n \in Sizes,
             CreateMarketDirect(a, s, p, n)
      PROVE  Inv'
  <2>0. n \in Nat /\ Escrow(p, n) \in Nat
    BY OrdersAssumption, EscrowType DEF Prices
  <2>1. PICK m \in Markets :
          Created(m, a) /\ Execute(m, a, s, p, n, NoPost, "prepaid", Escrow(p, n))
    BY <1>1 DEF CreateMarketDirect
  <2>2. BookInv'
    BY <2>0, <2>1, ExecuteBook DEF Inv
  <2>3. /\ market' \in [Markets -> Market]
        /\ \A k \in Markets : market'[k].pendingBid <= Len(bids)
    BY <2>1, CreatedTypes DEF Inv
  <2>4. balance' \in Int
    BY <1>1, <2>0 DEF CreateMarketDirect, Inv, TypeOK
  <2>5. TypeOK'
    BY <1>1, <2>2, <2>3, <2>4
       DEF CreateMarketDirect, Inv, TypeOK, BookInv, BookTypes, configVars, signedVars
  <2> QED BY <2>2, <2>5 DEF Inv
<1>2. ASSUME NEW o \in SignedOrders, CreateMarket(o)
      PROVE  Inv'
  <2>0. /\ o \in SignedOrder /\ o.maker \in Accounts /\ o.side \in Sides
        /\ o.price \in Prices /\ o.price \in Nat /\ o.shares \in Nat
        /\ o.nonce \in Nat /\ o.value \in Nat
        /\ Escrow(o.price, o.shares) \in Nat
    <3>1. /\ o \in SignedOrder /\ o.maker \in Accounts /\ o.side \in Sides
          /\ o.price \in Prices /\ o.shares \in Nat
          /\ o.nonce \in Nat /\ o.value \in Nat
      BY OrdersAssumption DEF SignedOrder
    <3>2. o.price \in Nat
      BY <3>1 DEF Prices
    <3> QED BY <3>1, <3>2, EscrowType
  <2>1. PICK m \in Markets :
          /\ Created(m, o.maker)
          /\ Execute(m, o.maker, o.side, o.price, o.shares, NoPost,
                     "prepaid", Escrow(o.price, o.shares))
    BY <1>2 DEF CreateMarket
  <2>2. BookInv'
    BY <2>0, <2>1, ExecuteBook DEF Inv
  <2>3. /\ market' \in [Markets -> Market]
        /\ \A k \in Markets : market'[k].pendingBid <= Len(bids)
    BY <2>0, <2>1, CreatedTypes DEF Inv
  <2>4. usedAuths' \subseteq SignedOrder /\ balance' \in Int
    BY <1>2, <2>0, ConsumeTypes DEF CreateMarket, Inv
  <2>5. nonces' \in [Accounts -> Nat] /\ freeBalance' \in [Accounts -> Int]
    <3>1. nonces \in [Accounts -> Nat] /\ freeBalance \in [Accounts -> Int]
      BY DEF Inv, TypeOK
    <3>2. nonces' = [nonces EXCEPT ![o.maker] = o.nonce + 1]
      BY <1>2 DEF CreateMarket
    <3>3. freeBalance' = [freeBalance EXCEPT
            ![o.maker] = (freeBalance[o.maker] + o.value) - Escrow(o.price, o.shares)]
      BY <1>2, Zenon DEF CreateMarket
    <3>4. (freeBalance[o.maker] + o.value) - Escrow(o.price, o.shares) \in Int
      BY <2>0, <3>1
    <3>5. nonces' \in [Accounts -> Nat]
      BY <2>0, <3>1, <3>2
    <3>6. freeBalance' \in [Accounts -> Int]
      BY <2>0, <3>1, <3>3, <3>4
    <3> QED
      BY <3>5, <3>6
  <2>6. /\ UNCHANGED <<position, affiliateFees, protocolFees, configVars, bids, now>>
    BY <1>2 DEF CreateMarket, Consume
  <2>7. TypeOK'
    BY <2>2, <2>3, <2>4, <2>5, <2>6 DEF Inv, TypeOK, BookInv, BookTypes, configVars
  <2> QED BY <2>2, <2>7 DEF Inv
<1> QED BY <1>1, <1>2 DEF CreateStep

(* Placing, rejecting and cancelling orders keeps the book and the types.   *)
LEMMA TradeInv ==
  ASSUME Inv, TradeStep
  PROVE  Inv'
<1>1. ASSUME NEW a \in Accounts, NEW m \in Markets, NEW s \in Sides, NEW p \in Prices,
             NEW n \in Sizes, NEW post \in Posts \cup {NoPost},
             PlaceOrder(a, m, s, p, n, post)
      PROVE  Inv'
  <2>1. BookInv'
    BY <1>1, ExecuteBook, OrdersAssumption DEF PlaceOrder, Inv
  <2>2. TypeOK'
    BY <1>1, <2>1
       DEF PlaceOrder, Inv, TypeOK, BookInv, BookTypes, moneyVars, configVars, signedVars
  <2> QED BY <2>1, <2>2 DEF Inv
<1>2. ASSUME NEW o \in SignedOrders
      PROVE  /\ o \in SignedOrder /\ o.maker \in Accounts /\ o.side \in Sides
             /\ o.price \in Prices /\ o.shares \in Nat /\ o.nonce \in Nat /\ o.value \in Nat
             /\ o.post \in Posts \cup {NoPost}
  BY OrdersAssumption DEF SignedOrder
<1>3. ASSUME NEW o \in SignedOrders, PlaceSignedOrder(o)
      PROVE  Inv'
  <2>1. o.market \in Markets
    BY <1>3 DEF PlaceSignedOrder, Acceptable
  <2>2. BookInv'
    BY <1>2, <1>3, <2>1, ExecuteBook DEF PlaceSignedOrder, Inv
  <2>3. usedAuths' \subseteq SignedOrder /\ balance' \in Int
    BY <1>2, <1>3, ConsumeTypes DEF PlaceSignedOrder, Inv
  <2>4. nonces' \in [Accounts -> Nat] /\ freeBalance' \in [Accounts -> Int]
    BY <1>2, <1>3 DEF PlaceSignedOrder, Inv, TypeOK
  <2>5. /\ UNCHANGED <<position, affiliateFees, protocolFees, configVars, bids, now, market>>
    BY <1>3 DEF PlaceSignedOrder, Consume
  <2>6. TypeOK'
    BY <2>2, <2>3, <2>4, <2>5 DEF Inv, TypeOK, BookInv, BookTypes, configVars
  <2> QED BY <2>2, <2>6 DEF Inv
<1>4. ASSUME NEW o \in SignedOrders, RejectUnfunded(o)
      PROVE  Inv'
  <2>1. BookInv'
    BY <1>4 DEF RejectUnfunded, Inv, BookInv, BookTypes, LevelTotals, HeadPassed, BitsExact,
       TransactionOK, NeverCrossed, MakerLevel, OwnLevel, OpposingBits, bookVars
  <2>2. usedAuths' \subseteq SignedOrder /\ balance' \in Int
    BY <1>2, <1>4, ConsumeTypes DEF RejectUnfunded, Inv
  <2>3. freeBalance' \in [Accounts -> Int]
    BY <1>2, <1>4 DEF RejectUnfunded, Inv, TypeOK
  <2>4. /\ UNCHANGED <<position, affiliateFees, protocolFees, configVars, bids, now,
                       market, nonces>>
    BY <1>4 DEF RejectUnfunded, Consume
  <2>5. TypeOK'
    BY <2>1, <2>2, <2>3, <2>4 DEF Inv, TypeOK, BookInv, BookTypes, configVars
  <2> QED BY <2>1, <2>5 DEF Inv
<1>5. ASSUME NEW l \in Levels, NEW i \in DOMAIN queue[l], CancelOrder(l, i)
      PROVE  Inv'
  <2>1. BookInv'
    BY <1>5, CancelBook DEF Inv
  <2>2. freeBalance' \in [Accounts -> Int]
    <3>1. queue[l][i] \in Slot
      BY DEF Inv, TypeOK
    <3> DEFINE back == Escrow(l[3], queue[l][i].shares)
               a == queue[l][i].maker
    <3>2. l[3] \in Nat /\ queue[l][i].shares \in Nat
      BY <3>1 DEF Slot, Levels, Prices
    <3>3. back \in Nat
      BY <3>2, EscrowType
    <3>4. freeBalance' = Put(freeBalance, a, freeBalance[a] + back)
      BY <1>5 DEF CancelOrder, Put
    <3>5. freeBalance \in [Accounts -> Int]
      BY DEF Inv, TypeOK
    <3> HIDE DEF back, a
    <3>6. CASE a \in Accounts
      BY <3>3, <3>4, <3>5, <3>6 DEF Put
    <3>7. CASE a \notin Accounts
      BY <3>4, <3>5, <3>7 DEF Put
    <3> QED BY <3>6, <3>7
  <2>3. TypeOK'
    BY <1>5, <2>1, <2>2
       DEF CancelOrder, Inv, TypeOK, BookInv, BookTypes, configVars, signedVars
  <2> QED BY <2>1, <2>3 DEF Inv
<1> QED BY <1>1, <1>3, <1>4, <1>5 DEF TradeStep

-----------------------------------------------------------------------------
(* The theorems *)

(* The book is not touched by a step that leaves its variables and tx alone. *)
LEMMA BookUntouched ==
  ASSUME BookInv, UNCHANGED <<bookVars, tx>>
  PROVE  BookInv'
BY DEF BookInv, BookTypes, LevelTotals, HeadPassed, BitsExact, TransactionOK,
   NeverCrossed, MakerLevel, OwnLevel, OpposingBits, bookVars

(* Nothing has been placed at first. *)
LEMMA InitInv == Init => Inv
<1> SUFFICES ASSUME Init PROVE Inv
  OBVIOUS
<1>1. \A q : q = << >> => q \in Seq(Slot) /\ Len(q) = 0
  OBVIOUS
<1>2. TypeOK
  <2>1. NoMarket \in Market /\ NoPosition \in Position
    BY DEF NoMarket, Market, Statuses, NoPosition, Position
  <2>2. bids \in Seq(Bid) /\ Len(bids) = 0 /\ \A m \in Markets : market[m].pendingBid = 0
    BY DEF Init, NoMarket
  <2>3. InitialFees \in Fees
    BY FeeAssumption
  <2> QED BY <1>1, <2>1, <2>2, <2>3 DEF Init, TypeOK
<1>3. BookTypes
  BY <1>2 DEF TypeOK, BookTypes
<1>4. Total(SlotShares(<< >>)) = 0
  <2>1. SlotShares(<< >>) \in [1..0 -> Nat] /\ IsFiniteSet(1..0)
    BY <1>1, SlotSharesType
  <2>2. Coins(SlotShares(<< >>)) = {}
    BY <2>1 DEF Coins
  <2> QED BY <2>2, FS_EmptySet DEF Total
<1>5. LevelTotals /\ HeadPassed /\ BitsExact /\ TransactionOK
  <2>1. \A l \in Levels : <<l[1], l[2]>> \in Markets \X Sides
    BY DEF Levels
  <2> QED BY <1>1, <1>4, <2>1 DEF Init, LevelTotals, HeadPassed, BitsExact, TransactionOK
<1>6. NeverCrossed
  BY DEF Init, NeverCrossed, Levels, Sides
<1> QED BY <1>2, <1>3, <1>5, <1>6 DEF Inv, BookInv

(* Every step keeps the invariant. *)
LEMMA NextInv == Inv /\ [Next]_vars => Inv'
<1> SUFFICES ASSUME Inv, [Next]_vars PROVE Inv'
  OBVIOUS
<1>1. CASE MatchingStep
  <2>1. fees \in Fees
    BY DEF Inv, TypeOK
  <2>2. BookInv'
    BY <1>1, <2>1, EnterLevelBook, SkipHoleBook, FillBook, LeaveLevelBook, RestBook
       DEF MatchingStep, FinishDirect, FinishSigned, FinishCreation, Inv
  <2> QED BY <1>1, <2>2, MatchingTypes DEF Inv, BookInv
<1>2. CASE CreateStep
  BY <1>2, CreateInv
<1>3. CASE TradeStep
  BY <1>3, TradeInv
<1>4. CASE ResolveStep
  <2>1. UNCHANGED <<bookVars, tx>>
    BY <1>4 DEF ResolveStep, SettleMarket, UpdateOracle, VoidMarket, SetMarketExpiry,
       ExpireMarket
  <2> QED BY <1>4, <2>1, BookUntouched, ResolveTypes DEF Inv
<1>5. CASE PayoutStep
  <2>1. UNCHANGED <<bookVars, tx>>
    BY <1>5 DEF PayoutStep, Redeem, Withdraw, ClaimCreatorFees, ClaimAffiliateFees,
       WithdrawProtocolFees
  <2> QED BY <1>5, <2>1, BookUntouched, PayoutTypes DEF Inv
<1>6. CASE AdminStep \/ Tick
  <2>1. UNCHANGED <<bookVars, tx>>
    BY <1>6 DEF AdminStep, RegisterAffiliatePost, SetFees, Tick
  <2> QED BY <1>6, <2>1, BookUntouched, AdminTypes DEF Inv
<1>7. CASE UNCHANGED vars
  <2>1. UNCHANGED <<bookVars, tx>>
    BY <1>7 DEF vars
  <2>2. TypeOK'
    BY <1>7 DEF Inv, TypeOK, vars, bookVars, moneyVars, configVars, signedVars
  <2> QED BY <2>1, <2>2, BookUntouched DEF Inv
<1> QED BY <1>1, <1>2, <1>3, <1>4, <1>5, <1>6, <1>7 DEF Next

(* The invariant of every behaviour of the contract. *)
THEOREM Invariance == Spec => []Inv
BY InitInv, NextInv, PTL DEF Spec

(* Every variable keeps its type, the sizes of levels and fills among them:  *)
(* no subtraction of _fillAtLevel or cancelOrder underflows.                 *)
THEOREM TypeCorrect == Spec => []TypeOK
<1>1. Inv => TypeOK
  BY DEF Inv
<1> QED BY <1>1, Invariance, PTL

(* The levels' totals, cursors and bits always agree with the queues.        *)
THEOREM BookCorrect == Spec => []BookConsistent
<1>1. Inv => BookConsistent
  BY DEF Inv, BookInv, BookConsistent
<1> QED BY <1>1, Invariance, PTL

(* Two orders that could trade with each other never rest side by side.      *)
THEOREM BookUncrossed == Spec => []NeverCrossed
<1>1. Inv => NeverCrossed
  BY DEF Inv, BookInv
<1> QED BY <1>1, Invariance, PTL

-----------------------------------------------------------------------------
(* How markets are resolved *)

\* What is decided about a market.
SameDecision(q, r) ==
  /\ r.direction = q.direction /\ r.fiftyFifty = q.fiftyFifty
  /\ r.pendingBid = q.pendingBid

\* Trading leaves a market as decided as it was; its status may advance.
Traded(q, r) ==
  /\ SameDecision(q, r)
  /\ \/ r.status = q.status
     \/ q.status = "NONE" /\ r.status = "OPEN"
     \/ q.status = "OPEN" /\ r.status = "MATCHED"

\* A bid is pending only once a settlement was requested.
BidRequested ==
  \A m \in Markets :
    market[m].status \in {"NONE", "OPEN", "MATCHED"} => market[m].pendingBid = 0

LifecycleInv == BidRequested /\ OneOpenBid

(* The fields that trading writes into a market leave it as decided as it was.*)
LEMMA TradedFields ==
  ASSUME NEW r \in Market
  PROVE  /\ Traded(r, r)
         /\ \A n \in Nat : Traded(r, [r EXCEPT !.creatorFees = n])
         /\ \A n \in Nat : Traded(r, [r EXCEPT !.expiry = n])
         /\ \A o : Traded(r, [r EXCEPT !.opening = o])
         /\ \A a : r.status = "NONE" => Traded(r, [r EXCEPT !.status = "OPEN", !.creator = a])
         /\ \A v, c, s : s = r.status \/ (r.status = "OPEN" /\ s = "MATCHED")
              => Traded(r, [r EXCEPT !.volume = v, !.creatorFees = c, !.status = s])
BY DEF Market, Traded, SameDecision

(* Replacing one market by one that was traded. *)
LEMMA TradedOne ==
  ASSUME TypeOK, NEW m \in Markets, NEW r, Traded(market[m], r),
         market' = Put(market, m, r), NEW k \in Markets
  PROVE  Traded(market[k], market'[k])
<1>1. market \in [Markets -> Market]
  BY DEF TypeOK
<1>2. CASE k = m
  BY <1>1, <1>2 DEF Put
<1>3. CASE k # m
  BY <1>1, <1>3 DEF Put, Traded, SameDecision
<1> QED
  BY <1>2, <1>3

(* Matching, creation, trading, payouts and administration only trade.       *)
LEMMA OnlyTrades ==
  ASSUME TypeOK,
         MatchingStep \/ CreateStep \/ TradeStep \/ PayoutStep \/ AdminStep \/ Tick,
         NEW k \in Markets
  PROVE  Traded(market[k], market'[k])
<1>0. market \in [Markets -> Market] /\ market[k] \in Market
  BY DEF TypeOK
<1>1. ASSUME UNCHANGED market PROVE Traded(market[k], market'[k])
  BY <1>0, <1>1, TradedFields
<1>2. CASE Fill
  <2> DEFINE n == Smaller(tx.left, NextSlot.shares)
             toCreator == FeeShare(TakerFee(n, ExecPrice), fees.creatorShare)
             meets == market[tx.market].opening = <<Opposite(tx.side), tx.makerPrice, NextIndex>>
             q == market[tx.market]
             s == IF meets /\ q.status = "OPEN" THEN "MATCHED" ELSE q.status
             r == [q EXCEPT !.volume = q.volume + n * Unit,
                            !.creatorFees = q.creatorFees + toCreator, !.status = s]
  <2>1. tx.market \in Markets
    BY <1>2 DEF TypeOK, Matching, Fill, AtSlot
  <2>2. q \in Market
    BY <1>0, <2>1
  <2>3. s = q.status \/ (q.status = "OPEN" /\ s = "MATCHED")
    OBVIOUS
  <2>4. market' = Put(market, tx.market, r)
    BY <1>0, <1>2, <2>1 DEF Fill, Put
  <2> HIDE DEF q, s, n, toCreator, meets
  <2>5. Traded(q, r)
    BY <2>2, <2>3, TradedFields
  <2> HIDE DEF r
  <2>6. Traded(market[tx.market], r)
    BY <2>5 DEF q
  <2> QED
    BY <2>1, <2>4, <2>6, TradedOne
<1>3. CASE FinishCreation
  <2> DEFINE r == [market[tx.market] EXCEPT !.opening = <<tx.side, tx.price, tx.index>>]
  <2>1. tx.market \in Markets /\ market[tx.market] \in Market
    BY <1>0, <1>3 DEF TypeOK, Matching, FinishCreation, Rest
  <2>2. market' = Put(market, tx.market, r)
    BY <1>3 DEF FinishCreation, Rest, Put
  <2>3. Traded(market[tx.market], r)
    BY <2>1, TradedFields
  <2> HIDE DEF r
  <2> QED
    BY <2>1, <2>2, <2>3, TradedOne
<1>4. CASE MatchingStep /\ ~Fill /\ ~FinishCreation
  <2>1. UNCHANGED market
    BY <1>4 DEF MatchingStep, EnterLevel, SkipHole, LeaveLevel, FinishDirect, FinishSigned, Rest
  <2> QED
    BY <1>1, <2>1
<1>5. CASE CreateStep
  <2>1. \E m \in Markets, a \in Accounts : Created(m, a)
    <3>1. \A o \in SignedOrders : o.maker \in Accounts
      BY OrdersAssumption DEF SignedOrder
    <3> QED
      BY <1>5, <3>1 DEF CreateStep, CreateMarketDirect, CreateMarket, Consume
  <2>2. PICK m \in Markets, a \in Accounts : Created(m, a)
    BY <2>1
  <2> DEFINE r == [market[m] EXCEPT !.status = "OPEN", !.creator = a]
  <2>3. market' = Put(market, m, r) /\ market[m].status = "NONE" /\ market[m] \in Market
    BY <1>0, <2>2 DEF Created, Put
  <2>4. Traded(market[m], r)
    BY <2>3, TradedFields
  <2> HIDE DEF r
  <2> QED
    BY <2>1, <2>3, <2>4, TradedOne
<1>6. CASE TradeStep
  <2>1. UNCHANGED market
    BY <1>6 DEF TradeStep, PlaceOrder, PlaceSignedOrder, RejectUnfunded, Consume, CancelOrder
  <2> QED
    BY <1>1, <2>1
<1>7. ASSUME NEW m \in Markets, ClaimCreatorFees(m)
      PROVE  Traded(market[k], market'[k])
  <2> DEFINE r == [market[m] EXCEPT !.creatorFees = 0]
  <2>1. market' = Put(market, m, r) /\ market[m] \in Market
    BY <1>0, <1>7 DEF ClaimCreatorFees, Put
  <2>2. Traded(market[m], r)
    BY <2>1, TradedFields
  <2> HIDE DEF r
  <2> QED
    BY <2>1, <2>2, TradedOne
<1>8. CASE PayoutStep
  <2>1. CASE \E m \in Markets : ClaimCreatorFees(m)
    BY <1>7, <2>1
  <2>2. CASE ~ \E m \in Markets : ClaimCreatorFees(m)
    <3>1. UNCHANGED market
      BY <1>8, <2>2 DEF PayoutStep, Redeem, Withdraw, ClaimAffiliateFees, WithdrawProtocolFees
    <3> QED
      BY <1>1, <3>1
  <2> QED
    BY <2>1, <2>2
<1>9. CASE AdminStep \/ Tick
  <2>1. UNCHANGED market
    BY <1>9 DEF AdminStep, RegisterAffiliatePost, SetFees, Tick
  <2> QED
    BY <1>1, <2>1
<1> QED
  BY <1>2, <1>3, <1>4, <1>5, <1>6, <1>8, <1>9

(* They touch no bid.                                                        *)
LEMMA BidsUntouched ==
  ASSUME MatchingStep \/ CreateStep \/ TradeStep \/ PayoutStep \/ AdminStep \/ Tick
  PROVE  bids' = bids
<1>1. CASE MatchingStep
  BY <1>1 DEF MatchingStep, EnterLevel, SkipHole, Fill, LeaveLevel, FinishDirect,
     FinishSigned, FinishCreation, Rest
<1>2. CASE CreateStep \/ TradeStep
  BY <1>2 DEF CreateStep, CreateMarketDirect, CreateMarket, Consume, TradeStep, PlaceOrder,
     PlaceSignedOrder, RejectUnfunded, CancelOrder
<1>3. CASE PayoutStep
  BY <1>3 DEF PayoutStep, Redeem, Withdraw, ClaimCreatorFees, ClaimAffiliateFees,
     WithdrawProtocolFees
<1>4. CASE AdminStep \/ Tick
  BY <1>4 DEF AdminStep, RegisterAffiliatePost, SetFees, Tick
<1> QED
  BY <1>1, <1>2, <1>3, <1>4

-----------------------------------------------------------------------------
(* What resolving a market does to it and to the others. *)

\* m is replaced and the other markets are not.
OnlyMarket(m) == \A k \in Markets : k # m => market'[k] = market[k]

(* The market that a call resolves is one that still trades.                 *)
LEMMA ResolveMarket ==
  ASSUME TypeOK, ResolveStep
  PROVE  \E m \in Markets :
           /\ OnlyMarket(m)
           /\ \/ bids' = bids /\ Traded(market[m], market'[m])
              \/ /\ market[m].status \in Trades
                 /\ \/ Settleable(m) /\ \E payer, surplus : SettleMarket(m, payer, surplus)
                    \/ /\ market'[m].pendingBid = market[m].pendingBid
                       /\ market'[m].status \in Terminal
                       /\ \/ bids' = bids
                          \/ \E b \in DOMAIN bids : bids' = [bids EXCEPT ![b].open = FALSE]
<1>0. market \in [Markets -> Market] /\ \A m \in Markets : market[m] \in Market
  BY DEF TypeOK
<1>1. ASSUME NEW m \in Markets, NEW payer \in Accounts, NEW surplus \in Amounts \cup {0},
             SettleMarket(m, payer, surplus)
      PROVE  OnlyMarket(m) /\ market[m].status \in Trades /\ Settleable(m)
  BY <1>0, <1>1 DEF SettleMarket, Settleable, OnlyMarket
<1>2. ASSUME NEW m \in Markets, NEW outcome \in BOOLEAN, NEW b \in {0} \cup DOMAIN bids,
             UpdateOracle(m, outcome, b)
      PROVE  /\ OnlyMarket(m) /\ market[m].status \in Trades
             /\ market'[m].pendingBid = market[m].pendingBid
             /\ market'[m].status \in Terminal
             /\ \/ bids' = bids
                \/ \E c \in DOMAIN bids : bids' = [bids EXCEPT ![c].open = FALSE]
  BY <1>0, <1>2 DEF UpdateOracle, OnlyMarket, Trades, Terminal, Market
<1>3. ASSUME NEW m \in Markets, ReclaimBid(m)
      PROVE  \/ bids' = bids
             \/ \E c \in DOMAIN bids : bids' = [bids EXCEPT ![c].open = FALSE]
  BY <1>0, <1>3 DEF ReclaimBid, BidOpen, TypeOK, Market
<1>4. ASSUME NEW m \in Markets, VoidMarket(m) \/ ExpireMarket(m)
      PROVE  /\ OnlyMarket(m) /\ market[m].status \in Trades
             /\ market'[m].pendingBid = market[m].pendingBid
             /\ market'[m].status \in Terminal
             /\ \/ bids' = bids
                \/ \E c \in DOMAIN bids : bids' = [bids EXCEPT ![c].open = FALSE]
  <2>1. ReclaimBid(m)
    BY <1>4 DEF VoidMarket, ExpireMarket
  <2>2. /\ OnlyMarket(m) /\ market[m].status \in Trades
        /\ market'[m].pendingBid = market[m].pendingBid
        /\ market'[m].status \in Terminal
    BY <1>0, <1>4 DEF VoidMarket, ExpireMarket, OnlyMarket, Terminal, Market
  <2> QED
    BY <1>3, <2>1, <2>2
<1>5. ASSUME NEW m \in Markets, NEW expiry \in 0..MaxTime, SetMarketExpiry(m, expiry)
      PROVE  OnlyMarket(m) /\ bids' = bids /\ Traded(market[m], market'[m])
  <2>1. expiry \in Nat
    BY BoundsAssumption
  <2> QED
    BY <1>0, <1>5, <2>1, TradedFields DEF SetMarketExpiry, OnlyMarket
<1> QED
  BY <1>1, <1>2, <1>4, <1>5 DEF ResolveStep

(* A new bid is placed only when no other is open; closing one opens none.   *)
LEMMA LifecycleStep == TypeOK /\ LifecycleInv /\ [Next]_vars => LifecycleInv'
<1> SUFFICES ASSUME TypeOK, LifecycleInv, [Next]_vars PROVE LifecycleInv'
  OBVIOUS
<1>0. /\ market \in [Markets -> Market] /\ \A m \in Markets : market[m] \in Market
      /\ bids \in Seq(Bid) /\ Len(bids) \in Nat /\ DOMAIN bids = 1..Len(bids)
      /\ \A b \in DOMAIN bids : bids[b] \in Bid /\ bids[b].market \in Markets
  <2>1. market \in [Markets -> Market] /\ bids \in Seq(Bid)
    BY DEF TypeOK
  <2>2. Len(bids) \in Nat /\ DOMAIN bids = 1..Len(bids)
    BY <2>1
  <2>3. \A b \in DOMAIN bids : bids[b] \in Bid
    BY <2>1
  <2>4. \A x \in Bid : x.market \in Markets
    BY DEF Bid
  <2> QED
    BY <2>1, <2>2, <2>3, <2>4
<1>1. ASSUME bids' = bids, \A k \in Markets : Traded(market[k], market'[k])
      PROVE  LifecycleInv'
  <2>1. BidRequested'
    BY <1>1 DEF LifecycleInv, BidRequested, Traded, SameDecision
  <2>2. OneOpenBid'
    BY <1>0, <1>1 DEF LifecycleInv, OneOpenBid, Traded, SameDecision
  <2> QED
    BY <2>1, <2>2 DEF LifecycleInv
<1>2. CASE ResolveStep
  <2>1. PICK m \in Markets :
           /\ OnlyMarket(m)
           /\ \/ bids' = bids /\ Traded(market[m], market'[m])
              \/ /\ market[m].status \in Trades
                 /\ \/ Settleable(m) /\ \E payer, surplus : SettleMarket(m, payer, surplus)
                    \/ /\ market'[m].pendingBid = market[m].pendingBid
                       /\ market'[m].status \in Terminal
                       /\ \/ bids' = bids
                          \/ \E b \in DOMAIN bids : bids' = [bids EXCEPT ![b].open = FALSE]
    BY <1>2, ResolveMarket
  <2>2. CASE bids' = bids /\ Traded(market[m], market'[m])
    <3>1. \A k \in Markets : Traded(market[k], market'[k])
      BY <1>0, <2>1, <2>2, TradedFields DEF OnlyMarket
    <3> QED
      BY <1>1, <2>2, <3>1
  <2>3. ASSUME Settleable(m), NEW payer, NEW surplus, SettleMarket(m, payer, surplus)
        PROVE  LifecycleInv'
    <3>1. /\ market'[m].status = "SETTLING" /\ market'[m].pendingBid = Len(bids) + 1
      BY <1>0, <2>3 DEF SettleMarket, Market
    <3>2. /\ DOMAIN bids' = 1..(Len(bids) + 1)
          /\ bids'[Len(bids) + 1].market = m
          /\ \A b \in DOMAIN bids : bids'[b] = bids[b]
      BY <1>0, <2>3 DEF SettleMarket
    <3>3. ASSUME NEW b \in DOMAIN bids, bids[b].open PROVE bids[b].market # m
      <4> SUFFICES ASSUME bids[b].market = m PROVE FALSE
        OBVIOUS
      <4>1. market[m].pendingBid = b
        BY <3>3 DEF LifecycleInv, OneOpenBid
      <4>2. b # 0
        BY <1>0
      <4>3. market[m].status # "SETTLING"
        BY <2>3, <3>3, <4>1, <4>2 DEF Settleable, BidOpen
      <4> QED
        BY <2>3, <4>1, <4>2, <4>3 DEF Settleable, Trades, LifecycleInv, BidRequested
    <3>4. BidRequested'
      BY <2>1, <3>1 DEF LifecycleInv, BidRequested, OnlyMarket
    <3>5. ASSUME NEW b \in DOMAIN bids', bids'[b].open
          PROVE  market'[bids'[b].market].pendingBid = b
      <4>1. CASE b = Len(bids) + 1
        BY <3>1, <3>2, <4>1
      <4>2. CASE b # Len(bids) + 1
        <5>1. b \in DOMAIN bids /\ bids'[b] = bids[b]
          BY <1>0, <3>2, <4>2
        <5> QED
          BY <1>0, <2>1, <3>3, <3>5, <5>1 DEF LifecycleInv, OneOpenBid, OnlyMarket
      <4> QED
        BY <4>1, <4>2
    <3> QED
      BY <3>4, <3>5 DEF LifecycleInv, OneOpenBid
  <2>4. ASSUME market'[m].pendingBid = market[m].pendingBid, market'[m].status \in Terminal,
               \/ bids' = bids
               \/ \E b \in DOMAIN bids : bids' = [bids EXCEPT ![b].open = FALSE]
        PROVE  LifecycleInv'
    <3>1. \A k \in Markets : market'[k].pendingBid = market[k].pendingBid
      BY <2>1, <2>4 DEF OnlyMarket
    <3>2. /\ DOMAIN bids' = DOMAIN bids
          /\ \A b \in DOMAIN bids : /\ bids'[b].market = bids[b].market
                                    /\ bids'[b].open => bids[b].open
      <4>1. CASE bids' = bids
        BY <4>1
      <4>2. ASSUME NEW c \in DOMAIN bids, bids' = [bids EXCEPT ![c].open = FALSE]
            PROVE  /\ DOMAIN bids' = DOMAIN bids
                   /\ \A b \in DOMAIN bids : /\ bids'[b].market = bids[b].market
                                             /\ bids'[b].open => bids[b].open
        <5>1. bids' = [bids EXCEPT ![c] = [bids[c] EXCEPT !.open = FALSE]]
          BY <4>2
        <5>2. bids[c] \in Bid
          BY <1>0
        <5>3. /\ [bids[c] EXCEPT !.open = FALSE].market = bids[c].market
              /\ [bids[c] EXCEPT !.open = FALSE].open = FALSE
          BY <5>2 DEF Bid
        <5> QED
          BY <5>1, <5>3
      <4> QED
        BY <2>4, <4>1, <4>2
    <3>3. BidRequested'
      BY <2>1, <2>4 DEF LifecycleInv, BidRequested, OnlyMarket, Terminal
    <3>4. OneOpenBid'
      BY <1>0, <3>1, <3>2 DEF LifecycleInv, OneOpenBid
    <3> QED
      BY <3>3, <3>4 DEF LifecycleInv
  <2> QED
    BY <2>1, <2>2, <2>3, <2>4
<1>3. CASE MatchingStep \/ CreateStep \/ TradeStep \/ PayoutStep \/ AdminStep \/ Tick
  BY <1>1, <1>3, BidsUntouched, OnlyTrades
<1>4. CASE UNCHANGED vars
  <2>1. UNCHANGED <<market, bids>>
    BY <1>4 DEF vars
  <2> QED
    BY <1>0, <1>1, <2>1, TradedFields
<1> QED
  BY <1>2, <1>3, <1>4 DEF Next

(* Every open settlement bid is its market's pending one, so that voiding or *)
(* expiring the market reclaims it (_requireSettleable, voidMarket).         *)
THEOREM BidReclaimable == Spec => []OneOpenBid
<1>1. Init => LifecycleInv
  BY DEF Init, LifecycleInv, BidRequested, OneOpenBid, NoMarket
<1>2. LifecycleInv => OneOpenBid
  BY DEF LifecycleInv
<1> QED
  BY <1>1, <1>2, LifecycleStep, TypeCorrect, PTL DEF Spec

(* Once a market is settled or void no call changes its outcome, whichever   *)
(* of an update, a void and an expiry came first.                            *)
THEOREM OutcomesAreFinal == Spec => OutcomeFinal
<1>1. ASSUME NEW q, NEW r, Traded(q, r), q.status \in Terminal
      PROVE  r.status = q.status /\ r.direction = q.direction /\ r.fiftyFifty = q.fiftyFifty
  BY <1>1 DEF Traded, SameDecision, Terminal
<1>2. TypeOK /\ [Next]_vars =>
       \A m \in Markets :
         market[m].status \in Terminal =>
           /\ market'[m].status = market[m].status
           /\ market'[m].direction = market[m].direction
           /\ market'[m].fiftyFifty = market[m].fiftyFifty
  <2> SUFFICES ASSUME TypeOK, [Next]_vars, NEW k \in Markets, market[k].status \in Terminal
               PROVE  /\ market'[k].status = market[k].status
                      /\ market'[k].direction = market[k].direction
                      /\ market'[k].fiftyFifty = market[k].fiftyFifty
    OBVIOUS
  <2>1. CASE ResolveStep
    <3>1. PICK m \in Markets :
             OnlyMarket(m) /\ (Traded(market[m], market'[m]) \/ market[m].status \in Trades)
      BY <2>1, ResolveMarket
    <3>2. market[k].status \notin Trades \/ market[k].status \notin Terminal
      BY DEF Trades, Terminal
    <3> QED
      BY <1>1, <3>1, <3>2 DEF OnlyMarket
  <2>2. CASE MatchingStep \/ CreateStep \/ TradeStep \/ PayoutStep \/ AdminStep \/ Tick
    BY <1>1, <2>2, OnlyTrades
  <2>3. CASE UNCHANGED vars
    BY <2>3 DEF vars
  <2> QED
    BY <2>1, <2>2, <2>3 DEF Next
<1> QED
  BY <1>2, TypeCorrect, PTL DEF Spec, OutcomeFinal

-----------------------------------------------------------------------------
(* The book implements PriceTimeBook *)

\* The order in slot i of level l, and the orders resting, in queues q.
OrderAt(q, l, i) ==
  [market |-> l[1], side |-> l[2], price |-> l[3], arrival |-> i,
   maker |-> q[l][i].maker, shares |-> q[l][i].shares]
OrdersIn(q) ==
  UNION {{OrderAt(q, l, i) : i \in {j \in DOMAIN q[l] : q[l][j].shares > 0}} : l \in Levels}

\* The transaction's slot is the last of its level: only the transaction
\* itself could place another.  The level it is matching at stays the best
\* one: no bit is set or cleared until it leaves the level.
PriorityInv ==
  tx # Idle =>
    /\ tx.index = Len(queue[OwnLevel])
    /\ tx.pc = "level" => BestCrossing(tx.makerPrice)

\* Neither the book as its users see it nor the incoming order changes.
Unseen == RestingOrders' = RestingOrders /\ IncomingOrder' = IncomingOrder

-----------------------------------------------------------------------------
(* The resting orders of a book *)

(* What rests are the orders of the slots that hold shares. *)
LEMMA OrdersMember ==
  ASSUME NEW q \in [Levels -> Seq(Slot)], NEW r
  PROVE  r \in OrdersIn(q) <=>
           \E l \in Levels : \E i \in 1..Len(q[l]) : q[l][i].shares > 0 /\ r = OrderAt(q, l, i)
<1>1. \A l \in Levels : DOMAIN q[l] = 1..Len(q[l])
  <2>1. \A l \in Levels : q[l] \in Seq(Slot)
    OBVIOUS
  <2> QED BY <2>1
<1> QED BY <1>1 DEF OrdersIn

(* A slot determines its order: no two slots hold the same one. *)
LEMMA OrderOfSlot ==
  ASSUME NEW q, NEW r, NEW l \in Levels, NEW k \in Levels, NEW i, NEW j,
         OrderAt(q, l, i) = OrderAt(r, k, j)
  PROVE  l = k /\ i = j /\ q[l][i].shares = r[k][j].shares
<1>1. /\ l[1] = k[1] /\ l[2] = k[2] /\ l[3] = k[3] /\ i = j
      /\ q[l][i].shares = r[k][j].shares
  <2>1. /\ OrderAt(q, l, i).market = l[1] /\ OrderAt(r, k, j).market = k[1]
        /\ OrderAt(q, l, i).side = l[2] /\ OrderAt(r, k, j).side = k[2]
        /\ OrderAt(q, l, i).price = l[3] /\ OrderAt(r, k, j).price = k[3]
        /\ OrderAt(q, l, i).arrival = i /\ OrderAt(r, k, j).arrival = j
        /\ OrderAt(q, l, i).shares = q[l][i].shares
        /\ OrderAt(r, k, j).shares = r[k][j].shares
    BY DEF OrderAt
  <2> QED BY <2>1
<1>2. l = k
  BY <1>1 DEF Levels
<1> QED BY <1>1, <1>2

(* Replacing a slot replaces its order, or removes it. *)
LEMMA OrderReplaced ==
  ASSUME queue \in [Levels -> Seq(Slot)], NEW l \in Levels,
         NEW i \in 1..Len(queue[l]), NEW s \in Slot,
         queue' = Put(queue, l, Put(queue[l], i, s))
  PROVE  /\ s.shares = 0 => OrdersIn(queue') = OrdersIn(queue) \ {OrderAt(queue, l, i)}
         /\ s.shares > 0 => OrdersIn(queue') = (OrdersIn(queue) \ {OrderAt(queue, l, i)})
                                                 \cup {OrderAt(queue', l, i)}
<1>1. /\ queue' \in [Levels -> Seq(Slot)]
      /\ \A k \in Levels : Len(queue'[k]) = Len(queue[k])
      /\ \A k \in Levels \ {l} : queue'[k] = queue[k]
      /\ queue'[l][i] = s
      /\ \A j \in 1..Len(queue[l]) : j # i => queue'[l][j] = queue[l][j]
  BY SlotReplaced
<1> DEFINE old == OrderAt(queue, l, i)
           new == OrderAt(queue', l, i)
<1>2. ASSUME NEW k \in Levels, NEW j \in 1..Len(queue[k]), k # l \/ j # i
      PROVE  /\ queue'[k][j] = queue[k][j]
             /\ OrderAt(queue', k, j) = OrderAt(queue, k, j)
             /\ OrderAt(queue, k, j) # old
  <2>1. queue'[k][j] = queue[k][j]
    BY <1>1, <1>2
  <2>2. OrderAt(queue', k, j) = OrderAt(queue, k, j)
    BY <2>1 DEF OrderAt
  <2>3. OrderAt(queue, k, j) # old
    BY <1>2, OrderOfSlot
  <2> QED BY <2>1, <2>2, <2>3
<1>3. ASSUME NEW r
      PROVE  r \in OrdersIn(queue') <=>
               (r \in OrdersIn(queue) /\ r # old) \/ (s.shares > 0 /\ r = new)
  <2>1. r \in OrdersIn(queue) <=> \E k \in Levels : \E j \in 1..Len(queue[k]) :
          queue[k][j].shares > 0 /\ r = OrderAt(queue, k, j)
    BY OrdersMember
  <2>2. r \in OrdersIn(queue') <=> \E k \in Levels : \E j \in 1..Len(queue'[k]) :
          queue'[k][j].shares > 0 /\ r = OrderAt(queue', k, j)
    BY <1>1, OrdersMember
  <2>3. ASSUME r \in OrdersIn(queue')
        PROVE  (r \in OrdersIn(queue) /\ r # old) \/ (s.shares > 0 /\ r = new)
    <3>1. PICK k \in Levels : \E j \in 1..Len(queue'[k]) :
            queue'[k][j].shares > 0 /\ r = OrderAt(queue', k, j)
      BY <2>2, <2>3
    <3>2. PICK j \in 1..Len(queue[k]) : queue'[k][j].shares > 0 /\ r = OrderAt(queue', k, j)
      BY <1>1, <3>1
    <3>3. CASE k = l /\ j = i
      BY <1>1, <3>2, <3>3
    <3>4. CASE k # l \/ j # i
      BY <1>2, <2>1, <3>2, <3>4
    <3> QED BY <3>3, <3>4
  <2>4. ASSUME r \in OrdersIn(queue), r # old
        PROVE  r \in OrdersIn(queue')
    <3>1. PICK k \in Levels : \E j \in 1..Len(queue[k]) :
            queue[k][j].shares > 0 /\ r = OrderAt(queue, k, j)
      BY <2>1, <2>4
    <3>2. PICK j \in 1..Len(queue[k]) : queue[k][j].shares > 0 /\ r = OrderAt(queue, k, j)
      BY <3>1
    <3>3. k # l \/ j # i
      BY <2>4, <3>2
    <3> QED BY <1>1, <1>2, <2>2, <3>2, <3>3
  <2>5. ASSUME s.shares > 0, r = new
        PROVE  r \in OrdersIn(queue')
    <3>1. i \in 1..Len(queue'[l]) /\ queue'[l][i].shares > 0
      BY <1>1, <2>5
    <3> QED BY <2>2, <2>5, <3>1
  <2> QED BY <2>3, <2>4, <2>5
<1>4. s.shares = 0 => ~(s.shares > 0)
  BY DEF Slot
<1> HIDE DEF old, new
<1> QED BY <1>3, <1>4 DEF old, new

(* The users' view of the book is that of its queues. *)
LEMMA RestingIsOrders ==
  /\ RestingOrders = OrdersIn(queue)
  /\ RestingOrders' = OrdersIn(queue')
BY DEF RestingOrders, OrdersIn, OrderAt

-----------------------------------------------------------------------------
(* Steps that the users of the book do not see *)

(* Other calls leave the book and the transaction alone. *)
LEMMA OtherCallsUnseen ==
  ASSUME PriorityInv, UNCHANGED <<queue, bitmap, tx>>
  PROVE  Unseen /\ PriorityInv'
<1>1. queue' = queue /\ bitmap' = bitmap /\ tx' = tx
  OBVIOUS
<1>2. Unseen
  BY <1>1 DEF Unseen, RestingOrders, IncomingOrder
<1>3. OwnLevel' = OwnLevel /\ Crossing' = Crossing
  BY <1>1 DEF OwnLevel, Crossing, OpposingBits
<1>4. PriorityInv'
  BY <1>1, <1>3 DEF PriorityInv, BestCrossing
<1> QED BY <1>2, <1>4

(* Entering the best level that crosses. *)
LEMMA EnterLevelUnseen ==
  ASSUME Inv, PriorityInv, EnterLevel
  PROVE  Unseen /\ PriorityInv'
<1>1. /\ tx # Idle /\ tx \in Matching /\ queue' = queue /\ bitmap' = bitmap
  BY TxTypes DEF EnterLevel, Inv, BookInv, bookVars
<1>2. PICK q \in Prices :
        BestCrossing(q) /\ tx' = [tx EXCEPT !.pc = "level", !.makerPrice = q]
  BY DEF EnterLevel
<1>3. /\ tx'.market = tx.market /\ tx'.side = tx.side /\ tx'.price = tx.price
      /\ tx'.taker = tx.taker /\ tx'.left = tx.left /\ tx'.escrow = tx.escrow
      /\ tx'.index = tx.index /\ tx'.makerPrice = q /\ tx'.pc = "level" /\ tx' # Idle
  BY <1>1, <1>2 DEF Matching, Idle
<1>4. Unseen
  BY <1>1, <1>3 DEF Unseen, RestingOrders, IncomingOrder
<1>5. OwnLevel' = OwnLevel /\ Crossing' = Crossing
  BY <1>1, <1>3 DEF OwnLevel, Crossing, OpposingBits
<1>6. PriorityInv'
  BY <1>1, <1>2, <1>3, <1>5 DEF PriorityInv, BestCrossing
<1> QED BY <1>4, <1>6

(* Skipping a hole of a queue. *)
LEMMA SkipHoleUnseen ==
  ASSUME PriorityInv, SkipHole
  PROVE  Unseen /\ PriorityInv'
BY OtherCallsUnseen DEF SkipHole

(* Leaving a level. *)
LEMMA LeaveLevelUnseen ==
  ASSUME Inv, PriorityInv, LeaveLevel
  PROVE  Unseen /\ PriorityInv'
<1>1. /\ tx # Idle /\ tx \in Matching /\ queue' = queue
      /\ tx' = [tx EXCEPT !.pc = "match", !.makerPrice = 0]
  BY TxTypes DEF LeaveLevel, Inv, BookInv
<1>2. /\ tx'.market = tx.market /\ tx'.side = tx.side /\ tx'.price = tx.price
      /\ tx'.taker = tx.taker /\ tx'.left = tx.left /\ tx'.escrow = tx.escrow
      /\ tx'.index = tx.index /\ tx'.pc = "match" /\ tx' # Idle
  BY <1>1 DEF Matching, Idle
<1>3. Unseen
  BY <1>1, <1>2 DEF Unseen, RestingOrders, IncomingOrder
<1>4. OwnLevel' = OwnLevel
  BY <1>2 DEF OwnLevel
<1>5. PriorityInv'
  BY <1>1, <1>2, <1>4 DEF PriorityInv
<1> QED BY <1>3, <1>5

-----------------------------------------------------------------------------
(* An order arrives *)

(* An empty slot at the end of a queue adds no order. *)
LEMMA EmptySlotUnseen ==
  ASSUME queue \in [Levels -> Seq(Slot)], NEW l \in Levels,
         queue' = Put(queue, l, Append(queue[l], EmptySlot))
  PROVE  /\ OrdersIn(queue') = OrdersIn(queue)
         /\ Len(queue'[l]) = Len(queue[l]) + 1
<1> DEFINE q == Append(queue[l], EmptySlot)
<1>1. EmptySlot \in Slot /\ EmptySlot.shares = 0
  BY DEF EmptySlot, Slot
<1>2. /\ q \in Seq(Slot) /\ Len(q) = Len(queue[l]) + 1 /\ Len(queue[l]) \in Nat
      /\ q[Len(queue[l]) + 1] = EmptySlot
      /\ \A i \in 1..Len(queue[l]) : q[i] = queue[l][i]
  <2>1. queue[l] \in Seq(Slot)
    OBVIOUS
  <2> QED BY <1>1, <2>1
<1> HIDE DEF q
<1>3. /\ queue' \in [Levels -> Seq(Slot)] /\ queue'[l] = q
      /\ \A k \in Levels \ {l} : queue'[k] = queue[k]
  BY <1>2 DEF Put, q
<1>4. ASSUME NEW k \in Levels, NEW i
      PROVE  i \in 1..Len(queue'[k]) /\ queue'[k][i].shares > 0
               <=> i \in 1..Len(queue[k]) /\ queue[k][i].shares > 0
  <2>1. CASE k # l
    BY <1>3, <2>1
  <2>2. CASE k = l
    <3>1. ~(EmptySlot.shares > 0)
      BY <1>1
    <3>2. i \in 1..Len(q) <=> i \in 1..Len(queue[l]) \/ i = Len(queue[l]) + 1
      BY <1>2
    <3> QED BY <1>2, <1>3, <2>2, <3>1, <3>2
  <2> QED BY <2>1, <2>2
<1>5. ASSUME NEW k \in Levels, NEW i \in 1..Len(queue[k])
      PROVE  OrderAt(queue', k, i) = OrderAt(queue, k, i)
  <2>1. queue'[k][i] = queue[k][i]
    BY <1>2, <1>3
  <2> QED BY <2>1 DEF OrderAt
<1>6. ASSUME NEW r
      PROVE  r \in OrdersIn(queue') <=> r \in OrdersIn(queue)
  <2>1. r \in OrdersIn(queue) <=> \E k \in Levels : \E j \in 1..Len(queue[k]) :
          queue[k][j].shares > 0 /\ r = OrderAt(queue, k, j)
    BY OrdersMember
  <2>2. r \in OrdersIn(queue') <=> \E k \in Levels : \E j \in 1..Len(queue'[k]) :
          queue'[k][j].shares > 0 /\ r = OrderAt(queue', k, j)
    BY <1>3, OrdersMember
  <2> QED BY <1>4, <1>5, <2>1, <2>2
<1> QED BY <1>2, <1>3, <1>6

(* Placing an order that can be matched is an arrival. *)
LEMMA ExecuteArrives ==
  ASSUME Inv, NEW m \in Markets, NEW a \in Accounts, NEW s \in Sides,
         NEW p \in Prices, NEW n \in Nat \ {0}, NEW post, NEW charge, NEW prepaid,
         Execute(m, a, s, p, n, post, charge, prepaid)
  PROVE  PriceTime!Arrive /\ PriorityInv'
<1> DEFINE l == <<m, s, p>>
           x == Len(queue[l]) + 1
<1>1. /\ l \in Levels /\ queue \in [Levels -> Seq(Slot)]
      /\ tx = Idle
      /\ queue' = Put(queue, l, Append(queue[l], EmptySlot))
  BY DEF Execute, Put, Levels, Inv, TypeOK
<1>2. OrdersIn(queue') = OrdersIn(queue) /\ Len(queue'[l]) = x
  BY <1>1, EmptySlotUnseen
<1> HIDE DEF l, x
<1>3. tx' = [pc |-> "match", market |-> m, taker |-> a, side |-> s,
             price |-> p, size |-> n, left |-> n, index |-> x, post |-> post,
             escrow |-> 0, fee |-> 0, makerPrice |-> 0,
             charge |-> charge, prepaid |-> prepaid]
  BY DEF Execute, l, x
<1>4. /\ tx'.market = m /\ tx'.side = s /\ tx'.price = p /\ tx'.taker = a
      /\ tx'.left = n /\ tx'.escrow = 0 /\ tx'.pc = "match" /\ tx'.index = x
      /\ tx' # Idle
  BY <1>3 DEF Idle
<1>5. 0 \div Cent = 0
  BY PriceAssumption
<1>6. IncomingOrder' = [market |-> m, side |-> s, price |-> p, maker |-> a,
                        shares |-> n, paid |-> 0]
  BY <1>4, <1>5 DEF IncomingOrder
<1>7. IncomingOrder = [market |-> 0]
  BY <1>1 DEF IncomingOrder
<1>8. PriceTime!Arrive
  BY <1>2, <1>6, <1>7, RestingIsOrders
     DEF PriceTime!Arrive, PriceTime!None, PriceTime!Sides, PriceTime!Prices, Sides, Prices
<1>9. OwnLevel' = l
  BY <1>4 DEF OwnLevel, l
<1>10. PriorityInv'
  BY <1>2, <1>4, <1>9 DEF PriorityInv
<1> QED BY <1>8, <1>10

-----------------------------------------------------------------------------
(* An order is cancelled *)

(* Emptying the slot of a resting order removes that order. *)
LEMMA CancelOrderCancels ==
  ASSUME Inv, NEW l \in Levels, NEW i \in DOMAIN queue[l], CancelOrder(l, i)
  PROVE  /\ OrderAt(queue, l, i) \in RestingOrders
         /\ PriceTime!Cancel(OrderAt(queue, l, i))
         /\ PriorityInv'
<1> DEFINE s == [queue[l][i] EXCEPT !.shares = 0]
           r == OrderAt(queue, l, i)
<1>1. queue \in [Levels -> Seq(Slot)]
  BY DEF Inv, TypeOK
<1>2. queue[l] \in Seq(Slot) /\ i \in 1..Len(queue[l])
  BY <1>1
<1>3. queue[l][i] \in Slot /\ queue[l][i].shares > 0
  BY <1>2 DEF CancelOrder
<1>4. /\ tx = Idle /\ tx' = Idle
      /\ queue' = Put(queue, l, Put(queue[l], i, s))
  BY <1>1 DEF CancelOrder, Put
<1>5. s \in Slot /\ s.shares = 0
  BY <1>3 DEF Slot
<1> HIDE DEF s, r
<1>6. OrdersIn(queue') = OrdersIn(queue) \ {r}
  BY <1>1, <1>2, <1>4, <1>5, OrderReplaced DEF r
<1>7. r \in OrdersIn(queue)
  BY <1>1, <1>2, <1>3, OrdersMember DEF r
<1>8. IncomingOrder = [market |-> 0] /\ IncomingOrder' = [market |-> 0]
  BY <1>4 DEF IncomingOrder
<1>9. PriceTime!Cancel(r)
  BY <1>6, <1>7, <1>8, RestingIsOrders DEF PriceTime!Cancel, PriceTime!None
<1>10. PriorityInv'
  BY <1>4 DEF PriorityInv
<1> QED BY <1>7, <1>9, <1>10, RestingIsOrders DEF r

-----------------------------------------------------------------------------
(* What crosses the incoming order *)

(* A resting order crosses the incoming one from a level of the opposing     *)
(* side.  Its level has its bit, unless it is the one being matched at.      *)
LEMMA CrossingOrder ==
  ASSUME Inv, tx # Idle, NEW r \in RestingOrders, PriceTime!Crosses(r),
         NEW l \in Levels, NEW i \in 1..Len(queue[l]),
         queue[l][i].shares > 0, r = OrderAt(queue, l, i)
  PROVE  /\ l = <<tx.market, Opposite(tx.side), r.price>>
         /\ r.price \in Prices /\ r.arrival = i
         /\ r.price \in Crossing \/ (tx.pc = "level" /\ l = MakerLevel)
<1>1. /\ tx \in Matching /\ queue \in [Levels -> Seq(Slot)]
      /\ resting \in [Levels -> Nat]
  BY TxTypes DEF Inv, BookInv, BookTypes
<1>2. /\ IncomingOrder.market = tx.market /\ IncomingOrder.side = tx.side
      /\ IncomingOrder.price = tx.price
  BY DEF IncomingOrder
<1>3. r.market = l[1] /\ r.side = l[2] /\ r.price = l[3] /\ r.arrival = i
  BY DEF OrderAt
<1>4. r.market = tx.market /\ r.side = Opposite(tx.side) /\ r.price + tx.price >= Dollar
  BY <1>2 DEF PriceTime!Crosses, PriceTime!Other, Opposite
<1>5. l = <<tx.market, Opposite(tx.side), r.price>> /\ r.price \in Prices
  <2>1. l = <<l[1], l[2], l[3]>> /\ l[3] \in Prices
    BY DEF Levels
  <2> QED BY <1>3, <1>4, <2>1
<1>6. resting[l] > 0
  <2>1. queue[l] \in Seq(Slot) /\ resting[l] \in Nat
    BY <1>1
  <2>2. /\ Total(SlotShares(queue[l])) \in Nat
        /\ queue[l][i].shares <= Total(SlotShares(queue[l]))
    BY <2>1, SlotSharesType
  <2>3. resting[l] = Total(SlotShares(queue[l]))
    BY DEF Inv, BookInv, LevelTotals
  <2>4. queue[l][i].shares \in Nat
    <3>1. queue[l][i] \in Slot
      BY <2>1
    <3> QED BY <3>1 DEF Slot
  <2> QED BY <2>1, <2>2, <2>3, <2>4
<1>7. l[3] \in bitmap[<<l[1], l[2]>>] \/ (tx.pc = "level" /\ l = MakerLevel)
  BY <1>6 DEF Inv, BookInv, BitsExact
<1>8. r.price \in OpposingBits \/ (tx.pc = "level" /\ l = MakerLevel)
  BY <1>3, <1>5, <1>7 DEF OpposingBits
<1> QED BY <1>3, <1>4, <1>5, <1>8 DEF Crossing

-----------------------------------------------------------------------------
(* The incoming order is done *)

(* Nothing is left of it, or the rest of it joins those at its price. *)
LEMMA RestIsDone ==
  ASSUME Inv, PriorityInv, Rest
  PROVE  (PriceTime!Filled \/ PriceTime!ComeToRest) /\ PriorityInv'
<1> DEFINE l == OwnLevel
           i == tx.index
           s == [maker |-> tx.taker, shares |-> tx.left]
<1>1. /\ tx # Idle /\ tx.pc = "match" /\ tx \in Matching /\ tx' = Idle
      /\ l \in Levels /\ i \in 1..Len(queue[l]) /\ i = Len(queue[l])
      /\ queue[l][i].shares = 0
      /\ queue \in [Levels -> Seq(Slot)]
  BY TxTypes DEF Rest, Inv, BookInv, BookTypes, TransactionOK, PriorityInv
<1>2. /\ IncomingOrder.market = tx.market /\ IncomingOrder.side = tx.side
      /\ IncomingOrder.price = tx.price /\ IncomingOrder.maker = tx.taker
      /\ IncomingOrder.shares = tx.left
  BY <1>1 DEF IncomingOrder
<1>3. IncomingOrder # [market |-> 0]
  <2>1. tx.market # 0
    BY <1>1 DEF Matching, Markets
  <2>2. [market |-> 0].market = 0
    OBVIOUS
  <2> QED BY <1>2, <2>1, <2>2
<1>4. IncomingOrder' = [market |-> 0]
  BY <1>1 DEF IncomingOrder
<1>5. PriorityInv'
  BY <1>1 DEF PriorityInv
<1>6. tx.left \in Nat
  BY <1>1 DEF Matching
<1>7. CASE tx.left = 0
  <2>1. queue' = queue
    BY <1>7 DEF Rest
  <2>2. RestingOrders' = RestingOrders
    BY <2>1, RestingIsOrders
  <2> QED BY <1>2, <1>3, <1>4, <1>5, <1>7, <2>2 DEF PriceTime!Filled, PriceTime!None
<1>8. CASE tx.left # 0
  <2>1. queue' = Put(queue, l, Put(queue[l], i, s)) /\ Crossing = {}
    BY <1>1, <1>8 DEF Rest, Put
  <2>2. s \in Slot /\ s.shares = tx.left /\ tx.left > 0 /\ s.maker = tx.taker
    BY <1>1, <1>6, <1>8 DEF Matching, Slot
  <2>3. l[1] = tx.market /\ l[2] = tx.side /\ l[3] = tx.price
    BY DEF OwnLevel
  <2> HIDE DEF l, i, s
  <2> DEFINE r == OrderAt(queue', l, i)
  <2>4. queue'[l][i] = s
    BY <1>1, <2>1, <2>2, SlotReplaced
  <2>5. /\ r.market = tx.market /\ r.side = tx.side /\ r.price = tx.price
        /\ r.arrival = i /\ r.maker = tx.taker /\ r.shares = tx.left
    BY <2>2, <2>3, <2>4 DEF OrderAt
  <2>6. OrdersIn(queue') = (OrdersIn(queue) \ {OrderAt(queue, l, i)}) \cup {r}
    BY <1>1, <2>1, <2>2, OrderReplaced
  <2>7. OrderAt(queue, l, i) \notin OrdersIn(queue)
    <3>1. ASSUME NEW k \in Levels, NEW j \in 1..Len(queue[k]),
                 queue[k][j].shares > 0, OrderAt(queue, l, i) = OrderAt(queue, k, j)
          PROVE  FALSE
      <4>1. queue[l][i].shares = queue[k][j].shares
        BY <1>1, <3>1, OrderOfSlot
      <4> QED BY <1>1, <3>1, <4>1
    <3> QED BY <1>1, <3>1, OrdersMember
  <2> HIDE DEF r
  <2>8. RestingOrders' = RestingOrders \cup {r} /\ r \in RestingOrders'
    BY <2>6, <2>7, RestingIsOrders
  <2>9. ASSUME NEW q \in RestingOrders
        PROVE  \E k \in Levels : \E j \in 1..Len(queue[k]) :
                 queue[k][j].shares > 0 /\ q = OrderAt(queue, k, j)
    BY <1>1, OrdersMember, RestingIsOrders
  <2>10. ~ \E q \in RestingOrders : PriceTime!Crosses(q)
    <3> SUFFICES ASSUME NEW q \in RestingOrders, PriceTime!Crosses(q) PROVE FALSE
      OBVIOUS
    <3>1. PICK k \in Levels : \E j \in 1..Len(queue[k]) :
            queue[k][j].shares > 0 /\ q = OrderAt(queue, k, j)
      BY <2>9
    <3>2. PICK j \in 1..Len(queue[k]) : queue[k][j].shares > 0 /\ q = OrderAt(queue, k, j)
      BY <3>1
    <3>3. q.price \in Crossing \/ tx.pc = "level"
      BY <1>1, <3>2, CrossingOrder
    <3> QED BY <1>1, <2>1, <3>3
  <2>11. ASSUME NEW q \in RestingOrders, q.market = r.market, q.side = r.side,
                q.price = r.price
         PROVE  q.arrival < r.arrival
    <3>1. PICK k \in Levels : \E j \in 1..Len(queue[k]) :
            queue[k][j].shares > 0 /\ q = OrderAt(queue, k, j)
      BY <2>9
    <3>2. PICK j \in 1..Len(queue[k]) : queue[k][j].shares > 0 /\ q = OrderAt(queue, k, j)
      BY <3>1
    <3>3. q.market = k[1] /\ q.side = k[2] /\ q.price = k[3] /\ q.arrival = j
      BY <3>2 DEF OrderAt
    <3>4. k = l
      BY <1>1, <2>3, <2>5, <2>11, <3>3 DEF Levels
    <3>5. j # i
      BY <1>1, <3>2, <3>4
    <3>6. Len(queue[l]) \in Nat
      BY <1>1
    <3> QED BY <1>1, <2>5, <3>3, <3>4, <3>5, <3>6
  <2>12. PriceTime!ComeToRest
    BY <1>2, <1>3, <1>4, <2>2, <2>5, <2>8, <2>10, <2>11
       DEF PriceTime!ComeToRest, PriceTime!None
  <2> QED BY <1>5, <2>12
<1> QED BY <1>7, <1>8

-----------------------------------------------------------------------------
(* A fill is a trade with the best resting order *)

(* Whole multiples pass through a division. *)
LEMMA DivideShifted ==
  ASSUME NEW e \in Nat, NEW k \in Nat, NEW c \in Nat \ {0}
  PROVE  (e + k * c) \div c = e \div c + k
<1> DEFINE x == e + k * c
           q == e \div c
           r == e % c
           d == x \div c
           t == x % c
<1>1. k * c \in Nat
  BY ProductType
<1>2. x \in Nat
  BY <1>1
<1> HIDE DEF x
<1>3. q \in Nat /\ r \in Nat /\ r < c /\ e = c * q + r
  OBVIOUS
<1>4. d \in Nat /\ t \in Nat /\ t < c /\ x = c * d + t
  BY <1>2
<1> HIDE DEF q, r, d, t
<1>5. c * d + t = c * (q + k) + r
  <2>1. c * (q + k) = c * q + k * c
    BY <1>3
  <2>2. c * q \in Nat
    BY <1>3, ProductType
  <2>3. c * q + k * c + r = e + k * c
    BY <1>1, <1>3, <2>2
  <2> QED BY <1>1, <1>3, <1>4, <2>1, <2>2, <2>3 DEF x
<1>6. q + k \in Nat
  BY <1>3
<1>7. d = q + k
  <2>1. ASSUME NEW u \in Nat, NEW v \in Nat, NEW y \in Nat, NEW z \in Nat,
               y < c, z < c, c * u + y = c * v + z, u < v
        PROVE  FALSE
    <3>1. u + 1 <= v
      BY <2>1
    <3>2. c * (u + 1) <= c * v
      BY <3>1
    <3>3. c * (u + 1) = c * u + c
      OBVIOUS
    <3>4. c * u \in Nat /\ c * v \in Nat
      BY ProductType
    <3> QED BY <2>1, <3>2, <3>3, <3>4
  <2>2. ~(d < q + k)
    BY <1>3, <1>4, <1>5, <1>6, <2>1
  <2>3. ~(q + k < d)
    BY <1>3, <1>4, <1>5, <1>6, <2>1
  <2> QED BY <1>4, <1>6, <2>2, <2>3
<1> QED BY <1>7 DEF x, q, d

(* The next slot of the level being matched at holds the best resting order  *)
(* of all that cross: every other is at a lower price, or behind it.         *)
LEMMA NextSlotBest ==
  ASSUME Inv, PriorityInv, AtSlot, NextSlot.shares > 0
  PROVE  PriceTime!Best(OrderAt(queue, MakerLevel, NextIndex))
<1> DEFINE l == MakerLevel
           i == NextIndex
           r == OrderAt(queue, l, i)
<1>1. /\ tx # Idle /\ tx \in Matching /\ tx.pc = "level"
      /\ l \in Levels /\ i \in 1..Len(queue[l])
      /\ head[l] \in Nat /\ i = head[l] + 1
      /\ queue \in [Levels -> Seq(Slot)]
  BY AtSlotTypes DEF Inv, BookInv, BookTypes
<1>2. /\ l[1] = tx.market /\ l[2] = Opposite(tx.side) /\ l[3] = tx.makerPrice
      /\ l = <<tx.market, Opposite(tx.side), tx.makerPrice>>
      /\ tx.makerPrice \in Prices
  BY <1>1 DEF MakerLevel, Levels
<1>3. queue[l][i].shares > 0
  BY DEF NextSlot
<1>4. BestCrossing(tx.makerPrice)
  BY <1>1 DEF PriorityInv
<1>5. /\ IncomingOrder.market = tx.market /\ IncomingOrder.side = tx.side
      /\ IncomingOrder.price = tx.price
  BY <1>1 DEF IncomingOrder
<1> HIDE DEF l, i
<1>6. /\ r.market = tx.market /\ r.side = Opposite(tx.side) /\ r.price = tx.makerPrice
      /\ r.arrival = i
  BY <1>2 DEF OrderAt
<1>7. r \in RestingOrders
  BY <1>1, <1>3, OrdersMember, RestingIsOrders
<1>8. PriceTime!Crosses(r)
  BY <1>4, <1>5, <1>6 DEF PriceTime!Crosses, PriceTime!Other, Opposite, BestCrossing, Crossing
<1>9. ASSUME NEW q \in RestingOrders, PriceTime!Crosses(q), q # r
      PROVE  PriceTime!Before(r, q)
  <2>1. PICK k \in Levels : \E j \in 1..Len(queue[k]) :
          queue[k][j].shares > 0 /\ q = OrderAt(queue, k, j)
    BY <1>1, OrdersMember, RestingIsOrders
  <2>2. PICK j \in 1..Len(queue[k]) : queue[k][j].shares > 0 /\ q = OrderAt(queue, k, j)
    BY <2>1
  <2>3. /\ k = <<tx.market, Opposite(tx.side), q.price>>
        /\ q.price \in Prices /\ q.arrival = j
        /\ q.price \in Crossing \/ k = l
    BY <1>1, <1>9, <2>2, CrossingOrder DEF l
  <2>4. CASE k = l
    <3>1. q.price = r.price /\ j # i
      BY <1>2, <1>6, <1>9, <2>2, <2>3, <2>4
    <3>2. ~(queue[l][j].shares = 0)
      BY <2>2, <2>4
    <3>3. ~(j \in 1..head[l])
      BY <1>1, <3>2 DEF Inv, BookInv, HeadPassed
    <3>4. i < j
      BY <1>1, <2>4, <3>1, <3>3
    <3> QED BY <1>6, <2>3, <3>1, <3>4 DEF PriceTime!Before
  <2>5. CASE k # l
    <3>1. q.price \in Crossing /\ q.price # tx.makerPrice
      BY <1>2, <2>3, <2>5
    <3>2. q.price <= tx.makerPrice
      BY <1>4, <3>1 DEF BestCrossing
    <3>3. r.price > q.price
      BY <1>2, <1>6, <2>3, <3>1, <3>2, PriceAssumption DEF Prices
    <3> QED BY <3>3 DEF PriceTime!Before
  <2> QED BY <2>4, <2>5
<1> HIDE DEF r
<1>10. PriceTime!Best(r)
  BY <1>7, <1>8, <1>9 DEF PriceTime!Best
<1> QED BY <1>10 DEF r, l, i

(* A fill trades with it: as much as both have, at its price. *)
LEMMA FillTrades ==
  ASSUME Inv, PriorityInv, Fill
  PROVE  /\ OrderAt(queue, MakerLevel, NextIndex) \in RestingOrders
         /\ PriceTime!Trade(OrderAt(queue, MakerLevel, NextIndex))
         /\ PriorityInv'
<1> DEFINE n == Smaller(tx.left, NextSlot.shares)
           fee == TakerFee(n, ExecPrice)
           cost == Escrow(ExecPrice, n)
           l == MakerLevel
           i == NextIndex
           s == [NextSlot EXCEPT !.shares = @ - n]
           r == OrderAt(queue, l, i)
<1>1. /\ tx \in Matching /\ tx # Idle /\ tx.pc = "level"
      /\ l \in Levels /\ i \in 1..Len(queue[l]) /\ NextSlot \in Slot
      /\ OwnLevel \in Levels /\ l # OwnLevel
      /\ queue \in [Levels -> Seq(Slot)] /\ fees \in Fees
  BY AtSlotTypes DEF Fill, Inv, TypeOK
<1>2. n \in Nat /\ n <= tx.left /\ n <= NextSlot.shares /\ cost \in Nat
  BY <1>1, FillTypes DEF Fill, Inv
<1>3. /\ queue' = Put(queue, l, Put(queue[l], i, s))
      /\ bitmap' = bitmap
      /\ tx' = [tx EXCEPT !.left = @ - n, !.fee = @ + fee, !.escrow = @ + cost]
  BY <1>1 DEF Fill, Put, NextSlot
<1>4. NextSlot = queue[l][i] /\ NextSlot.shares > 0 /\ tx.left > 0
  BY DEF NextSlot, Fill, AtSlot
<1>5. n = (IF tx.left < NextSlot.shares THEN tx.left ELSE NextSlot.shares)
  BY DEF Smaller
<1>6. cost = ExecPrice * n * Cent /\ ExecPrice = Dollar - tx.makerPrice
  BY DEF Escrow, ExecPrice
<1>7. PriceTime!Best(r)
  BY <1>4, NextSlotBest DEF Fill
<1>8. l[3] = tx.makerPrice /\ tx.makerPrice \in Prices
  BY <1>1 DEF MakerLevel, Levels
<1> HIDE DEF n, fee, cost, l, i
<1>9. s \in Slot /\ s.shares = NextSlot.shares - n /\ s.maker = NextSlot.maker
      /\ NextSlot.shares \in Nat /\ tx.left \in Nat /\ tx.escrow \in Nat
  <2>1. NextSlot.shares \in Nat /\ tx.left \in Nat /\ tx.escrow \in Nat
    BY <1>1 DEF Slot, Matching
  <2>2. NextSlot.shares - n \in Nat
    BY <1>2, <2>1
  <2> QED BY <1>1, <2>1, <2>2 DEF Slot
<1> HIDE DEF s
<1>10. n > 0
  BY <1>4, <1>5, <1>9
<1>11. /\ \A k \in Levels : Len(queue'[k]) = Len(queue[k])
       /\ queue'[l][i] = s
  BY <1>1, <1>3, <1>9, SlotReplaced
<1>12. /\ tx'.market = tx.market /\ tx'.side = tx.side /\ tx'.price = tx.price
       /\ tx'.taker = tx.taker /\ tx'.index = tx.index /\ tx'.pc = tx.pc
       /\ tx'.makerPrice = tx.makerPrice /\ tx' # Idle
       /\ tx'.left = tx.left - n /\ tx'.escrow = tx.escrow + cost
  BY <1>1, <1>3 DEF Matching, Idle
<1>13. /\ r.shares = NextSlot.shares /\ r.price = tx.makerPrice
       /\ OrderAt(queue', l, i) = [r EXCEPT !.shares = @ - n]
  BY <1>4, <1>8, <1>9, <1>11 DEF OrderAt
<1>14. RestingOrders' = (RestingOrders \ {r}) \cup
         (IF n = r.shares THEN {} ELSE {[r EXCEPT !.shares = @ - n]})
  <2>1. CASE n = NextSlot.shares
    <3>1. s.shares = 0
      BY <1>2, <1>9, <2>1
    <3>2. OrdersIn(queue') = OrdersIn(queue) \ {r}
      BY <1>1, <1>3, <1>9, <3>1, OrderReplaced
    <3> QED BY <1>13, <2>1, <3>2, RestingIsOrders
  <2>2. CASE n # NextSlot.shares
    <3>1. s.shares > 0
      BY <1>2, <1>9, <2>2
    <3>2. OrdersIn(queue') = (OrdersIn(queue) \ {r}) \cup {OrderAt(queue', l, i)}
      BY <1>1, <1>3, <1>9, <3>1, OrderReplaced
    <3> QED BY <1>13, <2>2, <3>2, RestingIsOrders
  <2> QED BY <2>1, <2>2
<1>15. tx'.escrow \div Cent = (tx.escrow \div Cent) + n * (Dollar - r.price)
  <2>1. ExecPrice \in Nat
    BY <1>6, <1>8, PriceAssumption DEF Prices
  <2> DEFINE k == ExecPrice * n
  <2>2. k \in Nat /\ k = n * ExecPrice /\ cost = k * Cent
    BY <1>2, <1>6, <2>1, ProductType
  <2> HIDE DEF k
  <2>3. Cent \in Nat \ {0}
    BY PriceAssumption
  <2>4. (tx.escrow + k * Cent) \div Cent = tx.escrow \div Cent + k
    BY <1>9, <2>2, <2>3, DivideShifted
  <2> QED BY <1>6, <1>12, <1>13, <2>2, <2>4
<1>16. IncomingOrder = [market |-> tx.market, side |-> tx.side, price |-> tx.price,
                        maker |-> tx.taker, shares |-> tx.left, paid |-> tx.escrow \div Cent]
  BY <1>1 DEF IncomingOrder
<1>17. IncomingOrder' = [IncomingOrder EXCEPT !.shares = @ - n,
                                              !.paid = @ + n * (Dollar - r.price)]
  <2>1. IncomingOrder' = [market |-> tx.market, side |-> tx.side, price |-> tx.price,
                          maker |-> tx.taker, shares |-> tx.left - n,
                          paid |-> (tx.escrow \div Cent) + n * (Dollar - r.price)]
    BY <1>12, <1>15 DEF IncomingOrder
  <2> DEFINE x == tx.left - n
             y == (tx.escrow \div Cent) + n * (Dollar - r.price)
  <2>2. /\ IncomingOrder.shares - n = x
        /\ IncomingOrder.paid + n * (Dollar - r.price) = y
    BY <1>16
  <2>3. [IncomingOrder EXCEPT !.shares = @ - n, !.paid = @ + n * (Dollar - r.price)]
          = [IncomingOrder EXCEPT !.shares = x, !.paid = y]
    BY <2>2
  <2>4. IncomingOrder' = [market |-> tx.market, side |-> tx.side, price |-> tx.price,
                          maker |-> tx.taker, shares |-> x, paid |-> y]
    BY <2>1
  <2> HIDE DEF x, y
  <2>5. IncomingOrder' = [IncomingOrder EXCEPT !.shares = x, !.paid = y]
    <3> DEFINE q == [market |-> tx.market, side |-> tx.side, price |-> tx.price,
                     maker |-> tx.taker, shares |-> x, paid |-> tx.escrow \div Cent]
    <3>1. [IncomingOrder EXCEPT !.shares = x] = q
      BY <1>16
    <3>2. [q EXCEPT !.paid = y] = [market |-> tx.market, side |-> tx.side, price |-> tx.price,
                                   maker |-> tx.taker, shares |-> x, paid |-> y]
      OBVIOUS
    <3>3. [IncomingOrder EXCEPT !.shares = x, !.paid = y]
            = [[IncomingOrder EXCEPT !.shares = x] EXCEPT !.paid = y]
      BY <1>16
    <3> QED BY <2>4, <3>1, <3>2, <3>3
  <2> QED BY <2>3, <2>5
<1>18. IncomingOrder # [market |-> 0] /\ IncomingOrder.shares = tx.left
  <2>1. IncomingOrder.market = tx.market /\ tx.market # 0
    BY <1>1, <1>16 DEF Matching, Markets
  <2>2. [market |-> 0].market = 0
    OBVIOUS
  <2> QED BY <1>16, <2>1, <2>2
<1>19. n = (IF IncomingOrder.shares < r.shares THEN IncomingOrder.shares ELSE r.shares)
  BY <1>5, <1>13, <1>18
<1>20. r \in RestingOrders
  BY <1>7 DEF PriceTime!Best
<1> HIDE DEF r
<1>21. PriceTime!Trade(r)
  BY <1>7, <1>10, <1>14, <1>17, <1>18, <1>19
     DEF PriceTime!Trade, PriceTime!PaidFor, PriceTime!None
<1>22. PriorityInv'
  <2>1. OwnLevel' = OwnLevel /\ Crossing' = Crossing
    BY <1>3, <1>12 DEF OwnLevel, Crossing, OpposingBits
  <2>2. Len(queue'[OwnLevel]) = Len(queue[OwnLevel])
    BY <1>1, <1>11
  <2> QED BY <1>1, <1>12, <2>1, <2>2 DEF PriorityInv, BestCrossing
<1> QED BY <1>20, <1>21, <1>22 DEF r, l, i

-----------------------------------------------------------------------------
(* The refinement *)

\* A step as the users of the book see it: one of PriceTimeBook, or none.
SeenStep == [PriceTime!Next]_<<RestingOrders, IncomingOrder>>

(* Nothing rests and nothing arrives at first. *)
LEMMA InitSeen == Init => PriceTime!Init /\ PriorityInv
<1> SUFFICES ASSUME Init PROVE PriceTime!Init /\ PriorityInv
  OBVIOUS
<1>1. tx = Idle /\ queue = [l \in Levels |-> << >>]
  BY DEF Init
<1>2. queue \in [Levels -> Seq(Slot)] /\ \A l \in Levels : Len(queue[l]) = 0
  <2>1. \A q : q = << >> => q \in Seq(Slot) /\ Len(q) = 0
    OBVIOUS
  <2> QED BY <1>1, <2>1
<1>3. ASSUME NEW r PROVE r \notin RestingOrders
  <2>1. r \in OrdersIn(queue) <=> \E l \in Levels : \E i \in 1..Len(queue[l]) :
          queue[l][i].shares > 0 /\ r = OrderAt(queue, l, i)
    BY <1>2, OrdersMember
  <2>2. \A l \in Levels : 1..Len(queue[l]) = {}
    BY <1>2
  <2> QED BY <2>1, <2>2, RestingIsOrders
<1>4. RestingOrders = {} /\ IncomingOrder = [market |-> 0]
  BY <1>1, <1>3 DEF IncomingOrder
<1>5. PriorityInv
  BY <1>1 DEF PriorityInv
<1> QED BY <1>4, <1>5 DEF PriceTime!Init, PriceTime!None

(* Every step of the contract is a step of the abstract book or unseen. *)
LEMMA NextSeen == Inv /\ PriorityInv /\ [Next]_vars => SeenStep /\ PriorityInv'
<1> SUFFICES ASSUME Inv, PriorityInv, [Next]_vars PROVE SeenStep /\ PriorityInv'
  OBVIOUS
<1>1. ASSUME Unseen PROVE SeenStep
  BY <1>1 DEF Unseen, SeenStep
<1>2. ASSUME PriceTime!Arrive PROVE SeenStep
  BY <1>2 DEF SeenStep, PriceTime!Next
<1>3. CASE UNCHANGED <<queue, bitmap, tx>>
  BY <1>1, <1>3, OtherCallsUnseen
<1>4. CASE MatchingStep
  <2>1. CASE EnterLevel \/ SkipHole \/ LeaveLevel
    BY <1>1, <2>1, EnterLevelUnseen, SkipHoleUnseen, LeaveLevelUnseen
  <2>2. CASE Fill
    BY <2>2, FillTrades DEF SeenStep, PriceTime!Next
  <2>3. CASE FinishDirect \/ FinishSigned \/ FinishCreation
    <3>1. Rest
      BY <2>3 DEF FinishDirect, FinishSigned, FinishCreation
    <3> QED BY <3>1, RestIsDone DEF SeenStep, PriceTime!Next
  <2> QED BY <1>4, <2>1, <2>2, <2>3 DEF MatchingStep
<1>5. \A o \in SignedOrders : /\ o.maker \in Accounts /\ o.side \in Sides
                              /\ o.price \in Prices /\ o.shares \in Nat \ {0}
  BY OrdersAssumption DEF SignedOrder
<1>6. CASE CreateStep
  <2>1. ASSUME NEW a \in Accounts, NEW s \in Sides, NEW p \in Prices, NEW n \in Sizes,
               CreateMarketDirect(a, s, p, n)
        PROVE  PriceTime!Arrive /\ PriorityInv'
    <3>1. PICK m \in Markets : Execute(m, a, s, p, n, NoPost, "prepaid", Escrow(p, n))
      BY <2>1 DEF CreateMarketDirect
    <3> QED BY <3>1, ExecuteArrives, OrdersAssumption
  <2>2. ASSUME NEW o \in SignedOrders, CreateMarket(o)
        PROVE  PriceTime!Arrive /\ PriorityInv'
    <3>1. PICK m \in Markets : Execute(m, o.maker, o.side, o.price, o.shares, NoPost,
                                       "prepaid", Escrow(o.price, o.shares))
      BY <2>2 DEF CreateMarket
    <3> QED BY <1>5, <3>1, ExecuteArrives
  <2> QED BY <1>2, <1>6, <2>1, <2>2 DEF CreateStep
<1>7. CASE TradeStep
  <2>1. ASSUME NEW a \in Accounts, NEW m \in Markets, NEW s \in Sides, NEW p \in Prices,
               NEW n \in Sizes, NEW post \in Posts \cup {NoPost},
               PlaceOrder(a, m, s, p, n, post)
        PROVE  PriceTime!Arrive /\ PriorityInv'
    BY <2>1, ExecuteArrives, OrdersAssumption DEF PlaceOrder
  <2>2. ASSUME NEW o \in SignedOrders, PlaceSignedOrder(o)
        PROVE  PriceTime!Arrive /\ PriorityInv'
    <3>1. o.market \in Markets
      BY <2>2 DEF PlaceSignedOrder, Acceptable
    <3> QED BY <1>5, <2>2, <3>1, ExecuteArrives DEF PlaceSignedOrder
  <2>3. ASSUME NEW o \in SignedOrders, RejectUnfunded(o)
        PROVE  Unseen /\ PriorityInv'
    BY <2>3, OtherCallsUnseen DEF RejectUnfunded, bookVars
  <2>4. ASSUME NEW l \in Levels, NEW i \in DOMAIN queue[l], CancelOrder(l, i)
        PROVE  SeenStep /\ PriorityInv'
    BY <2>4, CancelOrderCancels DEF SeenStep, PriceTime!Next
  <2> QED BY <1>1, <1>2, <1>7, <2>1, <2>2, <2>3, <2>4 DEF TradeStep
<1>8. ResolveStep => UNCHANGED <<queue, bitmap, tx>>
  BY DEF ResolveStep, SettleMarket, UpdateOracle, VoidMarket, SetMarketExpiry, ExpireMarket,
     bookVars
<1>9. PayoutStep => UNCHANGED <<queue, bitmap, tx>>
  BY DEF PayoutStep, Redeem, Withdraw, ClaimCreatorFees, ClaimAffiliateFees,
     WithdrawProtocolFees, bookVars
<1>10. AdminStep \/ Tick => UNCHANGED <<queue, bitmap, tx>>
  BY DEF AdminStep, RegisterAffiliatePost, SetFees, Tick, bookVars
<1>11. UNCHANGED vars => UNCHANGED <<queue, bitmap, tx>>
  BY DEF vars, bookVars
<1> QED BY <1>3, <1>4, <1>6, <1>7, <1>8, <1>9, <1>10, <1>11 DEF Next

(* Matching on chain is price-time priority: whatever the sequence of calls, *)
(* the book trades the incoming order with the best resting order that       *)
(* crosses it, at that order's price, and lets it come to rest only when     *)
(* none does (_executeOrder, _fillAtLevel, cancelOrder).                     *)
THEOREM PriceTimeRefined == Spec => PriceTimePriority
<1>1. Init => PriceTime!Init /\ PriorityInv
  BY InitSeen
<1>2. Inv /\ PriorityInv /\ [Next]_vars => SeenStep /\ PriorityInv'
  BY NextSeen
<1>3. Spec => []Inv
  BY Invariance
<1>4. PriceTimePriority <=>
        PriceTime!Init /\ [][PriceTime!Next]_<<RestingOrders, IncomingOrder>>
  BY DEF PriceTimePriority, PriceTime!Spec
<1>5. Spec => PriceTime!Init /\ [][PriceTime!Next]_<<RestingOrders, IncomingOrder>>
  BY <1>1, <1>2, <1>3, PTL DEF Spec, SeenStep
<1> QED BY <1>4, <1>5

-----------------------------------------------------------------------------
(* Arithmetic of escrows and fees *)

(* A product distributes over a sum. *)
LEMMA Distribute == \A x, y, z \in Int : x * (y + z) = x * y + x * z
OBVIOUS

(* A positive factor cancels from an inequality. *)
LEMMA ProductsCancel == \A x, y \in Nat, z \in Nat \ {0} : z * x <= z * y => x <= y
OBVIOUS

(* The escrow of two sizes is the escrow of both. *)
LEMMA EscrowSum ==
  ASSUME NEW p \in Nat, NEW n \in Nat, NEW k \in Nat
  PROVE  Escrow(p, n + k) = Escrow(p, n) + Escrow(p, k)
<1>1. p * (n + k) = p * n + p * k
  OBVIOUS
<1>2. p * n \in Nat /\ p * k \in Nat /\ Cent \in Nat
  BY PriceAssumption
<1>3. (p * n + p * k) * Cent = p * n * Cent + p * k * Cent
  BY <1>2
<1> QED BY <1>1, <1>3 DEF Escrow

(* Rounding a quotient up adds less than one. *)
LEMMA CeilDivBound ==
  ASSUME NEW x \in Nat, NEW d \in Nat \ {0}
  PROVE  d * CeilDiv(x, d) <= x + d /\ x <= d * CeilDiv(x, d)
<1> DEFINE y == x + d - 1
<1>1. y \in Nat
  OBVIOUS
<1>2. y \div d \in Int /\ y = d * (y \div d) + (y % d) /\ y % d \in 0..(d - 1)
  BY <1>1
<1>3. d * (y \div d) \in Int
  BY <1>2
<1> QED BY <1>2, <1>3 DEF CeilDiv

(* A lower price with the fee at it costs no more, as long as the fee's rate *)
(* is at most the whole: t * p * (D - p) grows slower than B * D * p.        *)
LEMMA Improvement ==
  ASSUME NEW B \in Nat, NEW D \in Nat, NEW t \in Nat, NEW p \in Nat, NEW e \in Nat,
         t <= B, e <= p, p <= D
  PROVE  B * D * e + t * e * (D - e) <= B * D * p + t * p * (D - p)
OBVIOUS

\* The denominator of _takerFee, and its numerator for n shares at price p.
Scale == Bps * Dollar * Dollar
RawFee(n, p) == fees.taker * n * p * (Dollar - p) * Unit

(* The fee is its numerator divided by its denominator, rounded up.          *)
LEMMA RawFeeTypes ==
  ASSUME fees \in Fees, NEW n \in Nat, NEW p \in Prices
  PROVE  /\ RawFee(n, p) \in Nat /\ Scale \in Nat \ {0}
         /\ TakerFee(n, p) = CeilDiv(RawFee(n, p), Scale)
<1>1. /\ Dollar \in Nat \ {0} /\ Cent \in Nat \ {0} /\ Bps \in Nat \ {0}
      /\ fees.taker \in Nat /\ p \in Nat /\ Dollar - p \in Nat
  BY PriceAssumption, FeeAssumption DEF Fees, Prices
<1>2. Unit \in Nat /\ fees.taker * n \in Nat
  BY <1>1 DEF Unit
<1>3. fees.taker * n * p \in Nat
  BY <1>1, <1>2, ProductType
<1>4. fees.taker * n * p * (Dollar - p) \in Nat
  BY <1>1, <1>3, ProductType
<1>5. fees.taker * n * p * (Dollar - p) * Unit \in Nat
  BY <1>2, <1>4, ProductType
<1>6. Scale \in Nat \ {0}
  <2>1. Bps * Dollar \in Nat \ {0}
    BY <1>1
  <2> QED BY <1>1, <2>1 DEF Scale
<1> QED BY <1>5, <1>6 DEF RawFee, TakerFee, Scale

(* Before rounding, the fee of two sizes is the fee of both.                 *)
LEMMA RawFeeSum ==
  ASSUME fees \in Fees, NEW n \in Nat, NEW k \in Nat, NEW p \in Prices
  PROVE  RawFee(n + k, p) = RawFee(n, p) + RawFee(k, p)
<1> DEFINE y == p * (Dollar - p) * Unit
<1>1. /\ Dollar \in Nat \ {0} /\ Cent \in Nat \ {0}
      /\ fees.taker \in Nat /\ p \in Nat /\ Dollar - p \in Nat /\ Unit \in Nat
  BY PriceAssumption, ProductType DEF Fees, Prices, Unit
<1>2. y \in Nat
  BY <1>1, ProductType
<1>3. ASSUME NEW x \in Nat PROVE RawFee(x, p) = fees.taker * x * y
  <2> DEFINE t == fees.taker
             r == Dollar - p
  <2>1. t \in Nat /\ r \in Nat
    BY <1>1
  <2> HIDE DEF t, r
  <2>2. t * x * p * r * Unit = t * x * (p * r * Unit)
    BY <1>1, <2>1
  <2> QED BY <2>2 DEF RawFee, t, r
<1> HIDE DEF y
<1>4. fees.taker * (n + k) * y = fees.taker * n * y + fees.taker * k * y
  BY <1>1, <1>2
<1>5. n + k \in Nat
  OBVIOUS
<1> QED BY <1>3, <1>4, <1>5

(* A fill never costs more than its size at the order's own price, the fee   *)
(* of that, and one unit a share for rounding: the marginal cost of a share  *)
(* grows with its price as long as the fee is at most the whole price.       *)
LEMMA FillCost ==
  ASSUME fees \in Fees, NEW n \in Nat \ {0}, NEW p \in Prices, NEW e \in Prices, e <= p
  PROVE  Scale * (Escrow(e, n) + TakerFee(n, e))
           <= Scale * Escrow(p, n) + RawFee(n, p) + Scale * n
<1> DEFINE t == fees.taker
           c == n * Cent
           u == n * Cent * Dollar
<1>1. /\ Dollar \in Nat \ {0} /\ Cent \in Nat \ {0} /\ Bps \in Nat \ {0}
      /\ t \in Nat /\ t <= Bps
      /\ p \in Nat /\ p <= Dollar /\ e \in Nat /\ e <= Dollar
  BY PriceAssumption, FeeAssumption DEF Fees, Prices
<1>2. c \in Nat /\ u \in Nat
  BY <1>1, ProductType
<1> HIDE DEF t
<1>3. ASSUME NEW x \in Nat, x <= Dollar
      PROVE  Scale * Escrow(x, n) + t * n * x * (Dollar - x) * Unit
               = u * (Bps * Dollar * x + t * x * (Dollar - x))
  <2> DEFINE r == Dollar - x
  <2>1. r \in Nat
    BY <1>1, <1>3
  <2> HIDE DEF r
  <2>2. Scale * Escrow(x, n) = u * (Bps * Dollar * x)
    BY <1>1 DEF Scale, Escrow
  <2>3. t * n * x * r * Unit = u * (t * x * r)
    BY <1>1, <2>1 DEF Unit
  <2>4. Bps * Dollar * x \in Nat /\ t * x * r \in Nat
    BY <1>1, <2>1, ProductType
  <2> HIDE DEF u
  <2>5. u * (Bps * Dollar * x + t * x * r) = u * (Bps * Dollar * x) + u * (t * x * r)
    BY <1>2, <2>4, Distribute
  <2> QED BY <2>2, <2>3, <2>5 DEF r
<1>4. Bps * Dollar * e + t * e * (Dollar - e) <= Bps * Dollar * p + t * p * (Dollar - p)
  BY <1>1, Improvement
<1>5. Scale * Escrow(e, n) + RawFee(n, e) <= Scale * Escrow(p, n) + RawFee(n, p)
  <2> DEFINE x == Bps * Dollar * e + t * e * (Dollar - e)
             y == Bps * Dollar * p + t * p * (Dollar - p)
  <2>1. x \in Nat /\ y \in Nat
    <3>1. Dollar - e \in Nat /\ Dollar - p \in Nat
      BY <1>1
    <3>2. /\ Bps * Dollar * e \in Nat /\ t * e * (Dollar - e) \in Nat
          /\ Bps * Dollar * p \in Nat /\ t * p * (Dollar - p) \in Nat
      BY <1>1, <3>1, ProductType
    <3> QED BY <3>2
  <2>2. x <= y
    BY <1>4
  <2> HIDE DEF x, y, u
  <2>3. u * x <= u * y
    BY <1>2, <2>1, <2>2
  <2> QED BY <1>1, <1>3, <2>3 DEF RawFee, x, y, t
<1>6. /\ RawFee(n, e) \in Nat /\ RawFee(n, p) \in Nat /\ Scale \in Nat \ {0}
      /\ TakerFee(n, e) = CeilDiv(RawFee(n, e), Scale)
  BY RawFeeTypes
<1>7. Scale * TakerFee(n, e) <= RawFee(n, e) + Scale
  BY <1>6, CeilDivBound
<1>8. Escrow(e, n) \in Nat /\ Escrow(p, n) \in Nat /\ TakerFee(n, e) \in Nat
  BY <1>1, EscrowType, TakerFeeType
<1> DEFINE K == Scale
           E == Escrow(e, n)
           F == TakerFee(n, e)
           P == Escrow(p, n)
<1>9. K * (E + F) = K * E + K * F /\ K <= K * n
  <2>1. K \in Nat /\ E \in Nat /\ F \in Nat
    BY <1>6, <1>8
  <2> HIDE DEF K, E, F
  <2> QED BY <2>1
<1>10. K * E \in Nat /\ K * F \in Nat /\ K * P \in Nat /\ K * n \in Nat
  BY <1>6, <1>8, ProductType
<1> QED BY <1>5, <1>6, <1>7, <1>9, <1>10

(* The price checked before an order is matched covers the bound on what its *)
(* fills cost, once the order is done.                                       *)
LEMMA WorstCaseCovers ==
  ASSUME fees \in Fees, NEW p \in Prices, NEW n \in Nat, NEW k \in Nat, NEW cost \in Nat,
         Scale * cost <= Scale * Escrow(p, k) + RawFee(k, p) + Scale * k
  PROVE  cost + Escrow(p, n) <= WorstCaseCost(p, n + k)
<1>1. /\ RawFee(n, p) \in Nat /\ RawFee(k, p) \in Nat /\ RawFee(n + k, p) \in Nat
      /\ Scale \in Nat \ {0}
      /\ TakerFee(n + k, p) = CeilDiv(RawFee(n + k, p), Scale)
      /\ TakerFee(n + k, p) \in Nat
      /\ RawFee(n + k, p) = RawFee(n, p) + RawFee(k, p)
  <2>1. n + k \in Nat
    OBVIOUS
  <2> QED BY <2>1, RawFeeTypes, RawFeeSum, TakerFeeType
<1>2. RawFee(n + k, p) <= Scale * TakerFee(n + k, p)
  BY <1>1, CeilDivBound
<1>3. /\ Escrow(p, n) \in Nat /\ Escrow(p, k) \in Nat
      /\ Escrow(p, n + k) = Escrow(p, n) + Escrow(p, k)
  <2>1. p \in Nat
    BY DEF Prices
  <2> QED BY <2>1, EscrowType, EscrowSum
<1> DEFINE K == Scale
           E == Escrow(p, n)
           P == Escrow(p, k)
           F == TakerFee(n + k, p)
<1>4. /\ K \in Nat \ {0} /\ E \in Nat /\ P \in Nat /\ F \in Nat
      /\ K * cost <= K * P + RawFee(k, p) + K * k /\ RawFee(k, p) <= K * F
      /\ RawFee(k, p) \in Nat
  <2>1. K * F \in Nat
    BY <1>1, ProductType
  <2> QED BY <1>1, <1>2, <1>3, <2>1
<1> HIDE DEF K, E, P, F
<1>5. K * (cost + E) <= K * (E + P + F + (n + k))
  <2>1. /\ K * cost \in Nat /\ K * P \in Nat /\ K * F \in Nat /\ K * k \in Nat
        /\ K * E \in Nat /\ K * n \in Nat
    BY <1>4, ProductType
  <2>2. K * (cost + E) = K * cost + K * E
    BY <1>4
  <2>3. K * (E + P + F + (n + k)) = K * E + K * P + K * F + (K * n + K * k)
    BY <1>4
  <2> QED BY <1>4, <2>1, <2>2, <2>3
<1>6. cost + E <= E + P + F + (n + k)
  BY <1>4, <1>5, ProductsCancel
<1> QED BY <1>3, <1>6 DEF WorstCaseCost, E, P, F

-----------------------------------------------------------------------------
(* The inductive invariant *)

\* What account a's positions in market m are worth once it is resolved in the
\* way kind says: void, 50/50, or for one of its sides.
Kinds == {"basis", "half"} \cup Sides

Worth(m, a, kind) ==
  LET yes == position[<<m, "YES", a>>]
      no == position[<<m, "NO", a>>]
  IN  IF kind = "basis" THEN yes.costBasis + no.costBasis
      ELSE IF kind = "half" THEN ((yes.shares + no.shares) * Unit) \div 2
      ELSE position[<<m, kind, a>>].shares * Unit

Worths(m, kind) == Total([a \in Accounts |-> Worth(m, a, kind)])

KindOf(m) ==
  IF market[m].status # "SETTLED" THEN "basis"
  ELSE IF market[m].fiftyFifty THEN "half" ELSE WinningSide(m)

\* However an unresolved market is resolved, its positions are worth its volume.
Backed ==
  \A m \in Markets :
    market[m].status \notin Terminal =>
      \A kind \in Kinds : Worths(m, kind) = market[m].volume

MoneyTypes ==
  balance \in Nat /\ protocolFees \in Nat /\ freeBalance \in [Accounts -> Nat]

\* What rests belongs to an account, which a cancellation can refund.
SlotsOwned ==
  \A l \in Levels : \A i \in 1..Len(queue[l]) :
    queue[l][i].shares > 0 => queue[l][i].maker \in Accounts

\* Nothing rests in a market that does not exist yet.
UnusedEmpty ==
  \A m \in Markets, s \in Sides : market[m].status = "NONE" => bitmap[<<m, s>>] = {}

\* The order being matched belongs to an unresolved market and has paid, for
\* what is filled of it, no more than its own price asks.
Matched == tx.size - tx.left

CostBounded ==
  /\ tx.left <= tx.size
  /\ tx.pc = "level" => Dollar - tx.makerPrice <= tx.price
  /\ Scale * (tx.escrow + tx.fee)
       <= Scale * Escrow(tx.price, Matched) + RawFee(Matched, tx.price) + Scale * Matched

\* An opening order meets an empty book; a signed order's maker can pay.
ChargeOK ==
  tx # Idle =>
    /\ market[tx.market].status \in Trades
    /\ CostBounded
    /\ tx.charge = "prepaid" =>
         /\ tx.pc = "match" /\ tx.left = tx.size /\ tx.escrow = 0 /\ tx.fee = 0
         /\ tx.prepaid = Escrow(tx.price, tx.size) /\ OpposingBits = {}
    /\ tx.charge # "prepaid" => tx.prepaid = 0
    /\ tx.charge = "free" => WorstCaseCost(tx.price, tx.size) <= freeBalance[tx.taker]

MoneyInv ==
  /\ MoneyTypes /\ SlotsOwned /\ UnusedEmpty /\ ChargeOK
  /\ Backed /\ FullyCollateralized /\ Solvent

-----------------------------------------------------------------------------
(* Types of the sums *)

(* The sets the sums range over are finite. *)
LEMMA SetsFinite ==
  /\ IsFiniteSet(Markets) /\ IsFiniteSet(Sides) /\ IsFiniteSet(Prices)
  /\ IsFiniteSet(Levels) /\ IsFiniteSet(Accounts) /\ IsFiniteSet(Posts)
  /\ IsFiniteSet(Markets \X Accounts)
<1>1. IsFiniteSet(Markets) /\ IsFiniteSet(Prices)
  BY FS_Interval, BoundsAssumption, PriceAssumption DEF Markets, Prices
<1>2. IsFiniteSet(Sides)
  <2>1. IsFiniteSet({"YES"}) /\ IsFiniteSet({"NO"})
    BY FS_Singleton
  <2>2. Sides = {"YES"} \cup {"NO"}
    BY DEF Sides
  <2> QED BY <2>1, <2>2, FS_Union
<1>3. IsFiniteSet(Levels)
  <2> DEFINE pairs == (Markets \X Sides) \X Prices
             h == [k \in pairs |-> <<k[1][1], k[1][2], k[2]>>]
  <2>1. IsFiniteSet(pairs)
    BY <1>1, <1>2, FS_Product
  <2>2. h \in Surjection(pairs, Levels)
    <3>1. \A k \in pairs : h[k] \in Levels
      BY DEF Levels
    <3>2. ASSUME NEW l \in Levels PROVE \E k \in pairs : h[k] = l
      <4>1. l[1] \in Markets /\ l[2] \in Sides /\ l[3] \in Prices /\ l = <<l[1], l[2], l[3]>>
        BY DEF Levels
      <4>2. << <<l[1], l[2]>>, l[3] >> \in pairs
        BY <4>1
      <4>3. h[<< <<l[1], l[2]>>, l[3] >>] = l
        BY <4>1, <4>2
      <4> QED BY <4>2, <4>3
    <3> QED BY <3>1, <3>2 DEF Surjection
  <2> HIDE DEF pairs, h
  <2> QED BY <2>1, <2>2, FS_Surjection
<1> QED BY <1>1, <1>2, <1>3, FS_Product, PartiesAssumption

(* Amounts of a position, of a side of it, and of what it is worth. *)
LEMMA WorthTypes ==
  ASSUME TypeOK, NEW m \in Markets
  PROVE  /\ \A a \in Accounts, kind \in Kinds : Worth(m, a, kind) \in Nat
         /\ \A a \in Accounts, s \in Sides :
              /\ position[<<m, s, a>>] \in Position
              /\ position[<<m, s, a>>].shares \in Nat
              /\ position[<<m, s, a>>].costBasis \in Nat
<1>1. ASSUME NEW a \in Accounts, NEW s \in Sides
      PROVE  /\ position[<<m, s, a>>] \in Position
             /\ position[<<m, s, a>>].shares \in Nat
             /\ position[<<m, s, a>>].costBasis \in Nat
  <2>1. position[<<m, s, a>>] \in Position
    BY DEF TypeOK, Holdings
  <2> QED BY <2>1 DEF Position
<1>2. ASSUME NEW a \in Accounts, NEW kind \in Kinds PROVE Worth(m, a, kind) \in Nat
  <2> DEFINE yes == position[<<m, "YES", a>>]
             no == position[<<m, "NO", a>>]
             won == position[<<m, kind, a>>]
  <2>1. /\ yes.shares \in Nat /\ yes.costBasis \in Nat
        /\ no.shares \in Nat /\ no.costBasis \in Nat
        /\ kind \notin {"basis", "half"} => won.shares \in Nat
    BY <1>1 DEF Sides, Kinds
  <2>2. Unit \in Nat
    BY PriceAssumption, ProductType DEF Unit
  <2>3. /\ (yes.shares + no.shares) * Unit \in Nat
        /\ kind \notin {"basis", "half"} => won.shares * Unit \in Nat
    <3>1. yes.shares + no.shares \in Nat
      BY <2>1
    <3> QED BY <2>1, <2>2, <3>1, ProductType
  <2> HIDE DEF yes, no, won
  <2>4. ((yes.shares + no.shares) * Unit) \div 2 \in Nat
    BY <2>3
  <2>5. CASE kind = "basis"
    BY <2>1, <2>5 DEF Worth, yes, no
  <2>6. CASE kind = "half"
    BY <2>4, <2>6 DEF Worth, yes, no
  <2>7. CASE kind \notin {"basis", "half"}
    BY <2>3, <2>7 DEF Worth, won
  <2> QED BY <2>5, <2>6, <2>7
<1> QED BY <1>1, <1>2

(* What redeem pays is the worth of the kind the market was resolved to. *)
LEMMA ClaimWorth ==
  ASSUME NEW m \in Markets
  PROVE  /\ KindOf(m) \in Kinds
         /\ \A a \in Accounts : Claim(m, a) = Worth(m, a, KindOf(m))
<1>1. WinningSide(m) \in Sides /\ WinningSide(m) \notin {"basis", "half"}
  BY DEF WinningSide, Sides
<1> QED BY <1>1 DEF KindOf, Kinds, Claim, Worth

\* The sums of the ledger, in functions of the sets they range over.
ClaimTable == [k \in Markets \X Accounts |-> Claim(k[1], k[2])]
EscrowTable == [l \in Levels |-> Escrow(l[3], resting[l])]
CreatorTable == [m \in Markets |-> market[m].creatorFees]

(* Every sum of the ledger is a natural number. *)
LEMMA LedgerTypes ==
  ASSUME TypeOK
  PROVE  /\ ClaimTable \in [Markets \X Accounts -> Nat] /\ Claims \in Nat
         /\ EscrowTable \in [Levels -> Nat] /\ RestingEscrow \in Nat
         /\ CreatorTable \in [Markets -> Nat] /\ Total(CreatorTable) \in Nat
         /\ Total(affiliateFees) \in Nat
         /\ freeBalance \in [Accounts -> Nat] => Total(freeBalance) \in Nat
<1>1. ClaimTable \in [Markets \X Accounts -> Nat]
  <2>1. \A k \in Markets \X Accounts : Claim(k[1], k[2]) \in Nat
    BY ClaimType
  <2> QED BY <2>1 DEF ClaimTable
<1>2. EscrowTable \in [Levels -> Nat]
  <2>1. ASSUME NEW l \in Levels PROVE Escrow(l[3], resting[l]) \in Nat
    <3>1. l[3] \in Nat /\ resting[l] \in Nat
      BY DEF TypeOK, Levels, Prices
    <3> QED BY <3>1, EscrowType
  <2> QED BY <2>1 DEF EscrowTable
<1>3. CreatorTable \in [Markets -> Nat]
  BY DEF TypeOK, Market, CreatorTable
<1>4. affiliateFees \in [Posts -> Nat]
  BY DEF TypeOK
<1>5. Claims = Total(ClaimTable) /\ RestingEscrow = Total(EscrowTable)
  BY DEF Claims, RestingEscrow, ClaimTable, EscrowTable
<1> HIDE DEF ClaimTable, EscrowTable, CreatorTable
<1> QED BY <1>1, <1>2, <1>3, <1>4, <1>5, SetsFinite, TotalType

-----------------------------------------------------------------------------
(* How the sums change *)

(* Writing y at x changes a sum by what was there before. *)
LEMMA PutTotal ==
  ASSUME NEW S, IsFiniteSet(S), NEW f \in [S -> Nat], NEW x \in S, NEW y \in Nat
  PROVE  /\ Put(f, x, y) \in [S -> Nat]
         /\ Total(Put(f, x, y)) + f[x] = Total(f) + y
         /\ Total(Put(f, x, y)) \in Nat /\ Total(f) \in Nat /\ f[x] \in Nat
<1>1. /\ Put(f, x, y) \in [S -> Nat] /\ Put(f, x, y)[x] = y
      /\ \A k \in S : k # x => Put(f, x, y)[k] = f[k]
  BY DEF Put
<1>2. AgreeBut(S, f, Put(f, x, y), x)
  BY <1>1 DEF AgreeBut
<1> QED BY <1>1, <1>2, TotalUpdate, TotalType

(* The escrow of what rests follows the level that changes. *)
LEMMA EscrowMoved ==
  ASSUME TypeOK, TypeOK', NEW l \in Levels,
         \A k \in Levels : k # l => resting'[k] = resting[k]
  PROVE  /\ RestingEscrow' + Escrow(l[3], resting[l])
               = RestingEscrow + Escrow(l[3], resting'[l])
         /\ RestingEscrow' \in Nat /\ RestingEscrow \in Nat
         /\ l[3] \in Nat /\ resting[l] \in Nat /\ resting'[l] \in Nat
<1> DEFINE f == [k \in Levels |-> Escrow(k[3], resting[k])]
           g == [k \in Levels |-> Escrow(k[3], resting'[k])]
<1>1. ASSUME NEW k \in Levels
      PROVE  /\ k[3] \in Nat /\ resting[k] \in Nat /\ resting'[k] \in Nat
             /\ Escrow(k[3], resting[k]) \in Nat /\ Escrow(k[3], resting'[k]) \in Nat
  <2>1. k[3] \in Nat /\ resting[k] \in Nat /\ resting'[k] \in Nat
    BY DEF TypeOK, Levels, Prices
  <2> QED BY <2>1, EscrowType
<1>2. f \in [Levels -> Nat] /\ g \in [Levels -> Nat]
  BY <1>1
<1>3. \A k \in Levels : k # l => f[k] = g[k]
  OBVIOUS
<1>4. f[l] = Escrow(l[3], resting[l]) /\ g[l] = Escrow(l[3], resting'[l])
  OBVIOUS
<1>5. RestingEscrow = Total(f) /\ RestingEscrow' = Total(g)
  BY DEF RestingEscrow
<1> HIDE DEF f, g
<1>6. AgreeBut(Levels, f, g, l)
  BY <1>2, <1>3, SetsFinite DEF AgreeBut
<1>7. Total(g) + f[l] = Total(f) + g[l]
  BY <1>6, TotalUpdate
<1>8. Total(f) \in Nat /\ Total(g) \in Nat
  BY <1>2, SetsFinite, TotalType
<1> QED BY <1>1, <1>4, <1>5, <1>7, <1>8

(* The claims stand as long as nobody trades and no market is resolved. *)
LEMMA ClaimsStand ==
  ASSUME position' = position, \A m \in Markets : KindOf(m)' = KindOf(m)
  PROVE  Claims' = Claims
<1>1. ASSUME NEW m \in Markets, NEW a \in Accounts PROVE Claim(m, a)' = Claim(m, a)
  <2>1. Claim(m, a) = Worth(m, a, KindOf(m))
    BY ClaimWorth
  <2>2. Claim(m, a)' = Worth(m, a, KindOf(m))'
    BY DEF Claim, Worth, KindOf, WinningSide
  <2>3. Worth(m, a, KindOf(m))' = Worth(m, a, KindOf(m))
    BY DEF Worth
  <2> QED BY <2>1, <2>2, <2>3
<1> QED BY <1>1 DEF Claims

\* The market m alone changes, from unresolved, and nobody trades.
Resolving(m) ==
  /\ position' = position
  /\ market[m].status \notin Terminal /\ market[m].status # "NONE"
  /\ market'[m].status # "NONE"
  /\ market'[m].volume = market[m].volume
  /\ market'[m].creatorFees = market[m].creatorFees
  /\ \A k \in Markets : k # m => market'[k] = market[k]

(* Resolving a market, to whatever outcome, leaves the sum of all claims     *)
(* alone: its positions are worth its volume either way.                     *)
LEMMA ClaimsResolved ==
  ASSUME TypeOK, TypeOK', Backed, NEW m \in Markets, Resolving(m)
  PROVE  Claims' = Claims
<1> DEFINE f == [k \in Markets \X Accounts |-> Claim(k[1], k[2])]
           g == [k \in Markets \X Accounts |-> Claim(k[1], k[2])']
           worth(kind) == [a \in Accounts |-> Worth(m, a, kind)]
<1>1. ASSUME NEW k \in Markets, NEW a \in Accounts
      PROVE  /\ Claim(k, a) = Worth(k, a, KindOf(k))
             /\ Claim(k, a)' = Worth(k, a, KindOf(k)')
  <2>1. Claim(k, a) = Worth(k, a, KindOf(k))
    BY ClaimWorth
  <2>2. Claim(k, a)' = Worth(k, a, KindOf(k))'
    BY DEF Claim, Worth, KindOf, WinningSide
  <2>3. Worth(k, a, KindOf(k))' = Worth(k, a, KindOf(k)')
    BY DEF Resolving, Worth
  <2> QED BY <2>1, <2>2, <2>3
<1>2. KindOf(m) \in Kinds /\ KindOf(m)' \in Kinds
  BY DEF KindOf, WinningSide, Kinds, Sides
<1>3. RowOf(f, m, Accounts) = worth(KindOf(m)) /\ RowOf(g, m, Accounts) = worth(KindOf(m)')
  BY <1>1 DEF RowOf
<1>4. Total(worth(KindOf(m))) = market[m].volume /\ Total(worth(KindOf(m)')) = market[m].volume
  BY <1>2 DEF Backed, Worths, Resolving
<1>5. /\ f \in [Markets \X Accounts -> Nat]
      /\ g \in [Markets \X Accounts -> Nat]
  <2>1. \A k \in Markets, a \in Accounts, kind \in Kinds : Worth(k, a, kind) \in Nat
    BY WorthTypes
  <2>2. \A k \in Markets : KindOf(k) \in Kinds /\ KindOf(k)' \in Kinds
    BY DEF KindOf, WinningSide, Kinds, Sides
  <2>3. \A k \in Markets, a \in Accounts : Claim(k, a) \in Nat /\ Claim(k, a)' \in Nat
    BY <1>1, <2>1, <2>2
  <2> QED BY <2>3
<1>6. \A k \in Markets \X Accounts : k[1] # m => f[k] = g[k]
  <2>1. \A k \in Markets : k # m => KindOf(k)' = KindOf(k)
    BY DEF Resolving, KindOf, WinningSide
  <2>2. \A k \in Markets, a \in Accounts : k # m => Claim(k, a)' = Claim(k, a)
    BY <1>1, <2>1
  <2> QED BY <2>2
<1>7. Claims = Total(f) /\ Claims' = Total(g)
  BY DEF Claims
<1>8. Total(f) \in Nat /\ Total(g) \in Nat /\ market[m].volume \in Nat
  BY <1>5, SetsFinite, TotalType DEF TypeOK, Market
<1> HIDE DEF f, g, worth
<1>9. AgreeOffRow(Markets, Accounts, f, g, m)
  BY <1>5, <1>6, SetsFinite DEF AgreeOffRow, Table
<1>10. Total(g) + market[m].volume = Total(f) + market[m].volume
  BY <1>3, <1>4, <1>9, TotalRow
<1> QED BY <1>7, <1>8, <1>10

(* The collateral stands as long as nobody trades.                           *)
LEMMA CollateralStands ==
  ASSUME Backed, FullyCollateralized, position' = position,
         \A m \in Markets : /\ market'[m].volume = market[m].volume
                            /\ market'[m].status \notin Terminal => market[m].status \notin Terminal
  PROVE  Backed' /\ FullyCollateralized'
<1>1. ASSUME NEW m \in Markets
      PROVE  /\ \A kind \in Kinds : Worths(m, kind)' = Worths(m, kind)
             /\ \A s \in Sides : SharesOf(m, s)' = SharesOf(m, s) /\ BasisOf(m, s)' = BasisOf(m, s)
  BY DEF Worths, Worth, SharesOf, BasisOf
<1>2. Backed'
  BY <1>1 DEF Backed
<1>3. FullyCollateralized'
  <2>1. "YES" \in Sides /\ "NO" \in Sides
    BY DEF Sides
  <2> QED BY <1>1, <2>1 DEF FullyCollateralized
<1> QED BY <1>2, <1>3

(* Between transactions the orders stand when the book is left alone.        *)
LEMMA OrdersStand ==
  ASSUME MoneyInv, tx = Idle, UNCHANGED <<bookVars, tx>>,
         \A m \in Markets : market'[m].status = "NONE" => market[m].status = "NONE"
  PROVE  SlotsOwned' /\ UnusedEmpty' /\ ChargeOK'
BY DEF MoneyInv, SlotsOwned, UnusedEmpty, ChargeOK, bookVars

\* Solvent in terms of the tables.
Ledger ==
  Total(freeBalance) + RestingEscrow + Claims + Total(CreatorTable)
    + Total(affiliateFees) + protocolFees

(* Solvent, with the ledger as one term.                                     *)
LEMMA SolventLedger == Solvent <=> balance + Uncollected = Ledger + Prepaid
BY DEF Solvent, Ledger, Liabilities, CreatorTable

(* Between transactions the balance covers the ledger, so it is not negative. *)
LEMMA BalanceFollows ==
  TypeOK /\ tx = Idle /\ Solvent /\ protocolFees \in Nat /\ freeBalance \in [Accounts -> Nat]
    => balance \in Nat
<1> SUFFICES ASSUME TypeOK, tx = Idle, Solvent, protocolFees \in Nat,
                    freeBalance \in [Accounts -> Nat]
             PROVE  balance \in Nat
  OBVIOUS
<1>1. balance + Uncollected = Ledger + Prepaid /\ Uncollected = 0 /\ Prepaid = 0
  BY SolventLedger DEF Uncollected, Prepaid
<1>2. /\ Total(freeBalance) \in Nat /\ RestingEscrow \in Nat /\ Claims \in Nat
      /\ Total(CreatorTable) \in Nat /\ Total(affiliateFees) \in Nat
  BY LedgerTypes
<1>3. Ledger \in Nat
  BY <1>2 DEF Ledger
<1>4. balance \in Int
  BY DEF TypeOK
<1> QED BY <1>1, <1>3, <1>4

\* What a step between transactions adds to the balance and to what is owed.
Books(toBalance, toFree, toFees) ==
  /\ tx = Idle /\ tx' = Idle
  /\ balance' = balance + toBalance
  /\ freeBalance' \in [Accounts -> Nat] /\ Total(freeBalance') = Total(freeBalance) + toFree
  /\ protocolFees' \in Nat /\ protocolFees' = protocolFees + toFees

(* The ledger follows what a step books, pays of claims and of accrued fees. *)
LEMMA BooksBalance ==
  ASSUME MoneyInv, TypeOK, NEW x \in Int, NEW y \in Int, NEW z \in Int, Books(x, y, z),
         RestingEscrow' = RestingEscrow,
         NEW c \in Int, Claims' = Claims - c,
         NEW d \in Int, Total(CreatorTable') = Total(CreatorTable) - d,
         NEW e \in Int, Total(affiliateFees') = Total(affiliateFees) - e,
         x = y + z - c - d - e
  PROVE  Solvent' /\ protocolFees' \in Nat /\ freeBalance' \in [Accounts -> Nat]
<1>1. balance + Uncollected = Ledger + Prepaid /\ Uncollected = 0 /\ Prepaid = 0
  BY SolventLedger DEF MoneyInv, Uncollected, Prepaid, Books
<1>2. /\ Total(freeBalance) \in Nat /\ RestingEscrow \in Nat /\ Claims \in Nat
      /\ Total(CreatorTable) \in Nat /\ Total(affiliateFees) \in Nat
      /\ balance \in Nat /\ protocolFees \in Nat
  BY LedgerTypes DEF MoneyInv, MoneyTypes
<1>3. Uncollected' = 0 /\ Prepaid' = 0
  BY DEF Uncollected, Prepaid, Books
<1>4. /\ balance' = balance + x /\ Total(freeBalance') = Total(freeBalance) + y
      /\ protocolFees' = protocolFees + z
  BY DEF Books
<1>5. Ledger' = Total(freeBalance') + RestingEscrow' + Claims' + Total(CreatorTable')
                  + Total(affiliateFees') + protocolFees'
  BY DEF Ledger
<1>6. balance' = Ledger'
  BY <1>1, <1>2, <1>4, <1>5 DEF Ledger
<1>7. balance' + Uncollected' = Ledger' + Prepaid'
  BY <1>2, <1>3, <1>4, <1>6
<1> QED BY <1>7 DEF Solvent, Ledger, Liabilities, CreatorTable, Books

-----------------------------------------------------------------------------
(* Resolving markets, pull payments and administration *)

\* The conjuncts that a step between transactions keeps before it is known
\* that the balance covers them.
Kept ==
  /\ protocolFees \in Nat /\ freeBalance \in [Accounts -> Nat]
  /\ SlotsOwned /\ UnusedEmpty /\ ChargeOK /\ Backed /\ FullyCollateralized /\ Solvent

(* Reclaiming a bid books what the hub refunds as protocol fees.              *)
LEMMA ReclaimBooks ==
  ASSUME TypeOK, MoneyInv, NEW m \in Markets, ReclaimBid(m), tx = Idle, tx' = Idle,
         freeBalance' = freeBalance
  PROVE  \E x \in Nat : Books(x, 0, x)
<1>0. /\ balance \in Nat /\ protocolFees \in Nat /\ freeBalance \in [Accounts -> Nat]
      /\ Total(freeBalance) \in Nat
  BY LedgerTypes DEF MoneyInv, MoneyTypes
<1>1. CASE market[m].status = "SETTLING" /\ BidOpen(m)
  <2> DEFINE x == bids[market[m].pendingBid].amount
  <2>1. x \in Nat
    <3>1. market[m].pendingBid \in DOMAIN bids
      BY <1>1 DEF TypeOK, Market, BidOpen
    <3>2. bids[market[m].pendingBid] \in Bid
      BY <3>1 DEF TypeOK
    <3> QED BY <3>2 DEF Bid
  <2>2. balance' = balance + x /\ protocolFees' = protocolFees + x
    BY <1>1 DEF ReclaimBid
  <2> HIDE DEF x
  <2>3. Books(x, 0, x)
    BY <1>0, <2>1, <2>2 DEF Books
  <2> QED BY <2>1, <2>3
<1>2. CASE ~(market[m].status = "SETTLING" /\ BidOpen(m))
  <2>1. balance' = balance /\ protocolFees' = protocolFees
    BY <1>2 DEF ReclaimBid
  <2>2. Books(0, 0, 0)
    BY <1>0, <2>1 DEF Books
  <2> QED BY <2>2
<1> QED BY <1>1, <1>2

(* A step that resolves a market, booking z as fees and y as free balance.    *)
LEMMA ResolvingKept ==
  ASSUME TypeOK, TypeOK', MoneyInv, NEW m \in Markets, Resolving(m),
         NEW y \in Nat, NEW z \in Nat, Books(y + z, y, z),
         UNCHANGED <<bookVars, affiliateFees, tx>>
  PROVE  Kept'
<1>1. Claims' = Claims
  BY ClaimsResolved DEF MoneyInv
<1>2. CreatorTable' = CreatorTable
  BY DEF Resolving, CreatorTable
<1>3. RestingEscrow' = RestingEscrow
  BY DEF RestingEscrow, bookVars
<1>4. Claims \in Nat /\ Total(CreatorTable) \in Nat /\ Total(affiliateFees) \in Nat
  BY LedgerTypes
<1>5. /\ Claims' = Claims - 0 /\ Total(CreatorTable') = Total(CreatorTable) - 0
      /\ Total(affiliateFees') = Total(affiliateFees) - 0
      /\ y + z \in Int /\ y + z = y + z - 0 - 0 - 0
  BY <1>1, <1>2, <1>4
<1>6. Solvent' /\ protocolFees' \in Nat /\ freeBalance' \in [Accounts -> Nat]
  BY <1>3, <1>5, BooksBalance
<1>7. \A k \in Markets : /\ market'[k].volume = market[k].volume
                         /\ market'[k].status \notin Terminal => market[k].status \notin Terminal
                         /\ market'[k].status = "NONE" => market[k].status = "NONE"
  BY DEF Resolving
<1>8. Backed' /\ FullyCollateralized'
  BY <1>7, CollateralStands DEF MoneyInv, Resolving
<1>9. SlotsOwned' /\ UnusedEmpty' /\ ChargeOK'
  BY <1>7, OrdersStand DEF Books
<1> QED BY <1>6, <1>8, <1>9 DEF Kept

(* Money that moves into free balances. *)
LEMMA FreeGains ==
  ASSUME MoneyInv, NEW a \in Accounts, NEW y \in Int, freeBalance[a] + y \in Nat,
         freeBalance' = Put(freeBalance, a, freeBalance[a] + y)
  PROVE  /\ freeBalance' \in [Accounts -> Nat]
         /\ Total(freeBalance') = Total(freeBalance) + y
         /\ Total(freeBalance) \in Nat
<1>1. freeBalance \in [Accounts -> Nat] /\ IsFiniteSet(Accounts)
  BY SetsFinite DEF MoneyInv, MoneyTypes
<1> DEFINE x == freeBalance[a] + y
<1>2. x \in Nat
  OBVIOUS
<1> HIDE DEF x
<1>3. /\ Put(freeBalance, a, x) \in [Accounts -> Nat]
      /\ Total(Put(freeBalance, a, x)) + freeBalance[a] = Total(freeBalance) + x
      /\ Total(Put(freeBalance, a, x)) \in Nat /\ Total(freeBalance) \in Nat
      /\ freeBalance[a] \in Nat
  BY <1>1, <1>2, PutTotal
<1> QED BY <1>3 DEF x

(* Calls that resolve a market. *)
LEMMA ResolveKept ==
  ASSUME TypeOK, TypeOK', MoneyInv, ResolveStep
  PROVE  Kept'
<1>0. /\ \A m \in Markets : market[m] \in Market
      /\ market \in [Markets -> Market]
      /\ balance \in Nat /\ protocolFees \in Nat /\ freeBalance \in [Accounts -> Nat]
      /\ Total(freeBalance) \in Nat
  BY LedgerTypes DEF TypeOK, MoneyInv, MoneyTypes
<1>1. ASSUME NEW m \in Markets, NEW payer \in Accounts, NEW surplus \in Amounts \cup {0},
             SettleMarket(m, payer, surplus)
      PROVE  Kept'
  <2>1. surplus \in Nat
    BY FeeAssumption
  <2>2. Resolving(m)
    BY <1>0, <1>1 DEF SettleMarket, Settleable, Resolving, Trades, Terminal, Market
  <2>3. freeBalance' = Put(freeBalance, payer, freeBalance[payer] + surplus)
    BY <1>1 DEF SettleMarket, Put
  <2>4. /\ freeBalance' \in [Accounts -> Nat]
        /\ Total(freeBalance') = Total(freeBalance) + surplus
    <3>1. freeBalance[payer] + surplus \in Nat /\ surplus \in Int
      BY <1>0, <2>1
    <3> QED BY <2>3, <3>1, FreeGains
  <2>5. Books(surplus + 0, surplus, 0)
    <3>1. /\ tx = Idle /\ tx' = Idle /\ balance' = balance + surplus
          /\ protocolFees' = protocolFees
      BY <1>1 DEF SettleMarket
    <3> QED BY <1>0, <2>1, <2>4, <3>1 DEF Books
  <2>6. UNCHANGED <<bookVars, affiliateFees, tx>>
    BY <1>1 DEF SettleMarket
  <2> QED BY <2>1, <2>2, <2>5, <2>6, ResolvingKept
<1>2. ASSUME NEW m \in Markets, NEW outcome \in BOOLEAN, NEW b \in {0} \cup DOMAIN bids,
             UpdateOracle(m, outcome, b)
      PROVE  Kept'
  <2>1. Resolving(m)
    BY <1>0, <1>2 DEF UpdateOracle, Resolving, Terminal, Market
  <2>2. Books(0 + 0, 0, 0)
    BY <1>0, <1>2 DEF UpdateOracle, Books, moneyVars
  <2>3. UNCHANGED <<bookVars, affiliateFees, tx>>
    BY <1>2 DEF UpdateOracle, moneyVars
  <2> QED BY <2>1, <2>2, <2>3, ResolvingKept
<1>3. ASSUME NEW m \in Markets, VoidMarket(m)
      PROVE  Kept'
  <2>1. Resolving(m)
    BY <1>0, <1>3 DEF VoidMarket, Resolving, Trades, Terminal, Market
  <2>2. PICK x \in Nat : Books(x, 0, x)
    BY <1>3, ReclaimBooks DEF VoidMarket
  <2>3. UNCHANGED <<bookVars, affiliateFees, tx>> /\ 0 + x = x
    BY <1>3 DEF VoidMarket
  <2> QED BY <2>1, <2>2, <2>3, ResolvingKept
<1>4. ASSUME NEW m \in Markets, NEW expiry \in 0..MaxTime, SetMarketExpiry(m, expiry)
      PROVE  Kept'
  <2>1. /\ position' = position /\ UNCHANGED <<bookVars, moneyVars, tx>> /\ tx = Idle
        /\ \A k \in Markets :
             /\ market'[k].status = market[k].status
             /\ market'[k].volume = market[k].volume
             /\ market'[k].creatorFees = market[k].creatorFees
             /\ market'[k].fiftyFifty = market[k].fiftyFifty
             /\ market'[k].direction = market[k].direction
    BY <1>0, <1>4 DEF SetMarketExpiry, Market
  <2>2. Claims' = Claims
    BY <2>1, ClaimsStand DEF KindOf, WinningSide
  <2>3. CreatorTable' = CreatorTable /\ RestingEscrow' = RestingEscrow
    BY <2>1 DEF CreatorTable, RestingEscrow, bookVars
  <2>4. Solvent'
    BY <2>1, <2>2, <2>3
       DEF MoneyInv, Solvent, Liabilities, Uncollected, Prepaid, CreatorTable, moneyVars
  <2>5. Backed' /\ FullyCollateralized'
    BY <2>1, CollateralStands DEF MoneyInv
  <2>6. SlotsOwned' /\ UnusedEmpty' /\ ChargeOK'
    BY <2>1, OrdersStand
  <2> QED BY <1>0, <2>1, <2>4, <2>5, <2>6 DEF Kept, moneyVars
<1>5. ASSUME NEW m \in Markets, ExpireMarket(m)
      PROVE  Kept'
  <2>1. Resolving(m)
    BY <1>0, <1>5 DEF ExpireMarket, Resolving, Trades, Terminal, Market
  <2>2. PICK x \in Nat : Books(x, 0, x)
    BY <1>5, ReclaimBooks DEF ExpireMarket
  <2>3. UNCHANGED <<bookVars, affiliateFees, tx>> /\ 0 + x = x
    BY <1>5 DEF ExpireMarket
  <2> QED BY <2>1, <2>2, <2>3, ResolvingKept
<1> QED BY <1>1, <1>2, <1>3, <1>4, <1>5 DEF ResolveStep

(* Pull payments: each pays out what one sum of the ledger loses. *)
LEMMA PayoutKept ==
  ASSUME TypeOK, TypeOK', MoneyInv, PayoutStep
  PROVE  Kept'
<1>0. /\ \A m \in Markets : market[m] \in Market
      /\ market \in [Markets -> Market]
      /\ balance \in Nat /\ protocolFees \in Nat /\ freeBalance \in [Accounts -> Nat]
      /\ Total(freeBalance) \in Nat /\ Claims \in Nat
      /\ CreatorTable \in [Markets -> Nat] /\ Total(CreatorTable) \in Nat
      /\ Total(affiliateFees) \in Nat /\ affiliateFees \in [Posts -> Nat]
      /\ fees.withdrawal \in Nat
  BY LedgerTypes DEF TypeOK, MoneyInv, MoneyTypes, Fees
<1>1. ASSUME UNCHANGED <<bookVars, market, tx>>, tx = Idle
      PROVE  /\ SlotsOwned' /\ UnusedEmpty' /\ ChargeOK'
             /\ RestingEscrow' = RestingEscrow /\ CreatorTable' = CreatorTable
             /\ position' = position => Claims' = Claims /\ Backed' /\ FullyCollateralized'
  <2>1. SlotsOwned' /\ UnusedEmpty' /\ ChargeOK'
    BY <1>1, OrdersStand
  <2>2. RestingEscrow' = RestingEscrow /\ CreatorTable' = CreatorTable
    BY <1>1 DEF RestingEscrow, CreatorTable, bookVars
  <2>3. ASSUME position' = position PROVE Claims' = Claims /\ Backed' /\ FullyCollateralized'
    <3>1. Claims' = Claims
      BY <1>1, <2>3, ClaimsStand DEF KindOf, WinningSide
    <3>2. Backed' /\ FullyCollateralized'
      BY <1>1, <2>3, CollateralStands DEF MoneyInv
    <3> QED BY <3>1, <3>2
  <2> QED BY <2>1, <2>2, <2>3
<1>2. ASSUME NEW m \in Markets, NEW a \in Accounts, Redeem(m, a)
      PROVE  Kept'
  <2> DEFINE c == Claim(m, a)
             w == fees.withdrawal
  <2>1. /\ tx = Idle /\ UNCHANGED <<bookVars, market, freeBalance, affiliateFees, tx>>
        /\ market[m].status \in Terminal /\ c > w
        /\ protocolFees' = protocolFees + w /\ balance' = balance - (c - w)
        /\ position' = [k \in Holdings |->
             IF k[1] = m /\ k[2] \in RedeemedSides(m) /\ k[3] = a
             THEN NoPosition ELSE position[k]]
    BY <1>2 DEF Redeem
  <2>2. c \in Nat /\ w \in Nat
    BY <1>0, ClaimType
  <2>3. Claims' = Claims - c
    <3> DEFINE f == [k \in Markets \X Accounts |-> Claim(k[1], k[2])]
               g == [k \in Markets \X Accounts |-> Claim(k[1], k[2])']
    <3>1. ASSUME NEW k \in Markets, NEW b \in Accounts, <<k, b>> # <<m, a>>
          PROVE  Claim(k, b)' = Claim(k, b)
      <4>1. \A s \in Sides : position'[<<k, s, b>>] = position[<<k, s, b>>]
        BY <2>1, <3>1 DEF Holdings
      <4> QED BY <2>1, <4>1 DEF Claim, WinningSide, Sides
    <3>2. Claim(m, a)' = 0
      <4>1. \A s \in RedeemedSides(m) : position'[<<m, s, a>>] = NoPosition
        BY <2>1 DEF Holdings, RedeemedSides, WinningSide, Sides
      <4>2. Unit \in Nat
        BY PriceAssumption, ProductType DEF Unit
      <4>3. 0 * Unit = 0 /\ ((0 + 0) * Unit) \div 2 = 0
        BY <4>2
      <4> QED BY <2>1, <4>1, <4>3
              DEF Claim, WinningSide, RedeemedSides, Sides, NoPosition, Terminal
    <3>3. /\ f \in [Markets \X Accounts -> Nat]
          /\ f[<<m, a>>] = c /\ <<m, a>> \in Markets \X Accounts
          /\ Claims = Total(f) /\ Claims' = Total(g)
      BY LedgerTypes DEF ClaimTable, Claims
    <3>4. g = Put(f, <<m, a>>, 0)
      <4>1. ASSUME NEW k \in Markets \X Accounts
            PROVE  g[k] = (IF k = <<m, a>> THEN 0 ELSE f[k])
        <5>1. k[1] \in Markets /\ k[2] \in Accounts /\ k = <<k[1], k[2]>>
          OBVIOUS
        <5>2. CASE k = <<m, a>>
          BY <3>2, <5>2
        <5>3. CASE k # <<m, a>>
          BY <3>1, <5>1, <5>3
        <5> QED BY <5>2, <5>3
      <4> QED BY <4>1 DEF Put
    <3> HIDE DEF f, g, c
    <3>5. Total(g) + c = Total(f) + 0 /\ Total(g) \in Nat /\ Total(f) \in Nat
      BY <3>3, <3>4, SetsFinite, PutTotal
    <3> QED BY <2>2, <3>3, <3>5
  <2> HIDE DEF c, w
  <2>4. Books(w - c, 0, w)
    BY <1>0, <2>1, <2>2 DEF Books
  <2>5. /\ Total(CreatorTable') = Total(CreatorTable) - 0 /\ RestingEscrow' = RestingEscrow
        /\ Total(affiliateFees') = Total(affiliateFees) - 0
        /\ w - c \in Int /\ w - c = 0 + w - c - 0 - 0
    BY <1>0, <1>1, <2>1, <2>2
  <2>6. Solvent' /\ protocolFees' \in Nat /\ freeBalance' \in [Accounts -> Nat]
    BY <2>2, <2>3, <2>4, <2>5, BooksBalance
  <2>7. Backed' /\ FullyCollateralized'
    <3>1. ASSUME NEW k \in Markets, market[k].status \notin Terminal
          PROVE  /\ \A kind \in Kinds : Worths(k, kind)' = Worths(k, kind)
                 /\ \A s \in Sides : SharesOf(k, s)' = SharesOf(k, s) /\ BasisOf(k, s)' = BasisOf(k, s)
      <4>1. k # m
        BY <2>1, <3>1
      <4>2. \A s \in Sides, b \in Accounts : position'[<<k, s, b>>] = position[<<k, s, b>>]
        BY <2>1, <4>1 DEF Holdings
      <4>3. \A kind \in Kinds, b \in Accounts : Worth(k, b, kind)' = Worth(k, b, kind)
        BY <4>2 DEF Worth, Kinds, Sides
      <4> QED BY <4>2, <4>3 DEF Worths, SharesOf, BasisOf
    <3>2. "YES" \in Sides /\ "NO" \in Sides /\ market' = market
      BY <2>1 DEF Sides
    <3>3. Backed'
      BY <3>1, <3>2 DEF Backed, MoneyInv
    <3>4. FullyCollateralized'
      BY <3>1, <3>2 DEF FullyCollateralized, MoneyInv
    <3> QED BY <3>3, <3>4
  <2>8. SlotsOwned' /\ UnusedEmpty' /\ ChargeOK'
    BY <1>1, <2>1
  <2> QED BY <2>6, <2>7, <2>8 DEF Kept
<1>3. ASSUME NEW a \in Accounts, NEW amount \in Amounts, Withdraw(a, amount)
      PROVE  Kept'
  <2> DEFINE w == fees.withdrawal
  <2>1. /\ tx = Idle
        /\ UNCHANGED <<bookVars, market, position, affiliateFees, tx>>
        /\ amount > w /\ freeBalance[a] >= amount
        /\ freeBalance' = [freeBalance EXCEPT ![a] = freeBalance[a] - amount]
        /\ protocolFees' = protocolFees + w /\ balance' = balance - (amount - w)
    BY <1>3 DEF Withdraw
  <2>2. amount \in Nat /\ w \in Nat /\ freeBalance[a] \in Nat
    BY <1>0, FeeAssumption
  <2> HIDE DEF w
  <2>3. /\ freeBalance[a] + (0 - amount) \in Nat /\ 0 - amount \in Int
        /\ freeBalance[a] + (0 - amount) = freeBalance[a] - amount
    BY <2>1, <2>2
  <2>4. freeBalance' = Put(freeBalance, a, freeBalance[a] + (0 - amount))
    BY <2>1, <2>3 DEF Put
  <2>5. /\ freeBalance' \in [Accounts -> Nat]
        /\ Total(freeBalance') = Total(freeBalance) + (0 - amount)
    BY <2>3, <2>4, FreeGains
  <2>6. Books(w - amount, 0 - amount, w)
    BY <1>0, <2>1, <2>2, <2>5 DEF Books
  <2>7. Claims' = Claims /\ RestingEscrow' = RestingEscrow /\ CreatorTable' = CreatorTable
    BY <1>1, <2>1
  <2>8. /\ Claims' = Claims - 0 /\ Total(CreatorTable') = Total(CreatorTable) - 0
        /\ Total(affiliateFees') = Total(affiliateFees) - 0
        /\ w - amount \in Int /\ w - amount = (0 - amount) + w - 0 - 0 - 0
    BY <1>0, <2>1, <2>2, <2>7
  <2>9. Solvent' /\ protocolFees' \in Nat /\ freeBalance' \in [Accounts -> Nat]
    BY <2>2, <2>3, <2>6, <2>7, <2>8, BooksBalance
  <2> QED BY <1>1, <2>1, <2>9 DEF Kept
<1>4. ASSUME NEW m \in Markets, ClaimCreatorFees(m)
      PROVE  Kept'
  <2> DEFINE d == market[m].creatorFees
  <2>1. /\ tx = Idle
        /\ UNCHANGED <<bookVars, position, freeBalance, affiliateFees, protocolFees, tx>>
        /\ market' = [market EXCEPT ![m].creatorFees = 0] /\ balance' = balance - d
    BY <1>4 DEF ClaimCreatorFees
  <2>2. d \in Nat
    BY <1>0 DEF Market
  <2>3. \A k \in Markets :
          /\ market'[k].status = market[k].status
          /\ market'[k].volume = market[k].volume
          /\ market'[k].fiftyFifty = market[k].fiftyFifty
          /\ market'[k].direction = market[k].direction
          /\ market'[k].creatorFees = IF k = m THEN 0 ELSE market[k].creatorFees
    BY <1>0, <2>1 DEF Market
  <2>4. Total(CreatorTable') = Total(CreatorTable) - d
    <3>1. CreatorTable' = Put(CreatorTable, m, 0) /\ CreatorTable[m] = d
      BY <2>3 DEF CreatorTable, Put
    <3> HIDE DEF d
    <3>2. /\ Total(Put(CreatorTable, m, 0)) + CreatorTable[m] = Total(CreatorTable) + 0
          /\ Total(Put(CreatorTable, m, 0)) \in Nat
      BY <1>0, SetsFinite, PutTotal
    <3> QED BY <1>0, <2>2, <3>1, <3>2
  <2> HIDE DEF d
  <2>5. Claims' = Claims
    BY <2>1, <2>3, ClaimsStand DEF KindOf, WinningSide
  <2>6. Books(0 - d, 0, 0)
    BY <1>0, <2>1, <2>2 DEF Books
  <2>7. /\ Claims' = Claims - 0 /\ Total(affiliateFees') = Total(affiliateFees) - 0
        /\ 0 - d \in Int /\ 0 - d = 0 + 0 - 0 - d - 0
        /\ RestingEscrow' = RestingEscrow
    BY <1>0, <2>1, <2>2, <2>5 DEF RestingEscrow, bookVars
  <2>8. Solvent' /\ protocolFees' \in Nat /\ freeBalance' \in [Accounts -> Nat]
    BY <2>2, <2>4, <2>6, <2>7, BooksBalance
  <2>9. Backed' /\ FullyCollateralized'
    BY <2>1, <2>3, CollateralStands DEF MoneyInv
  <2>10. SlotsOwned' /\ UnusedEmpty' /\ ChargeOK'
    BY <2>1, <2>3, OrdersStand
  <2> QED BY <2>8, <2>9, <2>10 DEF Kept
<1>5. ASSUME NEW post \in Posts, ClaimAffiliateFees(post)
      PROVE  Kept'
  <2> DEFINE e == affiliateFees[post]
  <2>1. /\ tx = Idle
        /\ UNCHANGED <<bookVars, market, position, freeBalance, protocolFees, tx>>
        /\ affiliateFees' = Put(affiliateFees, post, 0) /\ balance' = balance - e
    BY <1>5 DEF ClaimAffiliateFees, Put
  <2>2. e \in Nat
    BY <1>0
  <2>3. Total(affiliateFees') = Total(affiliateFees) - e
    <3>1. /\ Total(Put(affiliateFees, post, 0)) + affiliateFees[post] = Total(affiliateFees) + 0
          /\ Total(Put(affiliateFees, post, 0)) \in Nat
      BY <1>0, SetsFinite, PutTotal
    <3> QED BY <1>0, <2>1, <3>1
  <2> HIDE DEF e
  <2>4. Books(0 - e, 0, 0)
    BY <1>0, <2>1, <2>2 DEF Books
  <2>5. Claims' = Claims /\ RestingEscrow' = RestingEscrow /\ CreatorTable' = CreatorTable
    BY <1>1, <2>1
  <2>6. /\ Claims' = Claims - 0 /\ Total(CreatorTable') = Total(CreatorTable) - 0
        /\ 0 - e \in Int /\ 0 - e = 0 + 0 - 0 - 0 - e
    BY <1>0, <2>2, <2>5
  <2>7. Solvent' /\ protocolFees' \in Nat /\ freeBalance' \in [Accounts -> Nat]
    BY <2>2, <2>3, <2>4, <2>5, <2>6, BooksBalance
  <2> QED BY <1>1, <2>1, <2>7 DEF Kept
<1>6. CASE WithdrawProtocolFees
  <2>1. /\ tx = Idle
        /\ UNCHANGED <<bookVars, market, position, freeBalance, affiliateFees, tx>>
        /\ protocolFees' = 0 /\ balance' = balance - protocolFees
    BY <1>6 DEF WithdrawProtocolFees
  <2> DEFINE x == 0 - protocolFees
  <2>2. x \in Int /\ x = 0 + x - 0 - 0 - 0 /\ 0 = protocolFees + x /\ 0 \in Nat
        /\ balance - protocolFees = balance + x
    BY <1>0
  <2> HIDE DEF x
  <2>3. Books(x, 0, x)
    BY <1>0, <2>1, <2>2 DEF Books
  <2>4. Claims' = Claims /\ RestingEscrow' = RestingEscrow /\ CreatorTable' = CreatorTable
    BY <1>1, <2>1
  <2>5. /\ Claims' = Claims - 0 /\ Total(CreatorTable') = Total(CreatorTable) - 0
        /\ Total(affiliateFees') = Total(affiliateFees) - 0
    BY <1>0, <2>1, <2>4
  <2>6. Solvent' /\ protocolFees' \in Nat /\ freeBalance' \in [Accounts -> Nat]
    BY <2>2, <2>3, <2>4, <2>5, BooksBalance
  <2> QED BY <1>1, <2>1, <2>6 DEF Kept
<1> QED BY <1>2, <1>3, <1>4, <1>5, <1>6 DEF PayoutStep

(* Administration and the clock touch no money. *)
LEMMA AdminKept ==
  ASSUME TypeOK, MoneyInv, AdminStep \/ Tick
  PROVE  Kept'
<1>1. UNCHANGED <<bookVars, market, position, moneyVars, tx>> /\ tx = Idle
  BY DEF AdminStep, RegisterAffiliatePost, SetFees, Tick
<1>2. Claims' = Claims
  BY <1>1, ClaimsStand DEF KindOf, WinningSide
<1>3. CreatorTable' = CreatorTable /\ RestingEscrow' = RestingEscrow
  BY <1>1 DEF CreatorTable, RestingEscrow, bookVars
<1>4. Solvent'
  BY <1>1, <1>2, <1>3
     DEF MoneyInv, Solvent, Liabilities, Uncollected, Prepaid, CreatorTable, moneyVars
<1>5. Backed' /\ FullyCollateralized'
  BY <1>1, CollateralStands DEF MoneyInv
<1>6. SlotsOwned' /\ UnusedEmpty' /\ ChargeOK'
  BY <1>1, OrdersStand
<1> QED BY <1>1, <1>4, <1>5, <1>6 DEF Kept, MoneyInv, MoneyTypes, moneyVars

-----------------------------------------------------------------------------
(* Creating markets, placing and cancelling orders *)

\* What a step adds to each term of Solvent.
Moves(x, u, y, r, c, d, ef, q) ==
  /\ balance' = balance + x /\ Uncollected' = Uncollected + u
  /\ Total(freeBalance') = Total(freeBalance) + y
  /\ RestingEscrow' = RestingEscrow + r /\ Claims' = Claims + c
  /\ Total(CreatorTable') = Total(CreatorTable) + d
  /\ Total(affiliateFees') + protocolFees' = Total(affiliateFees) + protocolFees + ef
  /\ Prepaid' = Prepaid + q
  /\ Total(affiliateFees') \in Nat /\ protocolFees' \in Nat

(* The ledger stays balanced when both of its sides move by the same. *)
LEMMA MovesBalance ==
  ASSUME MoneyInv, TypeOK, NEW x \in Int, NEW u \in Int, NEW y \in Int, NEW r \in Int,
         NEW c \in Int, NEW d \in Int, NEW ef \in Int, NEW q \in Int,
         Moves(x, u, y, r, c, d, ef, q), x + u = y + r + c + d + ef + q
  PROVE  Solvent'
<1>1. balance + Uncollected = Ledger + Prepaid
  BY SolventLedger DEF MoneyInv
<1>2. /\ Total(freeBalance) \in Nat /\ RestingEscrow \in Nat /\ Claims \in Nat
      /\ Total(CreatorTable) \in Nat /\ Total(affiliateFees) \in Nat
      /\ balance \in Nat /\ protocolFees \in Nat
  BY LedgerTypes DEF MoneyInv, MoneyTypes
<1>3. Uncollected \in Nat /\ Prepaid \in Nat
  <2>1. CASE tx = Idle
    BY <2>1 DEF Uncollected, Prepaid
  <2>2. CASE tx # Idle
    <3>1. tx \in Matching
      BY <2>2 DEF TypeOK
    <3>2. tx.escrow \in Nat /\ tx.fee \in Nat /\ tx.prepaid \in Nat
      BY <3>1 DEF Matching
    <3> QED BY <2>2, <3>2 DEF Uncollected, Prepaid
  <2> QED BY <2>1, <2>2
<1>4. /\ balance' = balance + x /\ Uncollected' = Uncollected + u
      /\ Total(freeBalance') = Total(freeBalance) + y
      /\ RestingEscrow' = RestingEscrow + r /\ Claims' = Claims + c
      /\ Total(CreatorTable') = Total(CreatorTable) + d
      /\ Total(affiliateFees') + protocolFees' = Total(affiliateFees) + protocolFees + ef
      /\ Prepaid' = Prepaid + q
      /\ Total(affiliateFees') \in Nat /\ protocolFees' \in Nat
  BY DEF Moves
<1>5. Ledger' = Total(freeBalance') + RestingEscrow' + Claims' + Total(CreatorTable')
                  + Total(affiliateFees') + protocolFees'
  BY DEF Ledger
<1>6. Ledger' = Ledger + y + r + c + d + ef
  BY <1>2, <1>4, <1>5 DEF Ledger
<1>7. Ledger \in Int
  BY <1>2 DEF Ledger
<1>8. balance' + Uncollected' = Ledger' + Prepaid'
  BY <1>1, <1>2, <1>3, <1>4, <1>6, <1>7
<1> QED BY <1>8 DEF Solvent, Ledger, Liabilities, CreatorTable

\* An order that may start to be matched in market m: the market trades, what
\* an opening order has prepaid is its escrow, a signed order is funded.
Placing(m, a, p, n, charge, prepaid) ==
  /\ market'[m].status \in Trades /\ fees' = fees
  /\ charge = "prepaid" => market[m].status = "NONE" /\ prepaid = Escrow(p, n)
  /\ charge # "prepaid" => prepaid = 0
  /\ charge = "free" => WorstCaseCost(p, n) <= freeBalance'[a]

(* Starting to match an order costs nothing yet. *)
LEMMA ExecuteKept ==
  ASSUME TypeOK, BookInv, MoneyInv,
         NEW m \in Markets, NEW a \in Accounts, NEW s \in Sides, NEW p \in Prices,
         NEW n \in Nat, NEW post \in Posts \cup {NoPost},
         NEW charge \in {"wallet", "free", "prepaid"}, NEW prepaid \in Nat,
         Execute(m, a, s, p, n, post, charge, prepaid),
         Placing(m, a, p, n, charge, prepaid),
         \A k \in Markets : market'[k].status = "NONE" => market[k].status = "NONE"
  PROVE  /\ SlotsOwned' /\ UnusedEmpty' /\ ChargeOK'
         /\ RestingEscrow' = RestingEscrow
         /\ Uncollected = 0 /\ Prepaid = 0 /\ Uncollected' = 0 /\ Prepaid' = prepaid
<1> DEFINE l == <<m, s, p>>
           i == Len(queue[l]) + 1
<1>1. /\ tx = Idle /\ l \in Levels /\ queue \in [Levels -> Seq(Slot)]
      /\ UNCHANGED <<head, resting, bitmap>>
      /\ queue' = [queue EXCEPT ![l] = Append(queue[l], EmptySlot)]
      /\ tx' = [pc |-> "match", market |-> m, taker |-> a, side |-> s,
                price |-> p, size |-> n, left |-> n,
                index |-> i, post |-> post,
                escrow |-> 0, fee |-> 0, makerPrice |-> 0,
                charge |-> charge, prepaid |-> prepaid]
  BY DEF Execute, Levels, TypeOK
<1> HIDE DEF i
<1>2. /\ tx'.market = m /\ tx'.taker = a /\ tx'.side = s /\ tx'.price = p /\ tx'.size = n
      /\ tx'.left = n /\ tx'.escrow = 0 /\ tx'.fee = 0 /\ tx'.pc = "match"
      /\ tx'.charge = charge /\ tx'.prepaid = prepaid /\ tx' # Idle
  BY <1>1 DEF Idle
<1>3. SlotsOwned'
  <2>1. ASSUME NEW k \in Levels, NEW j \in 1..Len(queue'[k]), queue'[k][j].shares > 0
        PROVE  queue'[k][j].maker \in Accounts
    <3>1. CASE k # l
      BY <1>1, <2>1, <3>1 DEF MoneyInv, SlotsOwned
    <3>2. CASE k = l
      <4>1. queue[l] \in Seq(Slot) /\ queue'[l] = Append(queue[l], EmptySlot)
        BY <1>1
      <4>2. j \in 1..Len(queue[l]) \/ queue'[l][j] = EmptySlot
        BY <2>1, <3>2, <4>1
      <4>3. j \in 1..Len(queue[l]) => queue'[l][j] = queue[l][j]
        BY <4>1
      <4>4. ~(EmptySlot.shares > 0)
        BY DEF EmptySlot
      <4> QED BY <1>1, <2>1, <3>2, <4>2, <4>3, <4>4 DEF MoneyInv, SlotsOwned
    <3> QED BY <3>1, <3>2
  <2> QED BY <2>1 DEF SlotsOwned
<1>4. UnusedEmpty' /\ RestingEscrow' = RestingEscrow
  BY <1>1 DEF UnusedEmpty, RestingEscrow, MoneyInv
<1>5. ChargeOK'
  <2>1. CostBounded'
    <3>1. fees \in Fees /\ fees' = fees
      BY DEF TypeOK, Placing
    <3>2. RawFee(0, p) \in Nat /\ Scale \in Nat /\ RawFee(0, p)' = RawFee(0, p)
      BY <3>1, RawFeeTypes DEF RawFee
    <3>3. Escrow(p, 0) \in Nat
      BY EscrowType DEF Prices
    <3>4. Matched' = 0
      BY <1>2 DEF Matched
    <3>5. Scale * (0 + 0) <= Scale * Escrow(p, 0) + RawFee(0, p) + Scale * 0
      <4>1. Scale * Escrow(p, 0) \in Nat /\ Scale * (0 + 0) = 0 /\ Scale * 0 = 0
        BY <3>2, <3>3, ProductType
      <4> QED BY <3>2, <4>1
    <3>6. /\ (Scale * (tx.escrow + tx.fee))' = Scale * (0 + 0)
          /\ (Scale * Escrow(tx.price, Matched))' = Scale * Escrow(p, 0)
          /\ RawFee(Matched, tx.price)' = RawFee(0, p)
          /\ (Scale * Matched)' = Scale * 0
      BY <1>2, <3>1, <3>4 DEF RawFee
    <3>7. tx'.left <= tx'.size /\ tx'.pc # "level"
      BY <1>2
    <3> HIDE DEF l
    <3> QED BY <3>5, <3>6, <3>7 DEF CostBounded
  <2>2. WorstCaseCost(p, n)' = WorstCaseCost(p, n)
    BY DEF WorstCaseCost, TakerFee, Placing
  <2>3. charge = "prepaid" => OpposingBits' = {}
    <3>1. Opposite(s) \in Sides
      BY DEF Opposite, Sides
    <3>2. OpposingBits' = bitmap[<<m, Opposite(s)>>]
      BY <1>1, <1>2 DEF OpposingBits
    <3> QED BY <3>1, <3>2 DEF Placing, MoneyInv, UnusedEmpty
  <2> QED BY <1>2, <2>1, <2>2, <2>3 DEF ChargeOK, Placing
<1>6. Uncollected = 0 /\ Prepaid = 0 /\ Uncollected' = 0 /\ Prepaid' = prepaid
  BY <1>1, <1>2 DEF Uncollected, Prepaid
<1> QED BY <1>3, <1>4, <1>5, <1>6

(* A market that is created trades, holds nothing and claims nothing.         *)
LEMMA CreatedKept ==
  ASSUME TypeOK, MoneyInv, NEW m \in Markets, NEW a \in Accounts, Created(m, a),
         position' = position
  PROVE  /\ market[m].status = "NONE" /\ market'[m].status \in Trades
         /\ \A k \in Markets : market'[k].status = "NONE" => market[k].status = "NONE"
         /\ Claims' = Claims /\ CreatorTable' = CreatorTable
         /\ Backed' /\ FullyCollateralized'
<1>1. /\ market[m].status = "NONE" /\ market'[m].status = "OPEN"
      /\ \A k \in Markets :
           /\ market'[k].volume = market[k].volume
           /\ market'[k].creatorFees = market[k].creatorFees
           /\ k # m => market'[k] = market[k]
  BY DEF Created, TypeOK, Market
<1>2. Claims' = Claims
  BY <1>1, ClaimsStand DEF KindOf, WinningSide
<1>3. CreatorTable' = CreatorTable
  BY <1>1 DEF CreatorTable
<1>4. Backed' /\ FullyCollateralized'
  BY <1>1, CollateralStands DEF MoneyInv, Terminal
<1> QED BY <1>1, <1>2, <1>3, <1>4 DEF Trades

\* The step pays x into the contract.
Paid(x) == x \in Nat /\ balance' = balance + x

(* Creating a market collects the escrow of its opening order.                *)
LEMMA CreateKept ==
  ASSUME TypeOK, TypeOK', BookInv, MoneyInv, CreateStep
  PROVE  Kept' /\ \E x : Paid(x)
<1>0. /\ balance \in Nat /\ protocolFees \in Nat /\ freeBalance \in [Accounts -> Nat]
      /\ Total(freeBalance) \in Nat /\ Claims \in Nat /\ RestingEscrow \in Nat
      /\ Total(CreatorTable) \in Nat /\ Total(affiliateFees) \in Nat
  BY LedgerTypes DEF MoneyInv, MoneyTypes
<1>1. ASSUME NEW a \in Accounts, NEW s \in Sides, NEW p \in Prices, NEW n \in Sizes,
             CreateMarketDirect(a, s, p, n)
      PROVE  Kept' /\ \E x : Paid(x)
  <2> DEFINE e == Escrow(p, n)
  <2>1. PICK m \in Markets : Created(m, a) /\ Execute(m, a, s, p, n, NoPost, "prepaid", e)
    BY <1>1 DEF CreateMarketDirect
  <2>2. /\ balance' = balance + e
        /\ UNCHANGED <<position, freeBalance, affiliateFees, protocolFees, fees>>
    BY <1>1 DEF CreateMarketDirect, configVars
  <2>3. n \in Nat /\ e \in Nat
    BY OrdersAssumption, EscrowType DEF Prices
  <2>4. /\ market[m].status = "NONE" /\ market'[m].status \in Trades
        /\ \A k \in Markets : market'[k].status = "NONE" => market[k].status = "NONE"
        /\ Claims' = Claims /\ CreatorTable' = CreatorTable
        /\ Backed' /\ FullyCollateralized'
    BY <2>1, <2>2, CreatedKept
  <2>5. Placing(m, a, p, n, "prepaid", e)
    BY <2>2, <2>4 DEF Placing
  <2> HIDE DEF e
  <2>6. /\ SlotsOwned' /\ UnusedEmpty' /\ ChargeOK' /\ RestingEscrow' = RestingEscrow
        /\ Uncollected = 0 /\ Prepaid = 0 /\ Uncollected' = 0 /\ Prepaid' = e
    BY <2>1, <2>3, <2>4, <2>5, ExecuteKept
  <2>7. Moves(e, 0, 0, 0, 0, 0, 0, e)
    BY <1>0, <2>2, <2>3, <2>4, <2>6 DEF Moves
  <2>8. Solvent'
    <3>1. e \in Int /\ e + 0 = 0 + 0 + 0 + 0 + 0 + e
      BY <2>3
    <3> QED BY <2>7, <3>1, MovesBalance
  <2> QED BY <1>0, <2>2, <2>3, <2>4, <2>6, <2>8 DEF Kept, Paid
<1>2. ASSUME NEW o \in SignedOrders, CreateMarket(o)
      PROVE  Kept' /\ \E x : Paid(x)
  <2> DEFINE e == Escrow(o.price, o.shares)
             y == o.value - e
  <2>1. /\ o.maker \in Accounts /\ o.side \in Sides /\ o.price \in Prices
        /\ o.shares \in Nat /\ o.value \in Nat /\ o.price \in Nat
    <3>1. /\ o.maker \in Accounts /\ o.side \in Sides /\ o.price \in Prices
          /\ o.shares \in Nat /\ o.value \in Nat
      BY OrdersAssumption DEF SignedOrder
    <3> QED BY <3>1 DEF Prices
  <2>2. e \in Nat
    BY <2>1, EscrowType
  <2>3. PICK m \in Markets :
          /\ Created(m, o.maker)
          /\ Execute(m, o.maker, o.side, o.price, o.shares, NoPost, "prepaid", e)
    BY <1>2 DEF CreateMarket
  <2>4. /\ balance' = balance + o.value
        /\ e <= freeBalance[o.maker] + o.value
        /\ freeBalance' = [freeBalance EXCEPT ![o.maker] = (freeBalance[o.maker] + o.value) - e]
        /\ UNCHANGED <<position, affiliateFees, protocolFees, fees>>
    <3>1. /\ e <= freeBalance[o.maker] + o.value
          /\ freeBalance' = [freeBalance EXCEPT ![o.maker] = (freeBalance[o.maker] + o.value) - e]
          /\ Consume(o)
      BY <1>2, Zenon DEF CreateMarket
    <3>2. balance' = balance + o.value /\ UNCHANGED <<position, affiliateFees, protocolFees, fees>>
      BY <3>1 DEF Consume, configVars
    <3> QED BY <3>1, <3>2
  <2>5. /\ market[m].status = "NONE" /\ market'[m].status \in Trades
        /\ \A k \in Markets : market'[k].status = "NONE" => market[k].status = "NONE"
        /\ Claims' = Claims /\ CreatorTable' = CreatorTable
        /\ Backed' /\ FullyCollateralized'
    BY <2>1, <2>3, <2>4, CreatedKept
  <2>6. Placing(m, o.maker, o.price, o.shares, "prepaid", e)
    BY <2>4, <2>5 DEF Placing
  <2> HIDE DEF e
  <2>7. freeBalance[o.maker] \in Nat
    BY <1>0, <2>1
  <2>8. /\ y \in Int /\ freeBalance[o.maker] + y \in Nat
        /\ (freeBalance[o.maker] + o.value) - e = freeBalance[o.maker] + y
    BY <2>1, <2>2, <2>4, <2>7
  <2>9. /\ freeBalance' \in [Accounts -> Nat]
        /\ Total(freeBalance') = Total(freeBalance) + y
    <3>1. freeBalance' = Put(freeBalance, o.maker, freeBalance[o.maker] + y)
      BY <2>4, <2>8 DEF Put
    <3> HIDE DEF y
    <3> QED BY <2>1, <2>8, <3>1, FreeGains
  <2>10. /\ SlotsOwned' /\ UnusedEmpty' /\ ChargeOK' /\ RestingEscrow' = RestingEscrow
         /\ Uncollected = 0 /\ Prepaid = 0 /\ Uncollected' = 0 /\ Prepaid' = e
    BY <2>1, <2>2, <2>3, <2>5, <2>6, ExecuteKept
  <2>11. /\ o.value + 0 = y + 0 + 0 + 0 + 0 + e
         /\ o.value \in Int /\ e \in Int /\ y \in Int /\ 0 \in Int
    BY <2>1, <2>2
  <2> HIDE DEF y
  <2>12. Moves(o.value, 0, y, 0, 0, 0, 0, e)
    BY <1>0, <2>2, <2>4, <2>5, <2>9, <2>10 DEF Moves
  <2>13. Solvent'
    BY <2>11, <2>12, MovesBalance
  <2> QED BY <1>0, <2>1, <2>4, <2>5, <2>9, <2>10, <2>13 DEF Kept, Paid
<1> QED BY <1>1, <1>2 DEF CreateStep

(* Cancelling an order turns its escrow into free balance of its maker.       *)
LEMMA CancelKept ==
  ASSUME TypeOK, TypeOK', BookInv, MoneyInv, NEW l \in Levels, NEW i \in DOMAIN queue[l],
         CancelOrder(l, i)
  PROVE  Kept' /\ Paid(0)
<1> DEFINE n == queue[l][i].shares
           a == queue[l][i].maker
           left == resting[l] - n
           e == Escrow(l[3], n)
           s == [queue[l][i] EXCEPT !.shares = 0]
<1>1. /\ tx = Idle /\ tx' = tx /\ n > 0
      /\ queue' = [queue EXCEPT ![l][i].shares = 0]
      /\ resting' = [resting EXCEPT ![l] = left]
      /\ bitmap' = ClearBitIfEmpty(l, left)
      /\ freeBalance' = [freeBalance EXCEPT ![a] = freeBalance[a] + e]
      /\ UNCHANGED <<market, position, balance, affiliateFees, protocolFees>>
  BY DEF CancelOrder
<1>2. /\ queue \in [Levels -> Seq(Slot)] /\ queue[l] \in Seq(Slot) /\ i \in 1..Len(queue[l])
      /\ queue[l][i] \in Slot
  BY DEF TypeOK
<1>3. n \in Nat /\ a \in Accounts
  BY <1>1, <1>2 DEF Slot, MoneyInv, SlotsOwned
<1>4. e \in Nat /\ l[3] \in Nat
  <2>1. l[3] \in Nat
    BY DEF Levels, Prices
  <2> QED BY <1>3, <2>1, EscrowType
<1>5. s \in Slot /\ s.shares = 0 /\ queue' = Put(queue, l, Put(queue[l], i, s))
  BY <1>1, <1>2 DEF Slot, Put
<1> HIDE DEF e, n, a, s
<1>6. SlotsOwned'
  <2>1. /\ \A k \in Levels : Len(queue'[k]) = Len(queue[k])
        /\ \A k \in Levels \ {l} : queue'[k] = queue[k]
        /\ queue'[l][i] = s
        /\ \A j \in 1..Len(queue[l]) : j # i => queue'[l][j] = queue[l][j]
    BY <1>2, <1>5, SlotReplaced
  <2>2. ASSUME NEW k \in Levels, NEW j \in 1..Len(queue'[k]), queue'[k][j].shares > 0
        PROVE  queue'[k][j].maker \in Accounts
    <3>1. queue'[k][j] = queue[k][j] /\ j \in 1..Len(queue[k])
      BY <1>5, <2>1, <2>2
    <3> QED BY <2>2, <3>1 DEF MoneyInv, SlotsOwned
  <2> QED BY <2>2 DEF SlotsOwned
<1>7. UnusedEmpty' /\ ChargeOK'
  <2>1. \A m \in Markets, t \in Sides : bitmap'[<<m, t>>] \subseteq bitmap[<<m, t>>]
    BY <1>1 DEF ClearBitIfEmpty, TypeOK
  <2> QED BY <1>1, <2>1 DEF UnusedEmpty, ChargeOK, MoneyInv
<1>8. Backed' /\ FullyCollateralized' /\ Claims' = Claims /\ CreatorTable' = CreatorTable
  <2>1. Claims' = Claims
    BY <1>1, ClaimsStand DEF KindOf, WinningSide
  <2>2. Backed' /\ FullyCollateralized'
    BY <1>1, CollateralStands DEF MoneyInv
  <2> QED BY <1>1, <2>1, <2>2 DEF CreatorTable
<1>9. /\ freeBalance' \in [Accounts -> Nat] /\ Total(freeBalance') = Total(freeBalance) + e
  <2>1. freeBalance[a] + e \in Nat /\ e \in Int
    BY <1>3, <1>4 DEF MoneyInv, MoneyTypes
  <2>2. freeBalance' = Put(freeBalance, a, freeBalance[a] + e)
    BY <1>1 DEF Put
  <2> QED BY <1>3, <2>1, <2>2, FreeGains
<1>10. RestingEscrow' = RestingEscrow + (0 - e)
  <2>1. \A k \in Levels : k # l => resting'[k] = resting[k]
    BY <1>1 DEF TypeOK
  <2>2. /\ RestingEscrow' + Escrow(l[3], resting[l]) = RestingEscrow + Escrow(l[3], resting'[l])
        /\ RestingEscrow' \in Nat /\ RestingEscrow \in Nat
        /\ resting[l] \in Nat /\ resting'[l] \in Nat
    BY <2>1, EscrowMoved
  <2>3. resting'[l] = left
    BY <1>1 DEF TypeOK
  <2>4. resting[l] = resting'[l] + n
    BY <1>3, <2>2, <2>3
  <2>5. /\ Escrow(l[3], resting[l]) = Escrow(l[3], resting'[l]) + e
        /\ Escrow(l[3], resting'[l]) \in Nat
    <3>1. Escrow(l[3], resting'[l] + n) = Escrow(l[3], resting'[l]) + Escrow(l[3], n)
      BY <1>3, <1>4, <2>2, EscrowSum
    <3>2. Escrow(l[3], resting'[l]) \in Nat
      BY <1>4, <2>2, EscrowType
    <3> QED BY <2>4, <3>1, <3>2 DEF e
  <2> QED BY <1>4, <2>2, <2>5
<1>11. /\ balance \in Nat /\ protocolFees \in Nat /\ Claims \in Nat
       /\ Total(CreatorTable) \in Nat /\ Total(affiliateFees) \in Nat
  BY LedgerTypes DEF MoneyInv, MoneyTypes
<1>12. Uncollected = 0 /\ Prepaid = 0 /\ Uncollected' = 0 /\ Prepaid' = 0
  BY <1>1 DEF Uncollected, Prepaid
<1>13. Solvent'
  <2> DEFINE r == 0 - e
  <2>1. r \in Int /\ e \in Int /\ 0 \in Int /\ 0 + 0 = e + r + 0 + 0 + 0 + 0
    BY <1>4
  <2>2. RestingEscrow' = RestingEscrow + r
    BY <1>10
  <2> HIDE DEF r
  <2>3. Moves(0, 0, e, r, 0, 0, 0, 0)
    BY <1>1, <1>8, <1>9, <1>11, <1>12, <2>2 DEF Moves
  <2> QED BY <2>1, <2>3, MovesBalance
<1>14. Paid(0)
  BY <1>1, <1>11 DEF Paid
<1> QED BY <1>1, <1>6, <1>7, <1>8, <1>9, <1>11, <1>13, <1>14 DEF Kept

(* Placing, rejecting and cancelling orders.                                  *)
LEMMA TradeKept ==
  ASSUME TypeOK, TypeOK', BookInv, MoneyInv, TradeStep
  PROVE  Kept' /\ \E x : Paid(x)
<1>0. /\ balance \in Nat /\ protocolFees \in Nat /\ freeBalance \in [Accounts -> Nat]
      /\ Total(freeBalance) \in Nat /\ Claims \in Nat /\ RestingEscrow \in Nat
      /\ Total(CreatorTable) \in Nat /\ Total(affiliateFees) \in Nat
  BY LedgerTypes DEF MoneyInv, MoneyTypes
<1>1. ASSUME market' = market, position' = position
      PROVE  Claims' = Claims /\ CreatorTable' = CreatorTable /\ Backed' /\ FullyCollateralized'
  <2>1. Claims' = Claims
    BY <1>1, ClaimsStand DEF KindOf, WinningSide
  <2>2. Backed' /\ FullyCollateralized'
    BY <1>1, CollateralStands DEF MoneyInv
  <2> QED BY <1>1, <2>1, <2>2 DEF CreatorTable
<1>2. ASSUME NEW a \in Accounts, NEW m \in Markets, NEW s \in Sides, NEW p \in Prices,
             NEW n \in Sizes, NEW post \in Posts \cup {NoPost},
             PlaceOrder(a, m, s, p, n, post)
      PROVE  Kept' /\ \E x : Paid(x)
  <2>1. /\ market[m].status \in Trades /\ Execute(m, a, s, p, n, post, "wallet", 0)
        /\ UNCHANGED <<market, position, balance, freeBalance, affiliateFees, protocolFees, fees>>
    BY <1>2 DEF PlaceOrder, moneyVars, configVars
  <2>2. n \in Nat
    BY OrdersAssumption
  <2>3. Placing(m, a, p, n, "wallet", 0)
    BY <2>1 DEF Placing
  <2>4. /\ SlotsOwned' /\ UnusedEmpty' /\ ChargeOK' /\ RestingEscrow' = RestingEscrow
        /\ Uncollected = 0 /\ Prepaid = 0 /\ Uncollected' = 0 /\ Prepaid' = 0
    BY <2>1, <2>2, <2>3, ExecuteKept
  <2>5. Moves(0, 0, 0, 0, 0, 0, 0, 0)
    BY <1>0, <1>1, <2>1, <2>4 DEF Moves
  <2>6. Solvent'
    BY <2>5, MovesBalance
  <2>7. Paid(0)
    BY <1>0, <2>1 DEF Paid
  <2> QED BY <1>0, <1>1, <2>1, <2>4, <2>6, <2>7 DEF Kept
<1>3. ASSUME NEW o \in SignedOrders, Acceptable(o), Consume(o), market' = market,
             freeBalance' = [freeBalance EXCEPT ![o.maker] = @ + o.value]
      PROVE  /\ o.market \in Markets /\ market[o.market].status \in Trades
             /\ o.maker \in Accounts /\ o.side \in Sides /\ o.price \in Prices
             /\ o.shares \in Nat /\ o.value \in Nat /\ o.post \in Posts \cup {NoPost}
             /\ freeBalance' \in [Accounts -> Nat]
             /\ freeBalance'[o.maker] = freeBalance[o.maker] + o.value
             /\ Total(freeBalance') = Total(freeBalance) + o.value
             /\ balance' = balance + o.value
             /\ UNCHANGED <<position, affiliateFees, protocolFees, fees>>
  <2>1. /\ o.market \in Markets /\ market[o.market].status \in Trades
        /\ o.maker \in Accounts /\ o.side \in Sides /\ o.price \in Prices
        /\ o.shares \in Nat /\ o.value \in Nat /\ o.post \in Posts \cup {NoPost}
    BY <1>3, OrdersAssumption DEF SignedOrder, Acceptable, Trades
  <2>2. freeBalance' = Put(freeBalance, o.maker, freeBalance[o.maker] + o.value)
    BY <1>3 DEF Put
  <2>3. freeBalance[o.maker] + o.value \in Nat /\ o.value \in Int
    BY <1>0, <2>1
  <2>4. /\ freeBalance' \in [Accounts -> Nat]
        /\ Total(freeBalance') = Total(freeBalance) + o.value
    BY <2>1, <2>2, <2>3, FreeGains
  <2>5. freeBalance'[o.maker] = freeBalance[o.maker] + o.value
    BY <1>0, <2>1, <2>2 DEF Put
  <2> QED BY <1>3, <2>1, <2>4, <2>5 DEF Consume, configVars
<1>4. ASSUME NEW o \in SignedOrders, PlaceSignedOrder(o)
      PROVE  Kept' /\ \E x : Paid(x)
  <2>1. /\ Acceptable(o) /\ Funded(o) /\ Consume(o) /\ market' = market
        /\ freeBalance' = [freeBalance EXCEPT ![o.maker] = @ + o.value]
        /\ Execute(o.market, o.maker, o.side, o.price, o.shares, o.post, "free", 0)
    BY <1>4 DEF PlaceSignedOrder
  <2>2. /\ o.market \in Markets /\ market[o.market].status \in Trades
        /\ o.maker \in Accounts /\ o.side \in Sides /\ o.price \in Prices
        /\ o.shares \in Nat /\ o.value \in Nat /\ o.post \in Posts \cup {NoPost}
        /\ freeBalance' \in [Accounts -> Nat]
        /\ freeBalance'[o.maker] = freeBalance[o.maker] + o.value
        /\ Total(freeBalance') = Total(freeBalance) + o.value
        /\ balance' = balance + o.value
        /\ UNCHANGED <<position, affiliateFees, protocolFees, fees>>
    BY <1>3, <2>1
  <2>3. Placing(o.market, o.maker, o.price, o.shares, "free", 0)
    <3>1. WorstCaseCost(o.price, o.shares) <= freeBalance'[o.maker]
      <4>1. WorstCaseCost(o.price, o.shares) \in Nat
        <5>1. Escrow(o.price, o.shares) \in Nat /\ TakerFee(o.shares, o.price) \in Nat
          <6>1. o.price \in Nat /\ fees \in Fees
            BY <2>2 DEF Prices, TypeOK
          <6> QED BY <2>2, <6>1, EscrowType, TakerFeeType
        <5> QED BY <2>2, <5>1 DEF WorstCaseCost
      <4>2. freeBalance[o.maker] + o.value \in Nat
        BY <1>0, <2>2
      <4> QED BY <2>1, <2>2, <4>1, <4>2 DEF Funded
    <3> QED BY <2>1, <2>2, <3>1 DEF Placing
  <2>4. /\ SlotsOwned' /\ UnusedEmpty' /\ ChargeOK' /\ RestingEscrow' = RestingEscrow
        /\ Uncollected = 0 /\ Prepaid = 0 /\ Uncollected' = 0 /\ Prepaid' = 0
    BY <2>1, <2>2, <2>3, ExecuteKept
  <2>5. Moves(o.value, 0, o.value, 0, 0, 0, 0, 0)
    BY <1>0, <1>1, <2>1, <2>2, <2>4 DEF Moves
  <2>6. Solvent'
    <3>1. o.value \in Int /\ 0 \in Int /\ o.value + 0 = o.value + 0 + 0 + 0 + 0 + 0
      BY <2>2
    <3> QED BY <2>5, <3>1, MovesBalance
  <2>7. Paid(o.value)
    BY <2>2 DEF Paid
  <2> QED BY <1>0, <1>1, <2>1, <2>2, <2>4, <2>6, <2>7 DEF Kept
<1>5. ASSUME NEW o \in SignedOrders, RejectUnfunded(o)
      PROVE  Kept' /\ \E x : Paid(x)
  <2>1. /\ tx = Idle /\ Acceptable(o) /\ Consume(o)
        /\ freeBalance' = [freeBalance EXCEPT ![o.maker] = @ + o.value]
        /\ UNCHANGED <<bookVars, market, tx>>
    BY <1>5 DEF RejectUnfunded
  <2>2. /\ o.value \in Nat /\ freeBalance' \in [Accounts -> Nat]
        /\ Total(freeBalance') = Total(freeBalance) + o.value
        /\ balance' = balance + o.value
        /\ UNCHANGED <<position, affiliateFees, protocolFees, fees>>
    BY <1>3, <2>1
  <2>3. SlotsOwned' /\ UnusedEmpty' /\ ChargeOK'
    BY <2>1, OrdersStand
  <2>4. /\ RestingEscrow' = RestingEscrow
        /\ Uncollected = 0 /\ Prepaid = 0 /\ Uncollected' = 0 /\ Prepaid' = 0
    BY <2>1 DEF RestingEscrow, Uncollected, Prepaid, bookVars
  <2>5. Moves(o.value, 0, o.value, 0, 0, 0, 0, 0)
    BY <1>0, <1>1, <2>1, <2>2, <2>4 DEF Moves
  <2>6. Solvent'
    <3>1. o.value \in Int /\ 0 \in Int /\ o.value + 0 = o.value + 0 + 0 + 0 + 0 + 0
      BY <2>2
    <3> QED BY <2>5, <3>1, MovesBalance
  <2>7. Paid(o.value)
    BY <2>2 DEF Paid
  <2> QED BY <1>0, <1>1, <2>1, <2>2, <2>3, <2>6, <2>7 DEF Kept
<1>6. ASSUME NEW l \in Levels, NEW i \in DOMAIN queue[l], CancelOrder(l, i)
      PROVE  Kept' /\ \E x : Paid(x)
  BY <1>6, CancelKept
<1> QED BY <1>2, <1>4, <1>5, <1>6 DEF TradeStep

-----------------------------------------------------------------------------
(* Matching steps that move the cursor *)

\* The order being matched stays the same but for where it is matched.
SameOrder ==
  /\ tx # Idle /\ tx' # Idle
  /\ tx'.market = tx.market /\ tx'.side = tx.side /\ tx'.taker = tx.taker
  /\ tx'.price = tx.price /\ tx'.size = tx.size /\ tx'.left = tx.left
  /\ tx'.escrow = tx.escrow /\ tx'.fee = tx.fee
  /\ tx'.charge = tx.charge /\ tx'.prepaid = tx.prepaid

(* Moving the cursor of a matching order moves no money.                      *)
LEMMA CursorKept ==
  ASSUME TypeOK, MoneyInv, SameOrder,
         UNCHANGED <<market, position, moneyVars, fees, resting>>,
         SlotsOwned', UnusedEmpty',
         tx'.pc = "level" => Dollar - tx'.makerPrice <= tx'.price,
         tx'.charge = "prepaid" => tx'.pc = "match" /\ OpposingBits' = {}
  PROVE  Kept' /\ \E x : Paid(x)
<1>1. Claims' = Claims
  BY ClaimsStand DEF KindOf, WinningSide
<1>2. RestingEscrow' = RestingEscrow /\ CreatorTable' = CreatorTable
  BY DEF RestingEscrow, CreatorTable
<1>3. Uncollected' = Uncollected /\ Prepaid' = Prepaid
  BY DEF SameOrder, Uncollected, Prepaid
<1>4. Solvent'
  BY <1>1, <1>2, <1>3 DEF MoneyInv, Solvent, Liabilities, CreatorTable, moneyVars
<1>5. Backed' /\ FullyCollateralized'
  BY CollateralStands DEF MoneyInv
<1>6. ChargeOK'
  <2>1. ChargeOK /\ tx # Idle
    BY DEF MoneyInv, SameOrder
  <2>2. CostBounded'
    <3>1. Matched' = Matched
      BY DEF Matched, SameOrder
    <3>2. /\ (Scale * (tx.escrow + tx.fee))' = Scale * (tx.escrow + tx.fee)
          /\ (Scale * Escrow(tx.price, Matched))' = Scale * Escrow(tx.price, Matched)
          /\ RawFee(Matched, tx.price)' = RawFee(Matched, tx.price)
          /\ (Scale * Matched)' = Scale * Matched
      BY <3>1 DEF SameOrder, RawFee
    <3>3. Scale * (tx.escrow + tx.fee)
            <= Scale * Escrow(tx.price, Matched) + RawFee(Matched, tx.price) + Scale * Matched
      BY <2>1 DEF ChargeOK, CostBounded
    <3>4. tx'.left <= tx'.size
      BY <2>1 DEF ChargeOK, CostBounded, SameOrder
    <3> QED BY <3>2, <3>3, <3>4 DEF CostBounded
  <2>3. WorstCaseCost(tx.price, tx.size)' = WorstCaseCost(tx.price, tx.size)
    BY DEF WorstCaseCost, TakerFee, SameOrder
  <2>4. Escrow(tx.price, tx.size)' = Escrow(tx.price, tx.size)
    BY DEF SameOrder
  <2> QED BY <2>1, <2>2, <2>3, <2>4 DEF ChargeOK, SameOrder, moneyVars
<1>7. Paid(0)
  BY DEF MoneyInv, MoneyTypes, Paid, moneyVars
<1> QED BY <1>4, <1>5, <1>6, <1>7 DEF Kept, MoneyInv, MoneyTypes, moneyVars

(* Entering a level: what crosses is within the order's own price, and an     *)
(* opening order meets nothing.                                               *)
LEMMA EnterLevelKept ==
  ASSUME TypeOK, MoneyInv, EnterLevel
  PROVE  Kept' /\ \E x : Paid(x)
<1>1. /\ tx # Idle /\ tx \in Matching
      /\ UNCHANGED <<queue, bitmap, resting, market, position, moneyVars, fees>>
  BY DEF EnterLevel, bookVars, configVars, TypeOK
<1>2. PICK q \in Prices :
        BestCrossing(q) /\ tx' = [tx EXCEPT !.pc = "level", !.makerPrice = q]
  BY DEF EnterLevel
<1>3. q \in OpposingBits /\ q + tx.price >= Dollar
  BY <1>2 DEF BestCrossing, Crossing
<1>4. SameOrder /\ tx'.makerPrice = q
  BY <1>1, <1>2 DEF SameOrder, Matching, Idle
<1>5. Dollar - q <= tx.price
  <2>1. tx.price \in Nat /\ q \in Nat /\ Dollar \in Nat
    BY <1>1, PriceAssumption DEF Matching, Prices
  <2> QED BY <1>3, <2>1
<1>6. tx.charge # "prepaid"
  BY <1>1, <1>3 DEF MoneyInv, ChargeOK
<1>7. SlotsOwned' /\ UnusedEmpty'
  BY <1>1 DEF MoneyInv, SlotsOwned, UnusedEmpty
<1>8. tx'.price = tx.price /\ tx'.charge = tx.charge
  BY <1>4 DEF SameOrder
<1> QED BY <1>1, <1>4, <1>5, <1>6, <1>7, <1>8, CursorKept

(* Skipping a hole moves the head of a level only.                            *)
LEMMA SkipHoleKept ==
  ASSUME TypeOK, MoneyInv, SkipHole
  PROVE  Kept' /\ \E x : Paid(x)
<1>1. /\ tx # Idle /\ tx' = tx /\ tx.pc = "level"
      /\ UNCHANGED <<queue, bitmap, resting, market, position, moneyVars, fees>>
  BY DEF SkipHole, AtSlot, configVars
<1>2. SameOrder
  BY <1>1 DEF SameOrder
<1>3. SlotsOwned' /\ UnusedEmpty'
  BY <1>1 DEF MoneyInv, SlotsOwned, UnusedEmpty
<1>4. Dollar - tx.makerPrice <= tx.price /\ tx.charge # "prepaid"
  BY <1>1 DEF MoneyInv, ChargeOK, CostBounded
<1> QED BY <1>1, <1>2, <1>3, <1>4, CursorKept

(* Leaving a level may clear its bit.                                         *)
LEMMA LeaveLevelKept ==
  ASSUME TypeOK, MoneyInv, LeaveLevel
  PROVE  Kept' /\ \E x : Paid(x)
<1>1. /\ tx # Idle /\ tx \in Matching /\ tx.pc = "level"
      /\ UNCHANGED <<queue, resting, market, position, moneyVars, fees>>
      /\ bitmap' = ClearBitIfEmpty(MakerLevel, resting[MakerLevel])
      /\ tx' = [tx EXCEPT !.pc = "match", !.makerPrice = 0]
  BY DEF LeaveLevel, configVars, TypeOK
<1>2. SameOrder /\ tx'.pc = "match"
  BY <1>1 DEF SameOrder, Matching, Idle
<1>3. tx'.charge # "prepaid"
  BY <1>1, <1>2 DEF MoneyInv, ChargeOK, SameOrder
<1>4. SlotsOwned'
  BY <1>1 DEF MoneyInv, SlotsOwned
<1>5. UnusedEmpty'
  <2>1. \A m \in Markets, t \in Sides : bitmap'[<<m, t>>] \subseteq bitmap[<<m, t>>]
    BY <1>1 DEF ClearBitIfEmpty, TypeOK
  <2> QED BY <1>1, <2>1 DEF UnusedEmpty, MoneyInv
<1> QED BY <1>1, <1>2, <1>3, <1>4, <1>5, CursorKept

-----------------------------------------------------------------------------
(* The end of matching *)

\* A step changes a market, if at all, in nothing its money depends on.
MarketsStand ==
  \A m \in Markets :
    /\ market'[m].status = market[m].status
    /\ market'[m].volume = market[m].volume
    /\ market'[m].creatorFees = market[m].creatorFees
    /\ market'[m].fiftyFifty = market[m].fiftyFifty
    /\ market'[m].direction = market[m].direction

(* What is left of an order comes to rest with its escrow.                    *)
LEMMA RestKept ==
  ASSUME TypeOK, TypeOK', BookInv, MoneyInv, Rest, MarketsStand
  PROVE  /\ SlotsOwned' /\ UnusedEmpty' /\ ChargeOK' /\ Backed' /\ FullyCollateralized'
         /\ Claims' = Claims /\ CreatorTable' = CreatorTable
         /\ RestingEscrow' = RestingEscrow + Escrow(tx.price, tx.left)
         /\ Escrow(tx.price, tx.left) \in Nat /\ tx.escrow \in Nat /\ tx.fee \in Nat
         /\ Uncollected = tx.escrow + tx.fee /\ Prepaid = tx.prepaid /\ tx.prepaid \in Nat
         /\ Uncollected' = 0 /\ Prepaid' = 0
<1> DEFINE l == OwnLevel
           i == tx.index
           s == [maker |-> tx.taker, shares |-> tx.left]
<1>1. /\ tx # Idle /\ tx \in Matching /\ l \in Levels /\ tx' = Idle
      /\ position' = position
  BY TxTypes DEF Rest, BookInv
<1>2. /\ tx.left \in Nat /\ tx.price \in Nat /\ tx.taker \in Accounts
      /\ tx.market \in Markets /\ tx.side \in Sides /\ tx.price \in Prices
      /\ tx.escrow \in Nat /\ tx.fee \in Nat /\ tx.prepaid \in Nat
  BY <1>1 DEF Matching, Prices
<1>3. Escrow(tx.price, tx.left) \in Nat
  BY <1>2, EscrowType
<1>4. l = <<tx.market, tx.side, tx.price>> /\ l[3] = tx.price
  BY DEF OwnLevel
<1>5. i \in 1..Len(queue[l]) /\ s \in Slot /\ queue \in [Levels -> Seq(Slot)]
  BY <1>1, <1>2 DEF BookInv, TransactionOK, TypeOK, Slot
<1>6. /\ tx.left = 0 => UNCHANGED <<queue, resting, bitmap>>
      /\ tx.left # 0 => /\ queue' = Put(queue, l, Put(queue[l], i, s))
                        /\ resting' = [resting EXCEPT ![l] = resting[l] + tx.left]
                        /\ bitmap' = SetBit(l)
  BY <1>5 DEF Rest, Put
<1>7. s.maker = tx.taker
  OBVIOUS
<1> HIDE DEF l, i, s
<1>8. SlotsOwned'
  <2>1. CASE tx.left = 0
    BY <1>6, <2>1 DEF MoneyInv, SlotsOwned
  <2>2. CASE tx.left # 0
    <3>1. /\ \A k \in Levels : Len(queue'[k]) = Len(queue[k])
          /\ \A k \in Levels \ {l} : queue'[k] = queue[k]
          /\ queue'[l][i] = s
          /\ \A j \in 1..Len(queue[l]) : j # i => queue'[l][j] = queue[l][j]
      BY <1>1, <1>5, <1>6, <2>2, SlotReplaced
    <3>2. ASSUME NEW k \in Levels, NEW j \in 1..Len(queue'[k]), queue'[k][j].shares > 0
          PROVE  queue'[k][j].maker \in Accounts
      <4>1. CASE k = l /\ j = i
        BY <1>2, <1>7, <3>1, <4>1
      <4>2. CASE k # l \/ j # i
        <5>1. queue'[k][j] = queue[k][j] /\ j \in 1..Len(queue[k])
          BY <3>1, <3>2, <4>2
        <5> QED BY <3>2, <5>1 DEF MoneyInv, SlotsOwned
      <4> QED BY <4>1, <4>2
    <3> QED BY <3>2 DEF SlotsOwned
  <2> QED BY <2>1, <2>2
<1>9. ChargeOK'
  BY <1>1 DEF ChargeOK
<1>10. UnusedEmpty'
  <2>1. market[tx.market].status # "NONE"
    BY <1>1 DEF MoneyInv, ChargeOK, Trades
  <2>2. \A m \in Markets, t \in Sides : m # tx.market => bitmap'[<<m, t>>] = bitmap[<<m, t>>]
    BY <1>4, <1>6 DEF SetBit, TypeOK
  <2> QED BY <2>1, <2>2 DEF UnusedEmpty, MoneyInv, MarketsStand
<1>11. Backed' /\ FullyCollateralized'
  BY <1>1, CollateralStands DEF MoneyInv, MarketsStand
<1>12. Claims' = Claims
  BY <1>1, ClaimsStand DEF MarketsStand, KindOf, WinningSide
<1>13. CreatorTable' = CreatorTable
  BY DEF MarketsStand, CreatorTable
<1>14. RestingEscrow' = RestingEscrow + Escrow(tx.price, tx.left)
  <2>1. CASE tx.left = 0
    <3>1. RestingEscrow' = RestingEscrow /\ RestingEscrow \in Nat
      BY <1>6, <2>1, LedgerTypes DEF RestingEscrow
    <3>2. Escrow(tx.price, 0) = 0
      BY <1>2, PriceAssumption DEF Escrow
    <3> QED BY <2>1, <3>1, <3>2
  <2>2. CASE tx.left # 0
    <3>1. /\ \A k \in Levels : k # l => resting'[k] = resting[k]
          /\ resting'[l] = resting[l] + tx.left
      BY <1>1, <1>6, <2>2 DEF TypeOK
    <3>2. /\ RestingEscrow' + Escrow(tx.price, resting[l])
               = RestingEscrow + Escrow(tx.price, resting'[l])
          /\ RestingEscrow' \in Nat /\ RestingEscrow \in Nat
          /\ resting[l] \in Nat /\ resting'[l] \in Nat
      BY <1>1, <1>4, <3>1, EscrowMoved
    <3>3. Escrow(tx.price, resting[l] + tx.left)
            = Escrow(tx.price, resting[l]) + Escrow(tx.price, tx.left)
      <4>1. tx.price \in Nat /\ tx.left \in Nat /\ resting[l] \in Nat
        BY <1>2, <3>2
      <4> QED BY <4>1, EscrowSum
    <3>4. Escrow(tx.price, resting[l]) \in Nat
      BY <1>2, <3>2, EscrowType
    <3>5. RestingEscrow' + Escrow(tx.price, resting[l])
            = RestingEscrow + (Escrow(tx.price, resting[l]) + Escrow(tx.price, tx.left))
      BY <3>1, <3>2, <3>3
    <3>6. Escrow(tx.price, tx.left) \in Nat
      BY <1>2, EscrowType
    <3>7. ASSUME NEW a \in Nat, NEW b \in Nat, NEW c \in Nat, NEW d \in Nat,
                 a + c = b + (c + d)
          PROVE  a = b + d
      BY <3>7
    <3> QED BY <3>2, <3>4, <3>5, <3>6, <3>7
  <2> QED BY <2>1, <2>2
<1>15. /\ Uncollected = tx.escrow + tx.fee /\ Prepaid = tx.prepaid
       /\ Uncollected' = 0 /\ Prepaid' = 0
  BY <1>1 DEF Uncollected, Prepaid
<1> QED BY <1>2, <1>3, <1>8, <1>9, <1>10, <1>11, <1>12, <1>13, <1>14, <1>15

(* What an order has cost when it is done is within the worst case that was   *)
(* checked before it was matched; an opening order costs what it prepaid.     *)
LEMMA CostCovered ==
  ASSUME TypeOK, MoneyInv, tx # Idle
  PROVE  /\ TotalCost \in Nat /\ tx.taker \in Accounts
         /\ TotalCost <= WorstCaseCost(tx.price, tx.size)
         /\ tx.charge = "free" => TotalCost <= freeBalance[tx.taker]
         /\ tx.charge = "prepaid" => TotalCost = tx.prepaid
<1>1. tx \in Matching
  BY DEF TypeOK
<1>2. /\ tx.left \in Nat /\ tx.size \in Nat /\ tx.price \in Prices /\ tx.price \in Nat
      /\ tx.escrow \in Nat /\ tx.fee \in Nat /\ tx.taker \in Accounts
  BY <1>1 DEF Matching, Prices
<1>3. fees \in Fees /\ CostBounded /\ ChargeOK
  BY DEF TypeOK, MoneyInv, ChargeOK
<1>4. Matched \in Nat /\ tx.left + Matched = tx.size
  BY <1>2, <1>3 DEF CostBounded, Matched
<1>5. Escrow(tx.price, tx.left) \in Nat /\ Escrow(tx.price, tx.size) \in Nat
  BY <1>2, EscrowType
<1> DEFINE cost == tx.escrow + tx.fee
<1>6. /\ cost \in Nat
      /\ Scale * cost
           <= Scale * Escrow(tx.price, Matched) + RawFee(Matched, tx.price) + Scale * Matched
  BY <1>2, <1>3 DEF CostBounded
<1>7. TotalCost = cost + Escrow(tx.price, tx.left)
  BY <1>2, <1>5 DEF TotalCost
<1> HIDE DEF cost
<1>8. cost + Escrow(tx.price, tx.left) <= WorstCaseCost(tx.price, tx.left + Matched)
  BY <1>2, <1>3, <1>4, <1>6, WorstCaseCovers
<1>9. WorstCaseCost(tx.price, tx.size) \in Nat
  BY <1>2, <1>3, <1>5, TakerFeeType DEF WorstCaseCost
<1>10. TotalCost \in Nat /\ TotalCost <= WorstCaseCost(tx.price, tx.size)
  BY <1>4, <1>5, <1>6, <1>7, <1>8
<1>11. ASSUME tx.charge = "free" PROVE TotalCost <= freeBalance[tx.taker]
  <2>1. WorstCaseCost(tx.price, tx.size) <= freeBalance[tx.taker] /\ freeBalance[tx.taker] \in Nat
    BY <1>2, <1>3, <1>11 DEF ChargeOK, MoneyInv, MoneyTypes
  <2> QED BY <1>9, <1>10, <2>1
<1>12. ASSUME tx.charge = "prepaid" PROVE TotalCost = tx.prepaid
  <2>1. tx.left = tx.size /\ tx.escrow = 0 /\ tx.fee = 0 /\ tx.prepaid = Escrow(tx.price, tx.size)
    BY <1>3, <1>12 DEF ChargeOK
  <2> QED BY <1>5, <2>1 DEF TotalCost
<1> QED BY <1>2, <1>10, <1>11, <1>12

(* Each way of charging an order pays for its fills and for what rests.       *)
LEMMA FinishKept ==
  ASSUME TypeOK, TypeOK', BookInv, MoneyInv, FinishDirect \/ FinishSigned \/ FinishCreation
  PROVE  Kept' /\ \E x : Paid(x)
<1> DEFINE r == Escrow(tx.price, tx.left)
           u == 0 - (tx.escrow + tx.fee)
           q == 0 - tx.prepaid
<1>1. Rest /\ tx # Idle /\ UNCHANGED <<affiliateFees, protocolFees>>
  BY DEF FinishDirect, FinishSigned, FinishCreation, Rest
<1>2. MarketsStand
  <2>1. CASE FinishDirect \/ FinishSigned
    BY <2>1 DEF MarketsStand, FinishDirect, FinishSigned
  <2>2. CASE FinishCreation
    <3> DEFINE o == <<tx.side, tx.price, tx.index>>
    <3>1. market' = [market EXCEPT ![tx.market].opening = o]
      BY <2>2 DEF FinishCreation
    <3> HIDE DEF o
    <3>2. market \in [Markets -> Market]
      BY DEF TypeOK
    <3> QED BY <3>1, <3>2 DEF MarketsStand, Market
  <2> QED BY <2>1, <2>2
<1>3. /\ SlotsOwned' /\ UnusedEmpty' /\ ChargeOK' /\ Backed' /\ FullyCollateralized'
      /\ Claims' = Claims /\ CreatorTable' = CreatorTable
      /\ RestingEscrow' = RestingEscrow + r
      /\ r \in Nat /\ tx.escrow \in Nat /\ tx.fee \in Nat
      /\ Uncollected = tx.escrow + tx.fee /\ Prepaid = tx.prepaid /\ tx.prepaid \in Nat
      /\ Uncollected' = 0 /\ Prepaid' = 0
  BY <1>1, <1>2, RestKept
<1>4. /\ TotalCost \in Nat /\ tx.taker \in Accounts
      /\ tx.charge = "free" => TotalCost <= freeBalance[tx.taker]
      /\ tx.charge = "prepaid" => TotalCost = tx.prepaid
  BY <1>1, CostCovered
<1>5. TotalCost = r - u
  BY <1>3 DEF TotalCost
<1>6. /\ u \in Int /\ q \in Int /\ r \in Int
      /\ Uncollected' = Uncollected + u /\ Prepaid' = Prepaid + q
  BY <1>3
<1>7. tx.charge # "prepaid" => q = 0
  BY <1>1 DEF MoneyInv, ChargeOK
<1>8. /\ balance \in Nat /\ protocolFees \in Nat /\ freeBalance \in [Accounts -> Nat]
      /\ Total(freeBalance) \in Nat /\ Claims \in Nat
      /\ Total(CreatorTable) \in Nat /\ Total(affiliateFees) \in Nat
  BY LedgerTypes DEF MoneyInv, MoneyTypes
<1> HIDE DEF r, u
<1>9. /\ Uncollected' = Uncollected + u /\ RestingEscrow' = RestingEscrow + r
       /\ Claims' = Claims + 0 /\ Total(CreatorTable') = Total(CreatorTable) + 0
       /\ Total(affiliateFees') + protocolFees' = Total(affiliateFees) + protocolFees + 0
       /\ Prepaid' = Prepaid + q
       /\ Total(affiliateFees') \in Nat /\ protocolFees' \in Nat
  <2>1. /\ Claims' = Claims /\ CreatorTable' = CreatorTable
        /\ RestingEscrow' = RestingEscrow + r
    BY <1>3
  <2> HIDE DEF q
  <2> QED BY <1>1, <1>6, <1>8, <2>1
<1>10. balance' = balance + 0 <=> balance' = balance
  BY <1>8
<1>11. CASE FinishDirect
  <2>1. /\ balance' = balance + TotalCost /\ freeBalance' = freeBalance /\ q = 0
    BY <1>7, <1>11 DEF FinishDirect
  <2> HIDE DEF q
  <2>2. Moves(TotalCost, u, 0, r, 0, 0, 0, q)
    <3>1. Total(freeBalance') = Total(freeBalance) + 0
      BY <1>8, <2>1
    <3> QED BY <1>9, <2>1, <3>1 DEF Moves
  <2>3. /\ TotalCost + u = 0 + r + 0 + 0 + 0 + q
        /\ TotalCost \in Int /\ 0 \in Int
    BY <1>4, <1>5, <1>6, <2>1
  <2>4. Solvent'
    BY <1>6, <2>2, <2>3, MovesBalance
  <2>5. Paid(TotalCost)
    BY <1>4, <2>1 DEF Paid
  <2> QED BY <1>1, <1>3, <1>8, <2>1, <2>4, <2>5 DEF Kept
<1>12. CASE FinishSigned
  <2> DEFINE y == 0 - TotalCost
  <2>1. /\ balance' = balance /\ tx.charge = "free" /\ q = 0
        /\ freeBalance' = [freeBalance EXCEPT ![tx.taker] = freeBalance[tx.taker] - TotalCost]
    BY <1>7, <1>12 DEF FinishSigned
  <2>2. /\ y \in Int /\ freeBalance[tx.taker] + y \in Nat
        /\ freeBalance[tx.taker] - TotalCost = freeBalance[tx.taker] + y
    <3>1. TotalCost <= freeBalance[tx.taker] /\ freeBalance[tx.taker] \in Nat
      BY <1>4, <1>8, <2>1
    <3> QED BY <1>4, <3>1
  <2> HIDE DEF q, y
  <2>3. /\ freeBalance' \in [Accounts -> Nat]
        /\ Total(freeBalance') = Total(freeBalance) + y
    <3>1. freeBalance' = Put(freeBalance, tx.taker, freeBalance[tx.taker] + y)
      BY <2>1, <2>2 DEF Put
    <3> QED BY <1>4, <2>2, <3>1, FreeGains
  <2>4. Moves(0, u, y, r, 0, 0, 0, q)
    BY <1>9, <1>10, <2>1, <2>3 DEF Moves
  <2>5. 0 + u = y + r + 0 + 0 + 0 + q /\ 0 \in Int
    BY <1>4, <1>5, <1>6, <2>1 DEF y
  <2>6. Solvent'
    BY <1>6, <2>2, <2>4, <2>5, MovesBalance
  <2>7. Paid(0)
    BY <1>8, <2>1 DEF Paid
  <2> QED BY <1>1, <1>3, <1>8, <2>3, <2>6, <2>7 DEF Kept
<1>13. CASE FinishCreation
  <2>1. /\ balance' = balance /\ freeBalance' = freeBalance /\ tx.charge = "prepaid"
    BY <1>13 DEF FinishCreation
  <2>2. q = 0 - TotalCost
    BY <1>4, <2>1
  <2> HIDE DEF q
  <2>3. Moves(0, u, 0, r, 0, 0, 0, q)
    <3>1. Total(freeBalance') = Total(freeBalance) + 0
      BY <1>8, <2>1
    <3> QED BY <1>9, <1>10, <2>1, <3>1 DEF Moves
  <2>4. 0 + u = 0 + r + 0 + 0 + 0 + q /\ 0 \in Int
    BY <1>4, <1>5, <1>6, <2>2
  <2>5. Solvent'
    BY <1>6, <2>3, <2>4, MovesBalance
  <2>6. Paid(0)
    BY <1>8, <2>1 DEF Paid
  <2> QED BY <1>1, <1>3, <1>8, <2>1, <2>5, <2>6 DEF Kept
<1> QED BY <1>11, <1>12, <1>13

-----------------------------------------------------------------------------
(* A fill *)

\* The quantities of a fill: its size, what the taker pays, what both escrowed.
FillSize == Smaller(tx.left, NextSlot.shares)
FillFee == TakerFee(FillSize, ExecPrice)
TakerPaid == Escrow(ExecPrice, FillSize)
MakerPaid == Escrow(tx.makerPrice, FillSize)
FillValue == FillSize * Unit

(* Both parties of a fill are accounts, and what they escrowed adds up to a   *)
(* dollar a share.                                                            *)
LEMMA FillParties ==
  ASSUME TypeOK, BookInv, MoneyInv, Fill
  PROVE  /\ tx # Idle /\ tx.pc = "level" /\ tx \in Matching
         /\ tx.market \in Markets /\ tx.side \in Sides /\ tx.taker \in Accounts
         /\ Opposite(tx.side) \in Sides /\ Opposite(tx.side) # tx.side
         /\ NextSlot.maker \in Accounts
         /\ MakerLevel \in Levels /\ NextIndex \in 1..Len(queue[MakerLevel])
         /\ NextSlot \in Slot /\ NextSlot.shares \in Nat
         /\ FillSize \in Nat \ {0} /\ FillSize <= tx.left /\ FillSize <= NextSlot.shares
         /\ tx.makerPrice \in Prices /\ ExecPrice \in Prices /\ ExecPrice <= tx.price
         /\ FillFee \in Nat /\ TakerPaid \in Nat /\ MakerPaid \in Nat /\ FillValue \in Nat
         /\ TakerPaid + MakerPaid = FillValue
         /\ market[tx.market].status \in Trades /\ tx.charge # "prepaid"
<1>1. /\ tx \in Matching /\ tx # Idle /\ tx.pc = "level"
      /\ MakerLevel \in Levels /\ NextIndex \in 1..Len(queue[MakerLevel])
      /\ NextSlot \in Slot
  BY AtSlotTypes DEF Fill
<1>2. /\ FillSize \in Nat /\ FillSize <= tx.left /\ FillSize <= NextSlot.shares
      /\ ExecPrice \in Prices /\ FillFee \in Nat /\ TakerPaid \in Nat
  <2>1. fees \in Fees
    BY DEF TypeOK
  <2> QED BY <2>1, FillTypes DEF Fill, FillSize, FillFee, TakerPaid
<1>3. /\ tx.market \in Markets /\ tx.side \in Sides /\ tx.taker \in Accounts
      /\ tx.left \in Nat
  BY <1>1 DEF Matching
<1>4. Opposite(tx.side) \in Sides /\ Opposite(tx.side) # tx.side
  BY <1>3 DEF Opposite, Sides
<1>5. NextSlot.shares \in Nat /\ NextSlot.shares > 0 /\ tx.left > 0
  BY <1>1 DEF Slot, Fill, AtSlot
<1>6. NextSlot.maker \in Accounts
  BY <1>1, <1>5 DEF MoneyInv, SlotsOwned, NextSlot
<1>7. FillSize > 0
  BY <1>3, <1>5 DEF FillSize, Smaller
<1>8. tx.makerPrice \in Prices
  BY <1>1 DEF MakerLevel, Levels
<1>9. ExecPrice <= tx.price /\ market[tx.market].status \in Trades /\ tx.charge # "prepaid"
  BY <1>1 DEF MoneyInv, ChargeOK, CostBounded, ExecPrice
<1>10. MakerPaid \in Nat /\ FillValue \in Nat
  <2>1. tx.makerPrice \in Nat /\ Unit \in Nat
    BY <1>8, PriceAssumption, ProductType DEF Prices, Unit
  <2>2. MakerPaid \in Nat
    BY <1>2, <2>1, EscrowType DEF MakerPaid
  <2>3. FillValue \in Nat
    BY <1>2, <2>1, ProductType DEF FillValue
  <2> QED BY <2>2, <2>3
<1>11. TakerPaid + MakerPaid = FillValue
  <2> DEFINE n == FillSize
             p == tx.makerPrice
             r == Dollar - tx.makerPrice
             c == n * Cent
  <2>1. /\ n \in Nat /\ p \in Nat /\ r \in Nat /\ r + p = Dollar
        /\ Dollar \in Nat /\ Cent \in Nat /\ c \in Nat
    <3>1. p \in 1..(Dollar - 1) /\ Dollar \in Nat /\ Cent \in Nat
      BY <1>8, PriceAssumption DEF Prices
    <3>2. n * Cent \in Nat
      BY <1>2, <3>1, ProductType
    <3> QED BY <1>2, <3>1, <3>2
  <2>2. TakerPaid = r * n * Cent /\ MakerPaid = p * n * Cent
    BY DEF TakerPaid, MakerPaid, Escrow, ExecPrice
  <2>3. FillValue = n * (Dollar * Cent)
    BY DEF FillValue, Unit
  <2> HIDE DEF n, p, r
  <2>4. r * n * Cent = c * r /\ p * n * Cent = c * p /\ n * (Dollar * Cent) = c * Dollar
    BY <2>1
  <2> HIDE DEF c
  <2>5. c * (r + p) = c * r + c * p
    BY <2>1
  <2> QED BY <2>1, <2>2, <2>3, <2>4, <2>5
<1> QED BY <1>1, <1>2, <1>3, <1>4, <1>5, <1>6, <1>7, <1>8, <1>9, <1>10, <1>11

(* The two positions a fill changes, and by how much.                         *)
LEMMA FillPositions ==
  ASSUME TypeOK, BookInv, MoneyInv, Fill, NEW m \in Markets, NEW t \in Sides,
         NEW a \in Accounts
  PROVE  /\ position'[<<m, t, a>>].shares = position[<<m, t, a>>].shares
              + (IF m = tx.market /\ t = tx.side /\ a = tx.taker THEN FillSize ELSE 0)
              + (IF m = tx.market /\ t = Opposite(tx.side) /\ a = NextSlot.maker
                 THEN FillSize ELSE 0)
         /\ position'[<<m, t, a>>].costBasis = position[<<m, t, a>>].costBasis
              + (IF m = tx.market /\ t = tx.side /\ a = tx.taker THEN TakerPaid ELSE 0)
              + (IF m = tx.market /\ t = Opposite(tx.side) /\ a = NextSlot.maker
                 THEN MakerPaid ELSE 0)
<1> DEFINE add(r, c) == [shares |-> r.shares + FillSize, costBasis |-> r.costBasis + c]
           A == <<tx.market, tx.side, tx.taker>>
           B == <<tx.market, Opposite(tx.side), NextSlot.maker>>
           k == <<m, t, a>>
<1>1. /\ tx.market \in Markets /\ tx.side \in Sides /\ tx.taker \in Accounts
      /\ Opposite(tx.side) \in Sides /\ Opposite(tx.side) # tx.side
      /\ NextSlot.maker \in Accounts
      /\ FillSize \in Nat /\ TakerPaid \in Nat /\ MakerPaid \in Nat
  BY FillParties
<1>2. A \in Holdings /\ B \in Holdings /\ k \in Holdings /\ A # B
  BY <1>1 DEF Holdings
<1>3. position \in [Holdings -> Position]
  BY DEF TypeOK
<1>4. position' = [position EXCEPT ![A] = add(position[A], TakerPaid),
                                   ![B] = add(position[B], MakerPaid)]
  <2>1. Credit(NextSlot.maker, FillSize)
    BY DEF Fill, FillSize
  <2>2. position' = [position EXCEPT
          ![A] = add(@, TakerPaid), ![B] = add(@, MakerPaid)]
    BY <2>1, Zenon DEF Credit, TakerPaid, MakerPaid
  <2> HIDE DEF A, B, add
  <2> QED BY <1>2, <1>3, <2>2
<1>5. position[k].shares \in Nat /\ position[k].costBasis \in Nat
  BY WorthTypes
<1>6. k = A <=> m = tx.market /\ t = tx.side /\ a = tx.taker
  OBVIOUS
<1>7. k = B <=> m = tx.market /\ t = Opposite(tx.side) /\ a = NextSlot.maker
  OBVIOUS
<1> HIDE DEF A, B, k
<1>8. CASE k = A
  <2>1. position'[k] = add(position[k], TakerPaid)
    BY <1>2, <1>3, <1>4, <1>8
  <2>2. /\ position'[k].shares = position[k].shares + FillSize
        /\ position'[k].costBasis = position[k].costBasis + TakerPaid
    BY <2>1
  <2> HIDE DEF add
  <2> QED BY <1>1, <1>2, <1>5, <1>6, <1>7, <1>8, <2>2 DEF k
<1>9. CASE k = B
  <2>1. position'[k] = add(position[k], MakerPaid)
    BY <1>2, <1>3, <1>4, <1>9
  <2>2. /\ position'[k].shares = position[k].shares + FillSize
        /\ position'[k].costBasis = position[k].costBasis + MakerPaid
    BY <2>1
  <2> HIDE DEF add
  <2> QED BY <1>1, <1>2, <1>5, <1>6, <1>7, <1>9, <2>2 DEF k
<1>10. CASE k # A /\ k # B
  <2> HIDE DEF add
  <2>1. position'[k] = position[k]
    BY <1>2, <1>3, <1>4, <1>10
  <2> QED BY <1>5, <1>6, <1>7, <1>10, <2>1 DEF k
<1> QED BY <1>8, <1>9, <1>10

(* A dollar is an even number of units, so that half of it is whole.          *)
LEMMA HalfUnits ==
  ASSUME NEW x \in Nat
  PROVE  /\ Unit \div 2 \in Nat /\ Unit \in Nat
         /\ (x * Unit) \div 2 = x * (Unit \div 2)
         /\ x * (Unit \div 2) + x * (Unit \div 2) = x * Unit
<1> DEFINE d == Dollar \div 2
           h == d * Cent
<1>1. d \in Nat /\ Dollar = 2 * d /\ Cent \in Nat
  BY PriceAssumption
<1>2. h \in Nat
  BY <1>1, ProductType
<1> HIDE DEF d
<1>3. Unit = 2 * h
  BY <1>1 DEF Unit
<1> HIDE DEF h
<1>4. Unit \div 2 = h /\ Unit \in Nat
  BY <1>2, <1>3
<1> DEFINE y == x * h
<1>5. y \in Nat /\ x * Unit = 2 * y
  BY <1>2, <1>3, ProductType
<1> HIDE DEF y
<1>6. (x * Unit) \div 2 = y /\ y + y = x * Unit
  BY <1>5
<1> QED BY <1>2, <1>4, <1>6 DEF y

\* What a fill adds to the worth of its taker and of its maker.
TakerWorth(kind) ==
  IF kind = "basis" THEN TakerPaid
  ELSE IF kind = "half" THEN FillSize * (Unit \div 2)
  ELSE IF kind = tx.side THEN FillValue ELSE 0

MakerWorth(kind) ==
  IF kind = "basis" THEN MakerPaid
  ELSE IF kind = "half" THEN FillSize * (Unit \div 2)
  ELSE IF kind = Opposite(tx.side) THEN FillValue ELSE 0

(* However the market is resolved, a fill is worth a dollar a share.          *)
LEMMA FillWorths ==
  ASSUME TypeOK, BookInv, MoneyInv, Fill, NEW kind \in Kinds
  PROVE  /\ TakerWorth(kind) \in Nat /\ MakerWorth(kind) \in Nat
         /\ TakerWorth(kind) + MakerWorth(kind) = FillValue
<1>1. /\ FillSize \in Nat /\ tx.side \in Sides /\ Opposite(tx.side) # tx.side
      /\ Opposite(tx.side) \in Sides
      /\ TakerPaid \in Nat /\ MakerPaid \in Nat /\ FillValue \in Nat
      /\ TakerPaid + MakerPaid = FillValue
  BY FillParties
<1>2. /\ FillSize * (Unit \div 2) \in Nat
      /\ FillSize * (Unit \div 2) + FillSize * (Unit \div 2) = FillValue
  BY <1>1, HalfUnits, ProductType DEF FillValue
<1>3. CASE kind = "basis"
  BY <1>1, <1>3 DEF TakerWorth, MakerWorth
<1>4. CASE kind = "half"
  BY <1>2, <1>4 DEF TakerWorth, MakerWorth
<1>5. CASE kind \notin {"basis", "half"}
  <2>1. kind = tx.side \/ kind = Opposite(tx.side)
    BY <1>1, <1>5 DEF Kinds, Sides
  <2> QED BY <1>1, <1>5, <2>1 DEF TakerWorth, MakerWorth
<1> QED BY <1>3, <1>4, <1>5

(* What a fill adds to the worth of an account's positions in a market.       *)
LEMMA FillWorth ==
  ASSUME TypeOK, BookInv, MoneyInv, Fill, NEW m \in Markets, NEW a \in Accounts,
         NEW kind \in Kinds
  PROVE  Worth(m, a, kind)' = Worth(m, a, kind)
           + (IF m = tx.market /\ a = tx.taker THEN TakerWorth(kind) ELSE 0)
           + (IF m = tx.market /\ a = NextSlot.maker THEN MakerWorth(kind) ELSE 0)
<1> DEFINE yes == position[<<m, "YES", a>>]
           no == position[<<m, "NO", a>>]
           yes1 == position'[<<m, "YES", a>>]
           no1 == position'[<<m, "NO", a>>]
           takes == m = tx.market /\ a = tx.taker
           makes == m = tx.market /\ a = NextSlot.maker
           taken(x) == IF takes THEN x ELSE 0
           made(x) == IF makes THEN x ELSE 0
           h == Unit \div 2
<1>1. /\ tx.side \in {"YES", "NO"} /\ Opposite(tx.side) \in {"YES", "NO"}
      /\ Opposite(tx.side) # tx.side
      /\ FillSize \in Nat /\ TakerPaid \in Nat /\ MakerPaid \in Nat /\ FillValue \in Nat
  BY FillParties DEF Sides
<1>2. /\ yes.shares \in Nat /\ yes.costBasis \in Nat
      /\ no.shares \in Nat /\ no.costBasis \in Nat
  BY WorthTypes DEF Sides
<1>3. \A t \in {"YES", "NO"} :
        /\ position'[<<m, t, a>>].shares = position[<<m, t, a>>].shares
             + (IF takes /\ t = tx.side THEN FillSize ELSE 0)
             + (IF makes /\ t = Opposite(tx.side) THEN FillSize ELSE 0)
        /\ position'[<<m, t, a>>].costBasis = position[<<m, t, a>>].costBasis
             + (IF takes /\ t = tx.side THEN TakerPaid ELSE 0)
             + (IF makes /\ t = Opposite(tx.side) THEN MakerPaid ELSE 0)
  <2>1. Sides = {"YES", "NO"}
    BY DEF Sides
  <2> QED BY <2>1, FillPositions
<1>4. Unit \in Nat /\ h \in Nat
  BY HalfUnits
<1> HIDE DEF takes, makes, h
<1>5. CASE kind = "basis"
  <2>1. /\ Worth(m, a, kind) = yes.costBasis + no.costBasis
        /\ Worth(m, a, kind)' = yes1.costBasis + no1.costBasis
    BY <1>5 DEF Worth
  <2>2. TakerWorth(kind) = TakerPaid /\ MakerWorth(kind) = MakerPaid
    BY <1>5 DEF TakerWorth, MakerWorth
  <2>3. yes1.costBasis + no1.costBasis
          = yes.costBasis + no.costBasis + taken(TakerPaid) + made(MakerPaid)
    <3>1. CASE tx.side = "YES"
      BY <1>1, <1>2, <1>3, <3>1
    <3>2. CASE tx.side = "NO"
      BY <1>1, <1>2, <1>3, <3>2
    <3> QED BY <1>1, <3>1, <3>2
  <2> QED BY <2>1, <2>2, <2>3 DEF takes, makes
<1>6. CASE kind = "half"
  <2>1. /\ Worth(m, a, kind) = ((yes.shares + no.shares) * Unit) \div 2
        /\ Worth(m, a, kind)' = ((yes1.shares + no1.shares) * Unit) \div 2
    BY <1>6 DEF Worth
  <2>2. TakerWorth(kind) = FillSize * h /\ MakerWorth(kind) = FillSize * h
    BY <1>6 DEF TakerWorth, MakerWorth, h
  <2>3. yes1.shares + no1.shares
          = yes.shares + no.shares + (taken(FillSize) + made(FillSize))
    <3>1. CASE tx.side = "YES"
      BY <1>1, <1>2, <1>3, <3>1
    <3>2. CASE tx.side = "NO"
      BY <1>1, <1>2, <1>3, <3>2
    <3> QED BY <1>1, <3>1, <3>2
  <2> DEFINE x == yes.shares + no.shares
             y == taken(FillSize) + made(FillSize)
  <2>4. x \in Nat /\ y \in Nat
    BY <1>1, <1>2
  <2>5. /\ Worth(m, a, kind) = x * h
        /\ Worth(m, a, kind)' = (x + y) * h
    <3> HIDE DEF x, y, yes, no, yes1, no1
    <3>1. x + y \in Nat
      BY <2>4
    <3>2. (x * Unit) \div 2 = x * h /\ ((x + y) * Unit) \div 2 = (x + y) * h
      BY <2>4, <3>1, HalfUnits DEF h
    <3> QED BY <2>1, <2>3, <3>2 DEF x, y
  <2>6. y * h = taken(FillSize * h) + made(FillSize * h)
    <3>1. FillSize * h \in Nat /\ 0 * h = 0
      BY <1>1, <1>4, ProductType
    <3>2. (FillSize + FillSize) * h = FillSize * h + FillSize * h
      BY <1>1, <1>4
    <3>3. \/ takes /\ makes /\ y = FillSize + FillSize
          \/ takes /\ ~makes /\ y = FillSize
          \/ ~takes /\ makes /\ y = FillSize
          \/ ~takes /\ ~makes /\ y = 0
      BY <1>1
    <3> HIDE DEF y
    <3> QED BY <3>1, <3>2, <3>3
  <2>7. (x + y) * h = x * h + y * h
    <3> HIDE DEF x, y
    <3> QED BY <1>4, <2>4
  <2>8. x * h \in Nat /\ taken(FillSize * h) \in Nat /\ made(FillSize * h) \in Nat
    <3> HIDE DEF x
    <3> QED BY <1>1, <1>4, <2>4, ProductType
  <2> HIDE DEF x, y
  <2>9. Worth(m, a, kind)' = Worth(m, a, kind) + taken(FillSize * h) + made(FillSize * h)
    BY <2>5, <2>6, <2>7, <2>8
  <2> QED BY <2>2, <2>9 DEF takes, makes
<1>7. CASE kind \notin {"basis", "half"}
  <2>1. kind \in {"YES", "NO"}
    BY <1>7 DEF Kinds, Sides
  <2> DEFINE x == position[<<m, kind, a>>].shares
             y == (IF takes /\ kind = tx.side THEN FillSize ELSE 0)
                    + (IF makes /\ kind = Opposite(tx.side) THEN FillSize ELSE 0)
  <2>2. x \in Nat /\ y \in Nat /\ position'[<<m, kind, a>>].shares = x + y
    BY <1>1, <1>2, <1>3, <2>1
  <2>3. /\ Worth(m, a, kind) = x * Unit
        /\ Worth(m, a, kind)' = position'[<<m, kind, a>>].shares * Unit
    BY <1>7 DEF Worth
  <2>4. y * Unit = taken(TakerWorth(kind)) + made(MakerWorth(kind))
    <3>1. /\ kind = tx.side => TakerWorth(kind) = FillValue /\ MakerWorth(kind) = 0
          /\ kind # tx.side => TakerWorth(kind) = 0 /\ MakerWorth(kind) = FillValue
      BY <1>1, <1>7, <2>1 DEF TakerWorth, MakerWorth
    <3>2. y = FillSize \/ y = 0
      BY <1>1
    <3>3. y = FillSize <=> FillSize = 0 \/ (takes /\ kind = tx.side) \/ (makes /\ kind # tx.side)
      BY <1>1, <2>1
    <3>4. 0 * Unit = 0
      BY <1>4
    <3> HIDE DEF y
    <3> QED BY <1>1, <3>1, <3>2, <3>3, <3>4 DEF FillValue
  <2>5. (x + y) * Unit = x * Unit + y * Unit
    <3> HIDE DEF x, y
    <3> QED BY <1>4, <2>2
  <2>6. x * Unit \in Nat
    <3> HIDE DEF x
    <3> QED BY <1>4, <2>2, ProductType
  <2>7. TakerWorth(kind) \in Nat /\ MakerWorth(kind) \in Nat
    BY FillWorths
  <2> HIDE DEF x, y
  <2>8. Worth(m, a, kind)' = Worth(m, a, kind) + taken(TakerWorth(kind)) + made(MakerWorth(kind))
    BY <2>2, <2>3, <2>4, <2>5, <2>6, <2>7
  <2> QED BY <2>8 DEF takes, makes
<1> QED BY <1>5, <1>6, <1>7

(* A fill adds its value to its market's worth, of whatever kind, and its     *)
(* shares and what they cost to either side.                                  *)
LEMMA FillSums ==
  ASSUME TypeOK, TypeOK', BookInv, MoneyInv, Fill, NEW m \in Markets
  PROVE  /\ \A kind \in Kinds : Worths(m, kind)'
              = Worths(m, kind) + (IF m = tx.market THEN FillValue ELSE 0)
         /\ \A t \in Sides :
              /\ SharesOf(m, t)' = SharesOf(m, t) + (IF m = tx.market THEN FillSize ELSE 0)
              /\ BasisOf(m, t)' = BasisOf(m, t)
                   + (IF m # tx.market THEN 0
                      ELSE IF t = tx.side THEN TakerPaid ELSE MakerPaid)
              /\ SharesOf(m, t) \in Nat /\ BasisOf(m, t) \in Nat
<1>1. /\ tx.market \in Markets /\ tx.side \in Sides /\ tx.taker \in Accounts
      /\ Opposite(tx.side) \in Sides /\ Opposite(tx.side) # tx.side
      /\ NextSlot.maker \in Accounts
      /\ FillSize \in Nat /\ TakerPaid \in Nat /\ MakerPaid \in Nat /\ FillValue \in Nat
  BY FillParties
<1>2. ASSUME NEW kind \in Kinds
      PROVE  Worths(m, kind)' = Worths(m, kind) + (IF m = tx.market THEN FillValue ELSE 0)
  <2> DEFINE f == [a \in Accounts |-> Worth(m, a, kind)]
             g == [a \in Accounts |-> Worth(m, a, kind)']
             x == IF m = tx.market THEN TakerWorth(kind) ELSE 0
             y == IF m = tx.market THEN MakerWorth(kind) ELSE 0
  <2>1. /\ TakerWorth(kind) \in Nat /\ MakerWorth(kind) \in Nat
        /\ TakerWorth(kind) + MakerWorth(kind) = FillValue
    BY FillWorths
  <2>2. x \in Nat /\ y \in Nat /\ x + y = (IF m = tx.market THEN FillValue ELSE 0)
    BY <2>1
  <2>3. \A a \in Accounts : /\ Worth(m, a, kind) \in Nat
                            /\ Worth(m, a, kind)' \in Nat
    <3>1. \A a \in Accounts : Worth(m, a, kind) \in Nat
      BY WorthTypes
    <3>2. \A a \in Accounts : Worth(m, a, kind)' = Worth(m, a, kind)
            + (IF m = tx.market /\ a = tx.taker THEN TakerWorth(kind) ELSE 0)
            + (IF m = tx.market /\ a = NextSlot.maker THEN MakerWorth(kind) ELSE 0)
      BY FillWorth
    <3> QED BY <2>1, <3>1, <3>2
  <2>4. \A a \in Accounts : g[a] = f[a] + (IF a = tx.taker THEN x ELSE 0)
                                        + (IF a = NextSlot.maker THEN y ELSE 0)
    <3>1. ASSUME NEW a \in Accounts
          PROVE  g[a] = f[a] + (IF a = tx.taker THEN x ELSE 0)
                             + (IF a = NextSlot.maker THEN y ELSE 0)
      <4>1. Worth(m, a, kind)' = Worth(m, a, kind)
              + (IF m = tx.market /\ a = tx.taker THEN TakerWorth(kind) ELSE 0)
              + (IF m = tx.market /\ a = NextSlot.maker THEN MakerWorth(kind) ELSE 0)
        BY FillWorth
      <4>2. f[a] = Worth(m, a, kind) /\ g[a] = Worth(m, a, kind)'
        OBVIOUS
      <4> QED BY <4>1, <4>2
    <3> QED BY <3>1
  <2>5. f \in [Accounts -> Nat] /\ g \in [Accounts -> Nat]
    BY <2>3
  <2>6. Worths(m, kind) = Total(f) /\ Worths(m, kind)' = Total(g)
    BY DEF Worths
  <2> HIDE DEF f, g, x, y
  <2>7. GainsTwo(Accounts, f, g, tx.taker, x, NextSlot.maker, y)
    BY <1>1, <2>2, <2>4, <2>5, SetsFinite DEF GainsTwo
  <2>8. Total(g) = Total(f) + x + y /\ Total(f) \in Nat
    BY <2>5, <2>7, SetsFinite, TotalAddTwo, TotalType
  <2> QED BY <2>2, <2>6, <2>8
<1>3. ASSUME NEW t \in Sides
      PROVE  /\ SharesOf(m, t)' = SharesOf(m, t) + (IF m = tx.market THEN FillSize ELSE 0)
             /\ BasisOf(m, t)' = BasisOf(m, t)
                  + (IF m # tx.market THEN 0
                     ELSE IF t = tx.side THEN TakerPaid ELSE MakerPaid)
             /\ SharesOf(m, t) \in Nat /\ BasisOf(m, t) \in Nat
  <2> DEFINE p == IF t = tx.side THEN tx.taker ELSE NextSlot.maker
             x == IF m = tx.market THEN FillSize ELSE 0
             y == IF m # tx.market THEN 0
                  ELSE IF t = tx.side THEN TakerPaid ELSE MakerPaid
             f == [a \in Accounts |-> position[<<m, t, a>>].shares]
             g == [a \in Accounts |-> position'[<<m, t, a>>].shares]
             c == [a \in Accounts |-> position[<<m, t, a>>].costBasis]
             d == [a \in Accounts |-> position'[<<m, t, a>>].costBasis]
  <2>1. t = tx.side \/ t = Opposite(tx.side)
    BY <1>1 DEF Sides
  <2>2. ASSUME NEW a \in Accounts
        PROVE  /\ position[<<m, t, a>>].shares \in Nat /\ position[<<m, t, a>>].costBasis \in Nat
               /\ position'[<<m, t, a>>].shares
                    = position[<<m, t, a>>].shares + (IF a = p THEN x ELSE 0)
               /\ position'[<<m, t, a>>].costBasis
                    = position[<<m, t, a>>].costBasis + (IF a = p THEN y ELSE 0)
    <3>1. /\ position[<<m, t, a>>].shares \in Nat /\ position[<<m, t, a>>].costBasis \in Nat
      BY WorthTypes
    <3>2. /\ position'[<<m, t, a>>].shares = position[<<m, t, a>>].shares
               + (IF m = tx.market /\ t = tx.side /\ a = tx.taker THEN FillSize ELSE 0)
               + (IF m = tx.market /\ t = Opposite(tx.side) /\ a = NextSlot.maker
                  THEN FillSize ELSE 0)
          /\ position'[<<m, t, a>>].costBasis = position[<<m, t, a>>].costBasis
               + (IF m = tx.market /\ t = tx.side /\ a = tx.taker THEN TakerPaid ELSE 0)
               + (IF m = tx.market /\ t = Opposite(tx.side) /\ a = NextSlot.maker
                  THEN MakerPaid ELSE 0)
      BY FillPositions
    <3>3. CASE t = tx.side
      BY <1>1, <3>1, <3>2, <3>3
    <3>4. CASE t = Opposite(tx.side)
      BY <1>1, <3>1, <3>2, <3>4
    <3> QED BY <2>1, <3>3, <3>4
  <2>3. p \in Accounts /\ x \in Nat /\ y \in Nat
    BY <1>1
  <2>4. /\ f \in [Accounts -> Nat] /\ c \in [Accounts -> Nat]
        /\ \A a \in Accounts : g[a] = f[a] + (IF a = p THEN x ELSE 0)
        /\ \A a \in Accounts : d[a] = c[a] + (IF a = p THEN y ELSE 0)
    BY <2>2
  <2>5. g \in [Accounts -> Nat] /\ d \in [Accounts -> Nat]
    <3> HIDE DEF x, y, p
    <3>1. \A a \in Accounts : /\ position'[<<m, t, a>>].shares \in Nat
                              /\ position'[<<m, t, a>>].costBasis \in Nat
      BY <2>2, <2>3
    <3> QED BY <3>1
  <2>6. /\ SharesOf(m, t) = Total(f) /\ SharesOf(m, t)' = Total(g)
        /\ BasisOf(m, t) = Total(c) /\ BasisOf(m, t)' = Total(d)
    BY DEF SharesOf, BasisOf
  <2> HIDE DEF f, g, c, d, p, x, y
  <2>7. Gains(Accounts, f, g, p, x) /\ Gains(Accounts, c, d, p, y)
    BY <2>3, <2>4, <2>5, SetsFinite DEF Gains
  <2>8. Total(g) = Total(f) + x /\ Total(d) = Total(c) + y
    BY <2>7, TotalAdd
  <2>9. Total(f) \in Nat /\ Total(c) \in Nat
    BY <2>4, SetsFinite, TotalType
  <2> QED BY <2>6, <2>8, <2>9 DEF x, y
<1> QED BY <1>2, <1>3

(* What a fill writes to its market.                                          *)
LEMMA FillMarket ==
  ASSUME TypeOK, TypeOK', BookInv, MoneyInv, Fill
  PROVE  /\ \A m \in Markets : m # tx.market => market'[m] = market[m]
         /\ market'[tx.market].volume = market[tx.market].volume + FillValue
         /\ market'[tx.market].creatorFees
              = market[tx.market].creatorFees + FeeShare(FillFee, fees.creatorShare)
         /\ market'[tx.market].status \in Trades
         /\ \A m \in Markets : KindOf(m)' = KindOf(m)
         /\ KindOf(tx.market) = "basis"
<1> DEFINE r == market[tx.market]
           c == FeeShare(FillFee, fees.creatorShare)
           status == IF /\ r.opening = <<Opposite(tx.side), tx.makerPrice, NextIndex>>
                        /\ r.status = "OPEN"
                     THEN "MATCHED" ELSE r.status
           q == [r EXCEPT !.volume = @ + FillValue, !.creatorFees = @ + c, !.status = status]
<1>1. tx.market \in Markets /\ r.status \in Trades
  BY FillParties
<1>2. market \in [Markets -> Market] /\ r \in Market
  BY <1>1 DEF TypeOK
<1>3. market' = Put(market, tx.market, q)
  BY <1>1, <1>2 DEF Fill, Put, FillSize, FillFee, FillValue
<1>4. status \in Trades
  BY <1>1 DEF Trades
<1> HIDE DEF status, c
<1>5. /\ q.volume = r.volume + FillValue /\ q.creatorFees = r.creatorFees + c
      /\ q.status = status
  BY <1>2 DEF Market
<1> HIDE DEF q
<1>6. /\ market'[tx.market] = q
      /\ \A m \in Markets : m # tx.market => market'[m] = market[m]
  BY <1>1, <1>2, <1>3 DEF Put
<1>7. \A m \in Markets : m = tx.market => KindOf(m) = "basis" /\ KindOf(m)' = "basis"
  <2>1. market[tx.market].status # "SETTLED" /\ market'[tx.market].status # "SETTLED"
    BY <1>1, <1>4, <1>5, <1>6 DEF Trades
  <2> QED BY <2>1 DEF KindOf
<1>8. \A m \in Markets : KindOf(m)' = KindOf(m)
  <2>1. \A m \in Markets : m # tx.market => KindOf(m)' = KindOf(m)
    BY <1>6 DEF KindOf, WinningSide
  <2> QED BY <1>7, <2>1
<1> QED BY <1>1, <1>4, <1>5, <1>6, <1>7, <1>8 DEF c

(* The two shares of a fee never exceed it (MAX_SHARE_BPS).                   *)
LEMMA SharesOfFee ==
  ASSUME fees \in Fees, NEW fee \in Nat
  PROVE  /\ FeeShare(fee, fees.creatorShare) \in Nat
         /\ FeeShare(fee, fees.affiliateShare) \in Nat
         /\ FeeShare(fee, fees.creatorShare) + FeeShare(fee, fees.affiliateShare) <= fee
<1> DEFINE x == fees.creatorShare
           y == fees.affiliateShare
           c == FeeShare(fee, x)
           a == FeeShare(fee, y)
<1>1. x \in Nat /\ y \in Nat /\ x + y <= Bps /\ Bps \in Nat \ {0}
  BY FeeAssumption DEF Fees
<1> HIDE DEF x, y
<1>2. c \in Nat /\ a \in Nat
  BY <1>1, FeeShareType
<1>3. ASSUME NEW z \in Nat PROVE Bps * ((fee * z) \div Bps) <= fee * z
  <2> DEFINE w == fee * z
  <2>1. w \in Nat
    BY ProductType
  <2> HIDE DEF w
  <2>2. w = Bps * (w \div Bps) + (w % Bps) /\ w % Bps \in Nat
    BY <1>1, <2>1
  <2>3. Bps * (w \div Bps) \in Int
    BY <1>1, <2>1
  <2> QED BY <2>1, <2>2, <2>3 DEF w
<1>4. Bps * c <= fee * x /\ Bps * a <= fee * y
  BY <1>1, <1>3 DEF FeeShare
<1> HIDE DEF c, a
<1>5. Bps * (c + a) = Bps * c + Bps * a /\ fee * (x + y) = fee * x + fee * y
  BY <1>1, <1>2
<1>6. fee * (x + y) <= Bps * fee
  <2> DEFINE z == x + y
  <2>1. z \in Nat /\ z <= Bps
    BY <1>1
  <2> HIDE DEF z
  <2> QED BY <1>1, <2>1
<1>7. /\ Bps * c \in Nat /\ Bps * a \in Nat /\ fee * x \in Nat /\ fee * y \in Nat
      /\ Bps * fee \in Nat
  BY <1>1, <1>2, ProductType
<1>8. Bps * (c + a) <= Bps * fee
  BY <1>4, <1>5, <1>6, <1>7
<1>9. c + a <= fee
  <2>1. c + a \in Nat
    BY <1>2
  <2> QED BY <1>1, <1>8, <2>1, ProductsCancel
<1> QED BY <1>2, <1>9 DEF c, a, x, y

(* A fee is split between the creator, the affiliate and the protocol: what   *)
(* accrues is the fee, to the last unit.                                      *)
LEMMA FillFees ==
  ASSUME TypeOK, TypeOK', BookInv, MoneyInv, Fill
  PROVE  LET toCreator == FeeShare(FillFee, fees.creatorShare)
         IN  /\ toCreator \in Nat
             /\ Total(CreatorTable') = Total(CreatorTable) + toCreator
             /\ Total(affiliateFees') + protocolFees'
                  = Total(affiliateFees) + protocolFees + (FillFee - toCreator)
             /\ Total(affiliateFees') \in Nat /\ protocolFees' \in Nat
<1> DEFINE c == FeeShare(FillFee, fees.creatorShare)
           a == FeeShare(FillFee, fees.affiliateShare)
<1>1. tx.market \in Markets /\ FillFee \in Nat
  BY FillParties
<1>2. c \in Nat /\ a \in Nat /\ c + a <= FillFee
  BY <1>1, SharesOfFee DEF TypeOK
<1>3. Total(CreatorTable') = Total(CreatorTable) + c
  <2>1. /\ \A m \in Markets : m # tx.market => market'[m] = market[m]
        /\ market'[tx.market].creatorFees = market[tx.market].creatorFees + c
    BY FillMarket
  <2>2. /\ CreatorTable \in [Markets -> Nat] /\ CreatorTable' \in [Markets -> Nat]
        /\ \A m \in Markets : /\ CreatorTable[m] = market[m].creatorFees
                              /\ CreatorTable'[m] = market'[m].creatorFees
    BY DEF TypeOK, Market, CreatorTable
  <2> HIDE DEF c
  <2>3. \A m \in Markets : CreatorTable'[m] = CreatorTable[m] + (IF m = tx.market THEN c ELSE 0)
    <3>1. \A m \in Markets : CreatorTable[m] \in Nat
      BY <2>2
    <3> QED BY <1>1, <2>1, <2>2, <3>1
  <2>4. Gains(Markets, CreatorTable, CreatorTable', tx.market, c)
    BY <1>1, <1>2, <2>2, <2>3, SetsFinite DEF Gains
  <2> QED BY <2>4, TotalAdd
<1>4. AccrueFees(FillFee, c, a)
  BY DEF Fill, FillFee, FillSize
<1>5. /\ affiliateFees \in [Posts -> Nat] /\ affiliateFees' \in [Posts -> Nat]
      /\ protocolFees \in Nat
      /\ Total(affiliateFees) \in Nat
  BY LedgerTypes DEF TypeOK, MoneyInv, MoneyTypes
<1>6. tx.post \in Posts \cup {NoPost}
  BY FillParties DEF Matching
<1> HIDE DEF c, a
<1>7. CASE AffiliateRouted
  <2>1. /\ affiliateFees' = [affiliateFees EXCEPT ![tx.post] = affiliateFees[tx.post] + a]
        /\ protocolFees' = protocolFees + (FillFee - c - a)
        /\ tx.post \in Posts
    BY <1>4, <1>6, <1>7 DEF AccrueFees, AffiliateRouted
  <2>2. Gains(Posts, affiliateFees, affiliateFees', tx.post, a)
    <3>1. \A p \in Posts : affiliateFees[p] \in Nat
      BY <1>5
    <3> QED BY <1>2, <1>5, <2>1, <3>1, SetsFinite DEF Gains
  <2>3. Total(affiliateFees') = Total(affiliateFees) + a
    BY <2>2, TotalAdd
  <2> QED BY <1>1, <1>2, <1>3, <1>5, <2>1, <2>3 DEF c
<1>8. CASE ~AffiliateRouted
  <2>1. /\ affiliateFees' = affiliateFees
        /\ protocolFees' = protocolFees + a + (FillFee - c - a)
    BY <1>4, <1>8 DEF AccrueFees
  <2> QED BY <1>1, <1>2, <1>3, <1>5, <2>1 DEF c
<1> QED BY <1>7, <1>8

(* A fill adds its value to what positions claim.                             *)
LEMMA FillClaims ==
  ASSUME TypeOK, TypeOK', BookInv, MoneyInv, Fill
  PROVE  Claims' = Claims + FillValue
<1> DEFINE f == [k \in Markets \X Accounts |-> Claim(k[1], k[2])]
           g == [k \in Markets \X Accounts |-> Claim(k[1], k[2])']
           A == <<tx.market, tx.taker>>
           B == <<tx.market, NextSlot.maker>>
<1>1. /\ tx.market \in Markets /\ tx.taker \in Accounts /\ NextSlot.maker \in Accounts
      /\ TakerPaid \in Nat /\ MakerPaid \in Nat /\ TakerPaid + MakerPaid = FillValue
  BY FillParties
<1>2. ASSUME NEW k \in Markets \X Accounts
      PROVE  /\ f[k] \in Nat
             /\ g[k] = f[k] + (IF k = A THEN TakerPaid ELSE 0) + (IF k = B THEN MakerPaid ELSE 0)
  <2> DEFINE m == k[1]
             a == k[2]
  <2>1. m \in Markets /\ a \in Accounts /\ k = <<m, a>>
    OBVIOUS
  <2>2. /\ (k = A <=> m = tx.market /\ a = tx.taker)
        /\ (k = B <=> m = tx.market /\ a = NextSlot.maker)
    OBVIOUS
  <2>3. f[k] = Claim(m, a) /\ g[k] = Claim(m, a)'
    OBVIOUS
  <2> HIDE DEF f, g, m, a, A, B
  <2>4. PICK kind \in Kinds : KindOf(m) = kind /\ (m = tx.market => kind = "basis")
    BY <2>1, ClaimWorth, FillMarket
  <2>5. Claim(m, a) = Worth(m, a, kind)
    BY <2>1, <2>4, ClaimWorth
  <2>6. Claim(m, a)' = Worth(m, a, kind)'
    <3>1. KindOf(m)' = kind
      BY <2>1, <2>4, FillMarket
    <3> QED BY <3>1 DEF Claim, Worth, KindOf, WinningSide
  <2>7. Worth(m, a, kind)' = Worth(m, a, kind)
          + (IF m = tx.market /\ a = tx.taker THEN TakerWorth(kind) ELSE 0)
          + (IF m = tx.market /\ a = NextSlot.maker THEN MakerWorth(kind) ELSE 0)
    BY <2>1, FillWorth
  <2>8. Worth(m, a, kind) \in Nat
    BY <2>1, WorthTypes
  <2>9. m = tx.market => TakerWorth(kind) = TakerPaid /\ MakerWorth(kind) = MakerPaid
    BY <2>4 DEF TakerWorth, MakerWorth
  <2> QED BY <2>2, <2>3, <2>5, <2>6, <2>7, <2>8, <2>9
<1>3. f \in [Markets \X Accounts -> Nat] /\ g \in [Markets \X Accounts -> Nat]
  <2>1. f \in [Markets \X Accounts -> Nat]
    BY <1>2
  <2>2. \A k \in Markets \X Accounts : Claim(k[1], k[2])' \in Nat
    <3> HIDE DEF f, A, B
    <3>1. \A k \in Markets \X Accounts : g[k] \in Nat
      BY <1>1, <1>2
    <3> QED BY <3>1
  <2> QED BY <2>1, <2>2
<1>4. A \in Markets \X Accounts /\ B \in Markets \X Accounts
  BY <1>1
<1>5. Claims = Total(f) /\ Claims' = Total(g)
  BY DEF Claims
<1> HIDE DEF f, g, A, B
<1>6. GainsTwo(Markets \X Accounts, f, g, A, TakerPaid, B, MakerPaid)
  BY <1>1, <1>2, <1>3, <1>4, SetsFinite DEF GainsTwo
<1>7. Total(g) = Total(f) + TakerPaid + MakerPaid /\ Total(f) \in Nat
  BY <1>3, <1>6, SetsFinite, TotalAddTwo, TotalType
<1> QED BY <1>1, <1>5, <1>7

(* A fill keeps what the order has paid within what its own price asks.       *)
LEMMA FillCharge ==
  ASSUME TypeOK, TypeOK', BookInv, MoneyInv, Fill
  PROVE  ChargeOK' /\ Uncollected' = Uncollected + (TakerPaid + FillFee) /\ Prepaid' = Prepaid
<1> DEFINE n == FillSize
           k == Matched
           p == tx.price
           cost == tx.escrow + tx.fee
           more == TakerPaid + FillFee
<1>1. /\ tx # Idle /\ tx \in Matching /\ n \in Nat \ {0} /\ n <= tx.left
      /\ ExecPrice \in Prices /\ ExecPrice <= p
      /\ FillFee \in Nat /\ TakerPaid \in Nat
      /\ tx.charge # "prepaid" /\ tx.market \in Markets
  BY FillParties
<1>2. /\ p \in Prices /\ p \in Nat /\ tx.left \in Nat /\ tx.size \in Nat
      /\ tx.escrow \in Nat /\ tx.fee \in Nat
  BY <1>1 DEF Matching, Prices
<1>3. /\ CostBounded /\ ChargeOK /\ fees \in Fees
  BY <1>1 DEF MoneyInv, ChargeOK, TypeOK
<1>4. k \in Nat /\ k + tx.left = tx.size
  BY <1>2, <1>3 DEF CostBounded, Matched
<1>5. /\ fees' = fees /\ freeBalance' = freeBalance
      /\ tx' = [tx EXCEPT !.left = @ - n, !.fee = @ + FillFee, !.escrow = @ + TakerPaid]
  BY DEF Fill, FillSize, FillFee, TakerPaid, configVars
<1>6. /\ tx' # Idle /\ tx'.pc = tx.pc /\ tx'.market = tx.market /\ tx'.taker = tx.taker
      /\ tx'.price = p /\ tx'.size = tx.size /\ tx'.charge = tx.charge
      /\ tx'.prepaid = tx.prepaid /\ tx'.makerPrice = tx.makerPrice
      /\ tx'.left = tx.left - n /\ tx'.fee = tx.fee + FillFee
      /\ tx'.escrow = tx.escrow + TakerPaid
  <2> HIDE DEF n
  <2> QED BY <1>1, <1>5 DEF Matching, Idle
<1> HIDE DEF n, k, p
<1>7. Matched' = k + n /\ tx'.left \in Nat /\ tx'.left <= tx'.size
  <2>1. Matched' = tx'.size - tx'.left
    BY DEF Matched
  <2> QED BY <1>1, <1>2, <1>4, <1>6, <2>1
<1>8. cost \in Nat /\ more \in Nat /\ tx'.escrow + tx'.fee = cost + more
  BY <1>1, <1>2, <1>6
<1>9. /\ Escrow(p, k + n) = Escrow(p, k) + Escrow(p, n)
      /\ Escrow(p, k) \in Nat /\ Escrow(p, n) \in Nat
      /\ RawFee(k + n, p) = RawFee(k, p) + RawFee(n, p)
      /\ RawFee(k, p) \in Nat /\ RawFee(n, p) \in Nat /\ Scale \in Nat \ {0}
  <2>1. p \in Nat /\ p \in Prices /\ n \in Nat /\ k \in Nat /\ fees \in Fees
    BY <1>1, <1>2, <1>3, <1>4
  <2>2. Escrow(p, k + n) = Escrow(p, k) + Escrow(p, n)
    BY <2>1, EscrowSum
  <2>3. RawFee(k + n, p) = RawFee(k, p) + RawFee(n, p)
    BY <2>1, RawFeeSum
  <2> QED BY <2>1, <2>2, <2>3, EscrowType, RawFeeTypes
<1>10. Scale * cost <= Scale * Escrow(p, k) + RawFee(k, p) + Scale * k
  BY <1>3 DEF CostBounded, p, k
<1>11. Scale * more <= Scale * Escrow(p, n) + RawFee(n, p) + Scale * n
  BY <1>1, <1>2, <1>3, FillCost DEF TakerPaid, FillFee, n
<1>12. Scale * (cost + more) <= Scale * Escrow(p, k + n) + RawFee(k + n, p) + Scale * (k + n)
  <2> DEFINE K == Scale
             E == Escrow(p, k)
             F == Escrow(p, n)
  <2>1. K \in Nat /\ E \in Nat /\ F \in Nat /\ n \in Nat /\ k \in Nat
    BY <1>1, <1>4, <1>9
  <2> HIDE DEF K, E, F, cost, more
  <2>2. /\ K * (cost + more) = K * cost + K * more
        /\ K * (E + F) = K * E + K * F /\ K * (k + n) = K * k + K * n
    BY <1>8, <2>1
  <2>3. /\ K * cost \in Nat /\ K * more \in Nat /\ K * E \in Nat /\ K * F \in Nat
        /\ K * k \in Nat /\ K * n \in Nat
    BY <1>8, <2>1, ProductType
  <2>4. /\ K * cost <= K * E + RawFee(k, p) + K * k
        /\ K * more <= K * F + RawFee(n, p) + K * n
    BY <1>10, <1>11 DEF K, E, F
  <2>5. K * (cost + more) <= K * (E + F) + (RawFee(k, p) + RawFee(n, p)) + K * (k + n)
    BY <1>9, <2>2, <2>3, <2>4
  <2> QED BY <1>9, <2>5 DEF K, E, F
<1> HIDE DEF cost, more
<1>13. CostBounded'
  <2>1. /\ (Scale * (tx.escrow + tx.fee))' = Scale * (cost + more)
        /\ (Scale * Escrow(tx.price, Matched))' = Scale * Escrow(p, k + n)
        /\ RawFee(Matched, tx.price)' = RawFee(k + n, p)
        /\ (Scale * Matched)' = Scale * (k + n)
    BY <1>5, <1>6, <1>7, <1>8 DEF RawFee
  <2>2. tx'.pc = "level" => Dollar - tx'.makerPrice <= tx'.price
    BY <1>3, <1>6 DEF CostBounded, p
  <2> QED BY <1>7, <1>12, <2>1, <2>2 DEF CostBounded
<1>14. ChargeOK'
  <2>1. market'[tx'.market].status \in Trades
    BY <1>6, FillMarket
  <2>2. WorstCaseCost(tx.price, tx.size)' = WorstCaseCost(tx.price, tx.size)
    BY <1>5, <1>6 DEF WorstCaseCost, TakerFee, p
  <2>3. /\ tx.charge # "prepaid" => tx.prepaid = 0
        /\ tx.charge = "free" => WorstCaseCost(tx.price, tx.size) <= freeBalance[tx.taker]
    BY <1>1, <1>3 DEF ChargeOK
  <2> QED BY <1>1, <1>5, <1>6, <1>13, <2>1, <2>2, <2>3 DEF ChargeOK
<1>15. Uncollected' = Uncollected + more /\ Prepaid' = Prepaid
  BY <1>1, <1>6, <1>8 DEF Uncollected, Prepaid, cost
<1> QED BY <1>14, <1>15 DEF more

(* A fill pays with the escrow of both orders for the positions it makes.     *)
LEMMA FillKept ==
  ASSUME TypeOK, TypeOK', BookInv, MoneyInv, Fill
  PROVE  Kept' /\ \E x : Paid(x)
<1> DEFINE l == MakerLevel
           i == NextIndex
           n == FillSize
           s == [NextSlot EXCEPT !.shares = @ - n]
           c == FeeShare(FillFee, fees.creatorShare)
           d == FillFee - c
           r == 0 - MakerPaid
           u == TakerPaid + FillFee
<1>1. /\ tx.market \in Markets /\ tx.side \in Sides
      /\ l \in Levels /\ i \in 1..Len(queue[l]) /\ NextSlot \in Slot
      /\ NextSlot.maker \in Accounts /\ NextSlot.shares \in Nat
      /\ n \in Nat /\ n <= NextSlot.shares /\ tx.makerPrice \in Prices
      /\ FillFee \in Nat /\ TakerPaid \in Nat /\ MakerPaid \in Nat /\ FillValue \in Nat
      /\ TakerPaid + MakerPaid = FillValue
      /\ market[tx.market].status \in Trades
  BY FillParties
<1>2. /\ UNCHANGED <<bitmap, balance, freeBalance>>
      /\ queue' = [queue EXCEPT ![l][i].shares = @ - n]
      /\ resting' = [resting EXCEPT ![l] = resting[l] - n]
  BY DEF Fill, FillSize
<1>3. queue \in [Levels -> Seq(Slot)] /\ queue[l] \in Seq(Slot)
  BY <1>1 DEF TypeOK
<1>4. s \in Slot /\ s.maker = NextSlot.maker /\ queue[l][i] = NextSlot
  <2>1. NextSlot.shares - n \in Nat
    BY <1>1
  <2>2. s = [NextSlot EXCEPT !.shares = NextSlot.shares - n]
    OBVIOUS
  <2>3. queue[l][i] = NextSlot
    BY DEF NextSlot
  <2> HIDE DEF s, l, i, n
  <2> QED BY <1>1, <2>1, <2>2, <2>3 DEF Slot
<1>5. queue' = Put(queue, l, Put(queue[l], i, s))
  <2>1. queue' = [queue EXCEPT ![l] = [queue[l] EXCEPT ![i] =
                                       [queue[l][i] EXCEPT !.shares = @ - n]]]
    BY <1>1, <1>2, <1>3
  <2> QED BY <1>4, <2>1 DEF Put
<1>6. l[3] = tx.makerPrice /\ tx.makerPrice \in Nat
  BY <1>1 DEF MakerLevel, Prices
<1>7. ChargeOK' /\ Uncollected' = Uncollected + u /\ Prepaid' = Prepaid
  BY FillCharge
<1>8. Claims' = Claims + FillValue
  BY FillClaims
<1>9. /\ c \in Nat /\ Total(CreatorTable') = Total(CreatorTable) + c
      /\ Total(affiliateFees') + protocolFees' = Total(affiliateFees) + protocolFees + d
      /\ Total(affiliateFees') \in Nat /\ protocolFees' \in Nat
  BY FillFees
<1> HIDE DEF l, i, n, s, c, d, r, u
<1>10. SlotsOwned'
  <2>1. /\ \A k \in Levels : Len(queue'[k]) = Len(queue[k])
        /\ \A k \in Levels \ {l} : queue'[k] = queue[k]
        /\ queue'[l][i] = s
        /\ \A j \in 1..Len(queue[l]) : j # i => queue'[l][j] = queue[l][j]
    BY <1>1, <1>3, <1>4, <1>5, SlotReplaced
  <2>2. ASSUME NEW k \in Levels, NEW j \in 1..Len(queue'[k]), queue'[k][j].shares > 0
        PROVE  queue'[k][j].maker \in Accounts
    <3>1. CASE k = l /\ j = i
      BY <1>1, <1>4, <2>1, <3>1
    <3>2. CASE k # l \/ j # i
      <4>1. queue'[k][j] = queue[k][j] /\ j \in 1..Len(queue[k])
        BY <2>1, <2>2, <3>2
      <4> QED BY <2>2, <4>1 DEF MoneyInv, SlotsOwned
    <3> QED BY <3>1, <3>2
  <2> QED BY <2>2 DEF SlotsOwned
<1>11. /\ \A m \in Markets : m # tx.market => market'[m] = market[m]
       /\ market'[tx.market].volume = market[tx.market].volume + FillValue
       /\ market'[tx.market].status \in Trades
  BY FillMarket
<1>12. UnusedEmpty'
  BY <1>2, <1>11 DEF UnusedEmpty, MoneyInv, Trades
<1>13. \A m \in Markets : market'[m].status \notin Terminal => market[m].status \notin Terminal
  BY <1>1, <1>11 DEF Trades, Terminal
<1>14. Backed'
  <2>1. ASSUME NEW m \in Markets, market'[m].status \notin Terminal, NEW kind \in Kinds
        PROVE  Worths(m, kind)' = market'[m].volume
    <3>1. Worths(m, kind) = market[m].volume /\ market[m].volume \in Nat
      BY <1>13, <2>1 DEF MoneyInv, Backed, TypeOK, Market
    <3>2. Worths(m, kind)' = Worths(m, kind) + (IF m = tx.market THEN FillValue ELSE 0)
      BY FillSums
    <3> QED BY <1>11, <3>1, <3>2
  <2> QED BY <2>1 DEF Backed
<1>15. FullyCollateralized'
  <2>1. ASSUME NEW m \in Markets, market'[m].status \notin Terminal
        PROVE  /\ SharesOf(m, "YES")' = SharesOf(m, "NO")'
               /\ BasisOf(m, "YES")' + BasisOf(m, "NO")' = SharesOf(m, "YES")' * Unit
               /\ market'[m].volume = SharesOf(m, "YES")' * Unit
    <3>1. "YES" \in Sides /\ "NO" \in Sides /\ (tx.side = "YES" \/ tx.side = "NO")
      BY <1>1 DEF Sides
    <3>2. /\ SharesOf(m, "YES") = SharesOf(m, "NO")
          /\ BasisOf(m, "YES") + BasisOf(m, "NO") = SharesOf(m, "YES") * Unit
          /\ market[m].volume = SharesOf(m, "YES") * Unit
      BY <1>13, <2>1 DEF MoneyInv, FullyCollateralized
    <3>3. ASSUME NEW t \in Sides
          PROVE  /\ SharesOf(m, t)' = SharesOf(m, t) + (IF m = tx.market THEN FillSize ELSE 0)
                 /\ BasisOf(m, t)' = BasisOf(m, t)
                      + (IF m # tx.market THEN 0
                         ELSE IF t = tx.side THEN TakerPaid ELSE MakerPaid)
                 /\ SharesOf(m, t) \in Nat /\ BasisOf(m, t) \in Nat
      BY FillSums
    <3>4. CASE m # tx.market
      BY <1>11, <3>1, <3>2, <3>3, <3>4
    <3>5. CASE m = tx.market
      <4> DEFINE x == SharesOf(m, "YES")
      <4>1. /\ SharesOf(m, "YES")' = x + n /\ SharesOf(m, "NO")' = x + n /\ x \in Nat
        BY <3>1, <3>2, <3>3, <3>5 DEF n
      <4>2. BasisOf(m, "YES")' + BasisOf(m, "NO")' = BasisOf(m, "YES") + BasisOf(m, "NO") + FillValue
        <5>1. /\ BasisOf(m, "YES") \in Nat /\ BasisOf(m, "NO") \in Nat
              /\ BasisOf(m, "YES")' = BasisOf(m, "YES")
                   + (IF "YES" = tx.side THEN TakerPaid ELSE MakerPaid)
              /\ BasisOf(m, "NO")' = BasisOf(m, "NO")
                   + (IF "NO" = tx.side THEN TakerPaid ELSE MakerPaid)
          BY <3>1, <3>3, <3>5
        <5>2. TakerPaid \in Nat /\ MakerPaid \in Nat /\ TakerPaid + MakerPaid = FillValue
          BY <1>1
        <5>3. CASE tx.side = "YES"
          BY <5>1, <5>2, <5>3
        <5>4. CASE tx.side = "NO"
          <6>1. /\ BasisOf(m, "YES")' = BasisOf(m, "YES") + MakerPaid
                /\ BasisOf(m, "NO")' = BasisOf(m, "NO") + TakerPaid
            BY <5>1, <5>4
          <6> QED BY <5>1, <5>2, <6>1
        <5> QED BY <3>1, <5>3, <5>4
      <4> HIDE DEF x
      <4>3. (x + n) * Unit = x * Unit + n * Unit
        BY <1>1, <4>1, HalfUnits
      <4>4. FillValue = n * Unit
        BY DEF FillValue, n
      <4> QED BY <1>11, <3>2, <3>5, <4>1, <4>2, <4>3, <4>4 DEF x
    <3> QED BY <3>4, <3>5
  <2> QED BY <2>1 DEF FullyCollateralized
<1>16. RestingEscrow' = RestingEscrow + r
  <2>1. /\ \A k \in Levels : k # l => resting'[k] = resting[k]
        /\ resting'[l] = resting[l] - n
    BY <1>1, <1>2 DEF TypeOK
  <2>2. /\ RestingEscrow' + Escrow(l[3], resting[l]) = RestingEscrow + Escrow(l[3], resting'[l])
        /\ RestingEscrow' \in Nat /\ RestingEscrow \in Nat
        /\ resting[l] \in Nat /\ resting'[l] \in Nat
    BY <1>1, <2>1, EscrowMoved
  <2>3. resting[l] = resting'[l] + n
    BY <1>1, <2>1, <2>2
  <2>4. Escrow(l[3], resting'[l] + n) = Escrow(l[3], resting'[l]) + Escrow(l[3], n)
    <3>1. l[3] \in Nat /\ resting'[l] \in Nat /\ n \in Nat
      BY <1>1, <1>6, <2>2
    <3> QED BY <3>1, EscrowSum
  <2>5. Escrow(l[3], n) = MakerPaid
    BY <1>6 DEF MakerPaid, n
  <2>6. Escrow(l[3], resting'[l]) \in Nat
    BY <1>6, <2>2, EscrowType
  <2> QED BY <1>1, <2>2, <2>3, <2>4, <2>5, <2>6 DEF r
<1>17. /\ balance \in Nat /\ Total(freeBalance) \in Nat /\ freeBalance \in [Accounts -> Nat]
  BY LedgerTypes DEF MoneyInv, MoneyTypes
<1>18. Solvent'
  <2>1. /\ u \in Int /\ r \in Int /\ c \in Int /\ d \in Int /\ FillValue \in Int
        /\ 0 \in Int /\ 0 + u = 0 + r + FillValue + c + d + 0
    BY <1>1, <1>9 DEF u, r, d
  <2>2. Prepaid' = Prepaid + 0
    <3>1. Prepaid \in Nat
      <4>1. tx # Idle => tx.prepaid \in Nat
        BY FillParties DEF Matching
      <4> QED BY <4>1 DEF Prepaid
    <3> QED BY <1>7, <3>1
  <2>3. balance' = balance + 0 /\ Total(freeBalance') = Total(freeBalance) + 0
    BY <1>2, <1>17
  <2>4. Moves(0, u, 0, r, FillValue, c, d, 0)
    BY <1>7, <1>8, <1>9, <1>16, <2>2, <2>3 DEF Moves
  <2> QED BY <2>1, <2>4, MovesBalance
<1>19. Paid(0)
  BY <1>2, <1>17 DEF Paid
<1> QED BY <1>2, <1>7, <1>9, <1>10, <1>12, <1>14, <1>15, <1>17, <1>18, <1>19 DEF Kept

-----------------------------------------------------------------------------
(* The theorems *)

(* BalanceFollows of the next state.                                          *)
LEMMA BalanceStays ==
  (TypeOK /\ tx = Idle /\ Solvent /\ protocolFees \in Nat /\ freeBalance \in [Accounts -> Nat]
     => balance \in Nat)'
BY BalanceFollows, PTL

(* Nobody owns or owes anything at first.                                     *)
LEMMA InitMoney == Init => MoneyInv
<1> SUFFICES ASSUME Init PROVE MoneyInv
  OBVIOUS
<1>1. TypeOK
  BY InitInv DEF Inv
<1>2. /\ tx = Idle /\ balance = 0 /\ protocolFees = 0
      /\ freeBalance = [a \in Accounts |-> 0] /\ affiliateFees = [p \in Posts |-> 0]
      /\ \A l \in Levels : queue[l] = << >> /\ resting[l] = 0
      /\ \A m \in Markets, s \in Sides : bitmap[<<m, s>>] = {}
      /\ \A m \in Markets :
           /\ market[m].status = "NONE" /\ market[m].volume = 0 /\ market[m].creatorFees = 0
      /\ \A m \in Markets, s \in Sides, a \in Accounts :
           position[<<m, s, a>>].shares = 0 /\ position[<<m, s, a>>].costBasis = 0
  <2>1. /\ tx = Idle /\ balance = 0 /\ protocolFees = 0
        /\ freeBalance = [a \in Accounts |-> 0] /\ affiliateFees = [p \in Posts |-> 0]
        /\ \A l \in Levels : queue[l] = << >> /\ resting[l] = 0
        /\ \A m \in Markets, s \in Sides : bitmap[<<m, s>>] = {}
    BY DEF Init
  <2>2. \A m \in Markets :
          /\ market[m].status = "NONE" /\ market[m].volume = 0 /\ market[m].creatorFees = 0
    BY DEF Init, NoMarket
  <2>3. \A m \in Markets, s \in Sides, a \in Accounts :
          position[<<m, s, a>>].shares = 0 /\ position[<<m, s, a>>].costBasis = 0
    BY DEF Init, NoPosition, Holdings
  <2> QED BY <2>1, <2>2, <2>3
<1>3. ASSUME NEW S, IsFiniteSet(S), NEW f \in [S -> Nat], \A x \in S : f[x] = 0
      PROVE  Total(f) = 0
  BY <1>3, TotalZero
<1>4. MoneyTypes /\ SlotsOwned /\ UnusedEmpty /\ ChargeOK
  BY <1>2 DEF MoneyTypes, SlotsOwned, UnusedEmpty, ChargeOK
<1>5. ASSUME NEW m \in Markets, NEW a \in Accounts, NEW kind \in Kinds
      PROVE  Worth(m, a, kind) = 0
  <2>1. Unit \in Nat
    BY PriceAssumption, ProductType DEF Unit
  <2>2. 0 * Unit = 0 /\ ((0 + 0) * Unit) \div 2 = 0
    BY <2>1
  <2>3. /\ position[<<m, "YES", a>>].shares = 0 /\ position[<<m, "YES", a>>].costBasis = 0
        /\ position[<<m, "NO", a>>].shares = 0 /\ position[<<m, "NO", a>>].costBasis = 0
        /\ kind \in Sides => position[<<m, kind, a>>].shares = 0
    BY <1>2 DEF Sides
  <2> QED BY <2>2, <2>3 DEF Worth, Kinds
<1>6. Backed
  <2>1. ASSUME NEW m \in Markets, NEW kind \in Kinds PROVE Worths(m, kind) = 0
    <3> DEFINE f == [a \in Accounts |-> Worth(m, a, kind)]
    <3>1. f \in [Accounts -> Nat] /\ \A a \in Accounts : f[a] = 0
      BY <1>5
    <3>2. Worths(m, kind) = Total(f)
      BY DEF Worths
    <3> HIDE DEF f
    <3> QED BY <1>3, <3>1, <3>2, SetsFinite
  <2> QED BY <1>2, <2>1 DEF Backed
<1>7. FullyCollateralized
  <2>1. ASSUME NEW m \in Markets, NEW t \in Sides PROVE SharesOf(m, t) = 0 /\ BasisOf(m, t) = 0
    <3> DEFINE f == [a \in Accounts |-> position[<<m, t, a>>].shares]
               g == [a \in Accounts |-> position[<<m, t, a>>].costBasis]
    <3>1. /\ f \in [Accounts -> Nat] /\ \A a \in Accounts : f[a] = 0
          /\ g \in [Accounts -> Nat] /\ \A a \in Accounts : g[a] = 0
      BY <1>2
    <3>2. SharesOf(m, t) = Total(f) /\ BasisOf(m, t) = Total(g)
      BY DEF SharesOf, BasisOf
    <3> HIDE DEF f, g
    <3> QED BY <1>3, <3>1, <3>2, SetsFinite
  <2>2. "YES" \in Sides /\ "NO" \in Sides /\ 0 * Unit = 0
    BY HalfUnits DEF Sides
  <2> QED BY <1>2, <2>1, <2>2 DEF FullyCollateralized
<1>8. Solvent
  <2>1. ASSUME NEW l \in Levels PROVE Escrow(l[3], resting[l]) = 0
    <3>1. l[3] \in Nat /\ Cent \in Nat /\ resting[l] = 0
      BY <1>2, PriceAssumption DEF Levels, Prices
    <3> QED BY <3>1 DEF Escrow
  <2>2. ASSUME NEW k \in Markets \X Accounts PROVE Claim(k[1], k[2]) = 0
    BY <1>5, ClaimWorth
  <2>3. /\ EscrowTable \in [Levels -> Nat] /\ \A l \in Levels : EscrowTable[l] = 0
        /\ ClaimTable \in [Markets \X Accounts -> Nat]
        /\ \A k \in Markets \X Accounts : ClaimTable[k] = 0
        /\ CreatorTable \in [Markets -> Nat] /\ \A m \in Markets : CreatorTable[m] = 0
    BY <1>2, <2>1, <2>2 DEF EscrowTable, ClaimTable, CreatorTable
  <2>4. /\ freeBalance \in [Accounts -> Nat] /\ \A a \in Accounts : freeBalance[a] = 0
        /\ affiliateFees \in [Posts -> Nat] /\ \A p \in Posts : affiliateFees[p] = 0
    BY <1>2
  <2>5. /\ Total(EscrowTable) = 0 /\ Total(ClaimTable) = 0 /\ Total(CreatorTable) = 0
        /\ Total(freeBalance) = 0 /\ Total(affiliateFees) = 0
    BY <1>3, <2>3, <2>4, SetsFinite
  <2>6. RestingEscrow = Total(EscrowTable) /\ Claims = Total(ClaimTable)
    BY DEF RestingEscrow, EscrowTable, Claims, ClaimTable
  <2>7. Uncollected = 0 /\ Prepaid = 0
    BY <1>2 DEF Uncollected, Prepaid
  <2> QED BY <1>2, <2>5, <2>6, <2>7, SolventLedger DEF Ledger
<1> QED BY <1>4, <1>6, <1>7, <1>8 DEF MoneyInv

(* Every step keeps the invariant. *)
LEMMA NextMoney == Inv /\ MoneyInv /\ [Next]_vars => MoneyInv'
<1> SUFFICES ASSUME Inv, MoneyInv, [Next]_vars PROVE MoneyInv'
  OBVIOUS
<1>1. TypeOK /\ TypeOK' /\ BookInv
  BY NextInv DEF Inv
<1>2. ASSUME Kept', balance' \in Nat PROVE MoneyInv'
  BY <1>2 DEF Kept, MoneyInv, MoneyTypes
<1>3. ASSUME Kept', \E x : Paid(x) PROVE MoneyInv'
  <2>1. balance' \in Nat
    BY <1>3 DEF Paid, MoneyInv, MoneyTypes
  <2> QED BY <1>2, <1>3, <2>1
<1>4. ASSUME Kept', tx' = Idle PROVE MoneyInv'
  <2>1. balance' \in Nat
    BY <1>1, <1>4, BalanceStays DEF Kept
  <2> QED BY <1>2, <1>4, <2>1
<1>5. CASE MatchingStep
  <2>1. Kept' /\ \E x : Paid(x)
    BY <1>1, <1>5, EnterLevelKept, SkipHoleKept, FillKept, LeaveLevelKept, FinishKept
       DEF MatchingStep
  <2> QED BY <1>3, <2>1
<1>6. CASE CreateStep
  BY <1>1, <1>3, <1>6, CreateKept
<1>7. CASE TradeStep
  BY <1>1, <1>3, <1>7, TradeKept
<1>8. CASE ResolveStep
  <2>1. tx' = Idle
    BY <1>8 DEF ResolveStep, SettleMarket, UpdateOracle, VoidMarket, SetMarketExpiry,
       ExpireMarket
  <2> QED BY <1>1, <1>4, <1>8, <2>1, ResolveKept
<1>9. CASE PayoutStep
  <2>1. tx' = Idle
    BY <1>9 DEF PayoutStep, Redeem, Withdraw, ClaimCreatorFees, ClaimAffiliateFees,
       WithdrawProtocolFees
  <2> QED BY <1>1, <1>4, <1>9, <2>1, PayoutKept
<1>10. CASE AdminStep \/ Tick
  <2>1. tx' = Idle
    BY <1>10 DEF AdminStep, RegisterAffiliatePost, SetFees, Tick
  <2> QED BY <1>1, <1>4, <1>10, <2>1, AdminKept
<1>11. CASE UNCHANGED vars
  <2>1. UNCHANGED <<queue, resting, bitmap, market, position, balance, freeBalance,
                    affiliateFees, protocolFees, fees, tx>>
    BY <1>11 DEF vars, bookVars, moneyVars, configVars
  <2>2. MoneyTypes' /\ SlotsOwned' /\ UnusedEmpty'
    BY <2>1 DEF MoneyInv, MoneyTypes, SlotsOwned, UnusedEmpty
  <2>3. ChargeOK'
    BY <2>1 DEF MoneyInv, ChargeOK, CostBounded, Matched, RawFee, WorstCaseCost, TakerFee,
       OpposingBits
  <2>4. Backed' /\ FullyCollateralized'
    BY <2>1, CollateralStands DEF MoneyInv
  <2>5. Claims' = Claims
    BY <2>1, ClaimsStand DEF KindOf, WinningSide
  <2>6. Solvent'
    BY <2>1, <2>5 DEF MoneyInv, Solvent, Uncollected, Prepaid, Liabilities, RestingEscrow
  <2> QED BY <2>2, <2>3, <2>4, <2>6 DEF MoneyInv
<1> QED BY <1>5, <1>6, <1>7, <1>8, <1>9, <1>10, <1>11 DEF Next

(* The books of the contract balance in every state of every behaviour.       *)
THEOREM MoneyInvariance == Spec => [](Inv /\ MoneyInv)
<1>1. Init => Inv /\ MoneyInv
  BY InitInv, InitMoney
<1>2. (Inv /\ MoneyInv) /\ [Next]_vars => (Inv /\ MoneyInv)'
  BY NextInv, NextMoney
<1> QED BY <1>1, <1>2, PTL DEF Spec

(* Price improvement, partial fills and fees never create or lose a cent of   *)
(* the collateral of a market that is not resolved.                           *)
THEOREM Collateralized == Spec => []FullyCollateralized
<1>1. MoneyInv => FullyCollateralized
  BY DEF MoneyInv
<1> QED BY <1>1, MoneyInvariance, PTL

(* The tokens held are exactly what is owed, to the last unit.                *)
THEOREM AlwaysSolvent == Spec => []Solvent
<1>1. MoneyInv => Solvent
  BY DEF MoneyInv
<1> QED BY <1>1, MoneyInvariance, PTL

(* No payment or charge the code has granted underflows a balance.            *)
THEOREM NothingOverdrawn == Spec => []NoOverdraft
<1>1. MoneyInv => NoOverdraft
  <2> SUFFICES ASSUME MoneyInv PROVE NoOverdraft
    OBVIOUS
  <2>1. balance \in Nat /\ protocolFees \in Nat /\ freeBalance \in [Accounts -> Nat]
    BY DEF MoneyInv, MoneyTypes
  <2>2. \A a \in Accounts : freeBalance[a] \in Nat
    BY <2>1
  <2> QED BY <2>1, <2>2 DEF NoOverdraft
<1> QED BY <1>1, MoneyInvariance, PTL

(* The worst case checked before a signed order is matched bounds its charge  *)
(* after every fill, however its fees are rounded.                            *)
THEOREM ChargesBounded == Spec => []ChargeWithinBound
<1>1. Inv /\ MoneyInv => ChargeWithinBound
  <2> SUFFICES ASSUME Inv, MoneyInv, tx # Idle
               PROVE  /\ tx.charge = "free" =>
                           /\ TotalCost <= WorstCaseCost(tx.price, tx.size)
                           /\ TotalCost <= freeBalance[tx.taker]
                      /\ tx.charge = "prepaid" => TotalCost = tx.prepaid
    BY DEF ChargeWithinBound
  <2>1. TypeOK
    BY DEF Inv
  <2> QED BY <2>1, CostCovered
<1> QED BY <1>1, MoneyInvariance, PTL

===============================================================================
