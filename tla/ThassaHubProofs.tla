--------------------------- MODULE ThassaHubProofs ---------------------------
(***************************************************************************)
(* Proofs about ThassaHub: the hub's balance is the open bids and the      *)
(* stake, the stake of each node and all of it agree with who put it       *)
(* there, no update or bid is answered twice, and the fees of every        *)
(* delivered update are split without loss.                                *)
(***************************************************************************)
EXTENDS ThassaHub, TotalsProofs, TLAPS

\* f with y at x: an update as a term the provers need not look into.
Put(f, x, y) == [f EXCEPT ![x] = y]

BidsOK ==
  /\ bids \in Seq(Bid)
  /\ \A b \in DOMAIN bids : bids[b].amount = bids[b].protocolFee + bids[b].nodeFee

NodesOK ==
  /\ node \in [Accounts -> NodeRecord]
  /\ delegated \in [Accounts \X Accounts -> Nat] /\ totalStake \in Nat
  /\ StakeAgrees

UpdatesOK ==
  /\ consumed \subseteq Digests /\ received \in Seq([digest : Digests, fee : Nat])
  /\ protocolFees \in Nat /\ nodeFees \in Nat

ConfigOK == minAge \in Nat /\ signers \subseteq Accounts /\ now \in Nat

HeldOK == held \in Nat /\ HubSolvent

MoneyInv == BidsOK /\ NodesOK /\ UpdatesOK /\ ConfigOK /\ HeldOK

-----------------------------------------------------------------------------
(* Bids *)

\* What a bid still holds in escrow.
Escrowed(q) == IF q.open THEN q.amount ELSE 0

(* The escrow is a sum of natural numbers.                                   *)
LEMMA EscrowType ==
  ASSUME NEW q, q \in Seq(Bid)
  PROVE  LET f == [b \in DOMAIN q |-> IF q[b].open THEN q[b].amount ELSE 0]
         IN  /\ DOMAIN q = 1..Len(q) /\ Len(q) \in Nat /\ IsFiniteSet(1..Len(q))
             /\ f \in [1..Len(q) -> Nat]
             /\ \A b \in 1..Len(q) : q[b] \in Bid /\ f[b] = Escrowed(q[b])
             /\ Total(f) \in Nat
<1> DEFINE f == [b \in DOMAIN q |-> IF q[b].open THEN q[b].amount ELSE 0]
<1>1. DOMAIN q = 1..Len(q) /\ Len(q) \in Nat /\ IsFiniteSet(1..Len(q))
  BY FS_Interval
<1>2. \A b \in 1..Len(q) : q[b] \in Bid
  OBVIOUS
<1>3. \A b \in 1..Len(q) : q[b].amount \in Nat
  BY <1>2 DEF Bid
<1>4. /\ f \in [1..Len(q) -> Nat]
      /\ \A b \in 1..Len(q) : f[b] = Escrowed(q[b])
  BY <1>1, <1>3 DEF Escrowed
<1> HIDE DEF f
<1>5. Total(f) \in Nat
  BY <1>1, <1>4, TotalType
<1> QED
  BY <1>1, <1>2, <1>4, <1>5 DEF f

(* A new bid adds its amount. *)
LEMMA BidAdded ==
  ASSUME NEW q, q \in Seq(Bid), NEW x \in Bid
  PROVE  LET r == Append(q, x)
             f == [b \in DOMAIN q |-> IF q[b].open THEN q[b].amount ELSE 0]
             g == [b \in DOMAIN r |-> IF r[b].open THEN r[b].amount ELSE 0]
         IN  r \in Seq(Bid) /\ Total(g) = Total(f) + Escrowed(x)
<1> DEFINE r == Append(q, x)
           f == [b \in DOMAIN q |-> IF q[b].open THEN q[b].amount ELSE 0]
           g == [b \in DOMAIN r |-> IF r[b].open THEN r[b].amount ELSE 0]
           k == Len(q) + 1
<1>1. /\ r \in Seq(Bid) /\ Len(r) = k /\ r[k] = x
      /\ \A b \in 1..Len(q) : r[b] = q[b]
  OBVIOUS
<1> HIDE DEF r
<1>2. /\ f \in [1..Len(q) -> Nat] /\ IsFiniteSet(1..Len(q)) /\ Len(q) \in Nat
      /\ \A b \in 1..Len(q) : f[b] = Escrowed(q[b])
  BY EscrowType
<1>3. /\ g \in [1..k -> Nat] /\ IsFiniteSet(1..k)
      /\ \A b \in 1..k : g[b] = Escrowed(r[b])
  BY <1>1, EscrowType
<1> HIDE DEF f, g
<1>4. Extends(1..Len(q), f, g, k)
  <2>1. k \notin 1..Len(q) /\ 1..k = (1..Len(q)) \cup {k}
    BY <1>2
  <2>2. \A b \in 1..Len(q) : b \in 1..k
    BY <1>2
  <2>3. \A b \in 1..Len(q) : f[b] = g[b]
    BY <1>1, <1>2, <1>3, <2>2
  <2> HIDE DEF k
  <2> QED
    BY <1>2, <1>3, <2>1, <2>3 DEF Extends
<1>5. k \in 1..k
  BY <1>2
<1>6. Total(g) = Total(f) + Escrowed(x)
  BY <1>1, <1>3, <1>4, <1>5, TotalExtend
<1> QED
  BY <1>1, <1>6 DEF r, f, g

(* Replacing a bid changes the escrow by what it held. *)
LEMMA BidReplaced ==
  ASSUME NEW q, q \in Seq(Bid), NEW b \in DOMAIN q, NEW x \in Bid
  PROVE  LET r == Put(q, b, x)
             f == [c \in DOMAIN q |-> IF q[c].open THEN q[c].amount ELSE 0]
             g == [c \in DOMAIN r |-> IF r[c].open THEN r[c].amount ELSE 0]
         IN  /\ r \in Seq(Bid) /\ DOMAIN r = DOMAIN q /\ r[b] = x
             /\ \A c \in DOMAIN q : c # b => r[c] = q[c]
             /\ Total(f) \in Nat /\ Total(g) \in Nat
             /\ Total(g) + Escrowed(q[b]) = Total(f) + Escrowed(x)
<1> DEFINE r == Put(q, b, x)
           f == [c \in DOMAIN q |-> IF q[c].open THEN q[c].amount ELSE 0]
           g == [c \in DOMAIN r |-> IF r[c].open THEN r[c].amount ELSE 0]
<1>1. /\ r \in Seq(Bid) /\ Len(r) = Len(q) /\ DOMAIN r = DOMAIN q /\ r[b] = x
      /\ \A c \in DOMAIN q : c # b => r[c] = q[c]
  BY DEF Put
<1> HIDE DEF r
<1>2. /\ f \in [1..Len(q) -> Nat] /\ IsFiniteSet(1..Len(q)) /\ DOMAIN q = 1..Len(q)
      /\ \A c \in 1..Len(q) : f[c] = Escrowed(q[c])
      /\ Total(f) \in Nat
  BY EscrowType
<1>3. /\ g \in [1..Len(q) -> Nat] /\ \A c \in 1..Len(q) : g[c] = Escrowed(r[c])
      /\ Total(g) \in Nat
  BY <1>1, EscrowType
<1> HIDE DEF f, g
<1>4. AgreeBut(1..Len(q), f, g, b)
  BY <1>1, <1>2, <1>3 DEF AgreeBut
<1>5. Total(g) + f[b] = Total(f) + g[b]
  BY <1>4, TotalUpdate
<1> QED
  BY <1>1, <1>2, <1>3, <1>5 DEF r, f, g

-----------------------------------------------------------------------------
(* Stake *)

Weights == [n \in Accounts |-> node[n].selfStake + node[n].delegatedStake]
Backing(n) == [d \in Accounts |-> delegated[<<d, n>>]]

(* The sums of stake are sums of natural numbers over finite sets.           *)
LEMMA StakeTypes ==
  ASSUME node \in [Accounts -> NodeRecord], delegated \in [Accounts \X Accounts -> Nat]
  PROVE  /\ IsFiniteSet(Accounts) /\ IsFiniteSet(Accounts \X Accounts)
         /\ \A n \in Accounts : /\ node[n] \in NodeRecord
                                /\ node[n].selfStake \in Nat /\ node[n].delegatedStake \in Nat
         /\ SelfStakes \in [Accounts -> Nat] /\ Total(SelfStakes) \in Nat
         /\ Weights \in [Accounts -> Nat] /\ Total(Weights) \in Nat
         /\ \A n \in Accounts : Backing(n) \in [Accounts -> Nat] /\ Total(Backing(n)) \in Nat
         /\ Total(delegated) \in Nat
<1>1. IsFiniteSet(Accounts) /\ IsFiniteSet(Accounts \X Accounts)
  BY HubParties, FS_Product
<1>2. \A n \in Accounts : /\ node[n] \in NodeRecord
                          /\ node[n].selfStake \in Nat /\ node[n].delegatedStake \in Nat
  BY DEF NodeRecord
<1>3. SelfStakes \in [Accounts -> Nat] /\ Weights \in [Accounts -> Nat]
  BY <1>2 DEF SelfStakes, Weights
<1>4. \A n \in Accounts : Backing(n) \in [Accounts -> Nat]
  BY DEF Backing
<1>5. Total(SelfStakes) \in Nat /\ Total(Weights) \in Nat
  BY <1>1, <1>3, TotalType
<1>6. \A n \in Accounts : Total(Backing(n)) \in Nat
  BY <1>1, <1>4, TotalType
<1>7. Total(delegated) \in Nat
  BY <1>1, TotalType
<1> QED
  BY <1>1, <1>2, <1>3, <1>4, <1>5, <1>6, <1>7

\* The nodes change in anything but their stake.
SameStakes ==
  /\ node' \in [Accounts -> NodeRecord]
  /\ \A n \in Accounts : /\ node'[n].selfStake = node[n].selfStake
                         /\ node'[n].delegatedStake = node[n].delegatedStake
  /\ UNCHANGED stakeVars

(* Then every sum of stake stays what it was.                                *)
LEMMA StakesKept ==
  ASSUME NodesOK, SameStakes
  PROVE  /\ NodesOK'
         /\ Total(SelfStakes)' = Total(SelfStakes) /\ Total(delegated)' = Total(delegated)
<1>1. SelfStakes' = SelfStakes
  BY DEF SameStakes, SelfStakes
<1>2. Weights' = Weights
  BY DEF SameStakes, Weights
<1>3. delegated' = delegated /\ totalStake' = totalStake
  BY DEF SameStakes, stakeVars
<1>4. NodesOK'
  BY <1>2, <1>3 DEF NodesOK, StakeAgrees, SameStakes, Weights
<1> QED
  BY <1>1, <1>3, <1>4

\* What d put behind n becomes y, or n's own stake changes when d is n.
Restaked(d, n, r, y) ==
  /\ node' = Put(node, n, r)
  /\ \/ /\ d = n /\ delegated' = delegated
        /\ r.delegatedStake = node[n].delegatedStake
     \/ /\ d # n /\ delegated' = Put(delegated, <<d, n>>, y)
        /\ r.selfStake = node[n].selfStake
        /\ r.delegatedStake + delegated[<<d, n>>] = node[n].delegatedStake + y
  /\ totalStake' \in Nat
  /\ totalStake' + (node[n].selfStake + node[n].delegatedStake)
       = totalStake + (r.selfStake + r.delegatedStake)

(* A sum that comes to equal another.                                        *)
LEMMA SameSum ==
  \A t, u, x, y, b \in Nat : t + x = u + y => (b + x = u + y => t = b)
OBVIOUS

(* Every sum of stake follows a change of one stake.                         *)
LEMMA StakeChange ==
  ASSUME NodesOK, NEW d \in Accounts, NEW n \in Accounts, NEW r \in NodeRecord, NEW y \in Nat,
         Restaked(d, n, r, y)
  PROVE  /\ NodesOK'
         /\ Total(SelfStakes)' + node[n].selfStake = Total(SelfStakes) + r.selfStake
         /\ Total(delegated)' + node[n].delegatedStake = Total(delegated) + r.delegatedStake
<1>1. node \in [Accounts -> NodeRecord] /\ delegated \in [Accounts \X Accounts -> Nat]
  BY DEF NodesOK
<1>2. /\ node' \in [Accounts -> NodeRecord] /\ node'[n] = r
      /\ \A k \in Accounts : k # n => node'[k] = node[k]
  BY <1>1 DEF Restaked, Put
<1>3. r.selfStake \in Nat /\ r.delegatedStake \in Nat
  BY DEF NodeRecord
<1>4. delegated' \in [Accounts \X Accounts -> Nat]
  BY <1>1 DEF Restaked, Put
<1>5. /\ IsFiniteSet(Accounts) /\ IsFiniteSet(Accounts \X Accounts)
      /\ node[n].selfStake \in Nat /\ node[n].delegatedStake \in Nat
      /\ SelfStakes \in [Accounts -> Nat] /\ Weights \in [Accounts -> Nat]
      /\ Total(SelfStakes) \in Nat /\ Total(Weights) \in Nat /\ Total(delegated) \in Nat
      /\ \A k \in Accounts : Backing(k) \in [Accounts -> Nat] /\ Total(Backing(k)) \in Nat
  BY <1>1, StakeTypes
<1>6. /\ SelfStakes' \in [Accounts -> Nat] /\ Weights' \in [Accounts -> Nat]
      /\ Total(SelfStakes') \in Nat /\ Total(Weights') \in Nat /\ Total(delegated') \in Nat
      /\ \A k \in Accounts : Backing(k)' \in [Accounts -> Nat] /\ Total(Backing(k)') \in Nat
  <2>1. /\ SelfStakes' \in [Accounts -> Nat] /\ Weights' \in [Accounts -> Nat]
    <3>1. \A k \in Accounts : node'[k].selfStake \in Nat /\ node'[k].delegatedStake \in Nat
      BY <1>2 DEF NodeRecord
    <3> QED
      BY <3>1 DEF SelfStakes, Weights
  <2>2. \A k \in Accounts : Backing(k)' \in [Accounts -> Nat]
    BY <1>4 DEF Backing
  <2> QED
    BY <1>4, <1>5, <2>1, <2>2, TotalType
<1>7. Total(SelfStakes') + node[n].selfStake = Total(SelfStakes) + r.selfStake
  <2>1. AgreeBut(Accounts, SelfStakes, SelfStakes', n)
    BY <1>2, <1>5, <1>6 DEF AgreeBut, SelfStakes
  <2>2. SelfStakes[n] = node[n].selfStake /\ SelfStakes'[n] = r.selfStake
    BY <1>2 DEF SelfStakes
  <2> QED
    BY <2>1, <2>2, TotalUpdate
<1>8. Total(Weights') + (node[n].selfStake + node[n].delegatedStake)
        = Total(Weights) + (r.selfStake + r.delegatedStake)
  <2>1. AgreeBut(Accounts, Weights, Weights', n)
    BY <1>2, <1>5, <1>6 DEF AgreeBut, Weights
  <2>2. /\ Weights[n] = node[n].selfStake + node[n].delegatedStake
        /\ Weights'[n] = r.selfStake + r.delegatedStake
    BY <1>2 DEF Weights
  <2> QED
    BY <2>1, <2>2, TotalUpdate
<1>9. totalStake' = Total(Weights')
  <2>1. totalStake = Total(Weights)
    BY DEF NodesOK, StakeAgrees, Weights
  <2> DEFINE A == node[n].selfStake + node[n].delegatedStake
             X == r.selfStake + r.delegatedStake
  <2>2. totalStake' \in Nat /\ totalStake' + A = totalStake + X
    BY DEF Restaked
  <2>3. Total(Weights') + A = Total(Weights) + X
    BY <1>8
  <2>4. A \in Nat /\ X \in Nat
    BY <1>3, <1>5
  <2>5. Total(Weights') \in Nat /\ Total(Weights) \in Nat
    BY <1>5, <1>6
  <2> HIDE DEF A, X
  <2> QED
    BY <2>1, <2>2, <2>3, <2>4, <2>5, SameSum
<1>10. Total(delegated') + node[n].delegatedStake = Total(delegated) + r.delegatedStake
  <2>1. CASE d = n
    BY <1>5, <2>1 DEF Restaked
  <2>2. CASE d # n
    <3>1. AgreeBut(Accounts \X Accounts, delegated, delegated', <<d, n>>)
      BY <1>1, <1>4, <1>5, <2>2 DEF AgreeBut, Restaked, Put
    <3>2. delegated'[<<d, n>>] = y /\ delegated[<<d, n>>] \in Nat
      BY <1>1, <2>2 DEF Restaked, Put
    <3>3. Total(delegated') + delegated[<<d, n>>] = Total(delegated) + y
      BY <3>1, <3>2, TotalUpdate
    <3>4. r.delegatedStake + delegated[<<d, n>>] = node[n].delegatedStake + y
      BY <2>2 DEF Restaked
    <3>5. /\ Total(delegated') \in Nat /\ Total(delegated) \in Nat
          /\ node[n].delegatedStake \in Nat
      BY <1>5, <1>6
    <3> QED
      <4>1. Total(delegated') = Total(delegated) + y - delegated[<<d, n>>]
        BY <3>2, <3>3, <3>5
      <4>2. r.delegatedStake = node[n].delegatedStake + y - delegated[<<d, n>>]
        BY <1>3, <3>2, <3>4, <3>5
      <4> QED
        BY <3>2, <3>5, <4>1, <4>2
  <2> QED
    BY <2>1, <2>2
<1>11. ASSUME NEW k \in Accounts PROVE node'[k].delegatedStake = Total(Backing(k)')
  <2>0. node[k].delegatedStake = Total(Backing(k))
    BY DEF NodesOK, StakeAgrees, Backing
  <2>1. CASE d = n
    <3>1. Backing(k)' = Backing(k)
      BY <2>1 DEF Restaked, Backing
    <3>2. node'[k].delegatedStake = node[k].delegatedStake
      BY <1>2, <2>1 DEF Restaked
    <3> QED
      BY <2>0, <3>1, <3>2
  <2>2. CASE d # n /\ k # n
    <3>1. \A e \in Accounts : delegated'[<<e, k>>] = delegated[<<e, k>>]
      BY <1>1, <2>2 DEF Restaked, Put
    <3>2. Backing(k)' = Backing(k)
      BY <3>1 DEF Backing
    <3> QED
      BY <1>2, <2>0, <2>2, <3>2
  <2>3. CASE d # n /\ k = n
    <3>1. delegated'[<<d, n>>] = y /\ delegated[<<d, n>>] \in Nat
      BY <1>1, <2>3 DEF Restaked, Put
    <3>2. \A e \in Accounts : e # d => delegated'[<<e, n>>] = delegated[<<e, n>>]
      BY <1>1, <2>3 DEF Restaked, Put
    <3>3. Backing(n)'[d] = y /\ Backing(n)[d] = delegated[<<d, n>>]
      BY <3>1 DEF Backing
    <3>4. AgreeBut(Accounts, Backing(n), Backing(n)', d)
      BY <1>5, <1>6, <3>2 DEF AgreeBut, Backing
    <3>5. Total(Backing(n)') + delegated[<<d, n>>] = Total(Backing(n)) + y
      BY <3>3, <3>4, TotalUpdate
    <3>6. r.delegatedStake + delegated[<<d, n>>] = node[n].delegatedStake + y
      BY <2>3 DEF Restaked
    <3>7. Total(Backing(n)') = r.delegatedStake
      <4>1. Total(Backing(n)') \in Nat /\ Total(Backing(n)) \in Nat
        BY <1>5, <1>6
      <4>2. r.delegatedStake + delegated[<<d, n>>] = Total(Backing(n)) + y
        BY <2>0, <2>3, <3>6
      <4> QED
        BY <1>3, <3>1, <3>5, <4>1, <4>2, SameSum
    <3> QED
      BY <1>2, <2>3, <3>7
  <2> QED
    BY <2>1, <2>2, <2>3
<1>12. NodesOK'
  <2>1. StakeAgrees'
    BY <1>9, <1>11 DEF StakeAgrees, Weights, Backing
  <2> QED
    BY <1>2, <1>4, <2>1 DEF NodesOK, Restaked
<1> QED
  BY <1>7, <1>10, <1>12

-----------------------------------------------------------------------------
(* Calls *)

(* The two fees are all of an amount.                                        *)
LEMMA FeeSplit ==
  ASSUME NEW priority \in Nat
  PROVE  /\ ProtocolFee(priority) \in Nat /\ NodeFee(priority) \in Nat
         /\ ProtocolFee(priority) + NodeFee(priority) = Base + priority
<1>1. \A n \in Nat : Half(n) \in Nat /\ LargerHalf(n) \in Nat /\ Half(n) + LargerHalf(n) = n
  BY DEF Half, LargerHalf
<1>2. /\ Half(Base) \in Nat /\ LargerHalf(Base) \in Nat
      /\ Half(Base) + LargerHalf(Base) = Base
  BY <1>1, HubAmounts
<1>3. /\ Half(priority) \in Nat /\ LargerHalf(priority) \in Nat
      /\ Half(priority) + LargerHalf(priority) = priority
  BY <1>1
<1> QED
  BY <1>2, <1>3, HubAmounts DEF ProtocolFee, NodeFee

(* Placing a bid escrows its amount.                                         *)
LEMMA PlaceBidMoney ==
  ASSUME MoneyInv, NEW r \in Accounts, NEW c \in Clients, NEW i \in Inputs, NEW amount \in Nat,
         PlaceBid(r, c, i, amount)
  PROVE  MoneyInv'
<1> DEFINE x == [requester |-> r, client |-> c, input |-> i, amount |-> amount,
                 open |-> TRUE, protocolFee |-> ProtocolFee(amount - Base),
                 nodeFee |-> NodeFee(amount - Base), allocated |-> Nobody]
<1>1. /\ bids' = Append(bids, x) /\ held' = held + amount /\ amount >= Base
      /\ UNCHANGED <<node, stakeVars, updateVars, feeVars, ownerVars, now>>
  BY DEF PlaceBid
<1>2. x \in Bid /\ x.amount = x.protocolFee + x.nodeFee /\ Escrowed(x) = amount
  <2>1. amount - Base \in Nat /\ Base + (amount - Base) = amount
    BY <1>1, HubAmounts
  <2>2. /\ ProtocolFee(amount - Base) \in Nat /\ NodeFee(amount - Base) \in Nat
        /\ ProtocolFee(amount - Base) + NodeFee(amount - Base) = amount
    BY <2>1, FeeSplit
  <2> QED
    BY <2>2 DEF Bid, Escrowed
<1> HIDE DEF x
<1>3. bids \in Seq(Bid) /\ \A b \in DOMAIN bids : bids[b].amount = bids[b].protocolFee + bids[b].nodeFee
  BY DEF MoneyInv, BidsOK
<1>4. bids' \in Seq(Bid) /\ Total(OpenAmounts)' = Total(OpenAmounts) + amount
  BY <1>1, <1>2, <1>3, BidAdded DEF OpenAmounts
<1>5. BidsOK'
  <2>1. \A b \in DOMAIN bids' : bids'[b] = x \/ (b \in DOMAIN bids /\ bids'[b] = bids[b])
    BY <1>1, <1>3
  <2> QED
    BY <1>2, <1>3, <1>4, <2>1 DEF BidsOK
<1>6. NodesOK' /\ UpdatesOK' /\ ConfigOK' /\ Total(SelfStakes)' = Total(SelfStakes)
      /\ Total(delegated)' = Total(delegated)
  BY <1>1 DEF MoneyInv, NodesOK, UpdatesOK, ConfigOK, StakeAgrees, SelfStakes, stakeVars,
     updateVars, feeVars, ownerVars
<1>7. HeldOK'
  <2>1. /\ Total(OpenAmounts) \in Nat /\ Total(SelfStakes) \in Nat /\ Total(delegated) \in Nat
    BY <1>3, EscrowType, StakeTypes DEF MoneyInv, NodesOK, OpenAmounts
  <2> QED
    BY <1>1, <1>4, <1>6, <2>1 DEF MoneyInv, HeldOK, HubSolvent
<1> QED
  BY <1>5, <1>6, <1>7 DEF MoneyInv

\* Bid b becomes x, which holds no more in escrow, and the hub pays the rest.
PaysFrom(b, x) ==
  /\ x \in Bid /\ x.amount = x.protocolFee + x.nodeFee
  /\ bids' = Put(bids, b, x)
  /\ held' = held - (Escrowed(bids[b]) - Escrowed(x))

(* One of three sums changes by what is paid.                                *)
LEMMA Paid ==
  \A s, t, u, v, x, y \in Nat :
    t + x = s + y => (s + u + v) - (x - y) = t + u + v
OBVIOUS

(* Paying what leaves the escrow of a bid keeps the hub solvent.             *)
LEMMA BidPaid ==
  ASSUME MoneyInv, NEW b \in DOMAIN bids, NEW x, PaysFrom(b, x), SameStakes
  PROVE  BidsOK' /\ NodesOK' /\ HeldOK'
<1>1. bids \in Seq(Bid) /\ \A c \in DOMAIN bids : bids[c].amount = bids[c].protocolFee + bids[c].nodeFee
  BY DEF MoneyInv, BidsOK
<1>2. x \in Bid /\ x.amount = x.protocolFee + x.nodeFee /\ bids' = Put(bids, b, x)
  BY DEF PaysFrom
<1> DEFINE f == [c \in DOMAIN bids |-> IF bids[c].open THEN bids[c].amount ELSE 0]
           r == Put(bids, b, x)
           g == [c \in DOMAIN r |-> IF r[c].open THEN r[c].amount ELSE 0]
<1>3. /\ r \in Seq(Bid) /\ DOMAIN r = DOMAIN bids /\ r[b] = x
      /\ \A c \in DOMAIN bids : c # b => r[c] = bids[c]
      /\ Total(f) \in Nat /\ Total(g) \in Nat
      /\ Total(g) + Escrowed(bids[b]) = Total(f) + Escrowed(x)
  BY <1>1, <1>2, BidReplaced
<1>9. OpenAmounts = f /\ OpenAmounts' = g /\ bids' = r
  BY <1>2 DEF OpenAmounts
<1> HIDE DEF f, g, r
<1>4. BidsOK'
  <2>1. ASSUME NEW c \in DOMAIN bids' PROVE bids'[c].amount = bids'[c].protocolFee + bids'[c].nodeFee
    <3>1. CASE c = b
      BY <1>2, <1>3, <1>9, <3>1
    <3>2. CASE c # b
      BY <1>1, <1>3, <1>9, <3>2
    <3> QED
      BY <3>1, <3>2
  <2> QED
    BY <1>3, <1>9, <2>1 DEF BidsOK
<1>5. /\ NodesOK'
      /\ Total(SelfStakes)' = Total(SelfStakes) /\ Total(delegated)' = Total(delegated)
  BY StakesKept DEF MoneyInv
<1>6. Escrowed(bids[b]) \in Nat /\ Escrowed(x) \in Nat
  <2>1. \A y \in Bid : Escrowed(y) \in Nat
    BY DEF Escrowed, Bid
  <2>2. bids[b] \in Bid
    BY <1>1
  <2> QED
    BY <1>2, <2>1, <2>2
<1>7. Total(SelfStakes) \in Nat /\ Total(delegated) \in Nat
  BY StakeTypes DEF MoneyInv, NodesOK
<1>8. HeldOK'
  <2>1. held = Total(f) + Total(SelfStakes) + Total(delegated)
    BY <1>9 DEF MoneyInv, HeldOK, HubSolvent
  <2>2. held' = held - (Escrowed(bids[b]) - Escrowed(x))
    BY DEF PaysFrom
  <2>5. /\ Total(f) \in Nat /\ Total(g) \in Nat
        /\ Total(g) + Escrowed(bids[b]) = Total(f) + Escrowed(x)
    BY <1>3
  <2>3. held' = Total(g) + Total(SelfStakes) + Total(delegated)
    BY <1>6, <1>7, <2>1, <2>2, <2>5, Paid
  <2>4. held' \in Nat
    BY <1>3, <1>7, <2>3
  <2> QED
    BY <1>5, <1>9, <2>3, <2>4 DEF HeldOK, HubSolvent
<1> QED
  BY <1>4, <1>5, <1>8

(* Cancelling a bid pays back its amount, allocating it pays nothing.        *)
LEMMA BidMoney ==
  ASSUME MoneyInv, NEW b \in DOMAIN bids,
         CancelBid(b) \/ \E n \in Accounts \cup {Nobody} : AllocateBid(b, n)
  PROVE  MoneyInv'
<1>1. bids \in Seq(Bid) /\ bids[b] \in Bid /\ bids[b].amount = bids[b].protocolFee + bids[b].nodeFee
  BY DEF MoneyInv, BidsOK
<1>2. held \in Nat /\ bids[b].amount \in Nat
  BY <1>1 DEF MoneyInv, HeldOK, Bid
<1>3. UNCHANGED <<node, stakeVars, updateVars, feeVars, ownerVars, now>>
  BY DEF CancelBid, AllocateBid
<1>4. SameStakes /\ UpdatesOK' /\ ConfigOK'
  BY <1>3 DEF SameStakes, MoneyInv, NodesOK, UpdatesOK, ConfigOK, updateVars, feeVars, ownerVars
<1>5. CASE CancelBid(b)
  <2> DEFINE x == [bids[b] EXCEPT !.open = FALSE]
  <2>1. x \in Bid /\ x.amount = x.protocolFee + x.nodeFee /\ Escrowed(x) = 0
    BY <1>1 DEF Bid, Escrowed
  <2>2. Escrowed(bids[b]) = bids[b].amount
    BY <1>5 DEF CancelBid, Escrowed
  <2>3. bids' = Put(bids, b, x) /\ held' = held - bids[b].amount
    BY <1>1, <1>5 DEF CancelBid, Put
  <2> HIDE DEF x
  <2>4. PaysFrom(b, x)
    BY <1>2, <2>1, <2>2, <2>3 DEF PaysFrom
  <2> QED
    BY <1>4, <2>4, BidPaid DEF MoneyInv
<1>6. ASSUME NEW n \in Accounts \cup {Nobody}, AllocateBid(b, n) PROVE MoneyInv'
  <2> DEFINE x == [bids[b] EXCEPT !.allocated = n]
  <2>1. x \in Bid /\ x.amount = x.protocolFee + x.nodeFee /\ Escrowed(x) = Escrowed(bids[b])
    BY <1>1 DEF Bid, Escrowed
  <2>2. bids' = Put(bids, b, x) /\ held' = held
    BY <1>1, <1>6 DEF AllocateBid, Put
  <2>3. Escrowed(bids[b]) \in Nat
    BY <1>1, <1>2 DEF Escrowed
  <2> HIDE DEF x
  <2>4. PaysFrom(b, x)
    BY <1>2, <2>1, <2>2, <2>3 DEF PaysFrom
  <2> QED
    BY <1>4, <2>4, BidPaid DEF MoneyInv
<1> QED
  BY <1>5, <1>6

(* A call that moves no money and no stake keeps the hub solvent.            *)
LEMMA NothingPaid ==
  ASSUME MoneyInv, SameStakes, UNCHANGED <<bids, held>>
  PROVE  BidsOK' /\ NodesOK' /\ HeldOK'
<1>1. /\ NodesOK'
      /\ Total(SelfStakes)' = Total(SelfStakes) /\ Total(delegated)' = Total(delegated)
  BY StakesKept DEF MoneyInv
<1>2. OpenAmounts' = OpenAmounts
  BY DEF OpenAmounts
<1>3. BidsOK'
  BY DEF MoneyInv, BidsOK
<1> QED
  BY <1>1, <1>2, <1>3 DEF MoneyInv, HeldOK, HubSolvent

(* The stake behind a node and the balance change by the same amount.        *)
LEMMA StakeMoney ==
  ASSUME MoneyInv, NEW d \in Accounts, NEW n \in Accounts, NEW r \in NodeRecord, NEW y \in Nat,
         Restaked(d, n, r, y), bids' = bids, 
         held' = held + (r.selfStake + r.delegatedStake)
                   - (node[n].selfStake + node[n].delegatedStake)
  PROVE  BidsOK' /\ NodesOK' /\ HeldOK'
<1>1. /\ NodesOK'
      /\ Total(SelfStakes)' + node[n].selfStake = Total(SelfStakes) + r.selfStake
      /\ Total(delegated)' + node[n].delegatedStake = Total(delegated) + r.delegatedStake
  BY StakeChange DEF MoneyInv
<1>2. OpenAmounts' = OpenAmounts /\ BidsOK'
  BY DEF OpenAmounts, MoneyInv, BidsOK
<1>3. /\ Total(SelfStakes) \in Nat /\ Total(delegated) \in Nat
      /\ node[n].selfStake \in Nat /\ node[n].delegatedStake \in Nat
  BY StakeTypes DEF MoneyInv, NodesOK
<1>4. Total(SelfStakes)' \in Nat /\ Total(delegated)' \in Nat
  <2>1. node' \in [Accounts -> NodeRecord] /\ delegated' \in [Accounts \X Accounts -> Nat]
    BY <1>1 DEF NodesOK
  <2>2. /\ IsFiniteSet(Accounts) /\ IsFiniteSet(Accounts \X Accounts)
    BY HubParties, FS_Product
  <2>3. SelfStakes' \in [Accounts -> Nat]
    BY <2>1 DEF SelfStakes, NodeRecord
  <2> QED
    BY <2>1, <2>2, <2>3, TotalType
<1>5. Total(OpenAmounts) \in Nat
  BY EscrowType DEF MoneyInv, BidsOK, OpenAmounts
<1>6. r.selfStake \in Nat /\ r.delegatedStake \in Nat
  BY DEF NodeRecord
<1>7. held' = Total(OpenAmounts) + Total(SelfStakes)' + Total(delegated)'
  <2>1. held = Total(OpenAmounts) + Total(SelfStakes) + Total(delegated)
    BY DEF MoneyInv, HeldOK, HubSolvent
  <2> QED
    <3>1. Total(SelfStakes)' = Total(SelfStakes) + r.selfStake - node[n].selfStake
      BY <1>1, <1>3, <1>4, <1>6
    <3>2. Total(delegated)' = Total(delegated) + r.delegatedStake - node[n].delegatedStake
      BY <1>1, <1>3, <1>4, <1>6
    <3> QED
      BY <1>3, <1>5, <1>6, <2>1, <3>1, <3>2
<1>8. held' \in Nat
  BY <1>4, <1>5, <1>7
<1> QED
  BY <1>1, <1>2, <1>7, <1>8 DEF HeldOK, HubSolvent

(* No delegation and no stake exceeds the sum it is part of.                 *)
LEMMA StakeCovered ==
  ASSUME NodesOK, NEW d \in Accounts, NEW n \in Accounts
  PROVE  /\ node[n].selfStake \in Nat /\ node[n].delegatedStake \in Nat
         /\ delegated[<<d, n>>] \in Nat /\ totalStake \in Nat
         /\ delegated[<<d, n>>] <= node[n].delegatedStake
         /\ node[n].selfStake + node[n].delegatedStake <= totalStake
<1>1. /\ IsFiniteSet(Accounts)
      /\ node[n].selfStake \in Nat /\ node[n].delegatedStake \in Nat
      /\ Weights \in [Accounts -> Nat] /\ Backing(n) \in [Accounts -> Nat]
  BY StakeTypes DEF NodesOK
<1>2. Backing(n)[d] <= Total(Backing(n)) /\ Weights[n] <= Total(Weights)
  BY <1>1, TotalBound
<1>3. Backing(n)[d] = delegated[<<d, n>>] /\ node[n].delegatedStake = Total(Backing(n))
  BY DEF Backing, NodesOK, StakeAgrees
<1>4. /\ Weights[n] = node[n].selfStake + node[n].delegatedStake
      /\ totalStake = Total(Weights)
  BY DEF Weights, NodesOK, StakeAgrees
<1>5. delegated[<<d, n>>] \in Nat /\ totalStake \in Nat
  BY DEF NodesOK
<1> QED
  BY <1>1, <1>2, <1>3, <1>4, <1>5

(* Staking, and taking stake back, moves the same amount of tokens.          *)
LEMMA StakeCallMoney ==
  ASSUME MoneyInv, NEW d \in Accounts, NEW n \in Accounts, NEW amount \in Nat,
         IncreaseStake(d, n, amount) \/ DecreaseStake(d, n, amount)
  PROVE  MoneyInv'
<1>1. /\ node[n].selfStake \in Nat /\ node[n].delegatedStake \in Nat
      /\ delegated[<<d, n>>] \in Nat /\ totalStake \in Nat
      /\ delegated[<<d, n>>] <= node[n].delegatedStake
      /\ node[n].selfStake + node[n].delegatedStake <= totalStake
  BY StakeCovered DEF MoneyInv
<1>2. node[n] \in NodeRecord /\ held \in Nat
  BY DEF MoneyInv, NodesOK, HeldOK
<1>3. /\ node \in [Accounts -> NodeRecord]
      /\ delegated \in [Accounts \X Accounts -> Nat]
  BY DEF MoneyInv, NodesOK
<1>4. UNCHANGED <<bids, updateVars, feeVars, ownerVars, now>>
  BY DEF IncreaseStake, DecreaseStake
<1>5. UpdatesOK' /\ ConfigOK'
  BY <1>4 DEF MoneyInv, UpdatesOK, ConfigOK, updateVars, feeVars, ownerVars
<1>6. CASE IncreaseStake(d, n, amount)
  <2>1. CASE d = n
    <3> DEFINE r == [node[n] EXCEPT !.selfStake = @ + amount]
    <3>1. /\ r \in NodeRecord /\ r.selfStake = node[n].selfStake + amount
          /\ r.delegatedStake = node[n].delegatedStake
      BY <1>1, <1>2 DEF NodeRecord
    <3>2. /\ node' = Put(node, n, r) /\ delegated' = delegated
          /\ totalStake' = totalStake + amount /\ held' = held + amount
      BY <1>3, <1>6, <2>1 DEF IncreaseStake, Put
    <3> HIDE DEF r
    <3>3. Restaked(d, n, r, 0)
      BY <1>1, <2>1, <3>1, <3>2 DEF Restaked
    <3> QED
      BY <1>1, <1>2, <1>4, <1>5, <3>1, <3>2, <3>3, StakeMoney DEF MoneyInv
  <2>2. CASE d # n
    <3> DEFINE r == [node[n] EXCEPT !.delegatedStake = @ + amount]
               y == delegated[<<d, n>>] + amount
    <3>1. /\ r \in NodeRecord /\ r.selfStake = node[n].selfStake
          /\ r.delegatedStake = node[n].delegatedStake + amount
      BY <1>1, <1>2 DEF NodeRecord
    <3>2. /\ node' = Put(node, n, r) /\ delegated' = Put(delegated, <<d, n>>, y)
          /\ totalStake' = totalStake + amount /\ held' = held + amount
      BY <1>3, <1>6, <2>2 DEF IncreaseStake, Put
    <3>3. y \in Nat /\ y = delegated[<<d, n>>] + amount
      BY <1>1
    <3> HIDE DEF r, y
    <3>4. Restaked(d, n, r, y)
      BY <1>1, <2>2, <3>1, <3>2, <3>3 DEF Restaked
    <3> QED
      BY <1>1, <1>2, <1>4, <1>5, <3>1, <3>2, <3>3, <3>4, StakeMoney DEF MoneyInv
  <2> QED
    BY <2>1, <2>2
<1>7. CASE DecreaseStake(d, n, amount)
  <2>1. CASE d = n
    <3> DEFINE r == [node[n] EXCEPT !.selfStake = @ - amount]
    <3>1. amount <= node[n].selfStake
      BY <1>7, <2>1 DEF DecreaseStake, Available
    <3>2. /\ r \in NodeRecord /\ r.selfStake = node[n].selfStake - amount
          /\ r.delegatedStake = node[n].delegatedStake
      BY <1>1, <1>2, <3>1 DEF NodeRecord
    <3>3. /\ node' = Put(node, n, r) /\ delegated' = delegated
          /\ totalStake' = totalStake - amount /\ held' = held - amount
      BY <1>3, <1>7, <2>1 DEF DecreaseStake, Put
    <3> HIDE DEF r
    <3>4. Restaked(d, n, r, 0)
      BY <1>1, <2>1, <3>1, <3>2, <3>3 DEF Restaked
    <3> QED
      BY <1>1, <1>2, <1>4, <1>5, <3>2, <3>3, <3>4, StakeMoney DEF MoneyInv
  <2>2. CASE d # n
    <3> DEFINE r == [node[n] EXCEPT !.delegatedStake = @ - amount]
               y == delegated[<<d, n>>] - amount
    <3>1. amount <= delegated[<<d, n>>]
      BY <1>7, <2>2 DEF DecreaseStake, Available
    <3>2. /\ r \in NodeRecord /\ r.selfStake = node[n].selfStake
          /\ r.delegatedStake = node[n].delegatedStake - amount
      BY <1>1, <1>2, <3>1 DEF NodeRecord
    <3>3. /\ node' = Put(node, n, r) /\ delegated' = Put(delegated, <<d, n>>, y)
          /\ totalStake' = totalStake - amount /\ held' = held - amount
      BY <1>3, <1>7, <2>2 DEF DecreaseStake, Put
    <3>4. y \in Nat /\ y = delegated[<<d, n>>] - amount
      BY <1>1, <3>1
    <3> HIDE DEF r, y
    <3>5. Restaked(d, n, r, y)
      <4>1. r.delegatedStake + delegated[<<d, n>>] = node[n].delegatedStake + y
        BY <1>1, <3>1, <3>2, <3>4
      <4>2. totalStake - amount \in Nat
        BY <1>1, <3>1
      <4>3. totalStake' + (node[n].selfStake + node[n].delegatedStake)
              = totalStake + (r.selfStake + r.delegatedStake)
        BY <1>1, <3>1, <3>2, <3>3
      <4> QED
        BY <2>2, <3>2, <3>3, <4>1, <4>2, <4>3 DEF Restaked
    <3> QED
      BY <1>1, <1>2, <1>4, <1>5, <3>2, <3>3, <3>4, <3>5, StakeMoney DEF MoneyInv
  <2> QED
    BY <2>1, <2>2
<1> QED
  BY <1>6, <1>7

\* The record of a node changes in anything but its stake.
SameStake(q, r) ==
  /\ r \in NodeRecord
  /\ r.selfStake = q.selfStake /\ r.delegatedStake = q.delegatedStake

(* Then the nodes do.                                                        *)
LEMMA SameStakePut ==
  ASSUME node \in [Accounts -> NodeRecord], NEW n \in Accounts, NEW r,
         SameStake(node[n], r), node' = Put(node, n, r), UNCHANGED stakeVars
  PROVE  SameStakes
<1>1. /\ node' \in [Accounts -> NodeRecord] /\ node'[n] = r
      /\ \A k \in Accounts : k # n => node'[k] = node[k]
  BY DEF SameStake, Put
<1>2. r.selfStake = node[n].selfStake /\ r.delegatedStake = node[n].delegatedStake
  BY DEF SameStake
<1> QED
  BY <1>1, <1>2 DEF SameStakes

(* Registering a node, or turning it on or off, moves nothing.               *)
LEMMA NodeCallMoney ==
  ASSUME MoneyInv, NEW n \in Accounts,
         RegisterNode(n) \/ \E active \in BOOLEAN : SetNodeActive(n, active)
  PROVE  MoneyInv'
<1>1. UNCHANGED <<bids, stakeVars, updateVars, feeVars, ownerVars, held, now>>
  BY DEF RegisterNode, SetNodeActive
<1>2. node \in [Accounts -> NodeRecord]
  BY DEF MoneyInv, NodesOK
<1>3. ASSUME RegisterNode(n) PROVE SameStakes
  <2> DEFINE r == [node[n] EXCEPT !.registered = TRUE, !.active = TRUE]
  <2>1. node' = Put(node, n, r)
    BY <1>2, <1>3 DEF RegisterNode, Put
  <2>2. SameStake(node[n], r)
    BY <1>2 DEF SameStake, NodeRecord
  <2> HIDE DEF r
  <2> QED
    BY <1>1, <1>2, <2>1, <2>2, SameStakePut
<1>4. ASSUME NEW active \in BOOLEAN, SetNodeActive(n, active) PROVE SameStakes
  <2> DEFINE r == [node[n] EXCEPT !.active = active]
  <2>1. node' = Put(node, n, r)
    BY <1>2, <1>4 DEF SetNodeActive, Put
  <2>2. SameStake(node[n], r)
    BY <1>2 DEF SameStake, NodeRecord
  <2> HIDE DEF r
  <2> QED
    BY <1>1, <1>2, <2>1, <2>2, SameStakePut
<1>5. SameStakes
  BY <1>3, <1>4
<1>6. UpdatesOK' /\ ConfigOK'
  BY <1>1 DEF MoneyInv, UpdatesOK, ConfigOK, updateVars, feeVars, ownerVars
<1> QED
  BY <1>1, <1>5, <1>6, NothingPaid DEF MoneyInv

(* Crediting a node changes no stake.                                        *)
LEMMA Credited ==
  ASSUME NEW w \in NodeRecord, NEW q \in Nat
  PROVE  SameStake(w, [w EXCEPT !.fulfilledCount = @ + 1, !.earnedFees = @ + q])
<1>1. w.fulfilledCount + 1 \in Nat /\ w.earnedFees + q \in Nat
  BY DEF NodeRecord
<1> QED
  BY <1>1 DEF SameStake, NodeRecord

(* A delivered update is recorded and changes no stake.                      *)
LEMMA DeliverTypes ==
  ASSUME MoneyInv, NEW u \in Update, NEW digest \in Digests, NEW p \in Nat, NEW q \in Nat,
         Deliver(u, digest, p, q), UNCHANGED stakeVars
  PROVE  UpdatesOK' /\ SameStakes
<1>1. /\ consumed \subseteq Digests /\ received \in Seq([digest : Digests, fee : Nat])
      /\ protocolFees \in Nat /\ nodeFees \in Nat /\ node \in [Accounts -> NodeRecord]
  BY DEF MoneyInv, UpdatesOK, NodesOK
<1>2. consumed' \subseteq Digests /\ protocolFees' \in Nat /\ nodeFees' \in Nat
  BY <1>1 DEF Deliver
<1>3. received' \in Seq([digest : Digests, fee : Nat])
  <2>1. [digest |-> digest, fee |-> p + q] \in [digest : Digests, fee : Nat]
    OBVIOUS
  <2>2. received' = Append(received, [digest |-> digest, fee |-> p + q])
    BY DEF Deliver
  <2> QED
    BY <1>1, <2>1, <2>2
<1>4. SameStakes
  <2>1. u.fulfiller \in Accounts
    BY DEF Update
  <2>2. CASE node' = node
    BY <1>1, <2>2 DEF SameStakes
  <2>3. CASE node' = [node EXCEPT ![u.fulfiller].fulfilledCount = @ + 1,
                                  ![u.fulfiller].earnedFees = @ + q]
    <3> DEFINE r == [node[u.fulfiller] EXCEPT !.fulfilledCount = @ + 1, !.earnedFees = @ + q]
    <3>1. node' = Put(node, u.fulfiller, r)
      BY <1>1, <2>1, <2>3 DEF Put
    <3>2. SameStake(node[u.fulfiller], r)
      <4>1. node[u.fulfiller] \in NodeRecord
        BY <1>1, <2>1
      <4> QED
        BY <4>1, Credited
    <3> HIDE DEF r
    <3> QED
      BY <1>1, <2>1, <3>1, <3>2, SameStakePut
  <2> QED
    BY <2>2, <2>3 DEF Deliver
<1> QED
  BY <1>2, <1>3, <1>4 DEF UpdatesOK

(* A manual update is paid by its caller, not by the hub.                    *)
LEMMA ManualMoney ==
  ASSUME MoneyInv, NEW u \in Update, NEW priority \in Nat, SubmitManualUpdate(u, priority)
  PROVE  MoneyInv'
<1>1. Digest(u, 0, FALSE) \in Digests
  BY DEF Digest, Digests
<1>2. /\ Deliver(u, Digest(u, 0, FALSE), ProtocolFee(priority), NodeFee(priority))
      /\ UNCHANGED <<bids, stakeVars, ownerVars, held, now>>
  BY DEF SubmitManualUpdate
<1>3. UpdatesOK' /\ SameStakes
  BY <1>1, <1>2, FeeSplit, DeliverTypes
<1>4. ConfigOK'
  BY <1>2 DEF MoneyInv, ConfigOK, ownerVars
<1> QED
  BY <1>2, <1>3, <1>4, NothingPaid DEF MoneyInv

(* An answered bid pays all of its escrow.                                   *)
LEMMA AutoMoney ==
  ASSUME MoneyInv, NEW b \in DOMAIN bids, NEW u \in Update, SubmitAutoUpdate(b, u)
  PROVE  MoneyInv'
<1>1. /\ bids \in Seq(Bid) /\ bids[b] \in Bid /\ b \in Nat
      /\ bids[b].amount = bids[b].protocolFee + bids[b].nodeFee
  BY DEF MoneyInv, BidsOK
<1>2. /\ bids[b].protocolFee \in Nat /\ bids[b].nodeFee \in Nat /\ bids[b].amount \in Nat
  BY <1>1 DEF Bid
<1>3. /\ bids[b].open
      /\ Deliver(u, Digest(u, b, TRUE), bids[b].protocolFee, bids[b].nodeFee)
      /\ bids' = Close(b) /\ held' = held - (bids[b].protocolFee + bids[b].nodeFee)
      /\ UNCHANGED <<stakeVars, ownerVars, now>>
  BY DEF SubmitAutoUpdate
<1>4. Digest(u, b, TRUE) \in Digests
  BY <1>1 DEF Digest, Digests
<1>5. UpdatesOK' /\ SameStakes
  BY <1>2, <1>3, <1>4, DeliverTypes
<1>6. ConfigOK'
  BY <1>3 DEF MoneyInv, ConfigOK, ownerVars
<1> DEFINE x == [bids[b] EXCEPT !.open = FALSE]
<1>7. x \in Bid /\ x.amount = x.protocolFee + x.nodeFee /\ Escrowed(x) = 0
  BY <1>1 DEF Bid, Escrowed
<1>8. bids' = Put(bids, b, x) /\ Escrowed(bids[b]) = bids[b].amount
  BY <1>1, <1>3 DEF Close, Put, Escrowed
<1>9. held' = held - bids[b].amount
  BY <1>1, <1>3
<1> HIDE DEF x
<1>10. PaysFrom(b, x)
  <2>1. held' = held - (Escrowed(bids[b]) - Escrowed(x))
    BY <1>2, <1>7, <1>8, <1>9
  <2> QED
    BY <1>7, <1>8, <2>1 DEF PaysFrom
<1> QED
  BY <1>5, <1>6, <1>10, BidPaid DEF MoneyInv

-----------------------------------------------------------------------------
(* The hub's money *)

(* What the hub holds is all owed to someone, through every call.  The       *)
(* balance agrees with the bids only because each bid is worth its two fees, *)
(* and with the stake only because the stake of each node agrees with its    *)
(* delegations.                                                              *)
THEOREM HubInvariance == Spec => []MoneyInv
<1>1. Init => MoneyInv
  <2> SUFFICES ASSUME Init PROVE MoneyInv
    OBVIOUS
  <2>1. IsFiniteSet(Accounts) /\ IsFiniteSet(Accounts \X Accounts)
    BY HubParties, FS_Product
  <2>2. BidsOK /\ UpdatesOK
    BY DEF Init, BidsOK, UpdatesOK, Digests
  <2>3. ConfigOK
    BY HubParties DEF Init, ConfigOK
  <2>4. /\ node \in [Accounts -> NodeRecord] /\ delegated \in [Accounts \X Accounts -> Nat]
        /\ \A n \in Accounts : node[n].selfStake = 0 /\ node[n].delegatedStake = 0
        /\ \A k \in Accounts \X Accounts : delegated[k] = 0
    BY DEF Init, NoRecord, NodeRecord
  <2>5. /\ SelfStakes \in [Accounts -> Nat] /\ \A n \in Accounts : SelfStakes[n] = 0
        /\ Weights \in [Accounts -> Nat] /\ \A n \in Accounts : Weights[n] = 0
    BY <2>4 DEF SelfStakes, Weights
  <2>6. Total(SelfStakes) = 0 /\ Total(Weights) = 0
    BY <2>1, <2>5, TotalZero
  <2>7. Total(delegated) = 0
    BY <2>1, <2>4, TotalZero
  <2>8. ASSUME NEW n \in Accounts PROVE Total(Backing(n)) = 0
    <3>1. Backing(n) \in [Accounts -> Nat] /\ \A d \in Accounts : Backing(n)[d] = 0
      BY <2>4 DEF Backing
    <3> QED
      BY <2>1, <3>1, TotalZero
  <2>9. Total(OpenAmounts) = 0
    <3>1. bids = << >> /\ OpenAmounts \in [{} -> Nat]
      BY DEF Init, OpenAmounts
    <3> QED
      BY <3>1, FS_EmptySet, TotalZero
  <2>10. NodesOK
    <3>1. totalStake = Total(Weights) /\ totalStake \in Nat
      BY <2>6 DEF Init
    <3>2. \A n \in Accounts : node[n].delegatedStake = Total(Backing(n))
      BY <2>4, <2>8
    <3> QED
      BY <2>4, <3>1, <3>2 DEF NodesOK, StakeAgrees, Weights, Backing
  <2>11. HeldOK
    BY <2>6, <2>7, <2>9 DEF Init, HeldOK, HubSolvent
  <2> QED
    BY <2>2, <2>3, <2>10, <2>11 DEF MoneyInv
<1>2. MoneyInv /\ [Next]_vars => MoneyInv'
  <2> SUFFICES ASSUME MoneyInv, [Next]_vars PROVE MoneyInv'
    OBVIOUS
  <2>1. CASE BidStep
    <3>1. ASSUME NEW r \in Requesters, NEW c \in Clients, NEW i \in Inputs,
                 NEW amount \in BidAmounts, PlaceBid(r, c, i, amount)
          PROVE  MoneyInv'
      BY <3>1, PlaceBidMoney, HubAmounts, HubParties
    <3>2. ASSUME NEW b \in DOMAIN bids, NEW n \in Nodes \cup {Nobody},
                 CancelBid(b) \/ AllocateBid(b, n)
          PROVE  MoneyInv'
      BY <3>2, BidMoney, HubParties
    <3> QED
      BY <2>1, <3>1, <3>2 DEF BidStep
  <2>2. CASE StakeStep
    <3>1. ASSUME NEW n \in Nodes,
                 RegisterNode(n) \/ \E active \in BOOLEAN : SetNodeActive(n, active)
          PROVE  MoneyInv'
      BY <3>1, NodeCallMoney, HubParties
    <3>2. ASSUME NEW n \in Nodes, NEW d \in Accounts, NEW amount \in StakeAmounts,
                 IncreaseStake(d, n, amount) \/ DecreaseStake(d, n, amount)
          PROVE  MoneyInv'
      BY <3>2, StakeCallMoney, HubAmounts, HubParties
    <3> QED
      BY <2>2, <3>1, <3>2 DEF StakeStep
  <2>3. CASE UpdateStep
    <3>1. ASSUME NEW u \in Update, NEW amount \in BidAmounts, amount >= Base,
                 SubmitManualUpdate(u, amount - Base)
          PROVE  MoneyInv'
      <4>1. amount - Base \in Nat
        BY <3>1, HubAmounts
      <4> QED
        BY <3>1, <4>1, ManualMoney
    <3>2. ASSUME NEW u \in Update, NEW b \in DOMAIN bids, SubmitAutoUpdate(b, u)
          PROVE  MoneyInv'
      BY <3>2, AutoMoney
    <3> QED
      BY <2>3, <3>1, <3>2 DEF UpdateStep
  <2>4. CASE OwnerStep \/ Tick
    <3>1. UNCHANGED <<bids, node, stakeVars, updateVars, feeVars, held>>
      BY <2>4 DEF OwnerStep, Tick, SetMinimumAttestationAge, SetVerifierModule
    <3>2. ConfigOK'
      BY <2>4, HubParties DEF OwnerStep, Tick, SetMinimumAttestationAge, SetVerifierModule,
         ConfigOK, MoneyInv, ownerVars
    <3>3. SameStakes /\ UpdatesOK'
      BY <3>1 DEF SameStakes, MoneyInv, NodesOK, UpdatesOK, updateVars, feeVars
    <3> QED
      BY <3>1, <3>2, <3>3, NothingPaid DEF MoneyInv
  <2>5. CASE UNCHANGED vars
    <3>1. UNCHANGED <<bids, held>> /\ SameStakes
      BY <2>5 DEF vars, SameStakes, MoneyInv, NodesOK
    <3>2. UpdatesOK' /\ ConfigOK'
      BY <2>5 DEF vars, updateVars, feeVars, ownerVars, MoneyInv, UpdatesOK, ConfigOK
    <3> QED
      BY <3>1, <3>2, NothingPaid DEF MoneyInv
  <2> QED
    BY <2>1, <2>2, <2>3, <2>4, <2>5 DEF Next
<1> QED
  BY <1>1, <1>2, PTL DEF Spec

(* Every variable of the hub keeps its type.                                 *)
THEOREM HubTypes == Spec => []TypeOK
<1>1. MoneyInv => TypeOK
  BY DEF MoneyInv, BidsOK, NodesOK, UpdatesOK, ConfigOK, HeldOK, TypeOK
<1> QED
  BY <1>1, HubInvariance, PTL

(* The hub holds exactly the open bids and the stake, for any number of      *)
(* accounts, bids and amounts.                                               *)
THEOREM HubHoldsWhatItOwes == Spec => []HubSolvent
<1>1. MoneyInv => HubSolvent
  BY DEF MoneyInv, HeldOK
<1> QED
  BY <1>1, HubInvariance, PTL

(* The stake behind each node, and all of it, agree with who put it there.   *)
THEOREM StakesAgree == Spec => []StakeAgrees
<1>1. MoneyInv => StakeAgrees
  BY DEF MoneyInv, NodesOK
<1> QED
  BY <1>1, HubInvariance, PTL

-----------------------------------------------------------------------------
(* Answers *)

\* What a client got was consumed, and answers no bid or one that was placed.
AnswersKnown ==
  \A i \in DOMAIN received :
    /\ received[i].digest \in consumed
    /\ received[i].digest[2] # 0 => received[i].digest[2] \in DOMAIN bids

AnswerInv == AnswersKnown /\ AnsweredOnce

\* Bids are only added, and a closed one stays closed.
BidsOnlyClose ==
  \A b \in DOMAIN bids : b \in DOMAIN bids' /\ (~bids[b].open => ~bids'[b].open)

(* A call that delivers nothing leaves the answers as they are.              *)
LEMMA NoReply ==
  ASSUME AnswerInv, UNCHANGED updateVars, BidsOnlyClose
  PROVE  AnswerInv'
<1>1. received' = received /\ consumed' = consumed
  BY DEF updateVars
<1>2. AnswersKnown'
  BY <1>1 DEF AnswerInv, AnswersKnown, BidsOnlyClose
<1>3. AnsweredOnce'
  BY <1>1 DEF AnswerInv, AnswersKnown, AnsweredOnce, BidsOnlyClose
<1> QED
  BY <1>2, <1>3 DEF AnswerInv

(* One fresh update, which answers no bid or closes one that was open.       *)
LEMMA Reply ==
  ASSUME AnswerInv, received \in Seq([digest : Digests, fee : Nat]), BidsOnlyClose,
         NEW m \in [digest : Digests, fee : Nat],
         received' = Append(received, m), consumed' = consumed \cup {m.digest},
         m.digest \notin consumed,
         \/ m.digest[2] = 0
         \/ /\ m.digest[2] \in DOMAIN bids /\ bids[m.digest[2]].open
            /\ ~bids'[m.digest[2]].open
  PROVE  AnswerInv'
<1> DEFINE k == Len(received) + 1
<1>1. /\ received'[k] = m /\ k \notin DOMAIN received
      /\ DOMAIN received' = DOMAIN received \cup {k}
      /\ \A i \in DOMAIN received : received'[i] = received[i]
  OBVIOUS
<1> HIDE DEF k
<1>2. ASSUME NEW i \in DOMAIN received
      PROVE  /\ received[i].digest # m.digest
             /\ received[i].digest[2] = 0 \/ received[i].digest[2] # m.digest[2]
  BY DEF AnswerInv, AnswersKnown, AnsweredOnce
<1>3. AnswersKnown'
  BY <1>1 DEF AnswerInv, AnswersKnown, BidsOnlyClose
<1>4. AnsweredOnce'
  <2>1. ASSUME NEW i \in DOMAIN received', NEW j \in DOMAIN received', i # j
        PROVE  /\ received'[i].digest # received'[j].digest
               /\ received'[i].digest[2] = 0
                    \/ received'[i].digest[2] # received'[j].digest[2]
    <3>1. CASE i # k /\ j # k
      BY <1>1, <2>1, <3>1 DEF AnswerInv, AnsweredOnce
    <3>2. CASE i # k /\ j = k
      BY <1>1, <1>2, <3>2
    <3>3. CASE i = k /\ j # k
      BY <1>1, <1>2, <2>1, <3>3
    <3> QED
      BY <2>1, <3>1, <3>2, <3>3
  <2>2. ASSUME NEW i \in DOMAIN received', received'[i].digest[2] # 0
        PROVE  ~bids'[received'[i].digest[2]].open
    <3>1. CASE i = k
      BY <1>1, <2>2, <3>1
    <3>2. CASE i # k
      BY <1>1, <2>2, <3>2 DEF AnswerInv, AnswersKnown, AnsweredOnce, BidsOnlyClose
    <3> QED
      BY <3>1, <3>2
  <2> QED
    BY <2>1, <2>2 DEF AnsweredOnce
<1> QED
  BY <1>3, <1>4 DEF AnswerInv

(* A delivered update is a fresh reply.                                      *)
LEMMA DeliverReply ==
  ASSUME MoneyInv, AnswerInv, BidsOnlyClose,
         NEW u \in Update, NEW b \in Nat, NEW auto \in BOOLEAN, NEW p \in Nat, NEW q \in Nat,
         Deliver(u, Digest(u, b, auto), p, q), Fresh(Digest(u, b, auto)),
         b = 0 \/ (b \in DOMAIN bids /\ bids[b].open /\ ~bids'[b].open)
  PROVE  AnswerInv'
<1> DEFINE m == [digest |-> Digest(u, b, auto), fee |-> p + q]
<1>1. m.digest = <<u, b, auto>> /\ m.digest[2] = b /\ m \in [digest : Digests, fee : Nat]
  BY DEF Digest, Digests
<1>2. /\ received' = Append(received, m) /\ consumed' = consumed \cup {m.digest}
      /\ m.digest \notin consumed
  BY DEF Deliver, Fresh
<1>3. received \in Seq([digest : Digests, fee : Nat])
  BY DEF MoneyInv, UpdatesOK
<1> HIDE DEF m
<1> QED
  BY <1>1, <1>2, <1>3, Reply

(* What was delivered was consumed, and closes the bid it names for good. *)
THEOREM AnswerInvariance == Spec => [](MoneyInv /\ AnswerInv)
<1>1. Init => AnswerInv
  BY DEF Init, AnswerInv, AnswersKnown, AnsweredOnce
<1>2. MoneyInv /\ AnswerInv /\ [Next]_vars => AnswerInv'
  <2> SUFFICES ASSUME MoneyInv, AnswerInv, [Next]_vars PROVE AnswerInv'
    OBVIOUS
  <2>1. bids \in Seq(Bid)
    BY DEF MoneyInv, BidsOK
  <2>2. ASSUME bids' = bids PROVE BidsOnlyClose
    BY <2>2 DEF BidsOnlyClose
  <2>3. ASSUME NEW b \in DOMAIN bids, bids' = Close(b)
        PROVE  BidsOnlyClose /\ ~bids'[b].open
    <3> DEFINE x == [bids[b] EXCEPT !.open = FALSE]
    <3>1. bids[b] \in Bid
      BY <2>1
    <3>2. x.open = FALSE
      BY <3>1 DEF Bid
    <3>3. bids' = Put(bids, b, x)
      BY <2>1, <2>3 DEF Close, Put
    <3> HIDE DEF x
    <3>4. /\ bids'[b] = x /\ DOMAIN bids' = DOMAIN bids
          /\ \A c \in DOMAIN bids : c # b => bids'[c] = bids[c]
      BY <2>1, <3>3 DEF Put
    <3> QED
      BY <3>2, <3>4 DEF BidsOnlyClose
  <2>4. CASE BidStep
    <3>1. UNCHANGED updateVars
      BY <2>4 DEF BidStep, PlaceBid, CancelBid, AllocateBid
    <3>2. ASSUME NEW r \in Requesters, NEW c \in Clients, NEW i \in Inputs,
                 NEW amount \in BidAmounts, PlaceBid(r, c, i, amount)
          PROVE  BidsOnlyClose
      <4>1. PICK x : bids' = Append(bids, x)
        BY <3>2 DEF PlaceBid
      <4> QED
        BY <2>1, <4>1 DEF BidsOnlyClose
    <3>3. ASSUME NEW b \in DOMAIN bids, CancelBid(b) PROVE BidsOnlyClose
      BY <2>3, <3>3 DEF CancelBid, Close
    <3>4. ASSUME NEW b \in DOMAIN bids, NEW n, AllocateBid(b, n) PROVE BidsOnlyClose
      BY <2>1, <3>4 DEF AllocateBid, BidsOnlyClose, Bid
    <3> QED
      BY <2>4, <3>1, <3>2, <3>3, <3>4, NoReply DEF BidStep
  <2>5. CASE StakeStep
    <3>1. bids' = bids /\ UNCHANGED updateVars
      BY <2>5 DEF StakeStep, RegisterNode, SetNodeActive, IncreaseStake, DecreaseStake
    <3> QED
      BY <2>2, <3>1, NoReply
  <2>6. CASE UpdateStep
    <3>1. ASSUME NEW u \in Update, NEW amount \in BidAmounts, amount >= Base,
                 SubmitManualUpdate(u, amount - Base)
          PROVE  AnswerInv'
      <4>1. amount - Base \in Nat
        BY <3>1, HubAmounts
      <4>2. /\ Deliver(u, Digest(u, 0, FALSE), ProtocolFee(amount - Base), NodeFee(amount - Base))
            /\ Fresh(Digest(u, 0, FALSE)) /\ bids' = bids
        BY <3>1 DEF SubmitManualUpdate, Valid
      <4> QED
        BY <2>2, <4>1, <4>2, FeeSplit, DeliverReply
    <3>2. ASSUME NEW u \in Update, NEW b \in DOMAIN bids, SubmitAutoUpdate(b, u)
          PROVE  AnswerInv'
      <4>1. b \in Nat /\ bids[b].protocolFee \in Nat /\ bids[b].nodeFee \in Nat
        <5>1. bids[b] \in Bid /\ b \in Nat
          BY <2>1
        <5> QED
          BY <5>1 DEF Bid
      <4>2. /\ Deliver(u, Digest(u, b, TRUE), bids[b].protocolFee, bids[b].nodeFee)
            /\ Fresh(Digest(u, b, TRUE)) /\ bids[b].open /\ bids' = Close(b)
        BY <3>2 DEF SubmitAutoUpdate, Valid
      <4> QED
        BY <2>3, <4>1, <4>2, DeliverReply
    <3> QED
      BY <2>6, <3>1, <3>2 DEF UpdateStep
  <2>7. CASE OwnerStep \/ Tick
    <3>1. bids' = bids /\ UNCHANGED updateVars
      BY <2>7 DEF OwnerStep, Tick, SetMinimumAttestationAge, SetVerifierModule
    <3> QED
      BY <2>2, <3>1, NoReply
  <2>8. CASE UNCHANGED vars
    <3>1. bids' = bids /\ UNCHANGED updateVars
      BY <2>8 DEF vars
    <3> QED
      BY <2>2, <3>1, NoReply
  <2> QED
    BY <2>4, <2>5, <2>6, <2>7, <2>8 DEF Next
<1> QED
  BY <1>1, <1>2, HubInvariance, PTL DEF Spec

(* Whatever is signed, no update reaches a client twice and no bid is        *)
(* answered twice, nor after its amount was paid back.                       *)
THEOREM AnswersOnce == Spec => []AnsweredOnce
<1>1. AnswerInv => AnsweredOnce
  BY DEF AnswerInv
<1> QED
  BY <1>1, AnswerInvariance, PTL

-----------------------------------------------------------------------------
(* Fees *)

\* Bids are only added, and keep the amount they were placed with.
AmountsKept ==
  \A b \in DOMAIN bids : b \in DOMAIN bids' /\ bids'[b].amount = bids[b].amount

\* No node earns anything.
NoneEarned == \A n \in Accounts : node'[n].earnedFees = node[n].earnedFees

\* The fees of the delivered updates, and what each node earned of them.
FeesPaid == [i \in DOMAIN received |-> received[i].fee]
Earned == [n \in Accounts |-> node[n].earnedFees]

(* A call that delivers nothing leaves the fees as they are.                 *)
LEMMA NoFees ==
  ASSUME FeesAccounted, AnswersKnown, UNCHANGED <<updateVars, feeVars>>, AmountsKept, NoneEarned
  PROVE  FeesAccounted'
<1>1. received' = received /\ protocolFees' = protocolFees /\ nodeFees' = nodeFees
  BY DEF updateVars, feeVars
<1>2. [n \in Accounts |-> node'[n].earnedFees] = Earned
  BY DEF NoneEarned, Earned
<1>3. ASSUME NEW i \in DOMAIN received, received[i].digest[2] # 0
      PROVE  received[i].fee = bids'[received[i].digest[2]].amount
  BY <1>3 DEF FeesAccounted, AnswersKnown, AmountsKept
<1> QED
  BY <1>1, <1>2, <1>3 DEF FeesAccounted, Earned

(* What the delivered updates paid, and what the nodes earned, are sums of   *)
(* natural numbers.                                                          *)
LEMMA FeeTypes ==
  ASSUME MoneyInv
  PROVE  /\ FeesPaid \in [1..Len(received) -> Nat] /\ Len(received) \in Nat
         /\ IsFiniteSet(1..Len(received)) /\ DOMAIN received = 1..Len(received)
         /\ \A i \in 1..Len(received) : FeesPaid[i] = received[i].fee
         /\ Total(FeesPaid) \in Nat
         /\ IsFiniteSet(Accounts) /\ Earned \in [Accounts -> Nat] /\ Total(Earned) \in Nat
         /\ \A n \in Accounts : node[n] \in NodeRecord /\ Earned[n] = node[n].earnedFees
<1>1. received \in Seq([digest : Digests, fee : Nat]) /\ node \in [Accounts -> NodeRecord]
  BY DEF MoneyInv, UpdatesOK, NodesOK
<1>2. /\ DOMAIN received = 1..Len(received) /\ Len(received) \in Nat
      /\ IsFiniteSet(1..Len(received))
  BY <1>1, FS_Interval
<1>3. \A i \in 1..Len(received) : received[i].fee \in Nat
  <2> DEFINE M == [digest : Digests, fee : Nat]
  <2>1. \A m \in M : m.fee \in Nat
    OBVIOUS
  <2>2. received \in Seq(M)
    BY <1>1
  <2> HIDE DEF M
  <2>3. \A i \in 1..Len(received) : received[i] \in M
    BY <2>2
  <2> QED
    BY <2>1, <2>3
<1>4. /\ FeesPaid \in [1..Len(received) -> Nat]
      /\ \A i \in 1..Len(received) : FeesPaid[i] = received[i].fee
  BY <1>2, <1>3 DEF FeesPaid
<1>5. /\ Earned \in [Accounts -> Nat]
      /\ \A n \in Accounts : node[n] \in NodeRecord /\ Earned[n] = node[n].earnedFees
  BY <1>1 DEF Earned, NodeRecord
<1> QED
  BY <1>2, <1>4, <1>5, HubParties, TotalType

\* The two sums are of functions with these values.
FeeValues ==
  /\ IsFiniteSet(1..Len(received)) /\ FeesPaid \in [1..Len(received) -> Nat]
  /\ \A i \in 1..Len(received) : FeesPaid[i] = received[i].fee
  /\ Earned \in [Accounts -> Nat]
  /\ \A n \in Accounts : Earned[n] = node[n].earnedFees

LEMMA FeesShape == MoneyInv => FeeValues
BY FeeTypes DEF FeeValues

(* After a step the two sums still are. *)
LEMMA FeesShapeAfter == (MoneyInv => FeeValues)'
BY FeesShape, PTL

(* A delivered update pays what it says, and its node earns its part.        *)
LEMMA DeliveredFees ==
  ASSUME MoneyInv, MoneyInv', FeesAccounted, AnswersKnown, AmountsKept,
         NEW u \in Update, NEW b \in Nat, NEW auto \in BOOLEAN, NEW p \in Nat, NEW q \in Nat,
         Deliver(u, Digest(u, b, auto), p, q),
         b # 0 => b \in DOMAIN bids /\ p + q = bids[b].amount
  PROVE  FeesAccounted'
<1> DEFINE m == [digest |-> Digest(u, b, auto), fee |-> p + q]
           k == Len(received) + 1
           w == u.fulfiller
<1>1. m.digest[2] = b /\ m.fee = p + q /\ p + q \in Nat
  BY DEF Digest
<1>2. /\ received' = Append(received, m)
      /\ protocolFees' = protocolFees + p /\ nodeFees' = nodeFees + q
  BY DEF Deliver
<1>3. /\ received \in Seq([digest : Digests, fee : Nat])
      /\ protocolFees \in Nat /\ nodeFees \in Nat /\ node \in [Accounts -> NodeRecord]
  BY DEF MoneyInv, UpdatesOK, NodesOK
<1>4. w \in Accounts
  BY DEF Update
<1>5. /\ DOMAIN received = 1..Len(received) /\ Len(received) \in Nat
      /\ IsFiniteSet(1..Len(received)) /\ FeesPaid \in [1..Len(received) -> Nat]
      /\ \A i \in 1..Len(received) : FeesPaid[i] = received[i].fee
      /\ Total(FeesPaid) \in Nat /\ Total(Earned) \in Nat
      /\ IsFiniteSet(Accounts) /\ Earned \in [Accounts -> Nat]
      /\ \A n \in Accounts : node[n] \in NodeRecord /\ Earned[n] = node[n].earnedFees
  BY FeeTypes
<1>6. (/\ IsFiniteSet(1..Len(received)) /\ FeesPaid \in [1..Len(received) -> Nat]
       /\ \A i \in 1..Len(received) : FeesPaid[i] = received[i].fee
       /\ Earned \in [Accounts -> Nat]
       /\ \A n \in Accounts : Earned[n] = node[n].earnedFees)'
  BY FeesShapeAfter DEF FeeValues
<1>7. /\ Len(received') = k /\ received'[k] = m /\ k \notin 1..Len(received)
      /\ 1..k = (1..Len(received)) \cup {k}
      /\ DOMAIN received' = 1..k
      /\ \A i \in 1..Len(received) : received'[i] = received[i]
  BY <1>2, <1>3, <1>5
<1> HIDE DEF m, k, w
<1>8. Total(FeesPaid') = Total(FeesPaid) + (p + q)
  <2>1. Extends(1..Len(received), FeesPaid, FeesPaid', k)
    <3>1. \A i \in 1..Len(received) : FeesPaid'[i] = FeesPaid[i]
      BY <1>5, <1>6, <1>7
    <3> QED
      BY <1>5, <1>6, <1>7, <3>1 DEF Extends
  <2>2. FeesPaid'[k] = p + q
    BY <1>1, <1>6, <1>7
  <2> QED
    BY <2>1, <2>2, TotalExtend
<1>9. Total(Earned') \in Nat /\ Total(Earned') <= Total(Earned) + q
  <2>1. CASE node' = node
    BY <1>5, <2>1 DEF Earned
  <2>2. CASE node' = [node EXCEPT ![u.fulfiller].fulfilledCount = @ + 1,
                                  ![u.fulfiller].earnedFees = @ + q]
    <3> DEFINE r == [node[w] EXCEPT !.fulfilledCount = @ + 1, !.earnedFees = @ + q]
    <3>1. node' = Put(node, w, r)
      BY <1>3, <1>4, <2>2 DEF Put, w
    <3>2. r.earnedFees = node[w].earnedFees + q
      BY <1>4, <1>5 DEF NodeRecord
    <3> HIDE DEF r
    <3>3. \A n \in Accounts : node'[n] = IF n = w THEN r ELSE node[n]
      BY <1>3, <1>4, <3>1 DEF Put
    <3>4. \A n \in Accounts : Earned'[n] = Earned[n] + (IF n = w THEN q ELSE 0)
      <4>1. ASSUME NEW n \in Accounts
            PROVE  Earned'[n] = Earned[n] + (IF n = w THEN q ELSE 0)
        <5>1. /\ Earned[n] = node[n].earnedFees /\ Earned'[n] = node'[n].earnedFees
              /\ Earned[n] \in Nat
          BY <1>5, <1>6
        <5>2. CASE n = w
          BY <3>2, <3>3, <5>1, <5>2
        <5>3. CASE n # w
          <6>1. Earned'[n] = Earned[n]
            BY <3>3, <5>1, <5>3
          <6> QED
            BY <5>1, <5>3, <6>1
        <5> QED
          BY <5>2, <5>3
      <4> QED
        BY <4>1
    <3>5. Gains(Accounts, Earned, Earned', w, q)
      BY <1>4, <1>5, <1>6, <3>4 DEF Gains
    <3>6. Total(Earned') = Total(Earned) + q
      BY <3>5, TotalAdd
    <3> QED
      BY <1>5, <3>6
  <2> QED
    BY <2>1, <2>2 DEF Deliver
<1>10. ASSUME NEW i \in 1..k, received'[i].digest[2] # 0
       PROVE  received'[i].fee = bids'[received'[i].digest[2]].amount
  <2>1. CASE i = k
    BY <1>1, <1>7, <1>10, <2>1 DEF AmountsKept
  <2>2. CASE i # k
    <3>1. i \in DOMAIN received /\ received'[i] = received[i]
      BY <1>5, <1>7, <2>2
    <3> QED
      BY <1>10, <3>1 DEF FeesAccounted, AnswersKnown, AmountsKept
  <2> QED
    BY <2>1, <2>2
<1>11. /\ protocolFees + nodeFees = Total(FeesPaid) /\ Total(Earned) <= nodeFees
  BY DEF FeesAccounted, FeesPaid, Earned
<1>12. /\ protocolFees' + nodeFees' = Total(FeesPaid') /\ Total(Earned') <= nodeFees'
  BY <1>2, <1>3, <1>5, <1>8, <1>9, <1>11
<1> QED
  BY <1>7, <1>10, <1>12 DEF FeesAccounted, FeesPaid, Earned


(* Every delivered update is paid in full, by its bid when it answers one,   *)
(* between the protocol and the node, and no node is credited more than the  *)
(* nodes were paid (submitManualUpdate, submitAutoUpdate).                   *)
THEOREM NoFeeIsLost == Spec => []FeesAccounted
<1>1. Init /\ MoneyInv => FeesAccounted
  <2> SUFFICES ASSUME Init, MoneyInv PROVE FeesAccounted
    OBVIOUS
  <2>1. received = << >> /\ protocolFees = 0 /\ nodeFees = 0
    BY DEF Init
  <2>2. Total(FeesPaid) = 0
    <3>1. FeesPaid \in [{} -> Nat]
      BY <2>1 DEF FeesPaid
    <3> QED
      BY <3>1, FS_EmptySet, TotalZero
  <2>3. Total(Earned) = 0
    <3>1. \A n \in Accounts : Earned[n] = 0
      BY DEF Init, Earned, NoRecord
    <3> QED
      BY <3>1, FeeTypes, TotalZero
  <2> QED
    BY <2>1, <2>2, <2>3 DEF FeesAccounted, FeesPaid, Earned
<1>2. MoneyInv /\ MoneyInv' /\ AnswerInv /\ FeesAccounted /\ [Next]_vars => FeesAccounted'
  <2> SUFFICES ASSUME MoneyInv, MoneyInv', AnswerInv, FeesAccounted, [Next]_vars
               PROVE  FeesAccounted'
    OBVIOUS
  <2>1. /\ bids \in Seq(Bid) /\ node \in [Accounts -> NodeRecord] /\ AnswersKnown
        /\ \A b \in DOMAIN bids : bids[b].amount = bids[b].protocolFee + bids[b].nodeFee
    BY DEF MoneyInv, BidsOK, NodesOK, AnswerInv
  <2>2. ASSUME bids' = bids PROVE AmountsKept
    BY <2>2 DEF AmountsKept
  <2>3. ASSUME node' = node PROVE NoneEarned
    BY <2>3 DEF NoneEarned
  <2>4. ASSUME NEW b \in DOMAIN bids, NEW x, x.amount = bids[b].amount, bids' = Put(bids, b, x)
        PROVE  AmountsKept
    BY <2>1, <2>4 DEF AmountsKept, Put
  <2>5. ASSUME NEW b \in DOMAIN bids, bids' = Close(b)
        PROVE  AmountsKept
    <3> DEFINE x == [bids[b] EXCEPT !.open = FALSE]
    <3>1. bids[b] \in Bid
      BY <2>1
    <3>2. x.amount = bids[b].amount
      BY <3>1 DEF Bid
    <3>3. bids' = Put(bids, b, x)
      BY <2>1, <2>5 DEF Close, Put
    <3> HIDE DEF x
    <3> QED
      BY <2>4, <3>2, <3>3
  <2>6. CASE BidStep
    <3>1. UNCHANGED <<updateVars, feeVars>> /\ node' = node
      BY <2>6 DEF BidStep, PlaceBid, CancelBid, AllocateBid
    <3>2. ASSUME NEW r \in Requesters, NEW c \in Clients, NEW i \in Inputs,
                 NEW amount \in BidAmounts, PlaceBid(r, c, i, amount)
          PROVE  AmountsKept
      <4>1. PICK x : bids' = Append(bids, x)
        BY <3>2 DEF PlaceBid
      <4> QED
        BY <2>1, <4>1 DEF AmountsKept
    <3>3. ASSUME NEW b \in DOMAIN bids, CancelBid(b) PROVE AmountsKept
      BY <2>5, <3>3 DEF CancelBid, Close
    <3>4. ASSUME NEW b \in DOMAIN bids, NEW n, AllocateBid(b, n) PROVE AmountsKept
      <4> DEFINE x == [bids[b] EXCEPT !.allocated = n]
      <4>1. bids[b] \in Bid
        BY <2>1
      <4>2. x.amount = bids[b].amount
        BY <4>1 DEF Bid
      <4>3. bids' = Put(bids, b, x)
        BY <2>1, <3>4 DEF AllocateBid, Put
      <4> HIDE DEF x
      <4> QED
        BY <2>4, <4>2, <4>3
    <3> QED
      BY <2>1, <2>3, <2>6, <3>1, <3>2, <3>3, <3>4, NoFees DEF BidStep
  <2>7. CASE StakeStep
    <3>1. bids' = bids /\ UNCHANGED <<updateVars, feeVars>>
      BY <2>7 DEF StakeStep, RegisterNode, SetNodeActive, IncreaseStake, DecreaseStake
    <3>2. ASSUME NEW n \in Accounts, NEW r, r.earnedFees = node[n].earnedFees,
                 node' = Put(node, n, r)
          PROVE  NoneEarned
      BY <2>1, <3>2 DEF NoneEarned, Put
    <3>3. PICK n \in Nodes :
            \/ RegisterNode(n) \/ \E active \in BOOLEAN : SetNodeActive(n, active)
            \/ \E d \in Accounts, amount \in StakeAmounts :
                 IncreaseStake(d, n, amount) \/ DecreaseStake(d, n, amount)
      BY <2>7 DEF StakeStep
    <3>4. n \in Accounts /\ node[n] \in NodeRecord
      BY <2>1, HubParties
    <3>5. ASSUME RegisterNode(n) PROVE NoneEarned
      <4> DEFINE r == [[node[n] EXCEPT !.registered = TRUE] EXCEPT !.active = TRUE]
      <4>1. r.earnedFees = node[n].earnedFees
        BY <3>4 DEF NodeRecord
      <4>2. node' = Put(node, n, r)
        BY <2>1, <3>4, <3>5 DEF RegisterNode, Put
      <4> HIDE DEF r
      <4> QED
        BY <3>2, <3>4, <4>1, <4>2
    <3>6. ASSUME NEW active \in BOOLEAN, SetNodeActive(n, active) PROVE NoneEarned
      <4> DEFINE r == [node[n] EXCEPT !.active = active]
      <4>1. r.earnedFees = node[n].earnedFees
        BY <3>4 DEF NodeRecord
      <4>2. node' = Put(node, n, r)
        BY <2>1, <3>4, <3>6 DEF SetNodeActive, Put
      <4> HIDE DEF r
      <4> QED
        BY <3>2, <3>4, <4>1, <4>2
    <3>7. ASSUME NEW d \in Accounts, NEW amount \in StakeAmounts,
                 IncreaseStake(d, n, amount) \/ DecreaseStake(d, n, amount)
          PROVE  NoneEarned
      <4>1. ASSUME NEW y, node' = [node EXCEPT ![n].selfStake = y] PROVE NoneEarned
        <5> DEFINE r == [node[n] EXCEPT !.selfStake = y]
        <5>1. r.earnedFees = node[n].earnedFees
          BY <3>4 DEF NodeRecord
        <5>2. node' = Put(node, n, r)
          BY <2>1, <3>4, <4>1 DEF Put
        <5> HIDE DEF r
        <5> QED
          BY <3>2, <3>4, <5>1, <5>2
      <4>2. ASSUME NEW y, node' = [node EXCEPT ![n].delegatedStake = y] PROVE NoneEarned
        <5> DEFINE r == [node[n] EXCEPT !.delegatedStake = y]
        <5>1. r.earnedFees = node[n].earnedFees
          BY <3>4 DEF NodeRecord
        <5>2. node' = Put(node, n, r)
          BY <2>1, <3>4, <4>2 DEF Put
        <5> HIDE DEF r
        <5> QED
          BY <3>2, <3>4, <5>1, <5>2
      <4> QED
        BY <3>7, <4>1, <4>2 DEF IncreaseStake, DecreaseStake
    <3> QED
      BY <2>1, <2>2, <3>1, <3>3, <3>5, <3>6, <3>7, NoFees
  <2>8. CASE UpdateStep
    <3>1. ASSUME NEW u \in Update, NEW amount \in BidAmounts, amount >= Base,
                 SubmitManualUpdate(u, amount - Base)
          PROVE  FeesAccounted'
      <4>1. amount - Base \in Nat
        BY <3>1, HubAmounts
      <4>2. /\ Deliver(u, Digest(u, 0, FALSE), ProtocolFee(amount - Base), NodeFee(amount - Base))
            /\ bids' = bids
        BY <3>1 DEF SubmitManualUpdate
      <4> QED
        BY <2>1, <2>2, <4>1, <4>2, FeeSplit, DeliveredFees
    <3>2. ASSUME NEW u \in Update, NEW b \in DOMAIN bids, SubmitAutoUpdate(b, u)
          PROVE  FeesAccounted'
      <4>1. b \in Nat /\ bids[b].protocolFee \in Nat /\ bids[b].nodeFee \in Nat
        <5>1. bids[b] \in Bid /\ b \in Nat
          BY <2>1
        <5> QED
          BY <5>1 DEF Bid
      <4>2. /\ Deliver(u, Digest(u, b, TRUE), bids[b].protocolFee, bids[b].nodeFee)
            /\ bids' = Close(b)
        BY <3>2 DEF SubmitAutoUpdate
      <4>3. bids[b].protocolFee + bids[b].nodeFee = bids[b].amount
        BY <2>1
      <4> QED
        BY <2>1, <2>5, <4>1, <4>2, <4>3, DeliveredFees
    <3> QED
      BY <2>8, <3>1, <3>2 DEF UpdateStep
  <2>9. CASE OwnerStep \/ Tick
    <3>1. bids' = bids /\ node' = node /\ UNCHANGED <<updateVars, feeVars>>
      BY <2>9 DEF OwnerStep, Tick, SetMinimumAttestationAge, SetVerifierModule
    <3> QED
      BY <2>1, <2>2, <2>3, <3>1, NoFees
  <2>10. CASE UNCHANGED vars
    <3>1. bids' = bids /\ node' = node /\ UNCHANGED <<updateVars, feeVars>>
      BY <2>10 DEF vars
    <3> QED
      BY <2>1, <2>2, <2>3, <3>1, NoFees
  <2> QED
    BY <2>6, <2>7, <2>8, <2>9, <2>10 DEF Next
<1>3. Spec => [](MoneyInv /\ AnswerInv) /\ Init /\ [][Next]_vars
  BY AnswerInvariance DEF Spec
<1> QED
  BY <1>1, <1>2, <1>3, PTL

===============================================================================
