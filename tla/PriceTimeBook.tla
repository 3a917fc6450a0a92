---------------------------- MODULE PriceTimeBook ----------------------------
(***************************************************************************)
(* What the order book of ThassaMarkets promises to its users, without     *)
(* levels, cursors or bitmaps: a set of resting orders, and at most one    *)
(* incoming order, which trades with the best resting order that crosses   *)
(* it - the highest price first, the earliest arrival among equals - at    *)
(* the price of that resting order, until it is filled or nothing crosses. *)
(* A resting order leaves only by being traded or by being cancelled.      *)
(***************************************************************************)
EXTENDS Naturals

CONSTANTS Dollar, Markets, Accounts

Sides == {"YES", "NO"}
Prices == 1..(Dollar - 1)

VARIABLES
  resting,    \* records [market, side, price, arrival, maker, shares]
  incoming    \* None, or [market, side, price, maker, shares, paid]

None == [market |-> 0]

Other(s) == IF s = "YES" THEN "NO" ELSE "YES"

\* In cents: what the incoming order pays for n shares of resting order r.
PaidFor(r, n) == n * (Dollar - r.price)

Crosses(r) ==
  /\ r.market = incoming.market
  /\ r.side = Other(incoming.side)
  /\ r.price + incoming.price >= Dollar

Before(r, q) == r.price > q.price \/ (r.price = q.price /\ r.arrival < q.arrival)

Best(r) ==
  /\ r \in resting /\ Crosses(r)
  /\ \A q \in resting : Crosses(q) /\ q # r => Before(r, q)

Init == resting = {} /\ incoming = None

Arrive ==
  /\ incoming = None
  /\ incoming' \in [market : Markets, side : Sides, price : Prices, maker : Accounts,
                   shares : Nat \ {0}, paid : {0}]
  /\ UNCHANGED resting

Trade(r) ==
  /\ incoming # None
  /\ Best(r)
  /\ LET n == IF incoming.shares < r.shares THEN incoming.shares ELSE r.shares
     IN  /\ n > 0
         /\ incoming' = [incoming EXCEPT !.shares = @ - n,
                                         !.paid = @ + PaidFor(r, n)]
         /\ resting' = (resting \ {r}) \cup
              (IF n = r.shares THEN {} ELSE {[r EXCEPT !.shares = @ - n]})

Filled ==
  /\ incoming # None /\ incoming.shares = 0
  /\ incoming' = None
  /\ UNCHANGED resting

\* The rest of an order queues behind those already at its price.
ComeToRest ==
  /\ incoming # None /\ incoming.shares > 0
  /\ ~ \E r \in resting : Crosses(r)
  /\ \E r \in resting' :
       /\ resting' = resting \cup {r}
       /\ r.market = incoming.market /\ r.side = incoming.side
       /\ r.price = incoming.price
       /\ r.maker = incoming.maker /\ r.shares = incoming.shares
       /\ \A q \in resting :
            q.market = r.market /\ q.side = r.side /\ q.price = r.price
              => q.arrival < r.arrival
  /\ incoming' = None

Cancel(r) ==
  /\ incoming = None
  /\ r \in resting
  /\ resting' = resting \ {r}
  /\ UNCHANGED incoming

Next ==
  \/ Arrive \/ Filled \/ ComeToRest
  \/ \E r \in resting : Trade(r) \/ Cancel(r)

Spec == Init /\ [][Next]_<<resting, incoming>>

=============================================================================
