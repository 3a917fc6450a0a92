---------------------------- MODULE OrderJourney ----------------------------
(* An order from the button to the chain and back: the client's press and    *)
(* its retries (KeyedMutations), the row of orders, the relayer's batches,   *)
(* the contract, and the indexer that binds chain events to rows.  One       *)
(* trader, one market, orders of the same terms; all else that reads or      *)
(* writes the rows is in this module.                                        *)
(*                                                                           *)
(* The chain tells the backend of an order by its maker and terms only       *)
(* (OrderPlaced) or by its maker only (OrderRejected): the row an event      *)
(* belongs to is a guess, and the guess is the oldest row still QUEUED.      *)
EXTENDS KeyedMutations, OrderCost, Sequences, SequencesExt

CONSTANT Prices      \* prices of the trader's orders, in cents

ASSUME JourneyAssumption == Prices \subseteq 1 .. 99

VARIABLES
  price,       \* the price of this behaviour
  nonce,       \* [Taps -> maker nonce quoted when the tap was pressed]
  row,         \* [Taps -> row of orders: its status, and whether batch_id is set]
  created,     \* taps with a row, by created_at
  relayer,     \* [step, batch]: where processQueuedOrders stands, and the taps it holds
  mempool,     \* batches sent and not mined, by relayer nonce
  events,      \* logs the indexer has not seen, by block
  chainNonce,  \* nonces[maker] of the contract
  executed,    \* orders the contract executed
  expired,     \* orders whose expiry has passed
  disturbed,   \* history: see Disturbed below
  dropped      \* history: a batch or an event was left behind

journeyVars ==
  <<price, nonce, row, created, relayer, mempool, events, chainNonce, executed,
    expired, disturbed, dropped>>
vars == <<mutationVars, journeyVars>>

NoRow == [status |-> "none", held |-> FALSE]
Idle == [step |-> "idle", batch |-> {}]

Queued == {t \in Taps : row[t].status = "QUEUED"}

(* The QUEUED row with the lowest created_at. *)
Oldest(t) ==
  /\ t \in Queued
  /\ \E i \in DOMAIN created : created[i] = t /\ \A j \in 1 .. i - 1 : created[j] \notin Queued

TypeInvariant ==
  /\ TypeOK
  /\ price \in Prices /\ nonce \in [Taps -> 0 .. MaxTaps]
  /\ row \in [Taps -> [status : {"none", "QUEUED", "RESTING", "CANCELED"}, held : BOOLEAN]]
  /\ created \in Seq(Taps) /\ IsInjective(created)
  /\ \A t \in Taps : row[t] # NoRow <=> t \in ToSet(created)
  /\ relayer.step \in {"idle", "claimed", "waiting"} /\ relayer.batch \subseteq Taps
  /\ \A i \in DOMAIN mempool : mempool[i] \in Seq(Taps) /\ IsInjective(mempool[i])
  /\ \A i \in DOMAIN events : events[i] \in {"placed", "rejected"}
  /\ chainNonce = Cardinality(executed)
  /\ executed \subseteq Taps /\ expired \subseteq Taps
  /\ disturbed \in BOOLEAN /\ dropped \in BOOLEAN

Init ==
  /\ MutationsInit
  /\ price \in Prices /\ nonce = [t \in Taps |-> 0]
  /\ surface.kind # "order" => price = CHOOSE p \in Prices : TRUE
  /\ row = [t \in Taps |-> NoRow] /\ created = <<>>
  /\ relayer = Idle /\ mempool = <<>> /\ events = <<>>
  /\ chainNonce = 0 /\ executed = {} /\ expired = {}
  /\ disturbed = FALSE /\ dropped = FALSE

-----------------------------------------------------------------------------
(* The API. *)

(* order_nonce of GET /v1/wallet: the chain's nonce, or one more than the    *)
(* highest of the maker's rows that are not CANCELED.                        *)
QuotedNonce ==
  LET live == {nonce[t] + 1 : t \in {t \in Taps : row[t].status \in {"QUEUED", "RESTING"}}}
  IN Max({chainNonce} \cup live)

PressOrder(t) ==
  /\ Press(t)
  /\ nonce' = IF surface.kind = "order" THEN [nonce EXCEPT ![t] = QuotedNonce] ELSE nonce
  /\ UNCHANGED <<price, row, created, relayer, mempool, events, chainNonce, executed,
                 expired, disturbed, dropped>>

(* InsertQueuedOrder.  Two presses within a second can sign the same order:  *)
(* its digest has a row already, and that row is returned.                   *)
Insert(t) ==
  \/ /\ \E u \in ToSet(created) : nonce[u] = nonce[t]
     /\ UNCHANGED <<row, created, disturbed>>
  \/ /\ row' = [row EXCEPT ![t] = [status |-> "QUEUED", held |-> FALSE]]
     /\ created' = Append(created, t)
     /\ disturbed' = (disturbed \/ Queued # {})

(* CheckOrder admits what is funded up to the estimate. *)
Admitted == MobileMaxCost(1, price) >= EstimateMaxCost(1, price)

HandleOrder(r, outcome) ==
  /\ Handle(r, outcome)
  /\ surface.kind = "order" /\ outcome[2] => Admitted
  /\ IF surface.kind = "order" /\ outcome[2]
     THEN Insert(r.copy[1])
     ELSE UNCHANGED <<row, created, disturbed>>
  /\ UNCHANGED <<price, nonce, relayer, mempool, events, chainNonce, executed, expired, dropped>>

(* RequestCancel: a QUEUED row outside a batch is canceled; for one that     *)
(* rests a cancel is relayed, which always reverts.                          *)
CancelableQueued(t) == row[t].status = "QUEUED"
Cancelable(t) == row[t].status = "QUEUED" /\ ~ row[t].held

RequestCancel(t) ==
  /\ Cancelable(t) /\ row' = [row EXCEPT ![t].status = "CANCELED"]
  /\ UNCHANGED <<mutationVars, price, nonce, created, relayer, mempool, events, chainNonce,
                 executed, expired, disturbed, dropped>>

(* What a client, the network and the API process do apart from that. *)
Client ==
  /\ \/ Free \/ Remount \/ ServerStops
     \/ \E t \in Taps : SignFails(t) \/ Call(t) \/ FetchFails(t)
     \/ \E c \in wire : Serve(c)
     \/ \E r \in running : Save(r)
  /\ UNCHANGED journeyVars

Expire(t) ==
  /\ surface.kind = "order" /\ stage[t] # "none"
  /\ t \notin expired /\ Fault /\ expired' = expired \cup {t}
  /\ UNCHANGED <<surface, clientVars, wire, serverVars>>
  /\ UNCHANGED <<price, nonce, row, created, relayer, mempool, events, chainNonce, executed,
                 disturbed, dropped>>

-----------------------------------------------------------------------------
(* The relayer. *)

(* ClaimQueuedOrders: every QUEUED row without a batch.                      *)
Claim ==
  /\ relayer.step = "idle"
  /\ LET free == {t \in Queued : ~ row[t].held} IN
     /\ free # {}
     /\ relayer' = [step |-> "claimed", batch |-> free]
     /\ row' = [t \in Taps |-> IF t \in free THEN [row[t] EXCEPT !.held = TRUE] ELSE row[t]]
  /\ UNCHANGED <<mutationVars, price, nonce, created, mempool, events, chainNonce, executed,
                 expired, disturbed, dropped>>

(* MarkBatch "failed": the rows of the batch that are still QUEUED are free. *)
RequeuedNone(rows, batch) == rows
Requeued(rows, batch) ==
  [t \in Taps |-> IF t \in batch /\ rows[t].status = "QUEUED"
                  THEN [rows[t] EXCEPT !.held = FALSE] ELSE rows[t]]

(* failOrder, for the rows the gate refuses now. *)
Failed(rows, batch) ==
  [t \in Taps |-> IF t \in batch \cap expired /\ rows[t].status = "QUEUED"
                  THEN [rows[t] EXCEPT !.status = "CANCELED"] ELSE rows[t]]

(* The rest are sent in the order the claim's UPDATE ... RETURNING gave them, *)
(* which can be any.                                                         *)
Submit ==
  /\ relayer.step = "claimed"
  /\ LET good == relayer.batch \ expired
         rows == Failed(row, relayer.batch)
     IN \/ /\ good = {} /\ relayer' = Idle
           /\ row' = rows /\ UNCHANGED <<mempool, faults>>
        \/ /\ good # {} /\ relayer' = [relayer EXCEPT !.step = "waiting"]
           /\ \E batch \in SetToSeqs(good) : mempool' = Append(mempool, batch)
           /\ row' = rows /\ UNCHANGED faults
        \/ /\ good # {} /\ Fault /\ relayer' = Idle
           /\ row' = Requeued(rows, relayer.batch) /\ UNCHANGED mempool
  /\ UNCHANGED <<surface, clientVars, wire, serverVars, price, nonce, created, events,
                 chainNonce, executed, expired, disturbed, dropped>>

(* WaitReceipt: the transaction is mined, or a minute passes without.        *)
Receipt ==
  /\ relayer.step = "waiting" /\ mempool = <<>> /\ relayer' = Idle
  /\ UNCHANGED <<mutationVars, price, nonce, row, created, mempool, events, chainNonce,
                 executed, expired, disturbed, dropped>>

GiveUp ==
  /\ relayer.step = "waiting" /\ mempool # <<>> /\ Fault /\ relayer' = Idle
  /\ row' = Requeued(row, relayer.batch) /\ disturbed' = TRUE
  /\ UNCHANGED <<surface, clientVars, wire, serverVars, price, nonce, created, mempool,
                 events, chainNonce, executed, expired, dropped>>

(* The process stops: nothing takes the batch up again. *)
RelayerStops ==
  /\ relayer.step # "idle" /\ Fault /\ relayer' = Idle
  /\ dropped' = (dropped \/ relayer.step = "claimed")
  /\ UNCHANGED <<surface, clientVars, wire, serverVars, price, nonce, row, created, mempool,
                 events, chainNonce, executed, expired, disturbed>>

-----------------------------------------------------------------------------
(* The contract and the indexer. *)

(* _processSignedOrder: what is refused leaves an OrderRejected and nothing  *)
(* else.  The last condition is the token's, which takes an authorization    *)
(* once.                                                                     *)
Accepts(c, t) ==
  /\ t \notin expired
  /\ nonce[t] = c.nonce
  /\ MobileMaxCost(1, price) >= WorstCaseCost(1, price)
  /\ t \notin c.executed

ProcessKeepsNonce(c, t) ==
  IF Accepts(c, t)
  THEN [c EXCEPT !.executed = @ \cup {t}, !.events = Append(@, "placed")]
  ELSE [c EXCEPT !.events = Append(@, "rejected")]

Process(c, t) ==
  IF Accepts(c, t)
  THEN [nonce |-> c.nonce + 1, executed |-> c.executed \cup {t}, events |-> Append(c.events, "placed")]
  ELSE [c EXCEPT !.events = Append(c.events, "rejected")]

(* placeOrdersBatch: one order after the other. *)
ProcessAll(c, batch) ==
  LET after[i \in 0 .. Len(batch)] == IF i = 0 THEN c ELSE Process(after[i - 1], batch[i])
  IN after[Len(batch)]

Mine ==
  /\ mempool # <<>> /\ mempool' = Tail(mempool)
  /\ LET c == ProcessAll([nonce |-> chainNonce, executed |-> executed, events |-> events],
                       Head(mempool))
     IN chainNonce' = c.nonce /\ executed' = c.executed /\ events' = c.events
  /\ UNCHANGED <<mutationVars, price, nonce, row, created, relayer, expired, disturbed, dropped>>

(* BindOrderPlaced or onOrderRejected, for the oldest row that is QUEUED.    *)
Index ==
  /\ events # <<>> /\ events' = Tail(events)
  /\ row' = [t \in Taps |->
       IF Oldest(t)
       THEN [row[t] EXCEPT !.status = IF Head(events) = "placed" THEN "RESTING" ELSE "CANCELED"]
       ELSE row[t]]
  /\ UNCHANGED <<mutationVars, price, nonce, created, relayer, mempool, chainNonce, executed,
                 expired, disturbed, dropped>>

(* RecordChainEvent commits before the effects: a failure between loses it.  *)
EventLost ==
  /\ events # <<>> /\ Fault /\ events' = Tail(events)
  /\ disturbed' = TRUE /\ dropped' = TRUE
  /\ UNCHANGED <<surface, clientVars, wire, serverVars, price, nonce, row, created, relayer,
                 mempool, chainNonce, executed, expired>>

Next ==
  \/ Client
  \/ \E t \in Taps : PressOrder(t) \/ RequestCancel(t) \/ Expire(t)
  \/ \E r \in running, outcome \in Outcomes : HandleOrder(r, outcome)
  \/ Claim \/ Submit \/ Receipt \/ GiveUp \/ RelayerStops
  \/ Mine \/ Index \/ EventLost

(* The relayer ticks, the chain mines what it has, the indexer polls. *)
Spec ==
  /\ Init /\ [][Next]_vars
  /\ WF_vars(Claim) /\ WF_vars(Submit) /\ WF_vars(Receipt) /\ WF_vars(Mine) /\ WF_vars(Index)

-----------------------------------------------------------------------------
(* While every order reaches the chain on its own (no two rows QUEUED at a   *)
(* time), no wait for a receipt was given up and no event was lost, the      *)
(* guess of the indexer is right: a row RESTING was executed, one CANCELED   *)
(* never was, and an executed one whose event was seen is RESTING.           *)
UndisturbedAgrees ==
  ~ disturbed =>
    \A t \in ToSet(created) :
      /\ row[t].status = "RESTING" => t \in executed
      /\ row[t].status = "CANCELED" => t \notin executed
      /\ t \in executed /\ events = <<>> => row[t].status = "RESTING"

(* A queued order does not stay QUEUED, whatever fails or is relayed twice,  *)
(* unless a batch stopped between its claim and its submission or an event   *)
(* was recorded and not applied.                                             *)
QueuedLeaves == \A t \in Taps : row[t].status = "QUEUED" ~> row[t].status # "QUEUED" \/ dropped

(* EstimateMaxCost "is the maximum token amount an order can consume": an    *)
(* order the gate admits is never refused for its bound.                     *)
AdmittedIsCovered ==
  \A t \in ToSet(created) : MobileMaxCost(1, price) >= WorstCaseCost(1, price)
=============================================================================
