----------------------------- MODULE DemoBidder -----------------------------
(* The demo's weather page: visitors queue updates of the oracle by placing  *)
(* bids, all from ONE account, as the page carries its key.  A request reads *)
(* the allowance, approves if it has to and places the bid, each transaction *)
(* estimated when it is sent and mined later; the page reads a snapshot      *)
(* every six seconds and at the end of a request.                            *)
EXTENDS Integers, Sequences, FiniteSets

CONSTANTS
  Visitors,       \* open pages
  Purse,          \* tokens of the demo account
  BaseFee,        \* baseProtocolFee, the least bid
  MaxBids,        \* bound: requests pressed
  MaxSnapshots    \* bound: snapshots of a page under way

ASSUME DemoAssumption == Purse \in Nat /\ BaseFee \in Nat \ {0}

VARIABLES
  funds,          \* the account's tokens
  granted,        \* its allowance to the oracle: a number or Unlimited
  mempool,        \* transactions sent and not mined, in nonce order
  request,        \* each page's request: its step, whether the step's transaction
                  \* is sent, whether its receipt is there, its amount and number
  seen,           \* the balance of each page's snapshot, NotSeen before any
  snapshots,      \* balances read by snapshots under way
  numbered,       \* requests pressed so far
  placed,         \* history: the requests whose bids are in the hub
  told,           \* history: requests logged as confirmed, and as failed
  gaveUp,         \* history: requests that stopped waiting for a transaction
  met             \* history: requests under way when another's transaction was mined

chainVars == <<funds, granted, mempool, placed>>
pageVars == <<seen, snapshots, numbered>>
demoVars == <<chainVars, pageVars, request, told, gaveUp, met>>

NotSeen == -1
Unlimited == Purse + 1          \* maxUint256 is never used up
NoBidRequest == [step |-> "idle", wait |-> "none", amount |-> 0, number |-> 0]
Bidding(v) == request[v].step # "idle"
Steps == {"approve", "reset", "approve again", "bid"}

DemoInit ==
  /\ funds = Purse /\ granted \in {0, BaseFee} /\ mempool = <<>>
  /\ request = [v \in Visitors |-> NoBidRequest] /\ seen = [v \in Visitors |-> NotSeen]
  /\ snapshots = [v \in Visitors |-> <<>>] /\ numbered = 0
  /\ placed = {} /\ told = [confirmed |-> {}, failed |-> {}] /\ gaveUp = {} /\ met = {}

-----------------------------------------------------------------------------
(* Snapshots: they overlap, and are shown as they end; one that fails shows  *)
(* nothing new.                                                              *)
BeginSnapshot(v) ==
  /\ Len(snapshots[v]) < MaxSnapshots
  /\ snapshots' = [snapshots EXCEPT ![v] = Append(@, funds)]
  /\ UNCHANGED <<chainVars, request, seen, numbered, told, gaveUp, met>>

EndSnapshot(v, i) ==
  /\ seen' \in {seen, [seen EXCEPT ![v] = snapshots[v][i]]}
  /\ snapshots' = [snapshots EXCEPT ![v] = SubSeq(@, 1, i - 1) \o SubSeq(@, i + 1, Len(@))]
  /\ UNCHANGED <<chainVars, request, numbered, told, gaveUp, met>>

-----------------------------------------------------------------------------
(* The request, one at a time per page.                                      *)
Goes(v, step) == request' = [request EXCEPT ![v].step = step, ![v].wait = "none"]
Tells(v, what) == told' = [told EXCEPT ![what] = @ \cup {request[v].number}]
Concludes(v, what) == request' = [request EXCEPT ![v] = NoBidRequest] /\ Tells(v, what)

Queue(v, amount) ==
  /\ ~Bidding(v) /\ seen[v] # NotSeen /\ numbered < MaxBids /\ numbered' = numbered + 1
  /\ IF amount <= 0 \/ seen[v] < amount
     THEN UNCHANGED request /\ told' = [told EXCEPT !.failed = @ \cup {numbered'}]
     ELSE /\ UNCHANGED told
          /\ request' = [request EXCEPT ![v] = [step |-> "allowance", wait |-> "none",
                                                amount |-> amount, number |-> numbered']]
  /\ UNCHANGED <<chainVars, seen, snapshots, gaveUp, met>>

AllowedAny(v) == granted > 0
Allowed(v) == granted >= request[v].amount

ReadAllowance(v) ==
  /\ request[v].step = "allowance"
  /\ Goes(v, IF Allowed(v) THEN "bid" ELSE "approve")
  /\ UNCHANGED <<chainVars, pageVars, told, gaveUp, met>>

(* The oracle takes the tokens and the hub a bid that covers its base fee.   *)
Works(t) == t.step # "bid" \/ (t.amount >= BaseFee /\ t.amount <= funds /\ t.amount <= granted)

(* A transaction is estimated, then sent. *)
SendTx(v) ==
  LET r == request[v]
      t == [of |-> r.number, step |-> r.step, amount |-> r.amount]
  IN
  /\ r.step \in Steps /\ r.wait = "none" /\ Works(t)
  /\ mempool' = Append(mempool, t) /\ request' = [request EXCEPT ![v].wait = "sent"]
  /\ UNCHANGED <<funds, granted, placed, pageVars, told, gaveUp, met>>

(* The first approval is tried again from zero; all else ends the request.   *)
Stops(v) ==
  IF request[v].step = "approve" THEN Goes(v, "reset") /\ UNCHANGED told
  ELSE Concludes(v, "failed")

(* A read, an estimate or a sending fails: a nonce another page took, say.   *)
StepFails(v) ==
  /\ request[v].step \in Steps \cup {"allowance", "check"} /\ request[v].wait = "none"
  /\ Stops(v)
  /\ UNCHANGED <<chainVars, pageVars, gaveUp, met>>

(* The wait times out, or the answer of the sending is lost; the transaction *)
(* stays.                                                                    *)
GiveUp(v) ==
  /\ request[v].wait = "sent" /\ Stops(v) /\ gaveUp' = gaveUp \cup {request[v].number}
  /\ UNCHANGED <<chainVars, pageVars, met>>

Mined(t, v) ==
  IF request[v].number = t.of /\ request[v].step = t.step /\ request[v].wait = "sent"
  THEN [request[v] EXCEPT !.wait = "receipt"] ELSE request[v]

Crosses(t, v) == Bidding(v) /\ request[v].number # t.of
Mine ==
  LET t == Head(mempool)
      bid == t.step = "bid" /\ Works(t)
  IN
  /\ mempool # <<>> /\ mempool' = Tail(mempool)
  /\ granted' = CASE t.step \in {"approve", "approve again"} -> Unlimited
                  [] t.step = "reset" -> 0
                  [] bid /\ granted # Unlimited -> granted - t.amount
                  [] OTHER -> granted
  /\ funds' = IF bid THEN funds - t.amount ELSE funds
  /\ placed' = IF bid THEN placed \cup {t.of} ELSE placed
  /\ request' = [v \in Visitors |-> Mined(t, v)]
  /\ met' = met \cup {request[v].number : v \in {u \in Visitors : Crosses(t, u)}}
  /\ UNCHANGED <<pageVars, told, gaveUp>>

(* The receipt ends the wait, whatever its status says.                      *)
ReceiptCame(v) ==
  /\ request[v].wait = "receipt"
  /\ IF request[v].step = "bid" THEN Tells(v, "confirmed") ELSE UNCHANGED told
  /\ Goes(v, CASE request[v].step = "reset" -> "approve again"
               [] request[v].step = "bid" -> "snapshot"
               [] OTHER -> "check")
  /\ UNCHANGED <<chainVars, pageVars, gaveUp, met>>

CheckAllowance(v) ==
  /\ request[v].step = "check"
  /\ IF Allowed(v) THEN Goes(v, "bid") /\ UNCHANGED told ELSE Concludes(v, "failed")
  /\ UNCHANGED <<chainVars, pageVars, gaveUp, met>>

(* The request's own snapshot ends it. *)
Finish(v) ==
  /\ request[v].step = "snapshot" /\ request' = [request EXCEPT ![v] = NoBidRequest]
  /\ seen' \in {seen, [seen EXCEPT ![v] = funds]}
  /\ UNCHANGED <<chainVars, snapshots, numbered, told, gaveUp, met>>

DemoNext ==
  \/ Mine
  \/ \E v \in Visitors :
       \/ BeginSnapshot(v) \/ ReadAllowance(v) \/ SendTx(v) \/ StepFails(v) \/ GiveUp(v)
       \/ ReceiptCame(v) \/ CheckAllowance(v) \/ Finish(v)
       \/ \E i \in 1 .. Len(snapshots[v]) : EndSnapshot(v, i)
       \/ \E amount \in 0 .. Purse : Queue(v, amount)

-----------------------------------------------------------------------------
(* The log tells the truth about a request that no other of the account      *)
(* crossed: it is logged confirmed only when its bid was placed, and one     *)
(* that comes to bid is allowed to.  Whatever crossed it, a request logged   *)
(* failed placed nothing unless it gave up waiting, and none has two         *)
(* verdicts (page.tsx requestAutoUpdate; receipts are awaited and their      *)
(* status is not read, and every visitor bids with the same key).            *)
BidsSound ==
  /\ told.confirmed \subseteq placed \cup met
  /\ told.failed \cap placed \subseteq gaveUp
  /\ told.confirmed \cap told.failed = {}
  /\ \A v \in Visitors :
       request[v].step = "bid" /\ request[v].wait = "none" /\ request[v].number \notin met
         => granted >= request[v].amount
=============================================================================
