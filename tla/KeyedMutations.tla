--------------------------- MODULE KeyedMutations ---------------------------
(* A mutation on its way from a button to the server: the surface of the     *)
(* client it is pressed on, the retries of the Api class, the network, and   *)
(* the idempotency middleware in front of the handlers.                      *)
(*                                                                           *)
(* A press is a tap.  Every tap makes one call of the Api class, which sends *)
(* up to Attempts copies of one request; a copy or its answer may be lost,   *)
(* and a copy may be served long after the client gave up on it.  The server *)
(* process may stop between the steps of a handler.                          *)
(*                                                                           *)
(* The body of a request is abstracted to the tap that first had it: an order *)
(* carries its nonce, its expiry and the digest of both, so every tap has a  *)
(* body of its own; a post is sent again as it is, or after an edit.         *)
EXTENDS Naturals, FiniteSets

CONSTANTS
  Surfaces,        \* the surfaces the instance explores, records as below
  MaxTaps,         \* bound: presses
  MobileAttempts,  \* MAX_RETRIES of the mobile client (4 in the code)
  MaxFaults,       \* bound: failures of the network, the handler, a process
  MaxOrderFaults   \* the same where the press is an order

ASSUME KeyedMutationsAssumption ==
  /\ MaxTaps \in Nat \ {0} /\ MobileAttempts \in Nat \ {0}
  /\ MaxFaults \in Nat /\ MaxOrderFaults \in Nat

Taps == 1 .. MaxTaps

VARIABLES
  surface,   \* the surface of this behaviour
  stage,     \* [Taps -> stage of the call of the tap]
  busy,      \* taps that keep a button of the surface disabled
  old,       \* taps of a mount of the surface that is gone
  body,      \* [Taps -> the first tap with the body of the tap]
  attempt,   \* [Taps -> number of copies sent]
  key,       \* [Taps -> its Idempotency-Key, 0 before it is sent]
  refKey,    \* the key in the surface's idemKeyRef, 0 while it is unused
  wire,      \* copies on the way to the server, <<tap, attempt>>
  running,   \* handlers under way, [copy, status], status 0 while they run
  idem,      \* rows of idempotency_keys, [key, body, status], 0 is NULL
  handled,   \* history: copies the handler ran for
  applied,   \* history: taps whose handler committed its effect
  faults     \* counter behind the bound

clientVars == <<stage, busy, old, body, attempt, key, refKey>>
serverVars == <<running, idem, handled, applied>>
mutationVars == <<surface, clientVars, wire, serverVars, faults>>

-----------------------------------------------------------------------------
(* The surfaces.  buttons: how many presses it takes at a time; frees:       *)
(* something else the user can press makes it pressable again before the     *)
(* call ends; remounts: so does closing and opening it; key: a fresh one of  *)
(* each call, or the one in the surface's ref; spends: after a success the   *)
(* button is gone; decodes: the strict decoder of the route knows every      *)
(* field of the body.                                                        *)

(* The buy sheet of the mobile client: closing it resets its stage. *)
MobileTradeSheet ==
  [app |-> "mobile", kind |-> "order", buttons |-> 1, frees |-> TRUE,
   remounts |-> FALSE, key |-> "call", spends |-> FALSE, decodes |-> TRUE]

(* The market card of a post: picking a side sets the stage back to idle,    *)
(* whatever is under way; scrolling it away unmounts it.                     *)
MobileMarketCard ==
  [app |-> "mobile", kind |-> "order", buttons |-> 1, frees |-> TRUE,
   remounts |-> TRUE, key |-> "call", spends |-> FALSE, decodes |-> TRUE]

(* The web client nests the order in the body (order, auth), the backend's   *)
(* orderPayload is flat: the decoder refuses the unknown field.              *)
WebTradeSheet ==
  [app |-> "web", kind |-> "order", buttons |-> 1, frees |-> FALSE,
   remounts |-> TRUE, key |-> "ref", spends |-> TRUE, decodes |-> FALSE]

WebMarketCard ==
  [app |-> "web", kind |-> "order", buttons |-> 1, frees |-> TRUE,
   remounts |-> TRUE, key |-> "ref", spends |-> FALSE, decodes |-> FALSE]

(* Cancelling an open order: the mobile row waits for its call and then goes *)
(* away, the web row does neither until the list is fetched again.           *)
MobileOpenOrder ==
  [app |-> "mobile", kind |-> "cancel", buttons |-> 1, frees |-> FALSE,
   remounts |-> TRUE, key |-> "call", spends |-> TRUE, decodes |-> TRUE]

WebOpenOrder ==
  [app |-> "web", kind |-> "cancel", buttons |-> MaxTaps, frees |-> FALSE,
   remounts |-> TRUE, key |-> "call", spends |-> FALSE, decodes |-> TRUE]

(* Redeeming a settled position. *)
MobileRedeem ==
  [app |-> "mobile", kind |-> "redeem", buttons |-> 1, frees |-> FALSE,
   remounts |-> TRUE, key |-> "call", spends |-> TRUE, decodes |-> TRUE]

WebRedeem ==
  [app |-> "web", kind |-> "redeem", buttons |-> MaxTaps, frees |-> FALSE,
   remounts |-> TRUE, key |-> "call", spends |-> FALSE, decodes |-> TRUE]

(* Asking for a settlement: the web client sends value as a string and the    *)
(* signature whole, the decoder wants a number and v, r, s.                  *)
MobileSettle ==
  [app |-> "mobile", kind |-> "settle", buttons |-> 1, frees |-> FALSE,
   remounts |-> FALSE, key |-> "call", spends |-> FALSE, decodes |-> TRUE]

WebSettle ==
  [app |-> "web", kind |-> "settle", buttons |-> 1, frees |-> FALSE,
   remounts |-> TRUE, key |-> "call", spends |-> FALSE, decodes |-> FALSE]

(* Publishing a post: the web page keeps one key for as long as it is open,  *)
(* and sends market_attach and market_create, which the decoder refuses even *)
(* when they are null.                                                       *)
WebCreate ==
  [app |-> "web", kind |-> "post", buttons |-> 1, frees |-> FALSE,
   remounts |-> TRUE, key |-> "ref", spends |-> FALSE, decodes |-> FALSE]

(* Sending from the wallet: the mobile body names the recipient "to", the    *)
(* web body carries the authorization alone with fields of its own; the      *)
(* backend knows recipient, amount and auth.                                 *)
MobileSend ==
  [app |-> "mobile", kind |-> "send", buttons |-> 1, frees |-> FALSE,
   remounts |-> FALSE, key |-> "call", spends |-> FALSE, decodes |-> FALSE]

WebSend ==
  [app |-> "web", kind |-> "send", buttons |-> 1, frees |-> FALSE,
   remounts |-> TRUE, key |-> "call", spends |-> FALSE, decodes |-> FALSE]

(* Starting a funding session: the two options of the mobile sheet wait only *)
(* for themselves, so the other one stays pressable.                         *)
MobileFund ==
  [app |-> "mobile", kind |-> "fund", buttons |-> 2, frees |-> FALSE,
   remounts |-> FALSE, key |-> "call", spends |-> FALSE, decodes |-> TRUE]

WebFund ==
  [app |-> "web", kind |-> "fund", buttons |-> 1, frees |-> FALSE,
   remounts |-> TRUE, key |-> "call", spends |-> FALSE, decodes |-> TRUE]

-----------------------------------------------------------------------------
Attempts == IF surface.app = "mobile" THEN MobileAttempts ELSE 2

Statuses == {201, 400, 409, 500, 503}

TypeOK ==
  /\ surface \in Surfaces
  /\ stage \in [Taps -> {"none", "signing", "calling", "ok", "failed"}]
  /\ busy \subseteq Taps /\ old \subseteq Taps
  /\ body \in [Taps -> 0 .. MaxTaps] /\ attempt \in [Taps -> 0 .. Attempts]
  /\ key \in [Taps -> 0 .. MaxTaps] /\ refKey \in 0 .. MaxTaps
  /\ wire \subseteq Taps \X (1 .. Attempts)
  /\ \A r \in running : r.copy \in Taps \X (1 .. Attempts) /\ r.status \in Statuses \cup {0}
  /\ \A row \in idem : row.key \in Taps /\ row.body \in Taps /\ row.status \in Statuses \cup {0}
  /\ \A row1, row2 \in idem : row1.key = row2.key => row1 = row2
  /\ handled \subseteq Taps \X (1 .. Attempts) /\ applied \subseteq Taps
  /\ faults \in Nat

MutationsInit ==
  /\ surface \in Surfaces
  /\ stage = [t \in Taps |-> "none"] /\ busy = {} /\ old = {}
  /\ body = [t \in Taps |-> 0] /\ attempt = [t \in Taps |-> 0] /\ key = [t \in Taps |-> 0] /\ refKey = 0
  /\ wire = {} /\ running = {} /\ idem = {} /\ handled = {} /\ applied = {}
  /\ faults = 0

FaultBound == IF surface.kind = "order" THEN MaxOrderFaults ELSE MaxFaults
Fault == faults < FaultBound /\ faults' = faults + 1

-----------------------------------------------------------------------------
(* The surface. *)

(* Orders, transfers and settlement fees are signed before they are sent. *)
Signed == surface.kind \in {"order", "send", "settle"}

(* The surface passes the key it keeps; Api.post mints one otherwise.        *)
Keep(t) ==
  IF surface.key = "ref"
  THEN LET k == IF refKey = 0 THEN t ELSE refKey
       IN key' = [key EXCEPT ![t] = k] /\ refKey' = k
  ELSE key' = [key EXCEPT ![t] = t] /\ UNCHANGED refKey

Press(t) ==
  /\ stage[t] = "none" /\ \A u \in Taps : u < t => stage[u] # "none"
  /\ Cardinality(busy) < surface.buttons
  /\ surface.spends => \A u \in Taps \ old : stage[u] # "ok"
  /\ stage' = [stage EXCEPT ![t] = "signing"] /\ busy' = busy \cup {t}
  /\ \E b \in {t} \cup {body[u] : u \in {u \in Taps \ old : u < t /\ surface.kind = "post"}} :
       body' = [body EXCEPT ![t] = b]
  /\ Keep(t)
  /\ UNCHANGED <<surface, old, attempt, wire, serverVars, faults>>

(* setStage("idle") by something that is not the end of the call. *)
Free ==
  /\ surface.frees /\ busy # {} /\ busy' = {}
  /\ UNCHANGED <<surface, stage, old, body, attempt, key, refKey, wire, serverVars, faults>>

Remount ==
  /\ surface.remounts
  /\ old' = {t \in Taps : stage[t] # "none"} /\ old' # old
  /\ busy' = {} /\ refKey' = 0
  /\ UNCHANGED <<surface, stage, body, attempt, key, wire, serverVars, faults>>

(* The end of a call sets the one stage of its mount to idle: it frees the   *)
(* button whoever holds it.  The two funding buttons have a value each.      *)
Ends(t, result) ==
  /\ stage' = [stage EXCEPT ![t] = result]
  /\ busy' = IF t \in old THEN busy ELSE IF surface.buttons = 1 THEN {} ELSE busy \ {t}

SignFails(t) ==
  /\ Signed /\ stage[t] = "signing" /\ Ends(t, "failed")
  /\ UNCHANGED <<surface, old, body, attempt, key, refKey, wire, serverVars, faults>>

Call(t) ==
  /\ stage[t] = "signing" /\ stage' = [stage EXCEPT ![t] = "calling"]
  /\ attempt' = [attempt EXCEPT ![t] = 1] /\ wire' = wire \cup {<<t, 1>>}
  /\ UNCHANGED <<surface, busy, old, body, key, refKey, serverVars, faults>>

(* The next copy of the request, under the same key. *)
SendAgain(t, onWire) ==
  /\ attempt' = [attempt EXCEPT ![t] = @ + 1]
  /\ wire' = onWire \cup {<<t, attempt[t] + 1>>}
  /\ UNCHANGED <<stage, busy, refKey>>

(* fetch throws: the connection died before or after the server had the      *)
(* request, which may also still arrive.                                     *)
FetchFails(t) ==
  /\ stage[t] = "calling" /\ Fault
  /\ \E onWire \in {wire, wire \ {<<t, attempt[t]>>}} :
       \/ attempt[t] < Attempts /\ SendAgain(t, onWire)
       \/ attempt[t] = Attempts /\ Ends(t, "failed") /\ wire' = onWire /\ UNCHANGED <<attempt, refKey>>
  /\ UNCHANGED <<surface, old, body, key, serverVars>>

(* What the Api class does not throw. *)
SucceededOnConflict(status) == status \in {201, 409}
Succeeded(status) == status = 201

(* An answer reaches the client if it still waits for that copy.  The mobile *)
(* client tries again after a 503; an order's success renews the kept key.   *)
Answered(c, status, onWire) ==
  LET t == c[1] IN
  \/ /\ stage[t] # "calling" \/ attempt[t] # c[2]
     /\ wire' = onWire /\ UNCHANGED <<stage, busy, attempt, refKey>>
  \/ /\ stage[t] = "calling" /\ attempt[t] = c[2]
     /\ surface.app = "mobile" /\ status = 503 /\ attempt[t] < Attempts
     /\ SendAgain(t, onWire)
  \/ /\ stage[t] = "calling" /\ attempt[t] = c[2]
     /\ ~ (surface.app = "mobile" /\ status = 503 /\ attempt[t] < Attempts)
     /\ Ends(t, IF Succeeded(status) THEN "ok" ELSE "failed")
     /\ refKey' = IF Succeeded(status) /\ t \notin old /\ surface.kind = "order" THEN 0 ELSE refKey
     /\ wire' = onWire /\ UNCHANGED attempt

-----------------------------------------------------------------------------
(* The server. *)

(* ClaimIdempotencyKey inserts the row unless the key has one. *)
FreshUnlessDone(k) == \A row \in idem : row.key # k \/ row.status = 0
Fresh(k) == \A row \in idem : row.key # k

(* What a request is answered whose key has a row: another body is a         *)
(* conflict, a row without a response is in flight, else the response is     *)
(* replayed, whatever its status.                                            *)
Replay(row, t) == IF row.body # body[t] \/ row.status = 0 THEN 409 ELSE row.status

Serve(c) ==
  /\ c \in wire
  /\ \/ /\ Fresh(key[c[1]])
        /\ idem' = idem \cup {[key |-> key[c[1]], body |-> body[c[1]], status |-> 0]}
        /\ running' = running \cup {[copy |-> c, status |-> 0]}
        /\ wire' = wire \ {c}
        /\ UNCHANGED <<stage, busy, attempt, refKey>>
     \/ /\ ~ Fresh(key[c[1]])
        /\ \E row \in idem : row.key = key[c[1]]
             /\ Answered(c, Replay(row, c[1]), wire \ {c})
        /\ UNCHANGED <<idem, running>>
  /\ UNCHANGED <<surface, old, body, key, handled, applied, faults>>

(* What a handler answers and whether its effect is committed.  A statement  *)
(* can fail after the one that has the effect (GetOrder after the INSERT),   *)
(* and a body that does not decode is refused before anything.               *)
Outcomes ==
  IF surface.decodes
  THEN {<<201, TRUE>>, <<400, FALSE>>, <<500, FALSE>>, <<500, TRUE>>, <<503, FALSE>>}
  ELSE {<<400, FALSE>>}

Handle(r, outcome) ==
  /\ r \in running /\ r.status = 0 /\ outcome \in Outcomes
  /\ running' = (running \ {r}) \cup {[r EXCEPT !.status = outcome[1]]}
  /\ handled' = handled \cup {r.copy}
  /\ applied' = IF outcome[2] THEN applied \cup {r.copy[1]} ELSE applied
  /\ IF outcome[1] \in {500, 503} THEN Fault ELSE UNCHANGED faults
  /\ UNCHANGED <<surface, clientVars, wire, idem>>

(* The response is stored under the key and sent.  The request's context     *)
(* ends with its connection: for a client that is gone the store may fail,   *)
(* and the error is dropped.                                                 *)
Save(r) ==
  /\ r \in running /\ r.status # 0
  /\ running' = running \ {r}
  /\ \/ idem' = {IF row.key = key[r.copy[1]] THEN [row EXCEPT !.status = r.status] ELSE row : row \in idem}
     \/ (stage[r.copy[1]] # "calling" \/ attempt[r.copy[1]] # r.copy[2]) /\ UNCHANGED idem
  /\ Answered(r.copy, r.status, wire)
  /\ UNCHANGED <<surface, old, body, key, handled, applied, faults>>

(* The server process stops: its handlers are gone, their rows stay without  *)
(* a response (ReleaseIdempotencyKey has no caller).                         *)
ServerStops ==
  /\ running # {} /\ Fault /\ running' = {}
  /\ UNCHANGED <<surface, clientVars, wire, idem, handled, applied>>

-----------------------------------------------------------------------------
(* The handler runs once per press and once per key, whatever is retried,    *)
(* late, lost or pressed again.                                              *)
HandledOnce ==
  \A c, d \in handled : c[1] = d[1] \/ key[c[1]] = key[d[1]] => c = d

(* The client reports a success only for a body that took effect, also when  *)
(* the answer is a replay of another copy's or of another press's.           *)
SuccessIsReal ==
  \A t \in Taps : stage[t] = "ok" => \E u \in applied : body[u] = body[t]

=============================================================================
