---------------------------- MODULE RelayerNonces ----------------------------
(***************************************************************************)
(* How the backend's transactions get their nonces (chain/nonce.go, the    *)
(* submit functions of chain/relayer.go and chain/settlement.go, and       *)
(* leader/leader.go).  All runners, on all instances, send from one        *)
(* account.  A runner caches the next nonce, reserves it as a row of       *)
(* relayer_txs and broadcasts; a Postgres advisory lock elects one leader  *)
(* for each role.  Sessions are lost, processes crash, sends fail.         *)
(*                                                                         *)
(* Nothing reads the status of a row, so relayer_txs is a set of nonces.   *)
(***************************************************************************)
EXTENDS Integers

CONSTANTS
  Runners,      \* a runner of each role on each instance
  Roles,        \* the lock names: "relayer" and "settlement"
  RoleOf,       \* the role of a runner
  Nobody,       \* no holder
  StartNonce,   \* the account's nonce when the ledger is empty
  MaxNonce      \* bound: the last nonce that is handed out

ASSUME RunnersAssumption ==
  RoleOf \in [Runners -> Roles] /\ Nobody \notin Runners

ASSUME NonceAssumption ==
  StartNonce \in Nat /\ MaxNonce \in Nat /\ StartNonce <= MaxNonce

Nonces == StartNonce..MaxNonce

VARIABLES
  reserved,   \* the nonces of relayer_txs
  sent,       \* how many transactions were broadcast with a nonce
  mined,      \* the account's nonce on chain: those below it are mined
  holder,     \* who holds the session lock of a role
  leader,     \* wasLeader, of each runner
  primed,     \* NonceManager.primed
  next,       \* NonceManager.next
  local,      \* what the call holds: the chain's pending nonce, then its own
  pc          \* what the runner is doing

vars == <<reserved, sent, mined, holder, leader, primed, next, local, pc>>
chainVars == <<sent, mined>>

Init ==
  /\ reserved = {}
  /\ sent = [n \in Nonces |-> 0]
  /\ mined = StartNonce
  /\ holder = [role \in Roles |-> Nobody]
  /\ leader = [r \in Runners |-> FALSE]
  /\ primed = [r \in Runners |-> FALSE]
  /\ next = [r \in Runners |-> 0]
  /\ local = [r \in Runners |-> 0]
  /\ pc = [r \in Runners |-> "idle"]

Goto(r, from, to) == pc[r] = from /\ pc' = [pc EXCEPT ![r] = to]

-----------------------------------------------------------------------------
(* Leadership: confirmed at the start of a tick and never during it *)

\* A leader whose session was dropped may get the lock back at once: it then
\* has no reason to drop its cached nonce.
StartTick(r) ==
  /\ Goto(r, "idle", "tick")
  /\ holder[RoleOf[r]] \in {r, Nobody}
  /\ holder' = [holder EXCEPT ![RoleOf[r]] = r]
  /\ leader' = [leader EXCEPT ![r] = TRUE]
  /\ primed' = [primed EXCEPT ![r] = leader[r] /\ @]
  /\ UNCHANGED <<reserved, chainVars, next, local>>

\* Another holds the lock, or the attempt failed.
StandBy(r) ==
  /\ pc[r] = "idle"
  /\ holder[RoleOf[r]] # r
  /\ leader' = [leader EXCEPT ![r] = FALSE]
  /\ UNCHANGED <<reserved, chainVars, holder, primed, next, local, pc>>

EndTick(r) ==
  /\ Goto(r, "tick", "idle")
  /\ UNCHANGED <<reserved, chainVars, holder, leader, primed, next, local>>

\* The session drops, whatever its runner is doing.
LoseSession(role) ==
  /\ holder[role] # Nobody
  /\ holder' = [holder EXCEPT ![role] = Nobody]
  /\ UNCHANGED <<reserved, chainVars, leader, primed, next, local, pc>>

Crash(r) ==
  /\ pc' = [pc EXCEPT ![r] = "idle"]
  /\ leader' = [leader EXCEPT ![r] = FALSE]
  /\ primed' = [primed EXCEPT ![r] = FALSE]
  /\ holder' = [role \in Roles |-> IF holder[role] = r THEN Nobody ELSE holder[role]]
  /\ local' = [local EXCEPT ![r] = 0]
  /\ UNCHANGED <<reserved, chainVars, next>>

-----------------------------------------------------------------------------
(* Reserving a nonce: NonceManager.Next, called by submit *)

Submit(r) ==
  /\ Goto(r, "tick", IF primed[r] THEN "reserve" ELSE "prime")
  /\ UNCHANGED <<reserved, chainVars, holder, leader, primed, next, local>>

\* The node counts the transactions it holds that can be mined.
PendingNonce(n) ==
  /\ n \in mined..(MaxNonce + 1)
  /\ n \in Nonces => sent[n] = 0
  /\ \A k \in Nonces : mined <= k /\ k < n => sent[k] > 0

ReadPending(r) ==
  /\ Goto(r, "prime", "recover")
  /\ \E n \in mined..(MaxNonce + 1) :
       PendingNonce(n) /\ local' = [local EXCEPT ![r] = n]
  /\ UNCHANGED <<reserved, chainVars, holder, leader, primed, next>>

\* Mutant: skips a nonce.
RecoverNonceSkip(chainPending, dbMax) ==
  IF dbMax + 1 > chainPending THEN dbMax + 2 ELSE chainPending

\* Mutant: the last nonce used instead of the next.
RecoverNonceLast(chainPending, dbMax) ==
  IF dbMax > chainPending THEN dbMax ELSE chainPending - 1

RecoverNonce(chainPending, dbMax) ==
  IF dbMax + 1 > chainPending THEN dbMax + 1 ELSE chainPending

\* The highest nonce of the ledger; RecoverNonce ignores it when there is none.
MaxRelayerNonce(m) ==
  IF reserved = {} THEN m = -1
  ELSE m \in reserved /\ \A n \in reserved : n <= m

Recover(r) ==
  /\ Goto(r, "recover", "reserve")
  /\ \E m \in {-1} \cup Nonces :
       MaxRelayerNonce(m) /\ next' = [next EXCEPT ![r] = RecoverNonce(local[r], m)]
  /\ primed' = [primed EXCEPT ![r] = TRUE]
  /\ local' = [local EXCEPT ![r] = 0]
  /\ UNCHANGED <<reserved, chainVars, holder, leader>>

\* Mutant: the insert ignores the primary key.
TakenNever(n) == FALSE

Taken(n) == n \in reserved

\* ReserveRelayerNonce inserts the row of a nonce nobody holds.
Reserve(r) ==
  /\ Goto(r, "reserve", "send")
  /\ next[r] <= MaxNonce
  /\ ~Taken(next[r])
  /\ reserved' = reserved \cup {next[r]}
  /\ local' = [local EXCEPT ![r] = next[r]]
  /\ next' = [next EXCEPT ![r] = @ + 1]
  /\ UNCHANGED <<chainVars, holder, leader, primed>>

\* It skips forward over a nonce that another runner reserved.
SkipTaken(r) ==
  /\ pc[r] = "reserve"
  /\ Taken(next[r])
  /\ next' = [next EXCEPT ![r] = @ + 1]
  /\ UNCHANGED <<reserved, chainVars, holder, leader, primed, local, pc>>

\* The node or the database gives an error: submit returns it.
NextFails(r) ==
  /\ pc[r] \in {"prime", "recover", "reserve"}
  /\ pc' = [pc EXCEPT ![r] = "tick"]
  /\ local' = [local EXCEPT ![r] = 0]
  /\ UNCHANGED <<reserved, chainVars, holder, leader, primed, next>>

\* The error of an insert that was committed all the same.
ReserveUnanswered(r) ==
  /\ Goto(r, "reserve", "tick")
  /\ next[r] <= MaxNonce
  /\ reserved' = reserved \cup {next[r]}
  /\ UNCHANGED <<chainVars, holder, leader, primed, next, local>>

-----------------------------------------------------------------------------
(* Broadcasting *)

Broadcast(r) == sent' = [sent EXCEPT ![local[r]] = @ + 1]

Send(r) ==
  /\ Goto(r, "send", "tick")
  /\ Broadcast(r)
  /\ local' = [local EXCEPT ![r] = 0]
  /\ UNCHANGED <<reserved, mined, holder, leader, primed, next>>

\* The gas estimate or the send fails; the node may have the transaction all
\* the same.  The cached nonce is dropped, the row stays.
SendFails(r) ==
  /\ Goto(r, "send", "tick")
  /\ Broadcast(r) \/ UNCHANGED sent
  /\ primed' = [primed EXCEPT ![r] = FALSE]
  /\ local' = [local EXCEPT ![r] = 0]
  /\ UNCHANGED <<reserved, mined, holder, leader, next>>

\* The chain takes the account's transactions in the order of their nonces.
Mine ==
  /\ mined \in Nonces /\ sent[mined] > 0
  /\ mined' = mined + 1
  /\ UNCHANGED <<reserved, sent, holder, leader, primed, next, local, pc>>

-----------------------------------------------------------------------------
\* What the runner does next in a call that it has begun.
CallStep(r) ==
  ReadPending(r) \/ Recover(r) \/ Reserve(r) \/ SkipTaken(r) \/ Send(r) \/ SendFails(r)

Next ==
  \/ \E r \in Runners :
       \/ StartTick(r) \/ StandBy(r) \/ EndTick(r) \/ Crash(r) \/ Submit(r)
       \/ NextFails(r) \/ ReserveUnanswered(r) \/ CallStep(r)
  \/ \E role \in Roles : LoseSession(role)
  \/ Mine

\* A call that began goes on unless its process crashes, and the chain mines
\* what it can.
Spec ==
  /\ Init /\ [][Next]_vars
  /\ WF_vars(Mine)
  /\ \A r \in Runners : WF_vars(CallStep(r))

-----------------------------------------------------------------------------
(* Every variable keeps its type.                                            *)
TypeOK ==
  /\ reserved \subseteq Nonces
  /\ sent \in [Nonces -> Nat]
  /\ mined \in StartNonce..(MaxNonce + 1)
  /\ holder \in [Roles -> Runners \cup {Nobody}]
  /\ leader \in [Runners -> BOOLEAN] /\ primed \in [Runners -> BOOLEAN]
  /\ next \in [Runners -> Nat] /\ local \in [Runners -> Nat]
  /\ pc \in [Runners -> {"idle", "tick", "prime", "recover", "reserve", "send"}]

(* No nonce is ever broadcast twice, by whichever runners, over any failover *)
(* (RecoverNonce: a new leader never reuses a nonce the old leader may have  *)
(* broadcast).  The second transaction would replace or lose the first.      *)
NonceOnce == \A n \in Nonces : sent[n] <= 1

(* No nonce is passed over: below a reserved nonce every nonce is reserved,  *)
(* whatever runners cached before they lost or regained their leadership.    *)
NoSkippedNonce ==
  \A n \in reserved : \A k \in Nonces : k <= n => k \in reserved

(* A nonce that was reserved and that nobody will broadcast any more.        *)
Lost(n) ==
  /\ n \in reserved /\ sent[n] = 0
  /\ \A r \in Runners : ~(pc[r] = "send" /\ local[r] = n)

(* A transaction that was broadcast is mined, unless a nonce below it was    *)
(* lost by a failed send or a crash.                                         *)
MinedUnlessLost ==
  \A n \in Nonces :
    sent[n] > 0 ~> (mined > n \/ \E k \in Nonces : k < n /\ Lost(k))

(* A transaction that was broadcast is mined: submit drops its cached nonce  *)
(* after a failed send so that the gap is filled.                            *)
SentIsMined == \A n \in Nonces : sent[n] > 0 ~> mined > n

=============================================================================
