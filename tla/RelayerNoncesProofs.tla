------------------------- MODULE RelayerNoncesProofs -------------------------
(***************************************************************************)
(* Proofs about RelayerNonces: for any number of runners and of roles, over*)
(* every crash, lost session and failed send, no nonce is broadcast twice  *)
(* and none is passed over.                                                *)
(***************************************************************************)
EXTENDS RelayerNonces, TLAPS

\* Every nonce below n is a row of relayer_txs.
ReservedBelow(n) == n >= StartNonce /\ \A k \in Nonces : k < n => k \in reserved

\* What was broadcast was reserved before, and only once.
SentReserved == \A n \in Nonces : sent[n] <= 1 /\ (sent[n] > 0 => n \in reserved)

\* A runner about to send holds a reserved nonce that nobody has used.
SenderHolds == \A r \in Runners : pc[r] = "send" => local[r] \in reserved /\ sent[local[r]] = 0

\* Two runners about to send hold different nonces.
SendersDiffer ==
  \A r, q \in Runners : pc[r] = "send" /\ pc[q] = "send" /\ r # q => local[r] # local[q]

\* A cached nonce, however old, has no free nonce below it.
CachedBelow == \A r \in Runners : primed[r] \/ pc[r] = "reserve" => ReservedBelow(next[r])

\* Nor has the pending nonce that the node answered.
PendingBelow == \A r \in Runners : pc[r] = "recover" => ReservedBelow(local[r])

\* The chain mined only what was broadcast.
MinedSent == \A n \in Nonces : n < mined => sent[n] > 0

NonceInv ==
  /\ TypeOK /\ NoSkippedNonce /\ SentReserved /\ SenderHolds /\ SendersDiffer
  /\ CachedBelow /\ PendingBelow /\ MinedSent

-----------------------------------------------------------------------------
(* A tick that begins may drop the cached nonce, nothing else.               *)
LEMMA StartTickStep ==
  ASSUME NonceInv, NEW r \in Runners, StartTick(r) PROVE NonceInv'
<1> USE NonceAssumption
<1>1. TypeOK'
  BY RunnersAssumption DEF NonceInv, StartTick, Goto, TypeOK, Nonces, chainVars
<1>2. SenderHolds'
  BY DEF NonceInv, StartTick, Goto, SenderHolds, TypeOK, Nonces, chainVars
<1>3. SendersDiffer'
  BY DEF NonceInv, StartTick, Goto, SendersDiffer, TypeOK, Nonces, chainVars
<1>4. CachedBelow'
  BY DEF NonceInv, StartTick, Goto, CachedBelow, ReservedBelow, TypeOK, Nonces,
     chainVars
<1>5. PendingBelow'
  BY DEF NonceInv, StartTick, Goto, PendingBelow, ReservedBelow, TypeOK, Nonces,
     chainVars
<1>6. (NoSkippedNonce /\ SentReserved /\ MinedSent)'
  BY DEF NonceInv, NoSkippedNonce, SentReserved, MinedSent, StartTick, chainVars, Goto
<1> QED
  BY <1>1, <1>2, <1>3, <1>4, <1>5, <1>6 DEF NonceInv

(* A standby does not touch a nonce.                                         *)
LEMMA StandByStep ==
  ASSUME NonceInv, NEW r \in Runners, StandBy(r) PROVE NonceInv'
<1> USE NonceAssumption
<1>1. TypeOK'
  BY RunnersAssumption DEF NonceInv, StandBy, TypeOK, Nonces, chainVars
<1>2. (NoSkippedNonce /\ SentReserved /\ SenderHolds /\ SendersDiffer
      /\ CachedBelow /\ PendingBelow /\ MinedSent)'
  BY DEF NonceInv, NoSkippedNonce, SentReserved, SenderHolds, SendersDiffer,
     CachedBelow, PendingBelow, MinedSent, ReservedBelow, StandBy, chainVars
<1> QED
  BY <1>1, <1>2 DEF NonceInv

(* The end of a tick does not touch a nonce.                                 *)
LEMMA EndTickStep ==
  ASSUME NonceInv, NEW r \in Runners, EndTick(r) PROVE NonceInv'
<1> USE NonceAssumption
<1>1. TypeOK'
  BY RunnersAssumption DEF NonceInv, EndTick, Goto, TypeOK, Nonces, chainVars
<1>2. SenderHolds'
  BY DEF NonceInv, EndTick, Goto, SenderHolds, TypeOK, Nonces, chainVars
<1>3. SendersDiffer'
  BY DEF NonceInv, EndTick, Goto, SendersDiffer, TypeOK, Nonces, chainVars
<1>4. CachedBelow'
  BY DEF NonceInv, EndTick, Goto, CachedBelow, ReservedBelow, TypeOK, Nonces, chainVars
<1>5. PendingBelow'
  BY DEF NonceInv, EndTick, Goto, PendingBelow, ReservedBelow, TypeOK, Nonces, chainVars
<1>6. (NoSkippedNonce /\ SentReserved /\ MinedSent)'
  BY DEF NonceInv, NoSkippedNonce, SentReserved, MinedSent, EndTick, chainVars, Goto
<1> QED
  BY <1>1, <1>2, <1>3, <1>4, <1>5, <1>6 DEF NonceInv

(* A lost session keeps the invariant.                                       *)
LEMMA LoseSessionStep ==
  ASSUME NonceInv, NEW role \in Roles, LoseSession(role) PROVE NonceInv'
<1> USE NonceAssumption
<1>1. TypeOK'
  BY RunnersAssumption DEF NonceInv, LoseSession, TypeOK, Nonces, chainVars
<1>2. (NoSkippedNonce /\ SentReserved /\ SenderHolds /\ SendersDiffer
      /\ CachedBelow /\ PendingBelow /\ MinedSent)'
  BY DEF NonceInv, NoSkippedNonce, SentReserved, SenderHolds, SendersDiffer,
     CachedBelow, PendingBelow, MinedSent, ReservedBelow, LoseSession, chainVars
<1> QED
  BY <1>1, <1>2 DEF NonceInv

(* A crash forgets what the runner held; rows and transactions stay.         *)
LEMMA CrashStep ==
  ASSUME NonceInv, NEW r \in Runners, Crash(r) PROVE NonceInv'
<1> USE NonceAssumption
<1>1. TypeOK'
  BY RunnersAssumption DEF NonceInv, Crash, TypeOK, Nonces, chainVars
<1>2. SenderHolds'
  BY DEF NonceInv, Crash, SenderHolds, TypeOK, Nonces, chainVars
<1>3. SendersDiffer'
  BY DEF NonceInv, Crash, SendersDiffer, TypeOK, Nonces, chainVars
<1>4. CachedBelow'
  BY DEF NonceInv, Crash, CachedBelow, ReservedBelow, TypeOK, Nonces, chainVars
<1>5. PendingBelow'
  BY DEF NonceInv, Crash, PendingBelow, ReservedBelow, TypeOK, Nonces, chainVars
<1>6. (NoSkippedNonce /\ SentReserved /\ MinedSent)'
  BY DEF NonceInv, NoSkippedNonce, SentReserved, MinedSent, Crash, chainVars
<1> QED
  BY <1>1, <1>2, <1>3, <1>4, <1>5, <1>6 DEF NonceInv

(* A call begins with nothing in hand.                                       *)
LEMMA SubmitStep ==
  ASSUME NonceInv, NEW r \in Runners, Submit(r) PROVE NonceInv'
<1> USE NonceAssumption
<1>1. TypeOK'
  BY RunnersAssumption DEF NonceInv, Submit, Goto, TypeOK, Nonces, chainVars
<1>2. SenderHolds'
  BY DEF NonceInv, Submit, Goto, SenderHolds, TypeOK, Nonces, chainVars
<1>3. SendersDiffer'
  BY DEF NonceInv, Submit, Goto, SendersDiffer, TypeOK, Nonces, chainVars
<1>4. CachedBelow'
  BY DEF NonceInv, Submit, Goto, CachedBelow, ReservedBelow, TypeOK, Nonces, chainVars
<1>5. PendingBelow'
  BY DEF NonceInv, Submit, Goto, PendingBelow, ReservedBelow, TypeOK, Nonces, chainVars
<1>6. (NoSkippedNonce /\ SentReserved /\ MinedSent)'
  BY DEF NonceInv, NoSkippedNonce, SentReserved, MinedSent, Submit, chainVars, Goto
<1> QED
  BY <1>1, <1>2, <1>3, <1>4, <1>5, <1>6 DEF NonceInv

(* The node's answer has no free nonce below it: those are mined or sent.    *)
LEMMA ReadPendingStep ==
  ASSUME NonceInv, NEW r \in Runners, ReadPending(r) PROVE NonceInv'
<1> USE NonceAssumption
<1>1. PICK n \in mined..(MaxNonce + 1) : PendingNonce(n) /\ local' = [local EXCEPT ![r] = n]
  BY DEF ReadPending
<1>2. ReservedBelow(n)
  <2>1. n \in Nat /\ n >= StartNonce
    BY <1>1 DEF NonceInv, TypeOK
  <2>2. ASSUME NEW k \in Nonces, k < n PROVE k \in reserved
    <3>1. sent[k] > 0
      BY <1>1, <2>1, <2>2 DEF PendingNonce, NonceInv, MinedSent, TypeOK, Nonces
    <3>2. QED
      BY <3>1 DEF NonceInv, SentReserved
  <2>3. QED
    BY <2>1, <2>2 DEF ReservedBelow
<1>3. TypeOK'
  BY <1>1 DEF NonceInv, TypeOK, ReadPending, Goto, chainVars
<1>4. SenderHolds'
  BY <1>1 DEF NonceInv, TypeOK, SenderHolds, ReadPending, Goto, chainVars
<1>5. SendersDiffer'
  BY <1>1 DEF NonceInv, TypeOK, SendersDiffer, ReadPending, Goto
<1>6. CachedBelow'
  BY <1>1 DEF NonceInv, ReadPending, Goto, PendingNonce, CachedBelow, ReservedBelow,
     TypeOK, Nonces, chainVars
<1>7. PendingBelow'
  BY <1>1, <1>2 DEF NonceInv, TypeOK, PendingBelow, ReservedBelow, ReadPending, Goto
<1>8. (NoSkippedNonce /\ SentReserved /\ MinedSent)'
  BY DEF NonceInv, NoSkippedNonce, SentReserved, MinedSent, ReadPending, chainVars, Goto
<1> QED
  BY <1>3, <1>4, <1>5, <1>6, <1>7, <1>8 DEF NonceInv

(* The recovered nonce is above the ledger and the node's answer.            *)
LEMMA RecoverStep ==
  ASSUME NonceInv, NEW r \in Runners, Recover(r) PROVE NonceInv'
<1> USE NonceAssumption
<1>1. PICK m \in {-1} \cup Nonces :
       MaxRelayerNonce(m) /\ next' = [next EXCEPT ![r] = RecoverNonce(local[r], m)]
  BY DEF Recover
<1>2. RecoverNonce(local[r], m) \in Nat /\ ReservedBelow(RecoverNonce(local[r], m))
  <2>1. local[r] \in Nat /\ ReservedBelow(local[r])
    BY DEF NonceInv, TypeOK, PendingBelow, Recover, Goto
  <2>2. CASE m = -1
    BY <2>1, <2>2 DEF RecoverNonce, ReservedBelow
  <2>3. CASE m \in Nonces
    <3>1. m \in reserved
      BY <1>1, <2>3 DEF MaxRelayerNonce, Nonces
    <3>2. ReservedBelow(m + 1)
      BY <2>3, <3>1 DEF ReservedBelow, NonceInv, NoSkippedNonce, Nonces
    <3>3. QED
      BY <2>1, <2>3, <3>2 DEF RecoverNonce, Nonces
  <2>4. QED
    BY <2>2, <2>3
<1>3. TypeOK'
  BY <1>1, <1>2 DEF NonceInv, TypeOK, Recover, Goto, chainVars
<1>4. SenderHolds'
  BY <1>1 DEF NonceInv, Recover, Goto, RecoverNonce, MaxRelayerNonce, SenderHolds,
     TypeOK, Nonces, chainVars
<1>5. SendersDiffer'
  BY <1>1 DEF NonceInv, Recover, Goto, RecoverNonce, MaxRelayerNonce, SendersDiffer,
     TypeOK, Nonces, chainVars
<1>6. CachedBelow'
  BY <1>1, <1>2 DEF NonceInv, TypeOK, CachedBelow, ReservedBelow, Recover, Goto
<1>7. PendingBelow'
  BY <1>1 DEF NonceInv, Recover, Goto, RecoverNonce, MaxRelayerNonce, PendingBelow,
     ReservedBelow, TypeOK, Nonces, chainVars
<1>8. (NoSkippedNonce /\ SentReserved /\ MinedSent)'
  BY DEF NonceInv, NoSkippedNonce, SentReserved, MinedSent, Recover, chainVars, Goto
<1> QED
  BY <1>3, <1>4, <1>5, <1>6, <1>7, <1>8 DEF NonceInv

(* A reserved nonce was free, and the ledger stays without a hole.           *)
LEMMA ReserveStep ==
  ASSUME NonceInv, NEW r \in Runners, Reserve(r) PROVE NonceInv'
<1> USE NonceAssumption
<1>1. next[r] \in Nonces /\ next[r] \notin reserved /\ ReservedBelow(next[r])
  BY DEF NonceInv, TypeOK, CachedBelow, ReservedBelow, Nonces, Reserve, Goto, Taken
<1>2. TypeOK'
  <2>1. next[r] \in Nat /\ next[r] + 1 \in Nat
    BY DEF NonceInv, TypeOK
  <2>2. reserved' \subseteq Nonces
    BY <1>1 DEF NonceInv, TypeOK, Reserve
  <2>3. next' \in [Runners -> Nat] /\ local' \in [Runners -> Nat]
    BY <2>1 DEF NonceInv, TypeOK, Reserve
  <2>4. QED
    BY <2>2, <2>3 DEF NonceInv, TypeOK, Reserve, Goto, chainVars
<1>3. NoSkippedNonce'
  BY <1>1 DEF NonceInv, TypeOK, NoSkippedNonce, ReservedBelow, Nonces, Reserve
<1>4. SentReserved'
  BY <1>1 DEF NonceInv, Reserve, Goto, Taken, SentReserved, TypeOK, Nonces, chainVars
<1>5. SenderHolds'
  <2>1. sent[next[r]] = 0
    BY <1>1 DEF NonceInv, TypeOK, SentReserved
  <2>2. QED
    BY <1>1, <2>1 DEF NonceInv, TypeOK, SenderHolds, Nonces, Reserve, Goto, chainVars
<1>6. SendersDiffer'
  BY <1>1 DEF NonceInv, TypeOK, SenderHolds, SendersDiffer, Nonces, Reserve, Goto
<1>7. CachedBelow'
  BY <1>1 DEF NonceInv, Reserve, Goto, Taken, CachedBelow, ReservedBelow, TypeOK,
     Nonces, chainVars
<1>8. PendingBelow'
  BY <1>1 DEF NonceInv, Reserve, Goto, Taken, PendingBelow, ReservedBelow, TypeOK,
     Nonces, chainVars
<1>9. (MinedSent)'
  BY DEF NonceInv, MinedSent, Reserve, chainVars, Goto
<1> QED
  BY <1>2, <1>3, <1>4, <1>5, <1>6, <1>7, <1>8, <1>9 DEF NonceInv

(* A nonce that is skipped is a row of the ledger.                           *)
LEMMA SkipTakenStep ==
  ASSUME NonceInv, NEW r \in Runners, SkipTaken(r) PROVE NonceInv'
<1> USE NonceAssumption
<1>1. TypeOK'
  BY RunnersAssumption DEF NonceInv, SkipTaken, Taken, TypeOK, Nonces, chainVars
<1>2. CachedBelow'
  BY DEF NonceInv, SkipTaken, Taken, CachedBelow, ReservedBelow, TypeOK, Nonces,
     chainVars
<1>3. (NoSkippedNonce /\ SentReserved /\ SenderHolds /\ SendersDiffer
      /\ PendingBelow /\ MinedSent)'
  BY DEF NonceInv, NoSkippedNonce, SentReserved, SenderHolds, SendersDiffer,
     PendingBelow, MinedSent, ReservedBelow, SkipTaken, chainVars
<1> QED
  BY <1>1, <1>2, <1>3 DEF NonceInv

(* An error before the reservation leaves the ledger as it was.              *)
LEMMA NextFailsStep ==
  ASSUME NonceInv, NEW r \in Runners, NextFails(r) PROVE NonceInv'
<1> USE NonceAssumption
<1>1. TypeOK'
  BY RunnersAssumption DEF NonceInv, NextFails, TypeOK, Nonces, chainVars
<1>2. SenderHolds'
  BY DEF NonceInv, NextFails, SenderHolds, TypeOK, Nonces, chainVars
<1>3. SendersDiffer'
  BY DEF NonceInv, NextFails, SendersDiffer, TypeOK, Nonces, chainVars
<1>4. CachedBelow'
  BY DEF NonceInv, NextFails, CachedBelow, ReservedBelow, TypeOK, Nonces, chainVars
<1>5. PendingBelow'
  BY DEF NonceInv, NextFails, PendingBelow, ReservedBelow, TypeOK, Nonces, chainVars
<1>6. (NoSkippedNonce /\ SentReserved /\ MinedSent)'
  BY DEF NonceInv, NoSkippedNonce, SentReserved, MinedSent, NextFails, chainVars
<1> QED
  BY <1>1, <1>2, <1>3, <1>4, <1>5, <1>6 DEF NonceInv

(* An insert without an answer leaves a row nobody will send.                *)
LEMMA ReserveUnansweredStep ==
  ASSUME NonceInv, NEW r \in Runners, ReserveUnanswered(r) PROVE NonceInv'
<1> USE NonceAssumption
<1>1. next[r] \in Nonces /\ ReservedBelow(next[r])
  BY DEF NonceInv, TypeOK, CachedBelow, ReservedBelow, Nonces, ReserveUnanswered, Goto
<1>2. TypeOK'
  BY <1>1 DEF NonceInv, TypeOK, ReserveUnanswered, Goto, chainVars
<1>3. NoSkippedNonce'
  BY <1>1 DEF NonceInv, TypeOK, NoSkippedNonce, ReservedBelow, Nonces, ReserveUnanswered
<1>4. SentReserved'
  BY <1>1 DEF NonceInv, ReserveUnanswered, Goto, SentReserved, TypeOK, Nonces, chainVars
<1>5. SenderHolds'
  BY <1>1 DEF NonceInv, ReserveUnanswered, Goto, SenderHolds, TypeOK, Nonces, chainVars
<1>6. SendersDiffer'
  BY <1>1 DEF NonceInv, ReserveUnanswered, Goto, SendersDiffer, TypeOK, Nonces,
     chainVars
<1>7. CachedBelow'
  BY <1>1 DEF NonceInv, ReserveUnanswered, Goto, CachedBelow, ReservedBelow, TypeOK,
     Nonces, chainVars
<1>8. PendingBelow'
  BY <1>1 DEF NonceInv, ReserveUnanswered, Goto, PendingBelow, ReservedBelow, TypeOK,
     Nonces, chainVars
<1>9. (MinedSent)'
  BY DEF NonceInv, MinedSent, ReserveUnanswered, chainVars, Goto
<1> QED
  BY <1>2, <1>3, <1>4, <1>5, <1>6, <1>7, <1>8, <1>9 DEF NonceInv

(* Only the holder of a nonce sends it, and drops it.                        *)
LEMMA SendStep ==
  ASSUME NonceInv, NEW r \in Runners, Send(r) PROVE NonceInv'
<1> USE NonceAssumption
<1>1. local[r] \in Nonces /\ local[r] \in reserved /\ sent[local[r]] = 0
  BY DEF NonceInv, TypeOK, SenderHolds, Send, Goto
<1>2. sent' = [sent EXCEPT ![local[r]] = 1]
  BY <1>1 DEF Send, Broadcast
<1>3. TypeOK'
  BY <1>1, <1>2 DEF NonceInv, TypeOK, Send, Goto
<1>4. SentReserved'
  BY <1>1, <1>2 DEF NonceInv, TypeOK, SentReserved, Send
<1>5. SenderHolds'
  <2>1. ASSUME NEW q \in Runners, pc'[q] = "send" PROVE local'[q] \in reserved' /\ sent'[local'[q]] = 0
    <3>1. q # r /\ pc[q] = "send" /\ local'[q] = local[q] /\ reserved' = reserved
      BY <2>1 DEF NonceInv, TypeOK, Send, Goto
    <3>2. local[q] \in reserved /\ sent[local[q]] = 0 /\ local[q] # local[r]
      BY <3>1 DEF NonceInv, SenderHolds, SendersDiffer, Send, Goto
    <3>3. sent'[local[q]] = sent[local[q]]
      BY <1>2, <3>2 DEF NonceInv, TypeOK
    <3>4. QED
      BY <3>1, <3>2, <3>3
  <2>2. QED
    BY <2>1 DEF SenderHolds
<1>6. SendersDiffer'
  BY <1>1 DEF NonceInv, Send, Goto, Broadcast, SendersDiffer, TypeOK, Nonces, chainVars
<1>7. CachedBelow'
  BY <1>1 DEF NonceInv, Send, Goto, Broadcast, CachedBelow, ReservedBelow, TypeOK,
     Nonces, chainVars
<1>8. PendingBelow'
  BY <1>1 DEF NonceInv, Send, Goto, Broadcast, PendingBelow, ReservedBelow, TypeOK,
     Nonces, chainVars
<1>9. MinedSent'
  BY <1>1, <1>2 DEF NonceInv, TypeOK, MinedSent, Send
<1>10. (NoSkippedNonce)'
  BY DEF NonceInv, NoSkippedNonce, Send, chainVars, Goto
<1> QED
  BY <1>3, <1>4, <1>5, <1>6, <1>7, <1>8, <1>9, <1>10 DEF NonceInv

(* A failed send may have reached the node, once.                            *)
LEMMA SendFailsStep ==
  ASSUME NonceInv, NEW r \in Runners, SendFails(r) PROVE NonceInv'
<1> USE NonceAssumption
<1>1. local[r] \in Nonces /\ local[r] \in reserved /\ sent[local[r]] = 0
  BY DEF NonceInv, TypeOK, SenderHolds, SendFails, Goto
<1>2. sent' = sent \/ sent' = [sent EXCEPT ![local[r]] = 1]
  BY <1>1 DEF SendFails, Broadcast
<1>3. TypeOK'
  BY <1>1, <1>2 DEF NonceInv, TypeOK, SendFails, Goto
<1>4. SentReserved'
  BY <1>1, <1>2 DEF NonceInv, TypeOK, SentReserved, SendFails
<1>5. SenderHolds'
  <2>1. ASSUME NEW q \in Runners, pc'[q] = "send" PROVE local'[q] \in reserved' /\ sent'[local'[q]] = 0
    <3>1. q # r /\ pc[q] = "send" /\ local'[q] = local[q] /\ reserved' = reserved
      BY <2>1 DEF NonceInv, TypeOK, SendFails, Goto
    <3>2. local[q] \in reserved /\ sent[local[q]] = 0 /\ local[q] # local[r]
      BY <3>1 DEF NonceInv, SenderHolds, SendersDiffer, SendFails, Goto
    <3>3. sent'[local[q]] = sent[local[q]]
      BY <1>2, <3>2 DEF NonceInv, TypeOK
    <3>4. QED
      BY <3>1, <3>2, <3>3
  <2>2. QED
    BY <2>1 DEF SenderHolds
<1>6. SendersDiffer'
  BY <1>1 DEF NonceInv, SendFails, Goto, Broadcast, SendersDiffer, TypeOK, Nonces,
     chainVars
<1>7. CachedBelow'
  BY <1>1 DEF NonceInv, SendFails, Goto, Broadcast, CachedBelow, ReservedBelow,
     TypeOK, Nonces, chainVars
<1>8. PendingBelow'
  BY <1>1 DEF NonceInv, SendFails, Goto, Broadcast, PendingBelow, ReservedBelow,
     TypeOK, Nonces, chainVars
<1>9. MinedSent'
  BY <1>1, <1>2 DEF NonceInv, TypeOK, MinedSent, SendFails
<1>10. (NoSkippedNonce)'
  BY DEF NonceInv, NoSkippedNonce, SendFails, chainVars, Goto
<1> QED
  BY <1>3, <1>4, <1>5, <1>6, <1>7, <1>8, <1>9, <1>10 DEF NonceInv

(* Mining keeps the invariant.                                               *)
LEMMA MineStep ==
  ASSUME NonceInv, Mine PROVE NonceInv'
<1> USE NonceAssumption
<1>1. TypeOK'
  BY RunnersAssumption DEF NonceInv, Mine, TypeOK, Nonces, chainVars
<1>2. MinedSent'
  BY DEF NonceInv, Mine, MinedSent, TypeOK, Nonces, chainVars
<1>3. (NoSkippedNonce /\ SentReserved /\ SenderHolds /\ SendersDiffer
      /\ CachedBelow /\ PendingBelow)'
  BY DEF NonceInv, NoSkippedNonce, SentReserved, SenderHolds, SendersDiffer,
     CachedBelow, PendingBelow, ReservedBelow, Mine, chainVars
<1> QED
  BY <1>1, <1>2, <1>3 DEF NonceInv

-----------------------------------------------------------------------------
(* The invariant holds in every state of every run.                          *)
THEOREM NonceInvariance == Spec => []NonceInv
<1>1. Init => NonceInv
  BY RunnersAssumption, NonceAssumption DEF Init, NonceInv, TypeOK, NoSkippedNonce,
     SentReserved, SenderHolds, SendersDiffer, CachedBelow, PendingBelow, MinedSent, Nonces
<1>2. NonceInv /\ [Next]_vars => NonceInv'
  <2> SUFFICES ASSUME NonceInv, [Next]_vars PROVE NonceInv'
    OBVIOUS
  <2>1. ASSUME NEW r \in Runners, CallStep(r) PROVE NonceInv'
    BY <2>1, ReadPendingStep, RecoverStep, ReserveStep, SkipTakenStep, SendStep,
       SendFailsStep DEF CallStep
  <2>2. CASE UNCHANGED vars
    BY <2>2 DEF vars, NonceInv, TypeOK, NoSkippedNonce, SentReserved, SenderHolds,
       SendersDiffer, CachedBelow, PendingBelow, MinedSent, ReservedBelow
  <2>3. QED
    BY <2>1, <2>2, StartTickStep, StandByStep, EndTickStep, CrashStep, SubmitStep,
       NextFailsStep, ReserveUnansweredStep, LoseSessionStep, MineStep DEF Next
<1>3. QED
  BY <1>1, <1>2, PTL DEF Spec

(* Every variable keeps its type.                                            *)
THEOREM NonceTypes == Spec => []TypeOK
<1>1. NonceInv => TypeOK
  BY DEF NonceInv
<1>2. QED
  BY <1>1, NonceInvariance, PTL

(* No nonce is broadcast twice, whatever crashes, fails or loses its lock.   *)
THEOREM NonceSentOnce == Spec => []NonceOnce
<1>1. NonceInv => NonceOnce
  BY DEF NonceInv, SentReserved, NonceOnce
<1>2. QED
  BY <1>1, NonceInvariance, PTL

(* The ledger has no hole: every nonce below a reserved one is reserved.     *)
THEOREM NonceContiguous == Spec => []NoSkippedNonce
<1>1. NonceInv => NoSkippedNonce
  BY DEF NonceInv
<1>2. QED
  BY <1>1, NonceInvariance, PTL

=============================================================================
