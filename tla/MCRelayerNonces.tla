--------------------------- MODULE MCRelayerNonces ---------------------------
(***************************************************************************)
(* The relayer on two instances.  As sessions may be lost at any step, both*)
(* may submit at once: the settlement runner, which sends from the same    *)
(* account under another lock, would add no other interleaving.            *)
(***************************************************************************)
EXTENDS RelayerNonces

CONSTANTS relayer1, relayer2, relayerLock

TheRoleOf == [r \in {relayer1, relayer2} |-> relayerLock]

\* One leader that never crashes nor loses its session, and a database that
\* always answers: only sends fail.
OnlySendsFail ==
  \/ \E r \in Runners :
       StartTick(r) \/ StandBy(r) \/ EndTick(r) \/ Submit(r) \/ CallStep(r)
  \/ Mine

OnlySendsFailSpec ==
  /\ Init /\ [][OnlySendsFail]_vars
  /\ WF_vars(Mine)
  /\ \A r \in Runners : WF_vars(CallStep(r))

=============================================================================
