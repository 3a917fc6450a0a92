----------------------------- MODULE MCThassaHub -----------------------------
(***************************************************************************)
(* A small hub: alice requests answers from one client, bob is the only    *)
(* account to become a node, all three put stake behind him, and alice's   *)
(* updates are accepted too although she is not registered.                *)
(***************************************************************************)
EXTENDS ThassaHub

CONSTANTS alice, bob, carol, markets, question, outcome

Ages == [c \in {markets} |-> 0]
Signers == {{alice, bob}}

=============================================================================
