------------------------------- MODULE Totals -------------------------------
(***************************************************************************)
(* Sums of money and of shares.  Total(f) is the sum of a function f from  *)
(* a finite set to Nat, defined by counting: each x of the domain owns     *)
(* f[x] distinct coins, and the sum is the number of coins.  Defined this  *)
(* way a sum needs neither recursion nor a fold, so that facts about it    *)
(* follow from the theorems about cardinalities (module TotalsProofs).     *)
(***************************************************************************)
EXTENDS Naturals, FiniteSets

Coins(f) == UNION {{x} \X (1..f[x]) : x \in DOMAIN f}

Total(f) == Cardinality(Coins(f))

\* What f holds at x, nothing outside of its domain.
At(f, x) == IF x \in DOMAIN f THEN f[x] ELSE 0

=============================================================================
