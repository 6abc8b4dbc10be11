------------------------------ MODULE MCVerify ------------------------------
(***************************************************************************)
(* The linear history of MCMigraguard: S2 follows the hotfix of S1, whose  *)
(* effect it needs, or is on a branch cut before it.  Of the contents one  *)
(* fails when it is executed again, one does more than the first time, and *)
(* one passes, though it adds its rows again.                              *)
(***************************************************************************)
EXTENDS MCMigraguard, Verify

VerifiedTrees == {Tree(a2, b1), Tree(a1, b1)}

\* The hotfix is also released alone.
VerifiedJobs == {Apply(t) : t \in VerifiedTrees \cup {Tree(a2, None)}} \cup {Resolve(S1)}

Needs == [s \in Sums |-> IF s = b1 THEN {<<S1, a2>>} ELSE {}]

Repeated ==
  [s \in Sums |-> CASE s = a1 -> "error" [] s = a2 -> "drift" [] s = b1 -> "add_rows"]
=============================================================================
