---------------------------- MODULE MCMigraguard ----------------------------
(***************************************************************************)
(* Small instances of Migraguard for TLC.                                  *)
(*                                                                         *)
(* Linear history: S1 is released as a1 and hotfixed to a2; S2 follows.    *)
(* A stale checkout is one of the earlier trees.                           *)
(***************************************************************************)
EXTENDS DocumentedClaims, MigraguardLedger, Status, TLC

CONSTANTS S1, S2, a1, a2, b1

LinearOrder == <<S1, S2>>

Safe == [f \in {S1, S2} |-> None]

Tree(s1, s2) == [f \in {S1, S2} |-> IF f = S1 THEN s1 ELSE s2]

Apply(tree) == [cmd |-> "apply", tree |-> tree]

Resolve(f) == [cmd |-> "resolve", file |-> f]

\* Released, hotfixed, followed by S2, and S2 on a branch cut before the hotfix.
LinearTrees == {Tree(a1, None), Tree(a2, None), Tree(a2, b1), Tree(a1, b1)}

LinearJobs == {Apply(t) : t \in LinearTrees} \cup {Resolve(S1)}
=============================================================================
