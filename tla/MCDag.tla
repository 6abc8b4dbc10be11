-------------------------------- MODULE MCDag --------------------------------
(***************************************************************************)
(* The DAG model: the safe file A; the group Rename, whose expand E        *)
(* depends on A, its switch W on E, and its contract K, which is numbered  *)
(* before W, on W; the safe file S that depends on E and on which the safe *)
(* file T depends; and C, which stands alone.                              *)
(***************************************************************************)
EXTENDS Migraguard, TLC

CONSTANTS Rename, A, E, K, W, S, T, C, v1, v2

DagOrder == <<A, E, K, W, S, T, C>>

InGroup == [f \in {A, E, K, W, S, T, C} |-> IF f \in {E, W, K} THEN Rename ELSE None]

Phase == [f \in {A, E, K, W, S, T, C} |->
            CASE f = E -> "expand" [] f = W -> "switch" [] f = K -> "contract" [] OTHER -> None]

Dependencies == {<<E, A>>, <<W, E>>, <<K, W>>, <<S, E>>, <<T, S>>}

\* The first release, a hotfix of the leaves K and T, and a checkout that ends at E.
FirstRelease == [f \in {A, E, K, W, S, T, C} |-> v1]

DagTrees == {FirstRelease,
             [FirstRelease EXCEPT ![T] = v2, ![K] = v2],
             [FirstRelease EXCEPT ![W] = None, ![K] = None, ![S] = None, ![T] = None, ![E] = v2]}

DagJobs == {[cmd |-> "apply", tree |-> t] : t \in DagTrees}
             \cup {[cmd |-> "resolve", file |-> f] : f \in {A, E}}

ASSUME OrderAssumption == DependenciesAreAcyclic /\ ExpandsComeFirst /\ PhasesAreInOrder

Symmetry == Permutations(Clients)
=============================================================================
