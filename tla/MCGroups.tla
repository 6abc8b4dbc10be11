------------------------------ MODULE MCGroups ------------------------------
(***************************************************************************)
(* One migration group, Rename, then a safe file S, in the linear model.   *)
(***************************************************************************)
EXTENDS Gate, TLC

CONSTANTS Rename, Short, E, B, W, C, S, v1

GroupOrder == <<E, B, W, C, S>>

GroupFiles == {E, B, W, C}

InGroup == [f \in GroupFiles \cup {S} |-> IF f \in GroupFiles THEN Rename ELSE None]

Phase == [f \in GroupFiles \cup {S} |->
            CASE f = E -> "expand" [] f = B -> "backfill"
              [] f = W -> "switch" [] f = C -> "contract" [] OTHER -> None]

ShortNames == [g \in {Rename} |-> Short]

\* The group alone, then with the safe file that follows it.
Release(files) == [f \in GroupFiles \cup {S} |-> IF f \in files THEN v1 ELSE None]

GroupTrees == {Release(GroupFiles), Release(GroupFiles \cup {S})}

Apply(tree) == [cmd |-> "apply", tree |-> tree]

ApplyPhase(f) == [cmd |-> "apply-phase", tree |-> Release(GroupFiles), file |-> f]

Advance(f, status) == [cmd |-> "advance", file |-> f, status |-> status]

Resolve(f) == [cmd |-> "resolve", file |-> f]

GroupJobs ==
  {Apply(t) : t \in GroupTrees}
    \cup {ApplyPhase(f) : f \in {E, W, C}}
    \cup {Advance(B, s) : s \in {"running", "applied", "failed"}}
    \cup {Resolve(E)}

ASSUME ReleaseAssumption ==
  /\ GroupsHaveExpand /\ PhasesAreNumbered /\ NamesAreUnique
  /\ DependenciesAreAcyclic /\ ExpandsComeFirst /\ PhasesAreInOrder

Symmetry == Permutations(Clients)
=============================================================================
