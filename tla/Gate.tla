-------------------------------- MODULE Gate --------------------------------
(***************************************************************************)
(* migraguard gate: conditions on the states of the migration groups, as   *)
(* a deployment asks for them while other commands go on.  It takes no     *)
(* lock, reads the table once and changes nothing, so what it answers is   *)
(* a function of the table.                                                *)
(***************************************************************************)
EXTENDS Migraguard, Functions

CONSTANTS
  ShortName  \* the name of a group's directory without its timestamp

Names == Groups \cup {ShortName[g] : g \in Groups}

\* The states in the order of a release, as the gate has them.
StateOrder ==
  <<"not_applied", "expand_applied", "backfill_running", "backfill_completed",
    "switch_applied", "contract_ready", "contract_completed">>

Ranks(state) == {i \in DOMAIN StateOrder : StateOrder[i] = state}

\* Fault: a group that is ready for its contract is in no order with others.
MatchesStateUnlessReady(current, target) ==
  \/ current = target
  \/ /\ current # "contract_ready"
     /\ \E i \in Ranks(current), j \in Ranks(target) : j <= i

\* A state asked for is had, or has been passed.
MatchesState(current, target) ==
  \/ current = target
  \/ \E i \in Ranks(current), j \in Ranks(target) : j <= i

\* The group a condition means: of those it may name, the first to have a row.
NamedGroups(log, name) ==
  {g \in Groups : IsGroupKnown(log, g) /\ name \in {g, ShortName[g]}}

MeansGroup(log, name, g) ==
  /\ g \in NamedGroups(log, name)
  /\ \E k \in DOMAIN log :
       /\ log[k].group = g
       /\ \A j \in DOMAIN log : log[j].group \in NamedGroups(log, name) => k <= j

\* A condition on a group that has no row is not met, nor is a misspelt one.
EvaluateCondition(log, name, state) ==
  \E g \in Groups :
    MeansGroup(log, name, g) /\ MatchesState(DeriveGroupState(log, g), state)

\* Conditions are pairs of a name and a state.
GatePasses(log, required, forbidden) ==
  /\ \A c \in required : EvaluateCondition(log, c[1], c[2])
  /\ \A c \in forbidden : ~EvaluateCondition(log, c[1], c[2])

-----------------------------------------------------------------------------
(***************************************************************************)
(* What is asked of a repository.  check demands that a group with a       *)
(* switch or a contract has an expand.  That the numbers of a group's      *)
(* files are in the order of the phases is how new writes them; nothing    *)
(* looks at it.  Nor does anything keep a second group from the name of a  *)
(* first: a gate then takes the older one.                                 *)
(***************************************************************************)
GroupsHaveExpand ==
  \A j \in Jobs : j.cmd = "apply" =>
    \A f \in Scan(j.tree) : PhaseOf[f] \in {"switch", "contract"} =>
      \E e \in Scan(j.tree) : GroupOf[e] = GroupOf[f] /\ PhaseOf[e] = "expand"

Precede(P, Q) ==
  \A e, f \in Files :
    GroupOf[e] = GroupOf[f] /\ PhaseOf[e] \in P /\ PhaseOf[f] \in Q
      => Position(e) < Position(f)

PhasesAreNumbered ==
  Precede({"expand"}, {"switch", "contract"}) /\ Precede({"switch"}, {"contract"})

NamesAreUnique ==
  \A g, h \in Groups : {g, ShortName[g]} \cap {h, ShortName[h]} # {} => g = h

-----------------------------------------------------------------------------
Fails(status) == status \in {"failed", "running"}

(***************************************************************************)
(* A gate that requires a stage of the release keeps passing while the     *)
(* release goes on: it is only by a row that says failed or running that a *)
(* requirement once met is lost again.                                     *)
(***************************************************************************)
RequirementsStay ==
  [][Len(records) < Len(records') =>
       \A name \in Names, state \in Range(Tail(StateOrder)) :
         GatePasses(records, {<<name, state>>}, {})
         /\ ~GatePasses(records', {<<name, state>>}, {})
           => Fails(records'[Len(records')].status)]_vars

\* Between the end of a file's SQL and its row.
IsUnrecorded(f) ==
  \E c \in Clients : pc[c] = "insert" /\ work[c].file = f

(***************************************************************************)
(* A version of the application that cannot do without the old structure   *)
(* is not let through once the SQL of the contract has run: a gate that    *)
(* forbids the completed contract fails, except until the row is there (it *)
(* never will be, if the command died), or when expand or contract has     *)
(* been attempted again since and is failed or at work.                    *)
(***************************************************************************)
ForbiddenIsSeen ==
  \A f \in Files : PhaseOf[f] = "contract" /\ (\E s \in Sums : <<f, s>> \in ran) =>
    LET g == GroupOf[f]
    IN  \/ \A name \in {g, ShortName[g]} :
             ~GatePasses(records, {}, {<<name, "contract_completed">>})
        \/ IsUnrecorded(f)
        \/ crashes > 0
        \/ \E ph \in {"expand", "contract"} : Fails(NewestOfPhase(g, ph))

(***************************************************************************)
(* A deployment that must not start while the contract of a group is still *)
(* to come forbids contract_pending: the gate passes only when the         *)
(* contract has been applied.  This is what the documentation says; the    *)
(* gate knows no such state, and takes a condition it does not know for    *)
(* one that is not met.                                                    *)
(***************************************************************************)
PendingContractIsForbidden ==
  \A g \in Groups :
    IsGroupKnown(records, g) /\ GatePasses(records, {}, {<<g, "contract_pending">>})
      => NewestOfPhase(g, "contract") = "applied"
=============================================================================
