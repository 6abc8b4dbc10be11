----------------------------- MODULE Migraguard -----------------------------
(***************************************************************************)
(* The commands of migraguard at work on one database: any number of       *)
(* clients, each applying a checkout, resolving a failure, advancing a     *)
(* group or executing one of its phases, with the crashes of clients       *)
(* between any two of their steps.                                         *)
(***************************************************************************)
EXTENDS Apply, OperatorCommands

Owners == Clients \cup {None}

SqlEndsOf(o) == \E e \in cli : e.owner = o /\ SqlEnds(e)

\* Every command has been run to its end, and no other may be started.
Finished ==
  /\ runs = MaxRuns
  /\ cli = {}
  /\ \A c \in Clients : pc[c] = "idle"
  /\ UNCHANGED vars

Step(c) == Close(c) \/ ApplyStep(c) \/ OperatorStep(c)

Next ==
  \/ \E c \in Clients :
       \/ \E j \in Jobs : Start(c, j)
       \/ Acquire(c)
       \/ WaitTimeout(c)
       \/ Step(c)
       \/ Crash(c)
  \/ \E o \in Owners : SqlEndsOf(o)
  \/ Finished

Spec == Init /\ [][Next]_vars

(***************************************************************************)
(* A command that is not waiting takes its next step, a CLI process comes  *)
(* to an end, and the lock manager's queue does not pass over a waiter     *)
(* forever.  Nobody has to start a command, and nothing has to crash.      *)
(***************************************************************************)
Fairness ==
  /\ \A c \in Clients : WF_vars(Step(c)) /\ SF_vars(Acquire(c))
  /\ \A o \in Owners : WF_vars(SqlEndsOf(o))

FairSpec == Spec /\ Fairness

-----------------------------------------------------------------------------
(* The type of the state. *)
TypeOK ==
  /\ records \in Seq(Row)
  /\ now \in Nat
  /\ holder \in Owners
  /\ cli \subseteq [owner : Owners, file : Files, sum : Sums]
  /\ pc \in [Clients -> PCs]
  /\ job \in [Clients -> Jobs \cup {None}]
  /\ snap \in [Clients -> Nat]
  /\ left \in [Clients -> SUBSET Files]
  /\ blocked \in [Clients -> SUBSET Files]
  /\ work \in [Clients -> Work \cup {None}]
  /\ runs \in Nat
  /\ crashes \in Nat
  /\ ran \subseteq Files \X Sums

\* A command that is past its wait for the advisory lock.
IsInLock(c) == pc[c] \notin {"idle", "lock"} /\ Locks(c)

(***************************************************************************)
(* On a dialect with an advisory lock no two apply, advance or apply-phase *)
(* commands are past acquireAdvisoryLock at once, crashes, timeouts and    *)
(* lock-free resolves notwithstanding.                                     *)
(***************************************************************************)
MutualExclusion ==
  HasLock => \A c, d \in Clients : IsInLock(c) /\ IsInLock(d) => c = d

(***************************************************************************)
(* The rows an apply read at its start stay good for every file it has yet *)
(* to visit: the only rows about them that it has not seen are those of a  *)
(* resolve.  This is what lets the pass decide on one read of the table.   *)
(***************************************************************************)
IsMidPass(c) == pc[c] \in {"loop", "sql", "insert"} /\ job[c].cmd = "apply"

FreshView ==
  HasLock =>
    \A c \in Clients : IsMidPass(c) =>
      \A k \in DOMAIN records :
        k > snap[c] /\ records[k].file \in left[c] => records[k].status = "skipped"

(***************************************************************************)
(* No row claims a success that did not happen: the very content of an     *)
(* applied row, unless an external executor reported it, ran without error *)
(* before the row was inserted.                                            *)
(***************************************************************************)
AppliedWasRun ==
  \A k \in DOMAIN records :
    records[k].status = "applied" /\ records[k].sum # NoSum
      => <<records[k].file, records[k].sum>> \in ran

-----------------------------------------------------------------------------
(* Steps in which the SQL of a file starts. *)

\* The pass of an apply hands a file to the CLI.
ApplyStarts(c) == pc[c] = "loop" /\ pc'[c] = "sql"

\* So does an apply or an apply-phase.
AnyStarts(c) == pc[c] # "sql" /\ pc'[c] = "sql"

StartedFile(c) == work'[c].file
StartedSum(c)  == work'[c].sum

HasRow(f) == RowsOf(records, f) # {}

IsNewest(f, status) == HasRow(f) /\ NewestRow(records, f).status = status

(***************************************************************************)
(* apply does not execute what the table, as it is when the SQL starts,    *)
(* already has as the file's latest applied version.                       *)
(***************************************************************************)
NothingIsRepeated ==
  [][\A c \in Clients : ApplyStarts(c) =>
       LET f == StartedFile(c)
       IN  IsNewest(f, "applied") => NewestRow(records, f).sum # StartedSum(c)]_vars

(***************************************************************************)
(* While the latest version of a file is applied, apply executes no        *)
(* version of it that was recorded before, however old the checkout.       *)
(***************************************************************************)
NoRevertOfApplied ==
  [][\A c \in Clients : ApplyStarts(c) =>
       LET f == StartedFile(c)
       IN  IsNewest(f, "applied") =>
             \A k \in RowsOf(records, f) : records[k].sum # StartedSum(c)]_vars

(***************************************************************************)
(* The files that must be settled before f, of those apply executes as     *)
(* soon as it comes to them (safe files and expands): every earlier one in *)
(* the linear model, those f depends on in the DAG model.                  *)
(***************************************************************************)
Before(tree, f) ==
  {g \in Scan(tree) :
     /\ PhaseOf[g] \in {None, "expand"}
     /\ IF Dag THEN g \in TransitiveDependencies(GraphOf(tree), f)
               ELSE Position(g) < Position(f)}

\* In the DAG model, no file of a checkout depends on itself.
DependenciesAreAcyclic ==
  Dag => \A j \in Jobs : j.cmd = "apply" => IsAcyclic(GraphOf(j.tree))

(***************************************************************************)
(* A failed file blocks what comes after it: when apply starts the SQL of  *)
(* a file, every file before it is applied or resolved in the table, or is *)
(* one that the pass has left alone because of an open group (which does   *)
(* not block what depends on it).                                          *)
(***************************************************************************)
IsDone(f) == IsNewest(f, "applied") \/ IsNewest(f, "skipped")

FailureBlocks ==
  [][\A c \in Clients : ApplyStarts(c) =>
       \A g \in Before(job[c].tree, StartedFile(c)) :
         IsDone(g) \/ IsHeldByOpenGroup(c, g)]_vars

(***************************************************************************)
(* In the DAG model only the dependents of a file in error, and of an open *)
(* group, wait: when a pass ends, every safe file and expand of the        *)
(* checkout is settled in the table at its version, or at some time since  *)
(* the pass began it or a dependency of it was failed or applied at        *)
(* another version, or a group it depends on was open.                     *)
(***************************************************************************)
IsSettled(log, tree, f) ==
  /\ RowsOf(log, f) # {}
  /\ LET newest == NewestRow(log, f)
     IN  newest.status = "skipped" \/ (newest.status = "applied" /\ newest.sum = tree[f])

\* The table as it has been since the pass of client c began.
LogsSince(c) == {SubSeq(records, 1, n) : n \in snap[c]..Len(records)}

WasInError(c, f) ==
  \E log \in LogsSince(c) : RowsOf(log, f) # {} /\ ~IsSettled(log, job[c].tree, f)

WasOpen(c, f) ==
  GroupOf[f] # None /\ \E log \in LogsSince(c) : IsGroupOpen(log, GroupOf[f])

IndependentFilesProceed ==
  [][\A c \in Clients : Dag /\ IsMidPass(c) /\ pc'[c] = "close" =>
       LET tree == job[c].tree
       IN  \A f \in {g \in Scan(tree) : PhaseOf[g] \in {None, "expand"}} :
             \/ IsSettled(records, tree, f)
             \/ \E g \in {f} \cup TransitiveDependencies(GraphOf(tree), f) :
                  WasInError(c, g)
             \/ \E g \in Successors(GraphOf(tree), f) : WasOpen(c, g)]_vars

(***************************************************************************)
(* A safe file that depends on a phase of a group waits while the group is *)
(* open: if its SQL starts when the table has the group open, the pass has *)
(* itself opened the group since it began, by applying its expand or, when *)
(* the contract was applied before, by failing in it.                      *)
(***************************************************************************)
DependentsOfOpenGroupsWait ==
  [][\A c \in Clients : ApplyStarts(c) /\ GroupOf[StartedFile(c)] = None =>
       \A g \in Successors(GraphOf(job[c].tree), StartedFile(c)) :
         GroupOf[g] # None /\ IsGroupOpen(records, GroupOf[g]) =>
           \E k \in snap[c] + 1 .. Len(records) :
             /\ records[k].file \in Scan(job[c].tree) \ left[c]
             /\ \/ /\ k \in PhaseRows(records, GroupOf[g], "expand")
                   /\ records[k].status = "applied"
                \/ /\ k \in PhaseRows(records, GroupOf[g], "contract")
                   /\ records[k].status = "failed"
                   /\ \E j \in PhaseRows(records, GroupOf[g], "contract") :
                        j <= snap[c] /\ records[j].status = "applied"]_vars

\* Before a switch or contract file, a checkout has the expand of its group.
ExpandsComeFirst ==
  \A j \in Jobs : j.cmd = "apply" =>
    \A f \in Scan(j.tree) : PhaseOf[f] \in {"switch", "contract"} =>
      \E e \in Before(j.tree, f) : GroupOf[e] = GroupOf[f] /\ PhaseOf[e] = "expand"

\* All expands of a group come before its switches, and these before its contracts.
PhasesAreInOrder ==
  \A j \in Jobs : j.cmd = "apply" =>
    \A e, f \in Scan(j.tree) :
      /\ GroupOf[e] = GroupOf[f]
      /\ <<PhaseOf[e], PhaseOf[f]>> \in {<<"expand", "switch">>, <<"switch", "contract">>}
      => IF Dag THEN e \in TransitiveDependencies(GraphOf(j.tree), f)
                ELSE Position(e) < Position(f)

(***************************************************************************)
(* The SQL of a switch or contract file starts only when the table has the *)
(* group's expand applied, no backfill at work or failed and, for the      *)
(* contract, no switch short of applied.                                   *)
(***************************************************************************)
NewestOfPhase(g, ph) ==
  LET rows == PhaseRows(records, g, ph)
  IN  IF rows = {} THEN "none"
      ELSE records[CHOOSE k \in rows : \A j \in rows : j <= k].status

PhasePrerequisites ==
  [][\A c \in Clients : AnyStarts(c) =>
       LET g  == GroupOf[StartedFile(c)]
           ph == PhaseOf[StartedFile(c)]
       IN  ph \in {"switch", "contract"} =>
             /\ NewestOfPhase(g, "expand") = "applied"
             /\ NewestOfPhase(g, "backfill") \in Unneeded
             /\ ph = "contract" => NewestOfPhase(g, "switch") \in Unneeded]_vars

(***************************************************************************)
(* A release that has a switch never loses its old structure before the    *)
(* switch: apply starts the SQL of a contract only with the group's switch *)
(* applied, though apply passes over a gated switch and goes on.           *)
(***************************************************************************)
ContractAfterSwitch ==
  [][\A c \in Clients : ApplyStarts(c) /\ PhaseOf[StartedFile(c)] = "contract" =>
       LET g == GroupOf[StartedFile(c)]
       IN  (\E f \in Scan(job[c].tree) : GroupOf[f] = g /\ PhaseOf[f] = "switch")
             => NewestOfPhase(g, "switch") = "applied"]_vars

-----------------------------------------------------------------------------
(* A command that was started comes to its end. *)
CommandsEnd == \A c \in Clients : pc[c] # "idle" ~> pc[c] = "idle"
=============================================================================
