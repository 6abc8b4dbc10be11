-------------------------------- MODULE Apply --------------------------------
(***************************************************************************)
(* migraguard apply: one pass over the files of a checkout, in file order  *)
(* (linear model) or in topological order (DAG model), each one executed,  *)
(* passed over, blocked or refused by what schema_migrations says of it.   *)
(*                                                                         *)
(* The pass decides on the rows it read at its start.  Only the gate of    *)
(* the phases after expand reads the table again.                          *)
(***************************************************************************)
EXTENDS MigrationSession, DepGraph

CONSTANTS
  Dag,        \* the repository's model: TRUE for DAG, FALSE for linear
  DependsOn   \* pairs <<f, g>>: file f depends on file g where both exist

ASSUME GraphAssumption == Dag \in BOOLEAN /\ DependsOn \subseteq Files \X Files

Position(f) == CHOOSE i \in DOMAIN FileOrder : FileOrder[i] = f

IsFirstOf(f, S) == f \in S /\ \A g \in S : Position(f) <= Position(g)

TailOf(S) == CHOOSE f \in S : \A g \in S : Position(g) <= Position(f)

\* The files of a checkout, and their dependency graph.
Scan(tree) == {f \in Files : tree[f] # None}

GraphOf(tree) == [node |-> Scan(tree),
                  edge |-> DependsOn \cap (Scan(tree) \X Scan(tree))]

\* The rows client c decides on.
Seen(c) == SubSeq(records, 1, snap[c])

\* Fault: the files of the DAG model are taken in file order, too.
IsNextByName(c, f) == IsFirstOf(f, left[c])

(***************************************************************************)
(* Client c visits f next.  Kahn's algorithm with a sorted queue emits at  *)
(* each step the first file with no unemitted dependency; on a cycle       *)
(* topologicalSort returns null and apply falls back to file order.        *)
(***************************************************************************)
IsNext(c, f) ==
  LET G == GraphOf(job[c].tree)
  IN  IsFirstOf(f, IF Dag /\ IsAcyclic(G) THEN Ready(G, left[c]) ELSE left[c])

Editable(c) ==
  LET tree == job[c].tree
  IN  IF Dag THEN LeafNodes(GraphOf(tree)) ELSE {TailOf(Scan(tree))}

Applying(c, at) == pc[c] = at /\ job[c].cmd = "apply"

LoadRecords(c) ==
  /\ Applying(c, "load")
  /\ LET scanned == Scan(job[c].tree)
     IN  IF scanned = {}
           THEN Goto(c, "close") /\ UNCHANGED <<snap, left>>
           ELSE /\ snap' = [snap EXCEPT ![c] = Len(records)]
                /\ left' = [left EXCEPT ![c] = scanned]
                /\ Goto(c, "loop")
  /\ UNCHANGED <<dbVars, holder, cli, job, blocked, work, runs, crashes, ran>>

-----------------------------------------------------------------------------
(* What the pass does with the file it visits *)

\* A phase whose group has a row, and whose prerequisites are not met by now.
IsGated(f) ==
  /\ PhaseOf[f] \notin {None, "expand"}
  /\ IsGroupKnown(records, GroupOf[f])
  /\ ~CanAdvanceToPhase(records, GroupOf[f], PhaseOf[f])

\* Fault: the edges are taken the other way round.
IsHeldByOpenDependent(c, f) ==
  /\ Dag
  /\ GroupOf[f] = None
  /\ \E g \in Predecessors(GraphOf(job[c].tree), f) :
       GroupOf[g] # None /\ IsGroupOpen(Seen(c), GroupOf[g])

\* A safe file that depends directly on a group open when the pass began.
IsHeldByOpenGroup(c, f) ==
  /\ Dag
  /\ GroupOf[f] = None
  /\ \E g \in Successors(GraphOf(job[c].tree), f) :
       GroupOf[g] # None /\ IsGroupOpen(Seen(c), GroupOf[g])

IsPassedOver(c, f) ==
  \/ f \in blocked[c]
  \/ PhaseOf[f] = "backfill"
  \/ IsGated(f)
  \/ IsHeldByOpenGroup(c, f)

\* processFile's verdict on a file that is not passed over.
Verdict(c, f) ==
  LET sum == job[c].tree[f]
      latest == LatestRow(Seen(c), f)
      execIfEditable == IF f \in Editable(c) THEN "execute" ELSE "refuse"
  IN  IF RowsOf(Seen(c), f) = {} THEN "execute"
      ELSE IF latest.status = "skipped" THEN "settled"
      ELSE IF latest.status = "failed" THEN execIfEditable
      ELSE IF latest.sum = sum THEN "settled"
      ELSE IF sum \in PastChecksums(Seen(c), f) THEN "refuse"
      ELSE execIfEditable

\* Fault: the linear pass goes on, the DAG pass blocks direct dependents only.
AfterErrorBlocksLittle(c, f) ==
  /\ blocked' = [blocked EXCEPT ![c] = @ \cup Predecessors(GraphOf(job[c].tree), f)]
  /\ Goto(c, "loop")

\* Fault: an error ends the pass in the DAG model, too.
AfterErrorStops(c, f) == UNCHANGED blocked /\ Goto(c, "close")

(***************************************************************************)
(* After an error the linear pass ends; the DAG pass goes on with the      *)
(* files that do not depend on the one in error.                           *)
(***************************************************************************)
AfterError(c, f) ==
  IF Dag
    THEN /\ blocked' = [blocked EXCEPT
                          ![c] = @ \cup TransitiveDependents(GraphOf(job[c].tree), f)]
         /\ Goto(c, "loop")
    ELSE UNCHANGED blocked /\ Goto(c, "close")

Visited(c, f) == left' = [left EXCEPT ![c] = @ \ {f}]

\* Fault: the pass does not move past a file it has nothing to do with.
PassOverInPlace(c) ==
  /\ Applying(c, "loop")
  /\ \E f \in left[c] :
       /\ IsNext(c, f)
       /\ IsPassedOver(c, f) \/ Verdict(c, f) = "settled"
  /\ UNCHANGED vars

PassOver(c) ==
  /\ Applying(c, "loop")
  /\ \E f \in left[c] :
       /\ IsNext(c, f)
       /\ IsPassedOver(c, f) \/ Verdict(c, f) = "settled"
       /\ Visited(c, f)
  /\ UNCHANGED <<dbVars, holder, cli, pc, job, snap, blocked, work, runs, crashes, ran>>

Refuse(c) ==
  /\ Applying(c, "loop")
  /\ \E f \in left[c] :
       /\ IsNext(c, f)
       /\ ~IsPassedOver(c, f)
       /\ Verdict(c, f) = "refuse"
       /\ Visited(c, f)
       /\ AfterError(c, f)
  /\ UNCHANGED <<dbVars, holder, cli, job, snap, work, runs, crashes, ran>>

Execute(c) ==
  /\ Applying(c, "loop")
  /\ \E f \in left[c] :
       /\ IsNext(c, f)
       /\ ~IsPassedOver(c, f)
       /\ Verdict(c, f) = "execute"
       /\ Spawn(c, f, job[c].tree[f])
  /\ UNCHANGED <<dbVars, holder, job, snap, left, blocked, runs, crashes, ran>>

RecordResult(c) ==
  /\ Applying(c, "insert")
  /\ LET f == work[c].file
     IN  /\ InsertRow(f, work[c].sum, work[c].status, GroupOf[f], PhaseOf[f])
         /\ Visited(c, f)
         /\ IF work[c].status = "failed"
              THEN AfterError(c, f)
              ELSE UNCHANGED blocked /\ Goto(c, "loop")
         /\ work' = [work EXCEPT ![c] = None]
  /\ UNCHANGED <<holder, cli, job, snap, runs, crashes, ran>>

Finish(c) ==
  /\ Applying(c, "loop")
  /\ left[c] = {}
  /\ Goto(c, "close")
  /\ UNCHANGED <<dbVars, holder, cli, job, snap, left, blocked, work, runs, crashes, ran>>

ApplyStep(c) ==
  \/ LoadRecords(c)
  \/ PassOver(c)
  \/ Refuse(c)
  \/ Execute(c)
  \/ RecordResult(c)
  \/ Finish(c)
=============================================================================
