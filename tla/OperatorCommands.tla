-------------------------- MODULE OperatorCommands --------------------------
(***************************************************************************)
(* The commands an operator or an external executor runs beside apply:     *)
(*   resolve      marks a failed file as skipped                           *)
(*   advance      records how far a phase of a group has come              *)
(*   apply-phase  executes one phase file of a group                       *)
(* resolve takes no lock.                                                  *)
(***************************************************************************)
EXTENDS MigrationSession

Running(c, cmd, at) == pc[c] = at /\ job[c].cmd = cmd

\* Fault: whatever the file's latest status, it is resolved.
ResolveReadAny(c) ==
  /\ Running(c, "resolve", "load")
  /\ LET f == job[c].file
     IN  IF RowsOf(records, f) # {}
           THEN /\ work' = [work EXCEPT ![c] =
                     [file |-> f, sum |-> LatestRow(records, f).sum, status |-> "skipped"]]
                /\ Goto(c, "insert")
           ELSE UNCHANGED work /\ Goto(c, "close")
  /\ UNCHANGED <<dbVars, holder, cli, job, snap, left, blocked, runs, crashes, ran>>

\* Read the file's rows; only a file whose latest row is failed is resolved.
ResolveRead(c) ==
  /\ Running(c, "resolve", "load")
  /\ LET f == job[c].file
     IN  IF RowsOf(records, f) # {} /\ LatestRow(records, f).status = "failed"
           THEN /\ work' = [work EXCEPT ![c] =
                     [file |-> f, sum |-> LatestRow(records, f).sum, status |-> "skipped"]]
                /\ Goto(c, "insert")
           ELSE UNCHANGED work /\ Goto(c, "close")
  /\ UNCHANGED <<dbVars, holder, cli, job, snap, left, blocked, runs, crashes, ran>>

\* The row names neither the phase nor the group of the file.
ResolveInsert(c) ==
  /\ Running(c, "resolve", "insert")
  /\ InsertRow(work[c].file, work[c].sum, "skipped", None, None)
  /\ Goto(c, "close")
  /\ UNCHANGED <<holder, cli, job, snap, left, blocked, work, runs, crashes, ran>>

AdvanceRead(c) ==
  /\ Running(c, "advance", "load")
  /\ LET f == job[c].file
     IN  IF CanAdvanceToPhase(records, GroupOf[f], PhaseOf[f])
           THEN /\ work' = [work EXCEPT ![c] =
                     [file |-> f, sum |-> NoSum, status |-> job[c].status]]
                /\ Goto(c, "insert")
           ELSE UNCHANGED work /\ Goto(c, "close")
  /\ UNCHANGED <<dbVars, holder, cli, job, snap, left, blocked, runs, crashes, ran>>

ApplyPhaseRead(c) ==
  /\ Running(c, "apply-phase", "load")
  /\ LET f == job[c].file
         s == job[c].tree[f]
     IN  IF CanAdvanceToPhase(records, GroupOf[f], PhaseOf[f]) /\ s # None
           THEN Spawn(c, f, s)
           ELSE UNCHANGED <<cli, work>> /\ Goto(c, "close")
  /\ UNCHANGED <<dbVars, holder, job, snap, left, blocked, runs, crashes, ran>>

\* Both advance and apply-phase insert the row of the phase and are done.
PhaseInsert(c) ==
  /\ Running(c, "advance", "insert") \/ Running(c, "apply-phase", "insert")
  /\ LET f == work[c].file
     IN  InsertRow(f, work[c].sum, work[c].status, GroupOf[f], PhaseOf[f])
  /\ Goto(c, "close")
  /\ UNCHANGED <<holder, cli, job, snap, left, blocked, work, runs, crashes, ran>>

OperatorStep(c) ==
  \/ ResolveRead(c)
  \/ ResolveInsert(c)
  \/ AdvanceRead(c)
  \/ ApplyPhaseRead(c)
  \/ PhaseInsert(c)
=============================================================================
