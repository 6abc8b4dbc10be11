----------------------------- MODULE GroupState -----------------------------
(***************************************************************************)
(* The state of an expand/contract migration group, derived from the rows  *)
(* of schema_migrations alone.                                             *)
(***************************************************************************)
EXTENDS MigrationRecords

GroupStates ==
  {"not_applied", "expand_applied", "backfill_running", "backfill_failed",
   "backfill_completed", "switch_applied", "contract_ready", "contract_completed"}

PhaseRows(log, g, ph) ==
  {k \in DOMAIN log : log[k].group = g /\ log[k].phase = ph}

\* Status of the latest row of a phase; "none" when the phase has no row.
PhaseStatus(log, g, ph) ==
  LET rows == PhaseRows(log, g, ph)
  IN  IF rows = {} THEN "none" ELSE log[LatestOf(log, rows)].status

\* deriveAllGroupStates lists only the groups that have a row.
IsGroupKnown(log, g) == \E k \in DOMAIN log : log[k].group = g

\* Fault: the switch is looked at before the contract.
DeriveSwitchFirst(log, g) ==
  LET status(ph) == PhaseStatus(log, g, ph)
      done(ph)   == status(ph) = "applied"
  IN  IF ~done("expand") THEN "not_applied"
      ELSE IF done("switch") THEN "contract_ready"
      ELSE IF done("contract") THEN "contract_completed"
      ELSE IF status("backfill") = "running" THEN "backfill_running"
      ELSE IF status("backfill") = "failed" THEN "backfill_failed"
      ELSE IF done("backfill") THEN "backfill_completed"
      ELSE "expand_applied"

DeriveGroupState(log, g) ==
  LET status(ph) == PhaseStatus(log, g, ph)
      done(ph)   == status(ph) = "applied"
  IN  IF ~done("expand") THEN "not_applied"
      ELSE IF done("contract") THEN "contract_completed"
      ELSE IF done("switch") THEN "contract_ready"
      ELSE IF status("backfill") = "running" THEN "backfill_running"
      ELSE IF status("backfill") = "failed" THEN "backfill_failed"
      ELSE IF done("backfill") THEN "backfill_completed"
      ELSE "expand_applied"

IsGroupOpen(log, g) ==
  DeriveGroupState(log, g) \notin {"contract_completed", "not_applied"}

\* A prerequisite may be applied, or not in the table.
Unneeded == {"none", "applied"}

\* Fault: contract asks for the switch alone.
CanAdvancePastBackfill(log, g, ph) ==
  \/ ph = "expand"
  \/ /\ PhaseStatus(log, g, "expand") = "applied"
     /\ ph = "switch" => PhaseStatus(log, g, "backfill") \in Unneeded
     /\ ph = "contract" => PhaseStatus(log, g, "switch") \in Unneeded

(***************************************************************************)
(* canAdvanceToPhase: expand must be applied; a later prerequisite counts  *)
(* as met when it has no row at all.                                       *)
(***************************************************************************)
CanAdvanceToPhase(log, g, ph) ==
  \/ ph = "expand"
  \/ /\ PhaseStatus(log, g, "expand") = "applied"
     /\ ph \in {"switch", "contract"} => PhaseStatus(log, g, "backfill") \in Unneeded
     /\ ph = "contract" => PhaseStatus(log, g, "switch") \in Unneeded
=============================================================================
