-------------------------- MODULE MigrationRecords --------------------------
(***************************************************************************)
(* The schema_migrations table as the program reads it.                    *)
(*                                                                         *)
(* The table is a sequence of rows in the order they were inserted.  A row *)
(* has a file name, a checksum, a status, the time of its insertion, and   *)
(* (for the phase files of a migration group) a group and a phase.  Rows   *)
(* are read ORDER BY applied_at; the database's clock does not go back, so *)
(* that order is the order of insertion.                                   *)
(***************************************************************************)
EXTENDS Naturals, Sequences, FiniteSets

Phases == {"expand", "backfill", "switch", "contract"}

Statuses == {"applied", "failed", "skipped", "running"}

\* The rows of a file, as indices into the log.
RowsOf(log, f) == {k \in DOMAIN log : log[k].file = f}

(***************************************************************************)
(* The latest of a nonempty set of rows.  The code reduces over the rows   *)
(* with a strict >, so of several rows with the greatest applied_at the    *)
(* first one read wins, not the one inserted last.                         *)
(***************************************************************************)
LatestOf(log, rows) ==
  CHOOSE k \in rows :
    \A j \in rows : \/ log[j].at < log[k].at
                    \/ log[j].at = log[k].at /\ k <= j

LatestRow(log, f) == log[LatestOf(log, RowsOf(log, f))]

\* Fault: only the versions that were applied count.
PastAppliedChecksums(log, f) ==
  {log[k].sum : k \in {j \in RowsOf(log, f) \ {LatestOf(log, RowsOf(log, f))} :
                         log[j].status = "applied"}}

\* Every checksum the file was ever recorded with, but for its latest row's.
PastChecksums(log, f) ==
  {log[k].sum : k \in RowsOf(log, f) \ {LatestOf(log, RowsOf(log, f))}}

\* The row of f inserted last, whatever the clock said.
NewestRow(log, f) == log[CHOOSE k \in RowsOf(log, f) : \A j \in RowsOf(log, f) : j <= k]
=============================================================================
