------------------------------- MODULE Status -------------------------------
(***************************************************************************)
(* migraguard status: for each file of a checkout, what the table says of  *)
(* it.  It is what an operator looks at before an apply and after it.      *)
(***************************************************************************)
EXTENDS Migraguard

\* Fault: a row of the same version is looked for before the latest.
StatusByVersion(log, tree, f) ==
  LET latest == LatestRow(log, f)
  IN  IF RowsOf(log, f) = {} THEN "pending"
      ELSE IF \E k \in RowsOf(log, f) : log[k].sum = tree[f] THEN "applied"
      ELSE IF latest.status \in {"failed", "skipped"} THEN latest.status
      ELSE "changed"

StatusOf(log, tree, f) ==
  LET latest == LatestRow(log, f)
  IN  IF RowsOf(log, f) = {} THEN "pending"
      ELSE IF latest.status \in {"failed", "skipped"} THEN latest.status
      ELSE IF latest.sum # tree[f] THEN "changed"
      ELSE "applied"

-----------------------------------------------------------------------------
IsResolvedSince(c, f) ==
  \E k \in snap[c] + 1 .. Len(records) :
    records[k].file = f /\ records[k].status = "skipped"

\* What is shown as settled is not executed.
StartIsShown(c) ==
  ApplyStarts(c) =>
    LET f == StartedFile(c)
    IN  \/ StatusOf(records, job[c].tree, f) \in {"pending", "failed", "changed"}
        \/ IsResolvedSince(c, f)

\* A pass that meets no error leaves no file to be done.
EndIsShown(c) ==
  pc[c] = "loop" /\ pc'[c] = "close" /\ left[c] = {} =>
    \A f \in Scan(job[c].tree) :
      StatusOf(records, job[c].tree, f) \in {"applied", "skipped"}

(***************************************************************************)
(* In the linear model status and apply agree on every table, though they  *)
(* read it with code of their own and apply reads it before it waits for   *)
(* the SQL: a file shown as applied or skipped is not executed (unless it  *)
(* was resolved while the pass was under way), and when a pass ends        *)
(* without error every file is shown as applied or skipped.                *)
(***************************************************************************)
StatusForetells == [][\A c \in Clients : StartIsShown(c) /\ EndIsShown(c)]_vars
=============================================================================
