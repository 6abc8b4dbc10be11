-------------------------- MODULE DocumentedClaims --------------------------
(***************************************************************************)
(* What the repository's documentation says of the commands, as properties *)
(* of Migraguard.  Each of these is refuted by what the code does; the     *)
(* README tells how.                                                       *)
(***************************************************************************)
EXTENDS Migraguard

(***************************************************************************)
(* Regression detection: apply never executes a checksum that the file     *)
(* was recorded with before its latest row.  The retry of a failed file    *)
(* does not look at past checksums.                                        *)
(***************************************************************************)
RevertsAreRefused ==
  [][\A c \in Clients : ApplyStarts(c) =>
       LET f == StartedFile(c)
       IN  HasRow(f) /\ NewestRow(records, f).sum # StartedSum(c) =>
             \A k \in RowsOf(records, f) : records[k].sum # StartedSum(c)]_vars
=============================================================================
