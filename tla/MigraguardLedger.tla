-------------------------- MODULE MigraguardLedger --------------------------
(***************************************************************************)
(* The commands of Migraguard, on a dialect with an advisory lock, keep    *)
(* the Ledger: the rows without their times and groups are its entries,    *)
(* the CLI processes, whoever they belong to, are the SQL at work.         *)
(***************************************************************************)
EXTENDS Migraguard

Entry(r) == [file |-> r.file, sum |-> r.sum, status |-> r.status]

Entries == [k \in DOMAIN records |-> Entry(records[k])]

AtWork == {<<e.file, e.sum>> : e \in cli}

L == INSTANCE Ledger WITH
       PhaseFiles <- {f \in Files : PhaseOf[f] # None},
       entries <- Entries, atWork <- AtWork, done <- ran

(***************************************************************************)
(* Decisions taken on an old reading of the table, by processes that may   *)
(* die anywhere, come to the same as decisions taken on the table itself:  *)
(* no content is executed again unless the last attempt failed, no success *)
(* is recorded that did not happen, and nothing is resolved but a failure. *)
(***************************************************************************)
KeepsLedger == L!LedgerSpec
=============================================================================
