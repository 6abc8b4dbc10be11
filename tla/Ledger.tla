------------------------------- MODULE Ledger -------------------------------
(***************************************************************************)
(* What migraguard promises of a database, whoever works on it and whoever *)
(* dies: a ledger to which only true entries are added, and SQL that is    *)
(* started only where the ledger permits it.  There are no processes, no   *)
(* lock and no reading of a table here: what a command decides, it decides *)
(* on the ledger as it is.                                                 *)
(***************************************************************************)
EXTENDS Naturals, Sequences

CONSTANTS
  Files,
  Sums,
  NoSum,       \* what is noted of a content nobody has seen
  PhaseFiles   \* the files an operator may have executed again at any time

VARIABLES
  entries,  \* the ledger: of which file, which content, with what outcome
  atWork,   \* the <<file, checksum>> whose SQL is at work
  done      \* those whose SQL has ended without error

ledgerVars == <<entries, atWork, done>>

LedgerInit == entries = << >> /\ atWork = {} /\ done = {}

\* The entries about a file that are no mere resolutions of a failure.
Attempts(f) == {k \in DOMAIN entries : entries[k].file = f /\ entries[k].status # "skipped"}

(***************************************************************************)
(* A content may be executed that the file never had before, or any one of *)
(* a file whose last attempt failed.                                       *)
(***************************************************************************)
MayStart(f, s) ==
  \/ \A k \in Attempts(f) : entries[k].sum # s
  \/ \E k \in Attempts(f) :
       entries[k].status = "failed" /\ \A j \in Attempts(f) : j <= k

StartSql(f, s) ==
  /\ f \in PhaseFiles \/ MayStart(f, s)
  /\ atWork' = atWork \cup {<<f, s>>}
  /\ UNCHANGED <<entries, done>>

\* The same content may be at work twice: for a process that died, and again.
EndSql(f, s) ==
  /\ <<f, s>> \in atWork
  /\ atWork' \in {atWork, atWork \ {<<f, s>>}}
  /\ done' \in {done, done \cup {<<f, s>>}}
  /\ UNCHANGED entries

Note(f, s, status) ==
  /\ entries' = Append(entries, [file |-> f, sum |-> s, status |-> status])
  /\ UNCHANGED <<atWork, done>>

\* Only what has been done is noted as applied.
NoteOutcome(f, s, status) ==
  /\ status = "applied" => <<f, s>> \in done
  /\ Note(f, s, status)

\* What an external executor reports is of a phase file, and of no content.
NoteReport(f, status) == f \in PhaseFiles /\ Note(f, NoSum, status)

\* Only a failure that has been noted is resolved.
Resolve(f, s) ==
  /\ \E k \in DOMAIN entries :
       entries[k] = [file |-> f, sum |-> s, status |-> "failed"]
  /\ Note(f, s, "skipped")

LedgerNext ==
  \E f \in Files :
    \/ \E s \in Sums :
         \/ StartSql(f, s)
         \/ EndSql(f, s)
         \/ \E status \in {"applied", "failed"} : NoteOutcome(f, s, status)
    \/ \E status \in {"applied", "failed", "running"} : NoteReport(f, status)
    \/ \E s \in Sums \cup {NoSum} : Resolve(f, s)

LedgerSpec == LedgerInit /\ [][LedgerNext]_ledgerVars
=============================================================================
