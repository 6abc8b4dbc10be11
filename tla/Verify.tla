------------------------------- MODULE Verify -------------------------------
(***************************************************************************)
(* migraguard verify beside the commands of Migraguard: it copies the      *)
(* database to a shadow, executes there, twice, the files of a checkout    *)
(* that are not in schema_migrations yet, and reports which of them can be *)
(* executed again.  It takes no lock, and reads the table after the copy.  *)
(*                                                                         *)
(* Here the SQL of a file does what its content says: it fails when what   *)
(* it uses has not been executed, and it behaves as Again says where it    *)
(* has been executed before.                                               *)
(***************************************************************************)
EXTENDS Migraguard

CONSTANTS
  Uses,         \* the <<file, checksum>> without which a content fails
  Again,        \* what a content does where it has been executed before
  VerifyTrees,  \* the checkouts that are verified
  MaxVerifies   \* bound: verifications started in all

Contents == Files \X Sums

\* add_rows: it inserts its rows once more, which no dump of a schema shows.
ASSUME ContentsAssumption ==
  /\ Uses \in [Sums -> SUBSET Contents]
  /\ Again \in [Sums -> {"same", "error", "drift", "add_rows"}]
  /\ VerifyTrees \subseteq Trees
  /\ MaxVerifies \in Nat

VARIABLES
  at,        \* where the verification is
  checkout,  \* the checkout that it, or the last one, verifies; None after a failure
  shadow,    \* the contents executed in the shadow database, or None
  pending,   \* the files it has still to try
  report,    \* what it says of each file
  verifies,  \* verifications started so far
  cloned,    \* history: what ran, and the rows, when the database was copied
  read,      \* history: the number of rows when the table was read
  drifted    \* history: contents that changed the database a second time

verifyVars == <<at, checkout, shadow, pending, report, verifies, cloned, read>>
allVars == <<vars, verifyVars, drifted>>

Verdicts == {"untried", "passed", "first_error", "second_error", "drift"}

Untried == [f \in Files |-> "untried"]

VerifyInit ==
  /\ Init
  /\ at = "idle"
  /\ checkout = None
  /\ shadow = None
  /\ pending = {}
  /\ report = Untried
  /\ verifies = 0
  /\ cloned = [ran |-> {}, rows |-> 0]
  /\ read = 0
  /\ drifted = {}

-----------------------------------------------------------------------------
(* The SQL of a file on a database where the contents D have been executed *)

Works(D, f, s) ==
  /\ Uses[s] \subseteq D
  /\ <<f, s>> \in D => Again[s] # "error"

\* It changes what a dump of the schema shows.
ChangesSchema(D, f, s) == <<f, s>> \notin D \/ Again[s] = "drift"

-----------------------------------------------------------------------------
(* verify *)

\* Every file but the backfills, which their executor runs.
Verifiable(tree) == {f \in Scan(tree) : PhaseOf[f] # "backfill"}

\* verify --all begins with an empty shadow, verify with a copy.
StartVerify(tree, all) ==
  /\ at = "idle"
  /\ verifies < MaxVerifies
  /\ Scan(tree) # {}
  /\ verifies' = verifies + 1
  /\ checkout' = tree
  /\ shadow' = {}
  /\ report' = Untried
  /\ pending' = IF all THEN Verifiable(tree) ELSE {}
  /\ at' = IF all THEN "first" ELSE "clone"
  /\ cloned' = [ran |-> {}, rows |-> 0]
  /\ read' = 0

\* Fault: what was dumped does not get into the shadow.
CloneNothing ==
  /\ at = "clone"
  /\ cloned' = [ran |-> ran, rows |-> Len(records)]
  /\ at' = "read"
  /\ UNCHANGED <<checkout, shadow, pending, report, verifies, read>>

CloneSource ==
  /\ at = "clone"
  /\ shadow' = ran
  /\ cloned' = [ran |-> ran, rows |-> Len(records)]
  /\ at' = "read"
  /\ UNCHANGED <<checkout, pending, report, verifies, read>>

\* Fault: any row counts, a failure's too.
IsRecorded(f) == RowsOf(records, f) # {}

\* getAppliedFiles goes by the name: of a hotfixed file the old row counts.
IsApplied(f) == \E k \in RowsOf(records, f) : records[k].status \in {"applied", "skipped"}

\* Where the table cannot be read, every file is taken for pending.
ReadApplied ==
  /\ at = "read"
  /\ \/ pending' = {f \in Verifiable(checkout) : ~IsApplied(f)}
     \/ pending' = Verifiable(checkout)
  /\ read' = Len(records)
  /\ at' = "first"
  /\ UNCHANGED <<checkout, shadow, report, verifies, cloned>>

Says(f, verdict) ==
  /\ report' = [report EXCEPT ![f] = verdict]
  /\ pending' = pending \ {f}

\* The files are tried in file order, in the DAG model too.
FirstApply ==
  /\ at = "first"
  /\ \E f \in pending :
       /\ IsFirstOf(f, pending)
       /\ LET s == checkout[f]
          IN  IF Works(shadow, f, s)
                THEN /\ shadow' = shadow \cup {<<f, s>>}
                     /\ at' = "second"
                     /\ UNCHANGED <<pending, report>>
                ELSE Says(f, "first_error") /\ UNCHANGED <<shadow, at>>
  /\ UNCHANGED <<checkout, verifies, cloned, read>>

\* Fault: how the second execution ended is not looked at.
VerdictOnDumps(D, f, s) == IF ChangesSchema(D, f, s) THEN "drift" ELSE "passed"

\* Fault: the dumps before and after are not compared.
VerdictOnErrors(D, f, s) == IF Works(D, f, s) THEN "passed" ELSE "second_error"

\* The second execution, between two dumps of the schema.
SecondVerdict(D, f, s) ==
  IF ~Works(D, f, s) THEN "second_error"
  ELSE IF ChangesSchema(D, f, s) THEN "drift"
  ELSE "passed"

SecondApply ==
  /\ at = "second"
  /\ \E f \in pending :
       /\ IsFirstOf(f, pending)
       /\ Says(f, SecondVerdict(shadow, f, checkout[f]))
  /\ at' = "first"
  /\ UNCHANGED <<checkout, shadow, verifies, cloned, read>>

\* A dump or a restore fails: the command does, and nothing is reported.
GiveUp ==
  /\ at \in {"clone", "second"}
  /\ at' = "drop"
  /\ checkout' = None
  /\ report' = Untried
  /\ pending' = {}
  /\ UNCHANGED <<shadow, verifies, cloned, read>>

DropShadow ==
  /\ \/ at = "drop"
     \/ at = "first" /\ pending = {}
  /\ at' = "idle"
  /\ shadow' = None
  /\ UNCHANGED <<checkout, pending, report, verifies, cloned, read>>

VerifierStep ==
  \/ \E tree \in VerifyTrees, all \in BOOLEAN : StartVerify(tree, all)
  \/ CloneSource
  \/ ReadApplied
  \/ FirstApply
  \/ SecondApply
  \/ GiveUp
  \/ DropShadow

-----------------------------------------------------------------------------
(* The database and the other commands *)

SqlDoesWhatItSays(e) ==
  /\ SqlEnds(e)
  /\ LET works == Works(ran, e.file, e.sum)
     IN  /\ ran' = IF works THEN ran \cup {<<e.file, e.sum>>} ELSE ran
         /\ e.owner # None => (work'[e.owner].status = "applied" <=> works)
  /\ drifted' = IF <<e.file, e.sum>> \in ran /\ Again[e.sum] = "drift"
                  THEN drifted \cup {<<e.file, e.sum>>} ELSE drifted

ClientStep ==
  /\ \E c \in Clients :
       \/ \E j \in Jobs : Start(c, j)
       \/ Acquire(c)
       \/ WaitTimeout(c)
       \/ Step(c)
       \/ Crash(c)
  /\ UNCHANGED drifted

VerifyNext ==
  \/ VerifierStep /\ UNCHANGED <<vars, drifted>>
  \/ ClientStep /\ UNCHANGED verifyVars
  \/ (\E e \in cli : SqlDoesWhatItSays(e)) /\ UNCHANGED verifyVars
  \/ Finished /\ at = "idle" /\ UNCHANGED <<verifyVars, drifted>>

VerifySpec == VerifyInit /\ [][VerifyNext]_allVars

-----------------------------------------------------------------------------
(***************************************************************************)
(* A content that verify has passed does not change the schema when it is  *)
(* executed again, be it because the row of its first execution was lost   *)
(* with the process that was to insert it.                                 *)
(***************************************************************************)
PassedNeverDrifts ==
  \A f \in Files : report[f] = "passed" => <<f, checkout[f]>> \notin drifted

(***************************************************************************)
(* A green verify is a rehearsal: whatever has been executed since the     *)
(* copy, and whatever row a crash has lost, no apply of the checkout fails *)
(* at a file that verify passed, unless a file before it was resolved: in  *)
(* the shadow that one may have worked.                                    *)
(***************************************************************************)
FailsNow(c) ==
  pc[c] = "sql" /\ pc'[c] = "insert" /\ work'[c].status = "failed"

SucceedsNow(c) ==
  pc[c] = "sql" /\ pc'[c] = "insert" /\ work'[c].status = "applied"

IsRehearsed(c) == job[c].cmd = "apply" /\ job[c].tree = checkout

GreenMeansGo ==
  [][\A c \in Clients : FailsNow(c) /\ IsRehearsed(c) =>
       LET f == work[c].file
       IN  (\A g \in Before(checkout, f) : ~IsNewest(g, "skipped"))
             => report[f] # "passed"]_allVars

(***************************************************************************)
(* An alarm is no false one: a file that fails in the shadow at once does  *)
(* not succeed in an apply of the same checkout while nothing but contents *)
(* of the checkout has been executed since the copy, unless a row was      *)
(* inserted between the copy, the reading of the table and the start of    *)
(* that apply, or a file before it was resolved: its SQL, which a crash    *)
(* has left without a client, may still have been at work.                 *)
(***************************************************************************)
ContentsOf(tree) == {<<f, tree[f]>> : f \in Scan(tree)}

IsUndisturbed(c) ==
  /\ ran \ cloned.ran \subseteq ContentsOf(checkout)
  /\ cloned.rows = read /\ read = snap[c]

AlarmsAreTrue ==
  [][\A c \in Clients : SucceedsNow(c) /\ IsRehearsed(c) /\ IsUndisturbed(c) =>
       LET f == work[c].file
       IN  (\A g \in Before(checkout, f) : ~IsNewest(g, "skipped"))
             => report[f] # "first_error"]_allVars

(***************************************************************************)
(* apply executes nothing for the first time that a finished verify of the *)
(* checkout has not tried: whatever was recorded meanwhile, the file was   *)
(* tried or has been applied or resolved before.                           *)
(***************************************************************************)
FirstRunsAreRehearsed ==
  [][\A c \in Clients :
       ApplyStarts(c) /\ at = "idle" /\ checkout # None /\ job[c].tree = checkout =>
         LET f == StartedFile(c)
         IN  \/ report[f] # "untried"
             \/ \E k \in RowsOf(records, f) :
                  records[k].status \in {"applied", "skipped"}]_allVars
=============================================================================
