-------------------------- MODULE MigrationSession --------------------------
(***************************************************************************)
(* What the commands of migraguard share: the database with its            *)
(* schema_migrations table and advisory lock, the sessions the commands    *)
(* open on it, and the native CLI processes (psql, mysql, sqlite3) that    *)
(* execute the SQL of a migration file outside those sessions.             *)
(*                                                                         *)
(* A client is one process of the tool: a CI job or a terminal.  It runs   *)
(* one command after another, each on a checkout of the repository that    *)
(* may be older or newer than another client's.                            *)
(***************************************************************************)
EXTENDS GroupState

CONSTANTS
  Clients,     \* processes that run the tool against one database
  Dialect,     \* "postgresql", "mysql" or "sqlite"
  FileOrder,   \* the migration files, in the order scanMigrations sorts them
  Sums,        \* checksums: what a version of a file contains
  Groups,      \* migration groups
  GroupOf,     \* the group of a file, None for a safe file
  PhaseOf,     \* the phase of a file, None for a safe file
  Jobs,        \* the commands, with their arguments, a client may run
  MayFail,     \* checksums of the contents whose SQL may fail
  MaxRuns,     \* bound: commands started in all
  MaxCrashes,  \* bound: processes or connections lost in all
  NoSum,       \* the empty checksum that advance records
  None         \* no client, no group, no phase, no job

Files == {FileOrder[i] : i \in DOMAIN FileOrder}

\* A checkout: the version of each file in it, None for a file not there.
Trees == [Files -> Sums \cup {None}]

JobType ==
  [cmd : {"apply"}, tree : Trees]
    \cup [cmd : {"apply-phase"}, tree : Trees, file : Files]
    \cup [cmd : {"advance"}, file : Files, status : {"applied", "failed", "running"}]
    \cup [cmd : {"resolve"}, file : Files]

ASSUME DialectAssumption == Dialect \in {"postgresql", "mysql", "sqlite"}

ASSUME FilesAssumption ==
  /\ FileOrder \in Seq(Files)
  /\ \A i, j \in DOMAIN FileOrder : FileOrder[i] = FileOrder[j] => i = j
  /\ GroupOf \in [Files -> Groups \cup {None}]
  /\ PhaseOf \in [Files -> Phases \cup {None}]
  /\ \A f \in Files : GroupOf[f] = None <=> PhaseOf[f] = None

ASSUME NoneAssumption ==
  /\ None \notin Clients \cup Groups \cup Sums
  /\ None \notin Phases
  /\ None \notin Jobs
  /\ NoSum \notin Sums \cup {None}

ASSUME JobsAssumption ==
  /\ Jobs \subseteq JobType
  /\ \A j \in Jobs : j.cmd \in {"advance", "apply-phase"} => GroupOf[j.file] # None

ASSUME BoundsAssumption == MaxRuns \in Nat /\ MaxCrashes \in Nat

VARIABLES
  records,  \* the rows of schema_migrations, in the order inserted
  now,      \* the database's clock
  holder,   \* the client whose session holds the advisory lock, or None
  cli,      \* the native CLI processes at work: whose they are, file and content
  pc,       \* where each client is in its command
  job,      \* the command each client runs
  snap,     \* how many rows each client has read
  left,     \* the files each client's apply has still to visit
  blocked,  \* blockedSet of each client's apply
  work,     \* the row each client is about to insert, once its SQL has ended
  runs,     \* commands started so far
  crashes,  \* processes lost so far
  ran       \* history: the <<file, checksum>> whose SQL ran without error

dbVars == <<records, now>>
clientVars == <<pc, job, snap, left, blocked, work>>
vars == <<dbVars, holder, cli, clientVars, runs, crashes, ran>>

Row == [file : Files, sum : Sums \cup {NoSum}, status : Statuses, at : Nat,
        group : Groups \cup {None}, phase : Phases \cup {None}]

Work == [file : Files, sum : Sums \cup {NoSum}, status : Statuses]

(***************************************************************************)
(* idle: no command.  lock: session open, waiting for the advisory lock.   *)
(* load: about to read schema_migrations.  loop: apply is between two      *)
(* files.  sql: a CLI process executes the client's file.  insert: about   *)
(* to insert work.  close: about to release the lock and close.            *)
(***************************************************************************)
PCs == {"idle", "lock", "load", "loop", "sql", "insert", "close"}

Init ==
  /\ records = << >>
  /\ now = 0
  /\ holder = None
  /\ cli = {}
  /\ pc = [c \in Clients |-> "idle"]
  /\ job = [c \in Clients |-> None]
  /\ snap = [c \in Clients |-> 0]
  /\ left = [c \in Clients |-> {}]
  /\ blocked = [c \in Clients |-> {}]
  /\ work = [c \in Clients |-> None]
  /\ runs = 0
  /\ crashes = 0
  /\ ran = {}

-----------------------------------------------------------------------------
(* The dialects *)

\* acquireAdvisoryLock does nothing on SQLite.
HasLock == Dialect # "sqlite"

\* PostgreSQL's statement_timeout also ends a wait in pg_advisory_lock.
WaitTimesOut == Dialect = "postgresql"

\* applied_at has whole seconds on SQLite: two rows may have the same time.
NextTimes == IF Dialect = "sqlite" THEN {now, now + 1} ELSE {now + 1}

-----------------------------------------------------------------------------
(* Sessions *)

Goto(c, to) == pc' = [pc EXCEPT ![c] = to]

\* The commands that take the lock, which is every one but resolve.
Locks(c) == job[c].cmd # "resolve"

\* Fault: advance and apply-phase do not take the lock either.
StartPhaseUnlocked(c, j) ==
  /\ pc[c] = "idle"
  /\ runs < MaxRuns
  /\ runs' = runs + 1
  /\ job' = [job EXCEPT ![c] = j]
  /\ Goto(c, IF j.cmd = "apply" THEN "lock" ELSE "load")
  /\ UNCHANGED <<dbVars, holder, cli, snap, left, blocked, work, crashes, ran>>

Start(c, j) ==
  /\ pc[c] = "idle"
  /\ runs < MaxRuns
  /\ runs' = runs + 1
  /\ job' = [job EXCEPT ![c] = j]
  /\ Goto(c, IF j.cmd = "resolve" THEN "load" ELSE "lock")
  /\ UNCHANGED <<dbVars, holder, cli, snap, left, blocked, work, crashes, ran>>

\* Fault: the lock is tried, and the answer is not looked at.
AcquireUnchecked(c) ==
  /\ pc[c] = "lock"
  /\ holder' = IF HasLock THEN c ELSE holder
  /\ Goto(c, "load")
  /\ UNCHANGED <<dbVars, cli, job, snap, left, blocked, work, runs, crashes, ran>>

Acquire(c) ==
  /\ pc[c] = "lock"
  /\ HasLock => holder = None
  /\ holder' = IF HasLock THEN c ELSE holder
  /\ Goto(c, "load")
  /\ UNCHANGED <<dbVars, cli, job, snap, left, blocked, work, runs, crashes, ran>>

\* The process ends, and what it had in memory is gone.
Exit(c) ==
  /\ Goto(c, "idle")
  /\ job' = [job EXCEPT ![c] = None]
  /\ snap' = [snap EXCEPT ![c] = 0]
  /\ left' = [left EXCEPT ![c] = {}]
  /\ blocked' = [blocked EXCEPT ![c] = {}]
  /\ work' = [work EXCEPT ![c] = None]

\* The query that waits for the lock is cancelled; the command fails.
WaitTimeout(c) ==
  /\ pc[c] = "lock"
  /\ WaitTimesOut
  /\ holder # None
  /\ Exit(c)
  /\ UNCHANGED <<dbVars, holder, cli, runs, crashes, ran>>

\* Fault: the lock is given up whoever holds it.
ReleasedForAll(c) == holder' = None

\* Ending a session gives up the lock it holds.
Released(c) == holder' = IF holder = c THEN None ELSE holder

Close(c) ==
  /\ pc[c] = "close"
  /\ Released(c)
  /\ Exit(c)
  /\ UNCHANGED <<dbVars, cli, runs, crashes, ran>>

(***************************************************************************)
(* The process dies, or its connection does, which a client with no error  *)
(* listener does not survive either.  The server ends the session; the CLI *)
(* process it spawned has a connection of its own and goes on.             *)
(***************************************************************************)
Crash(c) ==
  /\ pc[c] # "idle"
  /\ crashes < MaxCrashes
  /\ crashes' = crashes + 1
  /\ Released(c)
  /\ cli' = {[e EXCEPT !.owner = IF @ = c THEN None ELSE @] : e \in cli}
  /\ Exit(c)
  /\ UNCHANGED <<dbVars, runs, ran>>

-----------------------------------------------------------------------------
(* Executing SQL and recording it *)

\* executeSqlFile: spawn the CLI on file f with content s.
Spawn(c, f, s) ==
  /\ cli' = cli \cup {[owner |-> c, file |-> f, sum |-> s]}
  /\ work' = [work EXCEPT ![c] = [file |-> f, sum |-> s, status |-> "running"]]
  /\ Goto(c, "sql")

\* Fault: an error in the SQL does not show in the exit code.
SqlEndsUnnoticed(e) ==
  /\ e \in cli
  /\ cli' = cli \ {e}
  /\ \E status \in {"applied", "failed"} :
       /\ status = "failed" => e.sum \in MayFail
       /\ ran' = IF status = "applied" THEN ran \cup {<<e.file, e.sum>>} ELSE ran
       /\ IF e.owner = None
            THEN UNCHANGED <<pc, work>>
            ELSE /\ work' = [work EXCEPT ![e.owner].status = "applied"]
                 /\ Goto(e.owner, "insert")
  /\ UNCHANGED <<dbVars, holder, job, snap, left, blocked, runs, crashes>>

\* A CLI process ends; the command that spawned it, if alive, learns how.
SqlEnds(e) ==
  /\ e \in cli
  /\ cli' = cli \ {e}
  /\ \E status \in {"applied", "failed"} :
       /\ status = "failed" => e.sum \in MayFail
       /\ ran' = IF status = "applied" THEN ran \cup {<<e.file, e.sum>>} ELSE ran
       /\ IF e.owner = None
            THEN UNCHANGED <<pc, work>>
            ELSE /\ work' = [work EXCEPT ![e.owner].status = status]
                 /\ Goto(e.owner, "insert")
  /\ UNCHANGED <<dbVars, holder, job, snap, left, blocked, runs, crashes>>

\* Fault: the checksum is lost on the way to the row.
InsertRowWithoutSum(f, s, status, g, ph) ==
  \E t \in NextTimes :
    /\ now' = t
    /\ records' = Append(records, [file |-> f, sum |-> None, status |-> status,
                                   at |-> t, group |-> g, phase |-> ph])

\* insertRecord: the row takes its time from the database's clock.
InsertRow(f, s, status, g, ph) ==
  \E t \in NextTimes :
    /\ now' = t
    /\ records' = Append(records, [file |-> f, sum |-> s, status |-> status,
                                   at |-> t, group |-> g, phase |-> ph])
=============================================================================
