# A formal model of migraguard

migraguard applies SQL migration files to a database and records every attempt
in an INSERT-only table, `schema_migrations`. What makes it correct is how many
short-lived processes (CI jobs, operators, external executors), each with a
checkout of its own, use that table: which file a process may execute, on what
it has read, under which lock, and what is left when one of them dies. This
directory models that in TLA+, checks it with TLC and proves part of it with
TLAPS.

All paths below are relative to the repository's root; `src/` is its TypeScript
source.

## 1. Inventory

| Part | State | Operations | What is hard about it | What makes it correct |
|---|---|---|---|---|
| `schema_migrations` and its adapters (`db.ts`, `db-mysql.ts`, `db-sqlite.ts`) | rows, the database clock, the advisory lock | `getAllRecords`, `getRecordsForFile`, `insertRecord`, `acquireAdvisoryLock`, `close` | three dialects: a lock that can time out (PostgreSQL), one that cannot (MySQL), none (SQLite); clocks of different grain; "latest row" by a strict `>` | rows only grow; the lock excludes; latest means inserted last |
| SQL execution (`executor.ts`, `psql.ts`) | a CLI process per file | `executeSqlFile` | the process has its own session and survives the command that spawned it | what is recorded is what ran |
| `apply` (`commands/apply.ts`) | the rows it read, its place in the order, `blockedSet` | one pass: pass over, refuse, execute, record | decides on one read of the table; errors in the middle; stale checkouts | nothing repeated, nothing reverted, failures block what follows and nothing else |
| `resolve`, `advance`, `apply-phase` | the row about to be inserted | read, decide, (execute), insert | `resolve` takes no lock; reports of external executors interleave with passes | a report never opens the way to a phase whose prerequisites are not met |
| group state (`group-state.ts`) | none: derived from the rows | `deriveGroupState`, `isGroupOpen`, `canAdvanceToPhase` | phases reported out of order, failed, repeated | expand before switch before contract |
| dependency graph (`deps.ts`, `generic/deps.ts`, `commands/deps.ts`) | none | `analyzeSql`, `buildDependencyGraph`, `detectCycles`, `topologicalSort`, `findLeafNodes`, `findTransitiveDependents`, `buildTree` | what the analysis of SQL does not see; names in several namespaces; objects made twice; cycles, diamonds, degree counting | no file is executed before what it needs; a tested order is kept; a cycle is found and nothing else is |
| scanner, naming, checksum (`scanner.ts`, `naming.ts`, `checksum.ts`) | files of a checkout | `scanMigrations`, `checksumFile` | normalisation of SQL text | two versions differ exactly when their checksums do |
| repository commands (`new`, `squash`, `editable`, `check`, `metadata.ts`) | files, `metadata.json` | create, squash, verify offline | several files written without a transaction; offline rules that must agree with apply's | no recorded migration disappears or changes |
| baseline (`commands/baseline.ts`, `apply --from-baseline`) | `schema.sql`, `metadata.json`, files | fold old migrations into a schema dump | crash between the writes; partial failure on apply | a fresh database ends where an old one is |
| `gate`, `status`, `group-status` | none | conditions on the group states, the status of each file | they take no lock and read a table that others write; an order of states of their own | a gate does not pass what has become unsafe, and does not take back what it let pass; status says what apply will do |
| `verify` (`commands/verify.ts`) | a shadow database | copy, read the rows, execute each pending file twice, compare dumps | the copy, the rows and the applies of others are not of one moment; lost rows | a green file runs again and runs for real; an alarm is none for nothing |
| `dump`, `diff`, drift check (`dumper.ts`, ...) | the schema dump | dump, compare | the dump is read and written outside the lock | drift is seen |
| lint (`rules/`, `generic/`, `sql-ast.ts`, `commands/lint.ts`) | while it walks over a file: tables created, timeouts set and reset, transaction, indexes to analyze | 39 rules for PostgreSQL, 17 for MySQL and SQLite | what the engine follows of a session is not what the session does | what lint passes blocks nobody, runs again and loses no data |
| agents, audit, insights (`agents/`, `external/`) | none | prompts and reports | (external services) | (no migration state) |
| CLI, config, generated code (`cli/`, `generated/`, `config.ts`) | none | option parsing | (generated) | (no state) |

The order of importance is that of the hazards: first who may execute what
(`apply` and its table), then the groups, the checkout commands that remove
files, the graph that orders files, and the commands that advise people
(`gate`, `status`, `verify`, `lint`), which change nothing but are relied upon.

On the database the parts interact in three ways only: through the rows of
`schema_migrations`, through the advisory lock, and through the CLI processes,
whose end the command that spawned them waits for. In a checkout they interact
through files: the migrations, `schema.sql` and `metadata.json`. There is no
other shared memory and no message. `PROJECT.json` lists the hazards, each at its line.

## 2. Modules

```
MigrationRecords   the table as it is read
      |
  GroupState       the state of an expand/contract group, derived from it
      |
MigrationSession   database, lock, sessions, CLI processes      DepGraph   graph of the files
      |        \__________________                             /    |   \
OperatorCommands                  Apply  --------------------'     |   TopologicalSort
      \_________   ______________/                            Repository       |
             Migraguard            the composition, its properties        DetectCycles   SqlAnalysis
                 |                                                              \          /
    -------------+---------------------------------------                       Dependencies
    |       |       |        |           |              |
 Checkout  Gate   Status   Verify   DocumentedClaims   MigraguardLedger  -- INSTANCE --  Ledger

LintRules -- GenericRules -- Lint           MCMigraguard, MCGroups, MCDag, MCCheckout, MCVerify,
                                            MCDependencies, MCLint: the instances for TLC
Proofs: GraphProofs -- MigraguardProofs -- PassProofs -- ReleaseProofs
           |    \                                    \-- CheckoutProofs
           |     DependenciesProofs
        RepositoryProofs                   LintProofs
```

**MigrationRecords.** The table is a sequence `records` in the order of
insertion. `LatestOf` is the reduction `r.appliedAt > latest.appliedAt ? r :
latest`, which takes the *first* of equally late rows; `PastChecksums` is
`getPastChecksums`. `NewestRow` (the row inserted last) belongs to the
properties: it is what "latest" is meant to be.

**GroupState.** `group-state.ts` operator by operator. The states are derived
from the rows alone, so a phase that nobody reported has no state at all
(`"none"`), and `canAdvanceToPhase` takes that for complete.

**DepGraph, TopologicalSort.** The graph is a record of nodes and edges. `Apply`
takes its edges from a set `DependsOn`, of which a checkout has those between
files it contains; how they come from the SQL is the subject of `Dependencies`.
`TopologicalSort` runs Kahn's algorithm with its sorted queue, one dequeued file
per step. Its invariant `QueueIsReady` is the licence for `Apply` to describe
the order by "the first ready file among those left" (`IsNext`). The in-degree
of the code counts edges, `Cardinality(Successors)` counts files: the builder
drops duplicate edges (`edgeSet`), so they agree.

**MigrationSession.** What every command shares. A *client* is a process of the
tool; `pc` says where it is:

| `pc` | the code is |
|---|---|
| `idle` | not running |
| `lock` | in `acquireAdvisoryLock` |
| `load` | about to read the rows |
| `loop` | between two files of the loop in `commandApply` |
| `sql` | awaiting `executeSqlFile` |
| `insert` | about to call `insertRecord` |
| `close` | in `finally`, about to close its session |

Each step ends at an `await` at which another process can act on the database:
a read, an insert, the wait for the lock, the start and the end of a CLI
process. `Crash` may strike at any of them. It covers the death of the process
and the loss of its connection (the PostgreSQL client has no `error` listener,
so a lost connection ends the process): the server ends the session and its
lock, but a CLI process the client had started goes on (`cli` keeps it, with
owner `None`) and its result is recorded by nobody. `WaitTimeout` is
PostgreSQL's `statement_timeout` of 30 s, which also cancels the `SELECT
pg_advisory_lock`.

**Apply.** One pass. `LoadRecords` reads the table once (`snap`: how many rows)
and the files of the checkout (`left`). For the next file there are four
outcomes: `PassOver` (blocked, a backfill, a gated phase, held by an open group,
or settled by its rows), `Refuse` (an error without execution), `Execute`, then
`RecordResult`. `Verdict` is `processFile`. After an error the linear pass ends
and the DAG pass adds the transitive dependents to `blockedSet` (`AfterError`).
Only the gate of the phases after expand reads the table again (`IsGated` uses
`records`, everything else `Seen`).

**OperatorCommands.** `resolve` (no lock), `advance` and `apply-phase`: read and
decide; execute, if it is `apply-phase`; insert; close.

**Migraguard.** `Next`, the fairness, the type invariant and the properties.
**DocumentedClaims** has a statement of the documentation that the code does
not keep.

**Ledger, MigraguardLedger.** What the tool promises of a database, without
processes, lock or readings: a sequence of entries, the contents whose SQL is at
work, and those whose SQL has ended well. SQL may start for a content that the
file never had or after a failed last attempt (phase files at any time, since an
operator may ask for them); an `applied` entry needs a success; a report of an
executor is about a phase file and no content; only a failure is resolved.
`MigraguardLedger` maps the rows to the entries and the CLI processes, whoever
they belong to, to the SQL at work; `KeepsLedger` says that `Migraguard`
implements the ledger on every dialect with a lock.

**Gate, Status.** `gate` and `status` read the table once, without the lock, and
change nothing, so each is a function of the rows and their properties are about
the rows that other commands insert. `EvaluateCondition` has `gate`'s own order
of the states (`StateOrder`, without `backfill_failed`), its search by full or
short name, and its `false` for whatever it does not know. `Gate` also names what
the theorems about phases ask of a repository: `GroupsHaveExpand` (`check.ts:105-117`
demands it, docs/expand-contract.md:49), `PhasesAreNumbered` (`new.ts:149-173` makes
the files `1_expand` to `4_contract`; `naming.ts:172` accepts any digits and nothing
checks the order) and `NamesAreUnique`.

**Verify.** One `verify` beside the commands of `Migraguard`. Here the SQL does
what its content says: `Uses` has the contents without which it fails, and
`Again` what it does where it has been executed before (nothing, an error, a
change of the schema, or more rows). `at` says where the verification is: `clone`
(`cloneSourceToShadow`), `read` (`getAppliedFiles`, whose `catch` yields no
applied file), `first` and `second` (the two executions of the next pending
file), `drop`. The copy and the reading are steps of their own, between which
the others go on.

**SqlAnalysis, DetectCycles, Dependencies.** `SqlAnalysis` has one operator per
kind of statement for what `analyzeSql` and `analyzeGenericSql` find, the
matching of objects by namespace, and the edges (`BuildEdges`: the last file that
creates an object, then what the file and the configuration declare).
`DetectCycles` is the depth-first search, one step per neighbour. In
`Dependencies` authors write the files; then `deps` searches them for cycles and
draws its tree (`Depth`, `PrimaryParent`, `TreeLevel`), or `apply` builds the
graph, sorts it and executes the files on a database that knows what each
statement makes and needs, once with failures in between and once again without.

**LintRules, GenericRules, Lint.** One operator per rule. `Lint` has the walk of
the engine and of the rules that remember (`walk`), the session that executes the
same statements (`session`: which timeouts are in force, what a `ROLLBACK`
restores) and two databases: the one of the first execution and one on which the
file has been executed already (`again`, guessed at the beginning and compared at
the end). The author writes statement by statement, so that every state is a
complete file; the text itself is not kept, so that the files may have any
length.

**Checkout.** One checkout, `disk`, with its `schema.sql` (`dump`) and the
baselines of its `metadata.json` (`included`), and the maintainer who works in
it, one command at a time; everybody else applies from a checkout of their own,
by the actions of `Migraguard`. `stage` says where the maintainer's command is
beside `pc`:

| `stage` | the code is about to |
|---|---|
| `base`, `rows` | execute `schema.sql`, insert a row per baselined file (`applyFromBaseline`) |
| `pass` | go over the files: the actions of `Apply`, with what they report (`result.errors`, `result.applied`) |
| `redump`, `write` | run the dump, write it (`dump`; `apply --with-drift-check` after its session is closed) |
| `decide`, `schema`, `metadata`, `remove` | read the rows and decide, write `schema.sql`, save the metadata, remove the next file (`baseline`) |

The gate of `--with-drift-check` compares before the command connects
(`StartApply`). `apply --from-baseline` whose `schema.sql` fails reports an error
and goes on with the pass (`BaselineFails`). The `schema.sql` that `baseline`
writes is not intact, since its first line is a promise turned to text
(`WriteSchema`); a later dump mends it. `NewDatabase` has the work go on against a
new, empty database, which is what `--from-baseline` is for. A crash may come
between any two steps.

**Repository.** The offline commands on the files and on the list of migrations
in `metadata.json`. A developer writes a *statement* per file; a file `of` a
sequence of statements is what `squash` makes of several, and has the timestamp
of the last. `edited` stands for the checksum. A new file may have a timestamp
older than the others', since it may come from another branch. `needs` says which
statement refers to an object that another one creates; the edges of the graph
follow from it (`Edge`: the last file that creates the object). `squash` is
`StartSquash` (which groups), then, per group, `WriteMerged` and one `Unlink` per
source, then `SaveSquashed`; `InterruptSquash` may come before any of them.
`CheckPasses` is `check` (rules 1 to 4) and `EditableFiles` is `editable`. All
settings are in one run: both models (`dag`), every set of dependencies, and both
orders in which a directory may list two files with the same timestamp
(`longFirst`).

Operators whose comment starts with *Fault* are deliberate mistakes: replacing
the definition that follows them by one of them must break the property it is
listed with under `mutants` in `PROJECT.json`. They are used by nothing else.

### What is abstracted

* A version of a file is its checksum; two versions are equal when their
  checksums are. A file does not change while a command runs.
* `FileOrder` stands both for the order of `scanMigrations` and for the order of
  names in which `topologicalSort` sorts its queue.
* In `Migraguard` the SQL of a file succeeds or, if its content is in `MayFail`,
  fails; what it does to the schema is the subject of `Verify`, `Dependencies` and
  `Lint`, each in its own terms.
* `applied_at` is strictly increasing on PostgreSQL and MySQL (microseconds in
  the table, milliseconds in the reduction: two inserts of the same millisecond
  are neglected), and has whole seconds on SQLite, where two rows may be equal.
* `--dry-run` changes nothing and is left out. So are tags, logging and
  `ensureTable`.
* A schema, and so a dump, is the set of the `<<file, checksum>>` that have been
  executed. Executing `schema.sql` is one step, which stops at the first object
  that exists and leaves some of the missing ones behind; this is what `psql`
  does with the output of `pg_dump`. With `DumpsLedger` the dump has
  `schema_migrations` itself, which always exists by then. (`mysqldump` writes
  `DROP TABLE` before `CREATE TABLE` unless told otherwise; that is not modelled.)
* The maintainer runs one command at a time, and takes dumps and baselines from
  databases that have all earlier baselines (`IsCurrent`). Without that, a dump of
  any other database in place of `schema.sql` loses everything at once.
* In `Checkout`, `metadata.migrations` is left out: only `squash` adds to it, and `baseline` only
  removes what it folds. That `baseline` rewrites `depends-on` comments changes no
  checksum, which ignores comments.
* In `Repository` a statement has a timestamp of its own, a write is atomic
  (a torn `metadata.json` is refused by every later command as invalid JSON), and
  there are neither groups nor baselines nor a `modelSince` that some file precedes.
* All clients of an instance use the same model, linear or DAG.
* In `SqlAnalysis` and `Lint` a statement is the root of a parse tree as far as
  the code looks at it: its kind, the objects it is about and those its clauses
  name, and marks for flags and subtypes. Parsing is left out; a file that does
  not parse (a psql variable) is a case of its own. An `ALTER TABLE` of several
  commands is several statements. In `Dependencies` statements also have what
  only the database knows of (`makes`, `needs`: columns, indexes, schemas).
* The order of a file's references, which is the order in which `detectCycles`
  and `computeDepths` meet its neighbours, may be any; the tree is therefore
  modelled for graphs without a cycle only.
* In `Dependencies` creating what exists is no error (statements are written to
  be executed again), and the tables of MySQL and SQLite are objects like those
  of PostgreSQL.
* In `Verify` a dump shows everything but the rows that a content adds; how each
  dialect creates, fills and drops a shadow is one step. A crash of `verify`
  itself leaves a shadow behind and nothing else, and is left out.

## 3. Properties

Safety, as invariants: `TypeOK`; `MutualExclusion`; `FreshView` (the rows a pass
has not seen, about files it has still to visit, come from `resolve` only: why one
read of the table is enough); `AppliedWasRun` (an `applied` row with a checksum is
about content whose SQL ran without error; run in `baseline`, where the commands of a
checkout insert rows too, and proved for both specifications).

Safety, as action properties on the moment a file's SQL starts:
`NoRevertOfApplied` (whatever the age of the checkout, no recorded version of a
file runs while its newest row is `applied`), `FailureBlocks` (every safe file or
expand before it, in file order or by dependency, is applied or resolved in the
table as it is then, or, in the DAG model, left alone because a group it depends on
is open), `PhasePrerequisites`, `ContractAfterSwitch`, `StatusForetells` (what
`status` shows as settled is not executed, and after a pass without error all is
shown as settled). On the moment a DAG pass ends: `IndependentFilesProceed` (what
is not settled was, or depends on something that was, in error, or depends on an
open group), and `DependentsOfOpenGroupsWait` (a safe file starts while a group
it depends on is open in the table only if this very pass opened it, by its expand or
by a failure of a contract that was applied before).

Refinement: `KeepsLedger`. `NothingIsRepeated` (no file runs at the version its
newest row has as applied) is implied by `NoRevertOfApplied`, proved, and checked
by no run of its own.

Of the gate: `ForbiddenIsSeen` (once the SQL of a contract has run, a gate that
forbids `contract_completed` fails, but for the time until the row is there, a row
lost in a crash, and expands or contracts attempted again), `RequirementsStay` (a
requirement once met is lost only by a row that says failed or running).

Of a checkout: `CheckoutTypeOK`; `NothingIsLost` (whatever has been removed from
the checkout is in `schema.sql` and in `metadata.json`, at every crash point and
after every later dump); `CleanRunIsComplete` (an `apply --from-baseline` that
reports no error leaves a database with everything, but for what somebody resolved); and `AppliedWasRun` again,
since `--from-baseline` inserts `applied` rows for files it has not executed.

Of the repository: `RepositoryTypeOK`; `StatementsRemain` (no statement and no
edit is lost, wherever `squash` is interrupted); `RecordedFilesExist`;
`DependenciesPrecede` (an apply of all files executes what creates an object
before what refers to it, through all merging); `SquashSettles` (a `squash` that
ends, also after interrupted ones, leaves what `check` passes). The last one is
restricted by what goes wrong: a recorded file whose edit `check` once let through
as the tail or a leaf makes it fail for good when another file follows.

Of the graph: `QueueIsReady` (the queue is what is ready, which `Apply` relies
on); `SortIsRight` (what is emitted has its dependencies before it, and the sort
gives up just on a cycle); `CyclesAreFound` (each reported cycle is one, and some
is reported just where there is one); `TreeIsInOrder` (the tree of `deps` has
every file, below all that it depends on, level by level); `NothingIsLacking` (in
a repository without a cycle whose objects are made in one file each and not
dropped, no file is executed before what it needs, whichever files fail; `IsSeen`
names what the analysis does not see); `HistoryKeepsItsOrder` (files that could
be executed in the order of their names are applied in that order).

Of `verify`: `PassedNeverDrifts` (a passed content does not change the schema when
it runs again), `GreenMeansGo` (an apply of the verified checkout does not fail at
a passed file, whatever was executed since the copy, unless a file before it stands
as resolved: whoever resolves an earlier failure may vouch for what was never
executed, and an execution whose row a crash has lost may be in the shadow and hide
that), `AlarmsAreTrue` (a file that fails in the shadow at once does not succeed in
the apply, unless a row came between copy, reading and apply, or a file before it
stands as resolved: its SQL, which a crash has left without a client, may have ended
after the copy),
`FirstRunsAreRehearsed` (a file without `applied` or `skipped` row that the apply
executes was tried, whatever rows came since).

Of `lint`, each of a file that it passes, whose rules on the matter are not
silenced, and that parses: `LockWaitsAreBounded`, `WritesGoOn`,
`ConcurrentBuildsSucceed`, `RunsAgain`, `DataStays`. Each names in its premise
what the rules do not see: settings taken back, `START TRANSACTION`, tables that
exist under `IF NOT EXISTS`, columns and constraints without `IF [NOT] EXISTS`, renamed
indexes and the like.

The properties of apply compare the table at that moment with what the pass decided on rows it
read before, which is the hazard of the design.

Liveness: `CommandsEnd`.

## 4. Runs

| Run | Instance | Shows |
|---|---|---|
| `linear_postgresql` | 2 clients, 4 commands, 1 crash, fairness; S1 released, hotfixed, followed by S2, and a branch cut before the hotfix; `resolve`; any SQL may fail | the lock, `FreshView`, no revert, failure blocks, status agrees with apply, the ledger is kept, every command ends |
| `groups` | 2 clients, 4 commands, 1 crash; a group with four phases and a safe file behind it; apply, apply-phase, advance (running, completed, failed), resolve | the phase order under interleaved reports; what a gate says meanwhile |
| `dag` | 2 clients, 3 commands, 1 crash; A, the expand E on A, the switch W on E, the contract K, numbered before W, on W, the safe file S on E, the safe file T on S, and C alone; a hotfix of the leaves K and T, and a checkout that ends at E | blocking of direct and indirect dependents and of those of an open group, progress of the rest, phases in order by dependencies alone |
| `baseline` | MySQL; a maintainer and one other client, 5 commands, 1 crash; a chain C on B on A; dump, `baseline`, `baseline --keep-since B`, apply gated and from the baseline, an apply from a checkout that still has every file, a resolve of B; one change of database | nothing lost, nothing claimed that did not happen |
| `repository` | 4 statements in any order of arrival, every set of dependencies between them, both models, 1 edit, 1 interruption of `squash` | nothing written is lost, the metadata are true, dependencies in order, `check` passes after `squash` |
| `dependencies` | 4 files; every graph of foreign keys between them; roles, grants, schemas, functions and tables of one name; multi-statement files, `DO` blocks, views, drops, declared files and groups, files that do not parse; the last vocabulary also for MySQL; any file may fail after any of its statements | the way from the SQL to the order of execution, and what a failure holds back |
| `verify` | PostgreSQL; 2 clients, 3 commands, 1 crash, 1 verify of either checkout, incremental or `--all`; S2 needs the hotfix of S1; the contents that run again: one fails, one changes the schema, one adds its rows again and passes | the worth of a report |
| `lint` | five vocabularies of 14 to 24 statements (locks, indexes, schema, alterations, MySQL), three phases, with and without allow directives, a rule set to off; files of any length; any database the file may have left | what lint's pass is worth |

The bounds count commands (`MaxRuns`) and crashes (`MaxCrashes`). Four commands
are enough for release, hotfix, failure and a stale apply of one file, and for
expand, running backfill, completed backfill and a pass over the rest; two
clients are enough for a holder and a waiter, or a lock-free `resolve` beside a
pass (the theorems are for any number).
One crash leaves one orphaned CLI process, and the commands that are left run
beside it. Five commands are enough for apply, baseline, dump, a new database and an apply
from the baseline, with one to spare for a second baseline or the other client.
Two files distinguish tail from non-tail, a chain of three the direct from the
indirect dependent and a cut in the middle from the leaf. Four statements are two
squashes of two files, the second of which may fall before the first; one
interruption and the squash that follows it meet every set of leftovers that two
or three sources can leave. Four files have every shape of graph that the sort
and the search tell apart: diamonds, cycles with a way to them, two cycles. One
verify and three commands are enough for an apply whose row is lost, a verify, and
the apply it was for, with the hotfix or a resolve anywhere in between. Clients are
interchangeable; `groups` and `dag` use that as a symmetry, the run with liveness
must not.

`CHECK_DEADLOCK` is on where there are clients: one that stops anywhere but `idle`
would be found. `Finished` is the state in which all commands have ended. It is
off in `dependencies` and `lint`: there the search or the second apply comes to
its end, and an author whose file has failed writes no more.

**Fairness.** `WF(Step(c))`: a process that is not waiting for another one runs
on. `WF(SqlEndsOf(o))`: a CLI process ends. `SF(Acquire(c))`: the lock manager
(`GET_LOCK`, `pg_advisory_lock`) queues waiters, so one that waits while the
lock is freed again and again gets it; weak fairness would not do, since
another client may hold the lock in between. Nothing obliges anybody to start a
command.

### Runs that refute a statement of the documentation

| Run | Says | Does |
|---|---|---|
| `revert_after_failure` | README.md:765 "compares the current checksum against all past records. If it matches a non-latest past checksum, it raises a regression error" | a1 applied, a2 failed, a checkout with a1 again: the retry of a failed file does not look at past checksums (`apply.ts:282`), and a1 runs |
| `pending_contract` | docs/cli-reference.md:883 lists `contract_pending` among the conditions, :891 `migraguard gate --forbid "group:rename_username_to_handle.contract_pending"` | the gate knows only the states of `GroupStateName`; any other condition is not met (`gate.ts:121`), and the gate passes while the contract is pending |
| `baseline_fresh` | README.md:278 "Apply `schema.sql` baseline, then remaining migrations" | after a `baseline`, `schema.sql` begins with `[object Promise]` (`baseline.ts:125`, no `await`); on a new database it fails, and the pass executes the remaining files without it (`apply.ts:93`, `:368`) |
| `squash_order` | docs/dag-internals.md:142 "concatenated in ascending timestamp order, guaranteeing that dependencies precede dependents" | in the DAG model a file may refer to what a file with a later timestamp creates, and is applied after it; squashed, it comes first (`squash.ts:32`) |

Behaviours of the same kind that the model has and no run is kept for: a `psql`
whose command lost its connection goes on without the lock, beside the next
apply's (`apply.ts:260`; docs/state-model.md:221 "re-execution is safe", where :209
says that concurrent execution of idempotent SQL can race); one apply of a new
group with a backfill runs expand, switch and contract, since a phase without a
row counts as complete (`group-state.ts:145`; docs/expand-contract.md:51);
`resolve` reads and inserts without the lock, so `skipped` may land on top of a
success (`resolve.ts:17-38`); a waiting apply fails after 30 s instead of
waiting (`db.ts:117`); on SQLite a `resolve` in the same second as the failure
is not seen (`apply.ts:34`); the expand of a completed group can be run again
and, failing, takes the group back to `not_applied` (`group-state.ts:135`); in
the DAG model a switch that no edge orders after its expand passes the gate
while the group has no row (`apply.ts:169`), and a file that depends on one held
by an open group is executed (`apply.ts:183`); the pass that applies an expand also
applies the safe files that depend on it, since `openGroups` is a snapshot
(`apply.ts:144`; docs/expand-contract.md:212 says that files that depend on an open
group are blocked). The drift gate compares outside the lock, so an apply of
somebody else between the gate and the new dump is written into `schema.sql` unseen;
and a gated apply that reports an error does not dump, so the next one takes what it
did apply for drift and stops (`apply.ts:224-237`). A `--keep-since` that names no
file is skipped, and when it is the only one `baseline` keeps nothing
(`baseline.ts:194`). A second `--from-baseline` on the same database fails at the
first object and then goes on with the pass. On SQLite, whose lock is a no-op
(`db-sqlite.ts:69`), two applies execute the same file at once (README.md:755 "No
race condition occurs"). Of a completed group whose contract is a leaf, `baseline`
folds the expand and removes the directory, contract included (`baseline.ts:148`);
the contract is then neither in the checkout nor in `metadata.json`, though listed
among the `remainingLeaves`. In the linear model, two files inserted before a
recorded one are squashed and recorded under one name, and `check` no longer sees
the insertion that it refuses for one file (`check.ts:52`). A single new file is
not recorded by `squash` (`squash.ts:90`; README.md:237 has it in `metadata.json`):
`check` does not guard it after its release, and the next `squash` merges it into
another file. After an interrupted `squash` a source with the timestamp of the
merged file may be ordered before it. With `model: dag` in the config only,
`isPreModelSince` holds for every file, and no leaf is editable for `check`
(`metadata.ts:99`).

Of the commands that advise:

* `gate`: a misspelt forbidden condition, or one on a group without a row, passes
  (`gate.ts:83`); a short name that two groups share means the one whose first row
  is older. `backfill_failed` is in no order with the other states, so a failed
  backfill takes back `expand_applied`. When the expand of a completed group runs
  again and fails, the group is `not_applied` and a gate that forbids
  `contract_completed` passes.
* `status` shows a phase that an executor reported as `changed`, since its checksum
  is empty (`status.ts:71`).
* `deps`: docs/dag-internals.md:40 has `ALTER ... OWNER TO` depend on its target,
  the code on the new owner only; :14 and :17 have columns and indexes among the
  created objects; :181 has the file of `modelSince` depend on all before it. None
  of the three is in `deps.ts`. A qualified name makes no edge to its schema. A
  file with a psql variable has no edges, and a declared target that does not exist
  is dropped, both in silence. Files on a cycle have no root and are not drawn.
* `verify` goes by names: a hotfix of an applied file is not verified. An `add_rows`
  content passes, since a dump of the schema does not show it (docs/state-model.md:165
  "dynamically proves that every migration can be safely re-executed"). It tries
  the files in file order in the DAG model too.
* `lint`: `START TRANSACTION` opens no transaction for it (`rules/engine.ts:84`). A
  `RESET lock_timeout` counts as a setting of it, so a file may wait without a bound
  after one. An `ADD COLUMN` without `IF NOT EXISTS` passes (README.md:529 "must be
  idempotent"). An index on a table that exists is taken for one on a new table if the
  file has a `CREATE TABLE IF NOT EXISTS` of it. A file made from the backfill
  template does not parse once its variables are used (`new.ts:38`), and nothing is
  said of it. An allow directive holds for the whole file, wherever it stands. A
  renamed index, view or sequence passes, and the file then fails when it runs again:
  the rules on `RenameStmt` look at tables and columns only.
* `baseline` asks whether the latest row of a file is `applied`, not whether it has the
  checksum of the file in the checkout (`baseline.ts:88-99`): what it folds and removes
  may be a version that no database has had.

## 5. Proofs

For every value of the constants that satisfies the assumptions of
`MigrationSession` and `Apply` (files without repetition, `None` and `NoSum`
distinct from everything else, jobs of the right type), of `Gate`, `Verify` and
`Checkout` for the theorems about them, of `TopologicalSort` and `Dependencies` for
those about the graph and the order of the files, of `Repository` for the five about
squash, and of `Lint` for the last five, TLAPS proves:

| Theorem | States | Where |
|---|---|---|
| `TypeCorrect`, `TypeInvariant` | the types, `TypeOK` | |
| `LockExcludes` | `MutualExclusion` | |
| `ViewStaysFresh` | `FreshView` | |
| `AppliedIsTrue` | `AppliedWasRun` | on every dialect |
| `NoRepetition` | `NothingIsRepeated` (no run of its own) | lock |
| `NoRevert` | `NoRevertOfApplied` | lock |
| `ImplementsLedger` | `KeepsLedger`: `Migraguard` implements `Ledger` | lock |
| `FailureHoldsBack` | `FailureBlocks` | lock, A |
| `OthersProceed` | `IndependentFilesProceed` | lock |
| `StatusIsRight` | `StatusForetells` | lock, linear, no groups |
| `RequirementsHold` | `RequirementsStay` | on every dialect |
| `PrerequisitesAreMet` | `PhasePrerequisites` | lock, A, E |
| `SwitchComesFirst` | `ContractAfterSwitch` | lock, A, E, P |
| `DependentsWait` | `DependentsOfOpenGroupsWait` | lock, DAG |
| `ContractIsSeen` | `ForbiddenIsSeen` | lock, A, E, `NamesAreUnique` |
| `VerifyIsHarmless` | `VerifySpec => Spec`: beside `verify` all of the above holds | |
| `PassedIsSafe` | `PassedNeverDrifts` | |
| `NothingIsUntried` | `FirstRunsAreRehearsed` | |
| `GreenIsTrue` | `GreenMeansGo` | lock, linear, no groups |
| `AlarmsHold` | `AlarmsAreTrue` | lock, linear, no groups, U |
| `CheckoutTypeCorrect` | `CheckoutTypeOK`: among it, that whoever writes or removes has the lock | B |
| `NothingGoesMissing` | `NothingIsLost` | B |
| `BaselinesAreTrue` | `AppliedWasRun`, with the rows of `apply --from-baseline` | B |
| `BaselinesAreComplete` | `CleanRunIsComplete` | lock, B |
| `RepositoryTypeCorrect` | `RepositoryTypeOK`, for any number of files, edits and interruptions | |
| `NothingIsForgotten` | `StatementsRemain` | |
| `MetadataIsTrue` | `RecordedFilesExist` | |
| `SquashLeavesOrder` | `SquashSettles` | |
| `DependenciesAlwaysPrecede` | `DependenciesPrecede`, where no statement refers to one with a later timestamp | |
| `QueueIsAlwaysReady` | `QueueIsReady`, for any number of files with any texts | |
| `SortIsAlwaysRight` | `SortIsRight` | |
| `CyclesAreAlwaysFound` | `CyclesAreFound` | |
| `TreeIsAlwaysInOrder` | `TreeIsInOrder` | |
| `HistoryAlwaysKeepsItsOrder` | `HistoryKeepsItsOrder` | |
| `NothingIsEverLacking` | `NothingIsLacking` | |
| `WaitsHaveATimeout` | `LockWaitsAreBounded`, for any vocabulary and files of any length | |
| `WritesAreNotBlocked` | `WritesGoOn` | |
| `ConcurrentBuildsAreAllowed` | `ConcurrentBuildsSucceed` | |
| `FilesRunAgain` | `RunsAgain` | |
| `DataIsKept` | `DataStays` | |

*Lock*: `HasLock`, PostgreSQL or MySQL; on SQLite the lock is a no-op, and none of
these is claimed. *Linear*: `~Dag`; *DAG*: `Dag`. *A*: `DependenciesAreAcyclic`, in the DAG model no checkout has a
file that depends on itself; on a cycle `apply` visits the files by name, so
that one may start before what it depends on. *E*: `ExpandsComeFirst`, before a switch or
contract a checkout has the expand of its group, by position or by dependency; in the
linear model H gives it (`NumbersPutExpandsFirst`), in the DAG model it takes an edge from
the SQL or a declared one, and without it a contract may be executed for a group of
which the table has no row. *P*: `PhasesAreInOrder`, in a checkout
the switch and the contract of a group follow its expand and the contract follows its
switch, by position or by dependency; again H gives it in the linear model
(`NumberedSwitchComesFirst`). TLC evaluates A, E and P on the instances of
`dag` and `groups`. *No groups*: no file has one. With groups
`StatusForetells` and `GreenMeansGo` are not what the code provides: `status` shows a
phase that was reported as `changed`, and a pass leaves files alone that `verify`
executes. *H*: `GroupsHaveExpand` and `PhasesAreNumbered`. `check` demands the one;
`new` makes files that satisfy the other, and nothing else demands it. Without the
first a switch may come to be executed for a group of which the table has no row;
without the second a contract may come before its switch, as it may in the DAG model where
it does not depend on it. Where two groups have one
short name, a gate means the one with the older row, hence `NamesAreUnique`. *B*:
`HasNoGroups` and `VersionsAgree`, no migration groups, and no client that applies a
file of the checkout in another version than the maintainer's. Both are what the code
needs: `baseline` removes the directory of a whole group for one file of it, and it
asks for the latest status of a file, not for the checksum. *U*: `UsesComeFirst`, no
file of a verified checkout uses what a later one makes. Such a file
fails when all files are executed in their order for the first time. The proof needs
it to know that what the file uses was tried in the shadow before the file itself; the
instance of `verify` satisfies it.

**The table and the lock.** `TypeOK` is not inductive: that the row `RecordResult`
inserts is well typed needs `LocalsOK` (a command in `sql` or `insert` has a row at
hand), and that the end of a CLI process moves the right command needs `CliOK` (a live
CLI process belongs to exactly one command, which is in `sql`). `resolve` copies
the latest row, whose existence needs that times are bounded, hence `ClockOK`;
that a nonempty set of rows has a latest one is the library's `WFMin` on the
naturals, at the head of `MigraguardProofs` (no induction). `LockHeld` (who is past
the wait holds the lock) gives `MutualExclusion`. It also makes `FreshView`
inductive: of the three actions that insert a row, `PhaseInsert` would have to
hold the lock together with the pass, `ResolveInsert` inserts `skipped`, and
`RecordResult` takes its own file out of `left`. `AppliedWasRun` needs
`WorkIsRun`: what a command is about to record is what its CLI process
executes, and a success at hand is in the history `ran`.

`NoRepetition` and `NoRevert` follow from these. If the newest row of a file is
`applied`, `FreshView` puts that row, and so every row of the file, among those
the pass has seen (`SeenIsCurrent`); with a strict clock the code's "latest" is
that newest row; so `Verdict` compared the checksum with it and with all others.
Without a lock both the premise `FreshView` and the strict clock are missing.

**The ledger.** `ImplementsLedger` maps each step of the commands to a step of the
ledger or a stutter. `EntriesGrow` has `InsertRow` append one entry, and
`InsertIsNote` shows which kind: an outcome is true by `WorkIsRun`; `OutcomeOK` (what
a command is about to insert is an outcome with its content, a report on a phase file
without one, or `skipped` for a checksum that the table has as failed) gives the other
two, where `FailureStays` says that a failure does not go from the table. The
hard case is `Execute` (`ExecuteIsPermitted`): the code decides on the latest of the
rows it has seen, the ledger on all entries. By `FreshView` every unseen row of the
file is `skipped`, hence no attempt (`AttemptsAreSeen`), and under a strict clock
the latest row that was seen is the last one inserted; a retry after `failed` is
then a retry after a failed last attempt, and otherwise no row has the checksum.
A crash keeps the CLI process, so the SQL at work stays what it is.

**The graph** (`GraphProofs`). `TransitiveDependents` is a search, written as a
recursive function on sets of files. `SearchEnds` compares it with the least set that
has, with a file, what depends on it (`Upward`): of the sets where the two differ take
one with the fewest files outside, and they differ on the next one too. `DependentsAreClosed` and
`DependentsAreLeast` are all that the other proofs use of it. `DependenciesAreLeast` is
the same in the other direction, and `StuckHasCycle` says that where every file of some
depends on one of them, a file depends on itself (one with the fewest dependencies does).

**What a pass has behind it** (`PassProofs`). `FailureBlocks`, `StatusForetells` and
`IndependentFilesProceed` speak of the table as it is when a file starts or a pass
ends, the code of what it read at the beginning. `PassInv` carries the one to the other.
In the linear model it has `PassedAreSettled`: every safe file or expand that a pass has
visited is applied at the version of its checkout, or resolved, in the table as it is
*now*. It is preserved because a row
that another command inserts about such a file can only be `resolve`'s
(`LockHeld`), which settles it too; a row by the pass itself is about the first file
left (`WorkOfTree`) and, unless it says `applied`, ends the pass; nothing is skipped
for being blocked (`NothingBlocked`); and that a file passed over as settled was
settled at a version needs `ContentRows`: a row with a checksum says applied, failed
or skipped, never running.

In the DAG model a pass goes on behind an error, and what takes the place of
`PassedAreSettled` are three facts. `PassedAreAnswered`: what was visited is settled, or
held by an open group, or all that depends on it is blocked, and it or something it
depends on has been in error since the pass began. `BlockedIsJustified`: the same holds of
each file that is blocked.
`VisitedAreClosed`: without cycles, what a visited file depends on has been visited.
`FailureHoldsBack` follows: what the started file depends on, directly or not, is
behind the pass (`BeforeIsBehind`, by `DependenciesStayInside`), hence answered, and
not by an error, since the started file is not blocked. `OthersProceed` needs no
hypothesis about cycles: at the end of the pass everything has been visited. Linear or
not, `FailureHoldsBack`, `OthersProceed` and `StatusIsRight` read off the invariant at the
step in question, the last once more with the strict clock, since `status` takes the
latest row by time.

**Phases** (`ReleaseProofs`). `GroupInv` adds `RowsAreNotes` (a row names the group
and the phase of its file, but for a `skipped` row of a resolved failure,
which names neither), `PassesAreInOrder` (what was visited precedes what is
left) and `SwitchesAreSeen` (a switch that a pass has behind it has a row, or may not
be applied yet, or is blocked, as its dependents then are). A file past expand starts
only where the code has just asked the table whether it may (`IsGated` reads again),
*if the table knows the group*; that it does is `BeforeIsSettled` on the expand, which
precedes by E, in both models. `SwitchesAreSeen` is needed because a pass goes on behind
a switch it leaves alone: such a switch stays barred while no row comes, and a contract
is barred with it. In the DAG model the pass also goes on behind a switch that an error
has blocked; the contract depends on it, by P, and is blocked with it. It was the
invariant that had to be found; it holds since under the lock no row of an outcome
comes between two files of a pass. `PhaseStatusIsNewest` and `StateAdvances` have the
states computed by `deriveGroupState` follow the rows one by one: a row that says
`applied` or `skipped` lowers no state. Without a lock two rows may have one time, and the
first of them stays the latest: `PhaseStatusGrows` has a new row give its phase its status
or leave what it was, which is all that `RequirementsHold` needs. `ContractsAreNoted` (a contract that ran or is at
work has the expand of its group in the table, and itself once it ran, unless the
row is still to come or a crash took it) gives `ForbiddenIsSeen`.

`DependentsWait`: `apply` reads once which groups are open. `RowsAreOfPass` says that the
rows since then are resolutions, which name no group, or of files the pass has itself
visited. So a phase whose status is another now than when it was read has got a row of
the pass (`PhaseSinceRead`); a group that was not open then and is now has been opened by
its expand, which is applied now, or was complete and has lost that by its contract.

**A rehearsal** (`ReleaseProofs`). `VerifyIsHarmless` maps each step of `verify` to a
stutter of the commands, and the SQL that does what its content says to SQL that may
fail, so `PassInv` holds in `Verify` as well. `DriftIsSeen` is about one content.
`FilesAreTried` (what `verify` answers for is still pending, was tried, or has a row
that excuses it) needs that rows stay. `ShadowIsInOrder` says what is in the shadow when
a file is tried: what the copy had, and files before it at the versions of the
checkout. So a passed file used nothing else; the copy's share is in the database
still, and the files before it are, by `PassedAreSettled` and `AppliedWasRun`,
unless one of them was resolved, which is the premise of `GreenMeansGo`.

`AlarmsHold` goes the other way: a file that failed in the shadow lacked something
there (`HasReason`), or its SQL fails in any case, and the database must not have got
what was lacking. `AlarmInv` has the copy be a part of what has run (`CopyIsOfTable`), what
has run be preceded by what it uses (`UsesWereThere`), what has failed once be lacking in the
shadow until the file is judged (`TrialsAreKept`), and, in an undisturbed pass, what
has run since the copy be files which the pass took for pending, at the versions of the
checkout (`ExecutedIsNew`, `WorkIsNew`). Those among them that come before the file
in question were tried in the shadow before it, and worked there
(`NeedWasTried`), so that nothing the file uses was lacking (`AlarmIsRefuted`).
`SuccessIsNoAlarm` states this of the moment when the success is at hand, whichever of
the two commands comes to the file last (`SuccessByCommand`, `SuccessByVerify`).

**Baselines** (`CheckoutProofs`). `CheckoutInv` is inductive. `SessionOK` is the typing
of the table and the sessions once more, for the commands of a checkout: every row and
every command at work has the version of the maintainer, and what a row calls applied
has run. `StageOK` relates `stage` to `pc`, to the kind of the command and to the
lock. `KeptOK` follows what has been folded through the steps of `baseline`, each of
which may be the last of its process: it is in `schema.sql`; in the text that is about
to become `schema.sql`; and in the database, while a command that will dump it counts
on that. What is about to be removed is in that text, then in `schema.sql`, then in the
metadata, in this order, and `DecidedIsRun` has it executed in the first place.

`CleanRunIsComplete` speaks of the table and the database when the command closes, and
each step before it of one file. `CleanInv` adds what has been recorded or passed
without an error: it is applied or resolved in the table as it is now. The rows of a
baseline settle its files one by one (`DoneByRow`); a file that the pass takes for
settled is settled, by the fresh view and the strict clock (`SettledIsDone`); what it
passes over for another reason is blocked, and then there has been an error
(`OnlyErrorsHoldBack`); and since the command has the lock, all that others insert are
resolutions, which unsettle nothing (`OthersResolve`, `DoneStays`). That the versions
are those of the checkout is `SessionOK`.

**Squash** (`RepositoryProofs`). What could go wrong is that a merge takes the name of
another file and so overwrites it, or that what an interrupted squash has left is merged
a second time in a way that loses a later edit. `RepoInv` is about the contents of
files. `CopiesInv` says which files may share a statement: of two that are not recorded one
contains the other (DAG model), and a file that is not recorded shares one with a recorded
file only if it is the source that a squash was interrupted before removing, refers to
nothing but what is recorded, and comes first in the order (`IsLeft`, `Outlasts`). Such a
file stays alone: what refers to its object refers to the last file that creates it, which is
the recorded one (`LeftIsAlone`). So the groups of `squash` share no statement
(`SquashedGroups`; by `CopiesOfComponent` a file shares statements with files
of its own group only, unless it was left), and the
name of a merged file is its own (`MergedGroup`). `SquashInv` has each source that is
about to be removed be contained in a merged file. That merging keeps the timestamps, the
statements and the edits is `MergeFacts`, which rests on what `FlattenSeq` returns
(`FlattenFacts`) and on a finite set of files being listed in its order (`OrderedFacts`);
that a component is the same from wherever in it the search starts is `ComponentFacts`.
`Ordered` is written by places (`Place`), since the provers cannot expand the library's
sort. `SquashLeavesOrder` needs no more: where the squash ends, the new files are those
it has merged.

`DependenciesAlwaysPrecede` needs more, and only where no squash was interrupted
(`OrderInv`): then each statement has one file beside the one it is being merged into, what
is new has one statement, and a file has its statements by timestamp, since it was merged
from such files (`SinglesMerge`). In the DAG model what must not happen is that merging makes
a cycle of files that had none, which would throw `apply` back on timestamps. `ClosedInv`
says why it does not: what is recorded refers only to what is recorded, and a component of
new files to itself and to what is recorded (`ComponentIsServed`), so that recording it
closes no circle; hence some file of any set refers to none of that set
(`FilesAreNeverStuck`, `NeverStuckIsAcyclic`), and `ApplyOrder` goes on until it has all
files, each after those it refers to (`BuildGoesOn`). In the linear model, where no file was
inserted, what is new comes after all that is recorded (`LinearInv`), so that the files are
intervals of the timestamps. From the order of the files to that of the statements is
`ServedFirst`. The hypothesis `RefersBack` is needed: with a reference to a later timestamp
the DAG model's `squash` breaks the order, which is the finding of `squash_order`.

**Lint** (`LintProofs`). Each theorem has an invariant that relates what the rules
have gathered to what the session and the database went through. `WritesInv` and
`DataInv` are a rule away from their properties. `TransactionsAreSeen`
(a transaction that is open is one the engine knows of, but for `START TRANSACTION`) and
`TimeoutIsInForce` (a `lock_timeout` that the engine has seen is in force, unless a
setting was taken back) are what two rules rely on without checking it. `AgainInv`
has the second execution begin with the tables which the first one has made so far,
and keep them: so whatever the first found it finds, and what would fail for being
there or gone already is reported (`RepetitionIsReported`). `GrammarAssumption`
states the facts about SQL they need: each dialect has its own kinds of statements, a
transaction statement is of one kind, what removes a table drops or renames a table,
and what removes a column drops or renames a column (of the database before the file
only these two are followed). TLC evaluates it on the vocabularies of the run.

**The sort and the search for cycles** (`DependenciesProofs`). `QueueIsReady` alone is not
inductive: that a file whose degree comes
down to zero belongs in the queue needs that the degrees count the dependencies that
are missing, and that the file is not in `sorted` already, which holds because nothing
in `sorted` misses anything; `SortInv` says both. `EdgesOfFile` has the edges that
leave a file, which the code counts, be as many as its dependencies, and
`ShiftKeepsSortInv` takes the emitted file from what each of its dependents misses,
one element and one degree at a time. `OrderInv` adds that the direct dependencies of an
emitted file precede it, and that none is emitted twice. So the indirect ones precede it
(`DependenciesAreLeast`), no emitted file depends on itself, and where the queue is empty
and files are left, each of them depends on one of them (`StuckHasCycle`).

`CyclesAreFound` needs the state of a depth-first search described (`SearchInv`). The gray
files are those on the path, each once, and what is above another on the path depends on
it (`PathInv`): hence a gray neighbour closes a cycle, whose files `IsCycle` follows along
the path and back. As long as none is found, what a black file depends on is black, it
does not depend on itself, and what a gray one depends on is black, next on the path, or
still to be looked at (`BlackInv`): a file that turns black has only black dependencies, and
is not among them. The order in which neighbours are looked at plays no part.

**From the SQL to the order** (`DependenciesProofs`, second half). `TreeIsInOrder` is
about two recursive functions. That such a function exists at all on a graph without a
cycle (`DepthsExist`), and that any function which satisfies its equation is what it is
meant to be (`DepthsAreRight`: a file is one deeper than the deepest it depends on), both
follow by adding one file at a time whose dependencies are in (`GrowsToAllFiles`, an
induction over sets that `StuckHasCycle` carries). A file stands on the level of its
depth (`FilesAreOnTheirLevel`), and what it depends on is less deep.

The other two relate the analysis to the database. `StatementFacts` has, for each kind of
statement, what the analysis finds in it be what the database makes and needs by it;
`KeysAreNames`, that two objects match for the analysis just if they have one name in the
database; `AnalyzeSqlFacts` and `AnalyzeGenericSqlFacts`, that the analysis of a text
finds nothing but what is in its statements, and, of a file that is seen (`IsSeen`), all of
it except for references to what the text creates; `RunFacts`, that executing statements
succeeds just if each finds what it needs among what was there and what those before it
made. `TextsAssumption` says of the vocabularies which clauses each kind of statement has.

`HistoryKeepsItsOrder`: where the files can be executed in the order of their names, what
a file needs is made by itself or an earlier one (`EarlierFilesServe`, with
`FlattenIsConcatenation` for the one text that they are together), so that, each object
being made once, all edges lead back (`EdgesLeadBack`); and of the ready files the sort
takes the least, which then is the next by name (`HistoryStep`).

`NothingIsLacking`: what a file needs and another makes is an edge to that other
(`NeedsAreEdges`, where `IsMadeOnce` excludes that `CreatorOf` leads elsewhere), so a file
does not fail when what it depends on is executed (`FileIsServed`). `PassInv` follows a pass
through failures of any kind: of each file behind it, either it is executed and what it
makes is there, or all that depend on it are held back, which is closed under dependents
(`BlockingCloses`); the second pass begins with what the first has executed. A file that is due
is not held back, and what it depends on precedes it (`OrderInv`), hence is executed.

The inductive invariants were checked by TLC on the instances of `linear_postgresql`,
`groups`, `dag`, `dependencies`, `verify`, `baseline`, `repository` and `lint` before they were proved. Three properties did not survive. An
earlier `GreenMeansGo` asked only that nothing else was executed in between, and is false
where a crash has lost the row of an execution that was later taken for a failure. An
earlier `AlarmsAreTrue` did not ask whether a file before was resolved, and is false with
three files: the SQL of a failed file is retried by a client that crashes, the file is
resolved while that SQL is at work, and it ends after `verify` has copied the schema. The
instance of `verify`, with its bounds, does not reach this. An earlier
`DependentsOfOpenGroupsWait` had an expand as the only way for a pass to open a group,
and is false where the contract of a complete group is edited and fails: the row that
says so takes the group back to `contract_ready`, and the pass goes on
to the safe files behind it by its list of open groups. The instance of `dag` has a hotfix
of the contract since.

**Only model-checked:** `CommandsEnd` (liveness under fairness is out of the provers'
reach).

## 6. Not modelled, and what may follow

* **The life cycle of a group** as an abstract specification of its own. The
  documented cycle (docs/expand-contract.md:484-508) has switch and contract applied
  on different days from one checkout; the code applies both in one pass, so the
  specification would have to say less than the documentation does.
* **`Repository` with migration groups**, whose phase files `squash` takes for files
  like any other, and **composed with `Apply`**: whether what `check` lets through,
  `apply` accepts on every database the earlier releases have left.
* **Names and checksums**: `nextSerialNumber`, the formats of names, and
  `normalizeSQL`, which is text processing character by character. Where it takes
  the end of a literal for elsewhere (backslash quotes of MySQL, identifiers that
  end in `e` before a quote, `checksum.ts:56-93`) two contents get one checksum.
* **`ensureTable`** and the upgrade of the table's columns; `--tag`.

Left out for good: agents, audit and insight reports (prompts for external
services; they change no migration state), option parsing and the generated code
(`generated/` alone is 4,600 of the 15,300 lines of implementation), custom lint
rules (code of the user), parsing, printing and HTML.
