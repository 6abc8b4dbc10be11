-------------------------------- MODULE Lint --------------------------------
(***************************************************************************)
(* migraguard lint beside what the linted file does.  An author writes a   *)
(* migration file statement by statement; the rule engine walks over it,   *)
(* and a session of psql (or mysql, sqlite3) executes it, twice: on the    *)
(* database as it is, and on one that has had the whole file already.      *)
(*                                                                         *)
(* A prefix of a file is a file, so what is written so far is what lint    *)
(* is asked about.  The text itself is not kept, only what the engine and  *)
(* the databases have made of it, so that files of any length are covered. *)
(* A statement that lint reports is not written: the file would fail lint  *)
(* however it went on.                                                     *)
(***************************************************************************)
EXTENDS GenericRules

CONSTANTS
  Words,       \* vocabularies: the statements an author of each may write
  DialectOf,   \* the dialect of each: "postgresql", "mysql" or "sqlite"
  FilePhases,  \* the phases of the file, "safe" for one outside a group
  Directives,  \* what the file's allow directives may list: sets of rules
  Off,         \* rules that the configuration sets to warn or off
  Existing,    \* the tables and columns of the database before the file
  PartOf       \* pairs <<o, t>>: object o goes when table t is dropped

Vocabularies == DOMAIN Words

Statements == UNION {Words[v] : v \in Vocabularies}

Objects == UNION {{s.on, s.obj} : s \in Statements}

\* What statements are on.
Tables == {s.on : s \in Statements} \ {""}

ASSUME LintAssumption ==
  /\ DialectOf \in [Vocabularies -> {"postgresql", "mysql", "sqlite"}]
  /\ \A s \in Statements : s.marks \subseteq STRING
  /\ Existing \subseteq Objects
  /\ PartOf \subseteq (Objects \ Tables) \X Tables
  /\ \A p \in PartOf : p[1] \in Existing => p[2] \in Existing

VARIABLES
  file,      \* what is fixed for the file: vocabulary, phase, allow directives
  walk,      \* what the engine and the rules have gathered
  session,   \* the settings of the session that executes the file
  run,       \* the database: its objects, whether the file has failed on it
  again,     \* a second one, started with the objects the file leaves
  events     \* history: what happened in the first execution

lintVars == <<file, walk, session, run, again, events>>

NewWalk ==
  [parsed |-> TRUE, created |-> {}, inTransaction |-> FALSE,
   lockTimeoutSet |-> FALSE, stmtTimeoutSet |-> FALSE,
   set |-> {}, reset |-> {}, unanalyzed |-> {}, notValid |-> {}, cascade |-> FALSE]

NewSession == [bounded |-> {}, inTransaction |-> FALSE, saved |-> {}]

Makes(s) ==
  \/ s.node \in {"CreateStmt", "IndexStmt", "ViewStmt", "create_table", "create_index", "create_view"}
  \/ Alters(s, "add_column") \/ Alters(s, "add_constraint")
  \/ Is(s, "alter", "add") /\ "column" \in s.marks

\* What is renamed is gone for those who know the old name.
Removes(s) ==
  \/ s.node \in {"DropStmt", "drop", "RenameStmt"} \/ Alters(s, "drop_column")
  \/ Is(s, "alter", "rename")
  \/ Is(s, "alter", "drop") /\ "column" \in s.marks

\* A statement that drops or renames a table, or a column, is marked so.
RemovesTable(s) ==
  /\ s.node \in {"DropStmt", "drop", "RenameStmt"} \/ Is(s, "alter", "rename")
  /\ "table" \in s.marks

RemovesColumn(s) ==
  \/ Alters(s, "drop_column")
  \/ s.node \in {"RenameStmt", "alter"} /\ "column" \in s.marks

\* What the parsers give for any file.
ASSUME GrammarAssumption ==
  /\ \A v \in Vocabularies : \A s \in Words[v] :
       s.node \in GenericKinds <=> DialectOf[v] # "postgresql"
  /\ \A s \in Statements :
       /\ s.node = "TransactionStmt" =>
            \A k, l \in s.marks \cap {"begin", "start", "commit", "rollback"} : k = l
       /\ Removes(s) /\ s.obj \in Tables => RemovesTable(s)
       /\ Removes(s) /\ s.obj \in Existing => RemovesTable(s) \/ RemovesColumn(s)

LintInit ==
  /\ file \in [vocabulary : Vocabularies, phase : FilePhases, allowed : Directives]
  /\ walk = NewWalk
  /\ session = NewSession
  /\ run = [objects |-> Existing, failed |-> FALSE]
  /\ \E left \in SUBSET (Existing \cup {s.obj : s \in {w \in Words[file.vocabulary] : Makes(w)}}) :
       again = [start |-> left, objects |-> left, failed |-> FALSE]
  /\ events = {}

IsPg == DialectOf[file.vocabulary] = "postgresql"

-----------------------------------------------------------------------------
(* The engine *)

\* Fault: the other way of beginning a transaction is the one that is known.
OpensByStart(s) == Is(s, "TransactionStmt", "start")

Opens(s) == Is(s, "TransactionStmt", "begin")

Closes(s) == s.node = "TransactionStmt" /\ s.marks \cap {"commit", "rollback"} # {}

\* runRules, what it keeps itself: START TRANSACTION is not among what opens.
EngineWalk(x, s) ==
  [x EXCEPT
     !.lockTimeoutSet = @ \/ (s.node = "VariableSetStmt" /\ s.obj = "lock_timeout"),
     !.inTransaction = (@ \/ Opens(s)) /\ ~Closes(s),
     !.created = IF s.node = "CreateStmt" THEN @ \cup {s.on} ELSE @]

\* The rule on timeouts counts a RESET, too.
StatementTimeoutWalk(x, s) ==
  [x EXCEPT !.stmtTimeoutSet =
     @ \/ (s.node = "VariableSetStmt" /\ s.obj = "statement_timeout")]

ResetTimeoutsWalk(x, s) ==
  LET named == {s.obj} \cap Timeouts
  IN  IF s.node # "VariableSetStmt" THEN x
      ELSE IF "reset_all" \in s.marks THEN [x EXCEPT !.reset = Timeouts]
      ELSE IF "reset" \in s.marks THEN [x EXCEPT !.reset = @ \cup named]
      ELSE [x EXCEPT !.set = @ \cup named]

AnalyzeWalk(x, s) ==
  CASE s.node = "IndexStmt"                   -> [x EXCEPT !.unanalyzed = @ \cup {s.on}]
    [] Lacks(s, "VacuumStmt", "no_table")     -> [x EXCEPT !.unanalyzed = @ \ {s.on}]
    [] OTHER                                  -> x

NotValidWalk(x, s) ==
  IF Alters(s, "add_constraint") /\ {"not_valid", "named"} \subseteq s.marks
    THEN [x EXCEPT !.notValid = @ \cup {<<s.on, s.obj>>}]
    ELSE x

PgWalk(x, s) ==
  NotValidWalk(AnalyzeWalk(ResetTimeoutsWalk(StatementTimeoutWalk(EngineWalk(x, s), s), s), s), s)

\* runGenericRules: it keeps the tables and the transaction too, for no rule.
GenericWalk(x, s) ==
  [x EXCEPT !.cascade = @ \/ "cascade" \in s.marks]

\* A variable of psql is no SQL: the parser rejects the whole file.
Parses(s) == "psql_variable" \notin s.marks

\* The rules that apply: not silenced in the file, and of its phase if of any.
Applies(r) ==
  /\ r \notin file.allowed
  /\ r \in DOMAIN PhaseOfRule => PhaseOfRule[r] = file.phase

\* A rule looks at a statement when the engine has counted it.
Reports(s) ==
  {r \in RulesThatHold(IF IsPg THEN Verdicts(s, EngineWalk(walk, s)) ELSE GenericVerdicts(s)) :
     Applies(r)}

EndReports ==
  {r \in RulesThatHold(IF IsPg THEN EndVerdicts(walk) ELSE GenericEndVerdicts(walk)) : Applies(r)}

\* Nothing is said of a file that does not parse, but of CASCADE in its text.
Unparsed(x, s) ==
  [NewWalk EXCEPT !.parsed = FALSE, !.cascade = ~IsPg /\ GenericWalk(x, s).cascade]

LintPasses == EndReports \subseteq Off

-----------------------------------------------------------------------------
(* The session and its database *)

Settings(x, s) ==
  CASE s.node = "VariableSetStmt" /\ "reset_all" \in s.marks ->
         [x EXCEPT !.bounded = {}]
    [] Is(s, "VariableSetStmt", "reset") ->
         [x EXCEPT !.bounded = @ \ {s.obj}]
    [] s.node = "VariableSetStmt" ->
         [x EXCEPT !.bounded = @ \cup ({s.obj} \cap Timeouts)]
    [] s.node = "TransactionStmt" /\ s.marks \cap {"begin", "start"} # {} ->
         [x EXCEPT !.inTransaction = TRUE, !.saved = IF x.inTransaction THEN @ ELSE x.bounded]
    [] Is(s, "TransactionStmt", "commit") ->
         [x EXCEPT !.inTransaction = FALSE, !.saved = {}]
    [] Is(s, "TransactionStmt", "rollback") ->
         [x EXCEPT !.inTransaction = FALSE, !.saved = {},
                   !.bounded = IF x.inTransaction THEN x.saved ELSE @]
    [] OTHER -> x

\* A statement that is about a table needs it to be there.
Needs(s) ==
  IF s.node \in {"CreateStmt", "create_table", "ViewStmt", "create_view", "DropStmt", "drop",
                 "TransactionStmt", "transaction", "VariableSetStmt", "AlterSystemStmt"}
    THEN {} ELSE {s.on} \cap Tables

Fails(objects, s) ==
  \/ ~(Needs(s) \subseteq objects)
  \/ Makes(s) /\ s.obj \in objects /\ s.marks \cap {"if_not_exists", "replace"} = {}
  \/ Removes(s) /\ s.obj \notin objects /\ s.marks \cap {"missing_ok", "if_exists"} = {}

After(objects, s) ==
  IF Makes(s) THEN objects \cup {s.obj}
  ELSE IF Removes(s) THEN objects \ ({s.obj} \cup {o \in Objects : <<o, s.obj>> \in PartOf})
  ELSE objects

\* The CLI stops at the first statement that fails.
Execute(d, s) ==
  IF d.failed THEN d
  ELSE IF Fails(d.objects, s) THEN [d EXCEPT !.failed = TRUE, !.objects = {}]
  ELSE [d EXCEPT !.objects = After(@, s)]

-----------------------------------------------------------------------------
(* Writing and executing a statement *)

\* What waits for a lock that keeps others from the table.
Waits(s) ==
  \/ s.node \in {"AlterTableStmt", "TruncateStmt", "ClusterStmt", "ReindexStmt", "RefreshMatViewStmt"}
  \/ s.node = "RenameStmt" /\ s.marks \cap {"table", "column"} # {}
  \/ s.node \in {"IndexStmt", "DropStmt"} /\ "concurrent" \notin s.marks
  \/ Is(s, "VacuumStmt", "full") /\ "vacuum" \in s.marks

TakesBack(s) ==
  \/ s.node = "VariableSetStmt" /\ s.marks \cap {"reset", "reset_all"} # {}
  \/ Is(s, "TransactionStmt", "rollback")

Happens(s) ==
  {e \in {"setting_taken_back", "unbounded_wait", "blocked_writes", "concurrent_in_transaction",
          "started", "unguarded_alteration"} :
     CASE e = "setting_taken_back" -> TakesBack(s)
       [] e = "unbounded_wait" ->
            /\ Waits(s) /\ s.on \in Existing
            /\ "lock_timeout" \notin session.bounded
            /\ "setting_taken_back" \notin events
       [] e = "blocked_writes" ->
            Lacks(s, "IndexStmt", "concurrent") /\ s.on \in Existing
       [] e = "concurrent_in_transaction" ->
            Is(s, "IndexStmt", "concurrent") /\ session.inTransaction
       [] e = "unguarded_alteration" ->
            \/ Alters(s, "add_constraint")
            \/ Lacks(s, "AlterTableStmt", "if_not_exists") /\ "add_column" \in s.marks
            \/ Lacks(s, "AlterTableStmt", "missing_ok") /\ "drop_column" \in s.marks
            \/ Lacks(s, "alter", "if_not_exists") /\ "add" \in s.marks
            \/ Lacks(s, "alter", "if_exists") /\ "drop" \in s.marks
            \/ /\ s.node = "RenameStmt" \/ Is(s, "alter", "rename")
               /\ s.marks \cap {"table", "column"} = {}
       [] e = "started" -> Is(s, "TransactionStmt", "start")}

\* The author writes s; the engine walks over it and the CLI executes it.
Write(s) ==
  /\ s \in Words[file.vocabulary]
  /\ ~run.failed
  /\ IF walk.parsed /\ Parses(s)
       THEN /\ Reports(s) \subseteq Off
            /\ walk' = IF IsPg THEN PgWalk(walk, s) ELSE GenericWalk(walk, s)
       ELSE walk' = Unparsed(walk, s)
  /\ session' = IF IsPg THEN Settings(session, s) ELSE session
  /\ run' = Execute(run, s)
  /\ again' = Execute(again, s)
  /\ events' = events \cup Happens(s)
  /\ UNCHANGED file

LintNext == \E s \in Statements : Write(s)

LintSpec == LintInit /\ [][LintNext]_lintVars

-----------------------------------------------------------------------------
Silenced(rules) == rules \cap (file.allowed \cup Off) # {}

RulesOnLocks ==
  {"require_lock_timeout", "ban_rename_table", "ban_rename_column", "ban_truncate", "ban_cluster",
   "ban_reindex", "ban_vacuum_full", "ban_refresh_materialized_view_in_migration"}

(***************************************************************************)
(* In a file that lint passes, every statement that waits for a lock on a  *)
(* table that is in use has a lock_timeout in force, whatever transactions *)
(* the file opens, unless the file has taken a setting back before it.     *)
(***************************************************************************)
LockWaitsAreBounded ==
  LintPasses /\ walk.parsed /\ ~Silenced(RulesOnLocks) => "unbounded_wait" \notin events

(***************************************************************************)
(* A file that lint passes builds no index in a way that blocks the writes *)
(* to a table, unless the file itself creates the table, or a table of the *)
(* name, which IF NOT EXISTS lets it do where the table exists.            *)
(***************************************************************************)
WritesGoOn ==
  LintPasses /\ walk.parsed /\ ~Silenced({"require_concurrent_index"})
    /\ walk.created \cap Existing = {}
    => "blocked_writes" \notin events

(***************************************************************************)
(* A file that lint passes builds no index concurrently in a transaction,  *)
(* where PostgreSQL refuses to, however its transactions begin and end; of *)
(* those begun with START TRANSACTION the engine does not know.            *)
(***************************************************************************)
ConcurrentBuildsSucceed ==
  LintPasses /\ walk.parsed /\ ~Silenced({"ban_concurrent_index_in_transaction"})
    /\ "started" \notin events
    => "concurrent_in_transaction" \notin events

RulesOnRepetition ==
  {"require_if_not_exists", "require_create_or_replace_view", "ban_drop_table",
   "ban_rename_table", "ban_rename_column"}

(***************************************************************************)
(* README.md:529: "Migration SQL must be idempotent".  A migration that    *)
(* lint passes, and that succeeds, succeeds again on the database that it  *)
(* leaves; only columns and constraints that are added or dropped without  *)
(* IF [NOT] EXISTS, and renamed indexes and the like, are not seen by lint.*)
(***************************************************************************)
RunsAgain ==
  /\ LintPasses /\ walk.parsed /\ ~Silenced(RulesOnRepetition)
  /\ "unguarded_alteration" \notin events
  /\ ~run.failed /\ run.objects = again.start
  => ~again.failed

RulesOnData ==
  {"ban_drop_table", "ban_drop_column", "ban_rename_table", "ban_rename_column"}

(***************************************************************************)
(* A file that lint passes leaves every table and column of the database,  *)
(* unless its directives allow otherwise, whatever it does in between and  *)
(* whether it is executed whole or up to some statement.                   *)
(***************************************************************************)
DataStays ==
  LintPasses /\ walk.parsed /\ ~Silenced(RulesOnData) /\ ~run.failed
    => Existing \subseteq run.objects
=============================================================================
