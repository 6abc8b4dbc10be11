----------------------------- MODULE LintProofs -----------------------------
(***************************************************************************)
(* Proofs of what it is worth that lint passes a file, for any vocabulary  *)
(* of statements, files of any length, any phase, allow directives and     *)
(* severities.                                                             *)
(***************************************************************************)
EXTENDS Lint, TLAPS

-----------------------------------------------------------------------------
(* What an unsilenced rule reports is not written                          *)

\* The rules for PostgreSQL that the proofs are about report what they say.
LEMMA PgReports ==
  ASSUME NEW s, NEW x
  PROVE  LET R == RulesThatHold(Verdicts(s, x))
         IN  /\ RequireConcurrentIndex(s, x) => "require_concurrent_index" \in R
             /\ RequireIfNotExists(s) => "require_if_not_exists" \in R
             /\ RequireLockTimeout(s, x) => "require_lock_timeout" \in R
             /\ BanConcurrentIndexInTransaction(s, x)
                  => "ban_concurrent_index_in_transaction" \in R
             /\ RequireCreateOrReplaceView(s) => "require_create_or_replace_view" \in R
             /\ BanTruncate(s) => "ban_truncate" \in R
             /\ BanDropColumn(s) => "ban_drop_column" \in R
             /\ BanRefreshMaterializedView(s)
                  => "ban_refresh_materialized_view_in_migration" \in R
             /\ BanRenameColumn(s) => "ban_rename_column" \in R
             /\ BanRenameTable(s) => "ban_rename_table" \in R
             /\ BanDropTable(s) => "ban_drop_table" \in R
             /\ BanVacuumFull(s) => "ban_vacuum_full" \in R
             /\ BanCluster(s) => "ban_cluster" \in R
             /\ BanReindex(s) => "ban_reindex" \in R
BY DEF RulesThatHold, Verdicts

LEMMA GenericReports ==
  ASSUME NEW s
  PROVE  LET R == RulesThatHold(GenericVerdicts(s))
         IN  /\ GenericRequireIfNotExists(s) => "require_if_not_exists" \in R
             /\ GenericRequireCreateOrReplaceView(s) => "require_create_or_replace_view" \in R
             /\ GenericBanDropColumn(s) => "ban_drop_column" \in R
             /\ GenericBanRenameColumn(s) => "ban_rename_column" \in R
             /\ GenericBanRenameTable(s) => "ban_rename_table" \in R
             /\ GenericBanDropTable(s) => "ban_drop_table" \in R
BY DEF RulesThatHold, GenericVerdicts

LEMMA ReportedIsSilenced ==
  ASSUME NEW s, NEW r, Reports(s) \subseteq Off, r \notin DOMAIN PhaseOfRule,
         r \in RulesThatHold(IF IsPg THEN Verdicts(s, EngineWalk(walk, s)) ELSE GenericVerdicts(s))
  PROVE  r \in file.allowed \cup Off
BY DEF Reports, Applies

LEMMA RulesOfAnyPhase ==
  \A r \in RulesOnLocks \cup RulesOnData \cup RulesOnRepetition
                \cup {"require_concurrent_index", "ban_concurrent_index_in_transaction"} :
    r \notin DOMAIN PhaseOfRule
BY DEF RulesOnLocks, RulesOnData, RulesOnRepetition, PhaseOfRule

-----------------------------------------------------------------------------
(* Types                                                                   *)

WalkType ==
  [parsed : BOOLEAN, created : SUBSET Objects, inTransaction : BOOLEAN,
   lockTimeoutSet : BOOLEAN, stmtTimeoutSet : BOOLEAN,
   set : SUBSET Timeouts, reset : SUBSET Timeouts, unanalyzed : SUBSET Objects,
   notValid : SUBSET (Objects \X Objects), cascade : BOOLEAN]

LintTyping ==
  /\ file \in [vocabulary : Vocabularies, phase : FilePhases, allowed : Directives]
  /\ walk \in WalkType
  /\ session \in [bounded : SUBSET Timeouts, inTransaction : BOOLEAN, saved : SUBSET Timeouts]
  /\ run \in [objects : SUBSET Objects, failed : BOOLEAN]
  /\ again \in [start : SUBSET Objects, objects : SUBSET Objects, failed : BOOLEAN]

LEMMA StatementObjects ==
  ASSUME NEW s \in Statements
  PROVE  s.on \in Objects /\ s.obj \in Objects
BY DEF Objects

LEMMA EngineWalkIs ==
  ASSUME NEW x \in WalkType, NEW s \in Statements
  PROVE  LET y == EngineWalk(x, s)
         IN  /\ y \in WalkType
             /\ y.parsed = x.parsed
             /\ y.created = IF s.node = "CreateStmt" THEN x.created \cup {s.on} ELSE x.created
             /\ y.inTransaction = ((x.inTransaction \/ Opens(s)) /\ ~Closes(s))
             /\ y.lockTimeoutSet
                  = (x.lockTimeoutSet \/ (s.node = "VariableSetStmt" /\ s.obj = "lock_timeout"))
BY StatementObjects DEF EngineWalk, WalkType

\* What the rules gather beside the engine is in fields of their own.
LEMMA PgWalkIs ==
  ASSUME NEW x \in WalkType, NEW s \in Statements
  PROVE  LET y == PgWalk(x, s)
             z == EngineWalk(x, s)
         IN  /\ y \in WalkType
             /\ y.parsed = x.parsed
             /\ y.created = z.created
             /\ y.inTransaction = z.inTransaction
             /\ y.lockTimeoutSet = z.lockTimeoutSet
<1> DEFINE z == EngineWalk(x, s)
           Like(y) == /\ y \in WalkType
                      /\ y.parsed = z.parsed
                      /\ y.created = z.created
                      /\ y.inTransaction = z.inTransaction
                      /\ y.lockTimeoutSet = z.lockTimeoutSet
<1>1. Like(z) /\ z.parsed = x.parsed
  BY EngineWalkIs
<1> HIDE DEF z
<1>2. ASSUME NEW y, Like(y) PROVE Like(StatementTimeoutWalk(y, s))
  BY <1>2 DEF StatementTimeoutWalk, WalkType
<1>3. ASSUME NEW y, Like(y) PROVE Like(ResetTimeoutsWalk(y, s))
  BY <1>3 DEF ResetTimeoutsWalk, WalkType
<1>4. ASSUME NEW y, Like(y) PROVE Like(AnalyzeWalk(y, s))
  BY <1>4, StatementObjects DEF AnalyzeWalk, WalkType
<1>5. ASSUME NEW y, Like(y) PROVE Like(NotValidWalk(y, s))
  BY <1>5, StatementObjects DEF NotValidWalk, WalkType
<1>6. Like(PgWalk(x, s))
  <2> HIDE DEF Like
  <2> QED
    BY <1>1, <1>2, <1>3, <1>4, <1>5 DEF PgWalk, z
<1> QED
  BY <1>1, <1>6 DEF z

LEMMA LintTypingInit == LintInit => LintTyping
<1> SUFFICES ASSUME LintInit PROVE LintTyping
  OBVIOUS
<1>1. file \in [vocabulary : Vocabularies, phase : FilePhases, allowed : Directives]
  BY DEF LintInit
<1>2. walk \in WalkType
  BY DEF LintInit, NewWalk, WalkType
<1>3. session \in [bounded : SUBSET Timeouts, inTransaction : BOOLEAN, saved : SUBSET Timeouts]
  BY DEF LintInit, NewSession
<1>4. run \in [objects : SUBSET Objects, failed : BOOLEAN]
  BY LintAssumption DEF LintInit
<1>5. again \in [start : SUBSET Objects, objects : SUBSET Objects, failed : BOOLEAN]
  <2>1. PICK left \in SUBSET (Existing \cup {s.obj : s \in {w \in Words[file.vocabulary] : Makes(w)}}) :
          again = [start |-> left, objects |-> left, failed |-> FALSE]
    BY DEF LintInit
  <2>2. \A s \in Words[file.vocabulary] : s \in Statements
    BY <1>1 DEF Statements
  <2>3. left \subseteq Objects
    BY <2>2, LintAssumption, StatementObjects
  <2> QED
    BY <2>1, <2>3
<1> QED
  BY <1>1, <1>2, <1>3, <1>4, <1>5 DEF LintTyping

LEMMA LintTypingNext == LintTyping /\ [LintNext]_lintVars => LintTyping'
<1> SUFFICES ASSUME LintTyping, [LintNext]_lintVars PROVE LintTyping'
  OBVIOUS
<1> USE DEF LintTyping
<1>1. ASSUME NEW s \in Statements, Write(s) PROVE LintTyping'
  <2>1. walk' \in WalkType
    <3>1. Unparsed(walk, s) \in WalkType
      BY DEF Unparsed, NewWalk, WalkType
    <3>2. GenericWalk(walk, s) \in WalkType
      BY DEF GenericWalk, WalkType
    <3> QED
      BY <1>1, <3>1, <3>2, PgWalkIs DEF Write
  <2>2. session' \in [bounded : SUBSET Timeouts, inTransaction : BOOLEAN, saved : SUBSET Timeouts]
    <3>1. Settings(session, s) \in [bounded : SUBSET Timeouts, inTransaction : BOOLEAN, saved : SUBSET Timeouts]
      BY DEF Settings
    <3> QED
      BY <1>1, <3>1 DEF Write
  <2>3. \A o \in SUBSET Objects : After(o, s) \in SUBSET Objects
    BY StatementObjects DEF After
  <2>4. /\ run' \in [objects : SUBSET Objects, failed : BOOLEAN]
        /\ again' \in [start : SUBSET Objects, objects : SUBSET Objects, failed : BOOLEAN]
    BY <1>1, <2>3 DEF Write, Execute
  <2> QED
    BY <1>1, <2>1, <2>2, <2>4 DEF Write
<1>2. CASE UNCHANGED lintVars
  BY <1>2 DEF lintVars
<1> QED
  BY <1>1, <1>2 DEF LintNext

-----------------------------------------------------------------------------
(* A statement is written *)

\* The author writes a statement that parses, in a file that does.
WritesParsed(s) ==
  /\ s \in Words[file.vocabulary]
  /\ walk.parsed
  /\ Reports(s) \subseteq Off
  /\ walk' = IF IsPg THEN PgWalk(walk, s) ELSE GenericWalk(walk, s)

LEMMA ParsedStep ==
  ASSUME LintTyping, NEW s \in Statements, Write(s), walk'.parsed
  PROVE  WritesParsed(s)
BY DEF LintTyping, WalkType, Write, WritesParsed, Unparsed, NewWalk

\* What the engine keeps, after a statement for PostgreSQL.
LEMMA EngineStep ==
  ASSUME LintTyping, NEW s \in Statements, WritesParsed(s), IsPg
  PROVE  /\ walk'.created = EngineWalk(walk, s).created
         /\ walk'.inTransaction = ((walk.inTransaction \/ Opens(s)) /\ ~Closes(s))
         /\ walk'.lockTimeoutSet
              = (walk.lockTimeoutSet \/ (s.node = "VariableSetStmt" /\ s.obj = "lock_timeout"))
<1>1. walk \in WalkType /\ walk' = PgWalk(walk, s)
  BY DEF LintTyping, WritesParsed
<1>2. /\ walk'.created = EngineWalk(walk, s).created
      /\ walk'.inTransaction = EngineWalk(walk, s).inTransaction
      /\ walk'.lockTimeoutSet = EngineWalk(walk, s).lockTimeoutSet
  BY <1>1, PgWalkIs
<1> QED
  BY <1>1, <1>2, EngineWalkIs

\* The kinds of a parser are its own.
LEMMA KindOfStatement ==
  ASSUME LintTyping, NEW s, s \in Words[file.vocabulary]
  PROVE  s.node \in GenericKinds <=> ~IsPg
BY GrammarAssumption DEF LintTyping, IsPg

\* What is silenced, and which vocabulary it is, is fixed for the file.
LEMMA FileIsFixed ==
  ASSUME NEW s, Write(s)
  PROVE  /\ IsPg' = IsPg
         /\ \A rules : Silenced(rules)' = Silenced(rules)
         /\ \A e : e \in events => e \in events'
BY DEF Write, IsPg, Silenced

-----------------------------------------------------------------------------
(* Writes go on *)

WritesInv ==
  walk.parsed /\ ~Silenced({"require_concurrent_index"}) /\ walk.created \cap Existing = {}
    => "blocked_writes" \notin events

LEMMA WritesNext == LintTyping /\ WritesInv /\ [LintNext]_lintVars => WritesInv'
<1> SUFFICES ASSUME LintTyping, WritesInv, [LintNext]_lintVars PROVE WritesInv'
  OBVIOUS
<1>1. ASSUME NEW s \in Statements, Write(s), walk'.parsed, ~Silenced({"require_concurrent_index"})',
             walk'.created \cap Existing = {}
      PROVE  "blocked_writes" \notin events'
  <2>1. WritesParsed(s)
    BY <1>1, ParsedStep
  <2>2. IsPg => walk'.created = EngineWalk(walk, s).created
    BY <2>1, EngineStep
  <2>3. walk.created \subseteq walk'.created
    <3>1. CASE IsPg
      BY <2>2, <3>1, EngineWalkIs DEF LintTyping
    <3>2. CASE ~IsPg
      BY <2>1, <3>2 DEF WritesParsed, LintTyping, WalkType, GenericWalk
    <3> QED
      BY <3>1, <3>2
  <2>4. "blocked_writes" \notin events
    BY <1>1, <2>1, <2>3, FileIsFixed DEF WritesInv, WritesParsed
  <2>5. "blocked_writes" \notin Happens(s)
    <3> SUFFICES ASSUME Lacks(s, "IndexStmt", "concurrent"), s.on \in Existing PROVE FALSE
      BY DEF Happens
    <3>1. IsPg
      BY <2>1, KindOfStatement DEF WritesParsed, GenericKinds, Lacks
    <3>2. RequireConcurrentIndex(s, EngineWalk(walk, s))
      BY <1>1, <2>2, <3>1 DEF RequireConcurrentIndex
    <3>3. "require_concurrent_index" \in file.allowed \cup Off
      BY <2>1, <3>1, <3>2, PgReports, RulesOfAnyPhase, ReportedIsSilenced DEF WritesParsed
    <3> QED
      BY <1>1, <3>3, FileIsFixed DEF Silenced
  <2> QED
    BY <1>1, <2>4, <2>5 DEF Write
<1>2. CASE UNCHANGED lintVars
  BY <1>2 DEF lintVars, WritesInv, Silenced
<1> QED
  BY <1>1, <1>2 DEF LintNext, WritesInv

-----------------------------------------------------------------------------
(* Concurrent builds succeed *)

\* A transaction of the session is one the engine knows of.
TransactionsAreSeen ==
  walk.parsed /\ IsPg /\ "started" \notin events
    => (session.inTransaction => walk.inTransaction)

BuildsInv ==
  /\ TransactionsAreSeen
  /\ walk.parsed /\ ~Silenced({"ban_concurrent_index_in_transaction"}) /\ "started" \notin events
       => "concurrent_in_transaction" \notin events

LEMMA TransactionsNext ==
  LintTyping /\ TransactionsAreSeen /\ [LintNext]_lintVars => TransactionsAreSeen'
<1> SUFFICES ASSUME LintTyping, TransactionsAreSeen, [LintNext]_lintVars PROVE TransactionsAreSeen'
  OBVIOUS
<1>1. ASSUME NEW s \in Statements, Write(s), walk'.parsed, IsPg', "started" \notin events',
             session'.inTransaction
      PROVE  walk'.inTransaction
  <2>1. WritesParsed(s) /\ IsPg
    BY <1>1, ParsedStep, FileIsFixed
  <2>2. walk'.inTransaction = ((walk.inTransaction \/ Opens(s)) /\ ~Closes(s))
    BY <2>1, EngineStep
  <2>3. "started" \notin events /\ ~Is(s, "TransactionStmt", "start")
    BY <1>1 DEF Write, Happens
  <2>4. session' = Settings(session, s)
    BY <1>1, <2>1 DEF Write
  <2>5. CASE s.node = "TransactionStmt"
    <3> DEFINE kinds == s.marks \cap {"begin", "start", "commit", "rollback"}
    <3>1. \A k, l \in kinds : k = l
      BY <2>5, GrammarAssumption
    <3>2. CASE "begin" \in s.marks
      <4>1. Opens(s)
        BY <2>5, <3>2 DEF Opens, Is
      <4>2. "commit" \notin s.marks /\ "rollback" \notin s.marks
        BY <3>1, <3>2
      <4>3. ~Closes(s)
        BY <4>2 DEF Closes
      <4> QED
        BY <2>2, <4>1, <4>3
    <3>3. CASE "begin" \notin s.marks
      <4>1. "commit" \notin s.marks /\ "rollback" \notin s.marks /\ session' = session
        BY <1>1, <2>3, <2>4, <2>5, <3>3 DEF Settings, Is, LintTyping
      <4>2. ~Closes(s)
        BY <4>1 DEF Closes
      <4>3. walk.inTransaction
        BY <1>1, <2>1, <2>3, <4>1 DEF TransactionsAreSeen, WritesParsed
      <4> QED
        BY <2>2, <4>2, <4>3
    <3> QED
      BY <3>2, <3>3
  <2>6. CASE s.node # "TransactionStmt"
    <3>1. session'.inTransaction = session.inTransaction
      BY <2>4, <2>6 DEF Settings, Is, LintTyping
    <3> QED
      BY <1>1, <2>1, <2>2, <2>3, <2>6, <3>1
         DEF Closes, TransactionsAreSeen, WritesParsed, LintTyping, WalkType
  <2> QED
    BY <2>5, <2>6
<1>2. CASE UNCHANGED lintVars
  BY <1>2 DEF lintVars, TransactionsAreSeen, IsPg
<1> QED
  BY <1>1, <1>2 DEF LintNext, TransactionsAreSeen

LEMMA BuildsNext == LintTyping /\ BuildsInv /\ [LintNext]_lintVars => BuildsInv'
<1> SUFFICES ASSUME LintTyping, BuildsInv, [LintNext]_lintVars PROVE BuildsInv'
  OBVIOUS
<1>1. TransactionsAreSeen'
  BY TransactionsNext DEF BuildsInv
<1>2. ASSUME NEW s \in Statements, Write(s), walk'.parsed,
             ~Silenced({"ban_concurrent_index_in_transaction"})', "started" \notin events'
      PROVE  "concurrent_in_transaction" \notin events'
  <2>1. WritesParsed(s)
    BY <1>2, ParsedStep
  <2>2. "started" \notin events /\ "concurrent_in_transaction" \notin events
    BY <1>2, <2>1, FileIsFixed DEF BuildsInv, WritesParsed
  <2>3. "concurrent_in_transaction" \notin Happens(s)
    <3> SUFFICES ASSUME Is(s, "IndexStmt", "concurrent"), session.inTransaction PROVE FALSE
      BY DEF Happens
    <3>1. IsPg
      BY <2>1, KindOfStatement DEF WritesParsed, GenericKinds, Is
    <3>2. walk.inTransaction
      BY <2>1, <2>2, <3>1 DEF BuildsInv, TransactionsAreSeen, WritesParsed
    <3>3. EngineWalk(walk, s).inTransaction
      BY <3>2, EngineWalkIs DEF LintTyping, Closes, Is
    <3>4. "ban_concurrent_index_in_transaction" \in file.allowed \cup Off
      BY <2>1, <3>1, <3>3, PgReports, RulesOfAnyPhase, ReportedIsSilenced
         DEF WritesParsed, BanConcurrentIndexInTransaction
    <3> QED
      BY <1>2, <3>4, FileIsFixed DEF Silenced
  <2> QED
    BY <1>2, <2>2, <2>3 DEF Write
<1>3. CASE UNCHANGED lintVars
  BY <1>1, <1>3 DEF lintVars, BuildsInv, Silenced
<1> QED
  BY <1>1, <1>2, <1>3 DEF LintNext, BuildsInv

-----------------------------------------------------------------------------
(* Waits for locks are bounded *)

\* A lock_timeout that the engine has seen set is in force.
TimeoutIsInForce ==
  walk.parsed /\ IsPg /\ "setting_taken_back" \notin events
    => (walk.lockTimeoutSet => "lock_timeout" \in session.bounded)

LocksInv ==
  /\ TimeoutIsInForce
  /\ walk.parsed /\ ~Silenced(RulesOnLocks) => "unbounded_wait" \notin events

LEMMA TimeoutNext == LintTyping /\ TimeoutIsInForce /\ [LintNext]_lintVars => TimeoutIsInForce'
<1> SUFFICES ASSUME LintTyping, TimeoutIsInForce, [LintNext]_lintVars PROVE TimeoutIsInForce'
  OBVIOUS
<1>1. ASSUME NEW s \in Statements, Write(s), walk'.parsed, IsPg', "setting_taken_back" \notin events',
             walk'.lockTimeoutSet
      PROVE  "lock_timeout" \in session'.bounded
  <2>1. WritesParsed(s) /\ IsPg
    BY <1>1, ParsedStep, FileIsFixed
  <2>2. walk.lockTimeoutSet \/ (s.node = "VariableSetStmt" /\ s.obj = "lock_timeout")
    BY <1>1, <2>1, EngineStep
  <2>3. "setting_taken_back" \notin events /\ ~TakesBack(s)
    BY <1>1 DEF Write, Happens
  <2>4. session' = Settings(session, s)
    BY <1>1, <2>1 DEF Write
  <2>5. CASE s.node = "VariableSetStmt"
    <3>1. session'.bounded = session.bounded \cup ({s.obj} \cap Timeouts)
      BY <2>3, <2>4, <2>5 DEF Settings, TakesBack, Is, LintTyping
    <3> QED
      BY <2>1, <2>2, <2>3, <3>1 DEF Timeouts, TimeoutIsInForce, WritesParsed
  <2>6. CASE s.node # "VariableSetStmt"
    <3>1. session'.bounded = session.bounded
      BY <2>3, <2>4, <2>6 DEF Settings, TakesBack, Is, LintTyping
    <3> QED
      BY <2>1, <2>2, <2>3, <2>6, <3>1 DEF TimeoutIsInForce, WritesParsed
  <2> QED
    BY <2>5, <2>6
<1>2. CASE UNCHANGED lintVars
  BY <1>2 DEF lintVars, TimeoutIsInForce, IsPg
<1> QED
  BY <1>1, <1>2 DEF LintNext, TimeoutIsInForce

\* What waits for a lock is reported, or there is a lock_timeout.
LEMMA WaitsAreReported ==
  ASSUME LintTyping, NEW s \in Statements, WritesParsed(s), IsPg, Waits(s), ~walk.lockTimeoutSet
  PROVE  Silenced(RulesOnLocks)
<1>1. ~EngineWalk(walk, s).lockTimeoutSet
  BY EngineWalkIs DEF LintTyping, Waits, Is
<1>2. \E r \in RulesOnLocks : r \in RulesThatHold(Verdicts(s, EngineWalk(walk, s)))
  <2> DEFINE x == EngineWalk(walk, s)
             R == RulesThatHold(Verdicts(s, x))
  <2>1. \/ RequireLockTimeout(s, x) \/ BanTruncate(s) \/ BanCluster(s) \/ BanReindex(s)
        \/ BanRefreshMaterializedView(s) \/ BanRenameTable(s) \/ BanRenameColumn(s)
        \/ BanVacuumFull(s)
    BY <1>1 DEF Waits, RequireLockTimeout, IsTimedDDL, Lacks, Is, BanTruncate, BanCluster, BanReindex,
                BanRefreshMaterializedView, BanRenameTable, BanRenameColumn, BanVacuumFull
  <2> QED
    BY <2>1, PgReports DEF RulesOnLocks
<1> QED
  BY <1>2, RulesOfAnyPhase, ReportedIsSilenced DEF WritesParsed, Silenced

LEMMA LocksNext == LintTyping /\ LocksInv /\ [LintNext]_lintVars => LocksInv'
<1> SUFFICES ASSUME LintTyping, LocksInv, [LintNext]_lintVars PROVE LocksInv'
  OBVIOUS
<1>1. TimeoutIsInForce'
  BY TimeoutNext DEF LocksInv
<1>2. ASSUME NEW s \in Statements, Write(s), walk'.parsed, ~Silenced(RulesOnLocks)'
      PROVE  "unbounded_wait" \notin events'
  <2>1. WritesParsed(s)
    BY <1>2, ParsedStep
  <2>2. "unbounded_wait" \notin events
    BY <1>2, <2>1, FileIsFixed DEF LocksInv, WritesParsed
  <2>3. "unbounded_wait" \notin Happens(s)
    <3> SUFFICES ASSUME Waits(s), "lock_timeout" \notin session.bounded,
                        "setting_taken_back" \notin events
                 PROVE  FALSE
      BY DEF Happens
    <3>1. IsPg
      BY <2>1, KindOfStatement DEF WritesParsed, GenericKinds, Waits, Is
    <3>2. ~walk.lockTimeoutSet
      BY <2>1, <3>1 DEF LocksInv, TimeoutIsInForce, WritesParsed
    <3> QED
      BY <1>2, <2>1, <3>1, <3>2, WaitsAreReported, FileIsFixed
  <2> QED
    BY <1>2, <2>2, <2>3 DEF Write
<1>3. CASE UNCHANGED lintVars
  BY <1>1, <1>3 DEF lintVars, LocksInv, Silenced
<1> QED
  BY <1>1, <1>2, <1>3 DEF LintNext, LocksInv

-----------------------------------------------------------------------------
(* Tables and columns stay                                                 *)

LEMMA RemovedTablesAreReported ==
  ASSUME LintTyping, NEW s \in Statements, WritesParsed(s), RemovesTable(s)
  PROVE  Silenced({"ban_drop_table", "ban_rename_table"})
<1> USE DEF WritesParsed
<1>1. s.node \in GenericKinds <=> ~IsPg
  BY KindOfStatement
<1>2. CASE IsPg
  <2>1. BanDropTable(s) \/ BanRenameTable(s)
    BY <1>1, <1>2 DEF RemovesTable, BanDropTable, BanRenameTable, Drops, Is, GenericKinds
  <2> QED
    BY <1>2, <2>1, PgReports, RulesOfAnyPhase, ReportedIsSilenced DEF RulesOnData, Silenced
<1>3. CASE ~IsPg
  <2>1. GenericBanDropTable(s) \/ GenericBanRenameTable(s)
    BY <1>1, <1>3 DEF RemovesTable, GenericBanDropTable, GenericBanRenameTable, Is, GenericKinds
  <2> QED
    BY <1>3, <2>1, GenericReports, RulesOfAnyPhase, ReportedIsSilenced DEF RulesOnData, Silenced
<1> QED
  BY <1>2, <1>3

LEMMA RemovedColumnsAreReported ==
  ASSUME LintTyping, NEW s \in Statements, WritesParsed(s), Removes(s), RemovesColumn(s)
  PROVE  RemovesTable(s) \/ Silenced({"ban_drop_column", "ban_rename_column"})
<1> USE DEF WritesParsed
<1>1. s.node \in GenericKinds <=> ~IsPg
  BY KindOfStatement
<1>2. CASE IsPg
  <2>1. BanDropColumn(s) \/ BanRenameColumn(s)
    BY <1>1, <1>2 DEF RemovesColumn, BanDropColumn, BanRenameColumn, Alters, Is, GenericKinds
  <2> QED
    BY <1>2, <2>1, PgReports, RulesOfAnyPhase, ReportedIsSilenced DEF RulesOnData, Silenced
<1>3. CASE ~IsPg
  <2>1. GenericBanDropColumn(s) \/ GenericBanRenameColumn(s)
    BY <1>1, <1>3
       DEF Removes, RemovesColumn, GenericBanDropColumn, GenericBanRenameColumn, Alters, Is, GenericKinds
  <2> QED
    BY <1>3, <2>1, GenericReports, RulesOfAnyPhase, ReportedIsSilenced DEF RulesOnData, Silenced
<1> QED
  BY <1>2, <1>3

\* What a statement takes from a database is what it removes, and its parts.
LEMMA WhatIsTaken ==
  ASSUME NEW s \in Statements, NEW objects, NEW o, o \in objects, o \notin After(objects, s)
  PROVE  Removes(s) /\ (o = s.obj \/ <<o, s.obj>> \in PartOf)
BY DEF After

LEMMA PartsAreNoTables ==
  ASSUME NEW o, NEW t, <<o, t>> \in PartOf
  PROVE  o \notin Tables /\ (o \in Existing => t \in Existing)
<1>1. <<o, t>> \in (Objects \ Tables) \X Tables
  BY LintAssumption
<1>2. <<o, t>>[1] \in Existing => <<o, t>>[2] \in Existing
  BY LintAssumption
<1> QED
  BY <1>1, <1>2

DataInv ==
  walk.parsed /\ ~Silenced(RulesOnData) /\ ~run.failed => Existing \subseteq run.objects

LEMMA DataNext == LintTyping /\ DataInv /\ [LintNext]_lintVars => DataInv'
<1> SUFFICES ASSUME LintTyping, DataInv, [LintNext]_lintVars PROVE DataInv'
  OBVIOUS
<1>1. ASSUME NEW s \in Statements, Write(s), walk'.parsed, ~Silenced(RulesOnData)', ~run'.failed,
             NEW o \in Existing, o \notin run'.objects
      PROVE  FALSE
  <2>1. WritesParsed(s)
    BY <1>1, ParsedStep
  <2>2. ~Silenced(RulesOnData)
    BY <1>1, FileIsFixed
  <2>3. ~run.failed /\ run'.objects = After(run.objects, s)
    BY <1>1 DEF Write, Execute, LintTyping
  <2>4. o \in run.objects
    BY <2>1, <2>2, <2>3 DEF DataInv, WritesParsed
  <2>5. Removes(s) /\ s.obj \in Existing
    BY <1>1, <2>3, <2>4, WhatIsTaken, PartsAreNoTables
  <2>6. RemovesTable(s) \/ RemovesColumn(s)
    BY <2>5, GrammarAssumption
  <2> QED
    BY <2>1, <2>2, <2>5, <2>6, RemovedTablesAreReported, RemovedColumnsAreReported
       DEF Silenced, RulesOnData
<1>2. CASE UNCHANGED lintVars
  BY <1>2 DEF lintVars, DataInv, Silenced
<1> QED
  BY <1>1, <1>2 DEF LintNext, DataInv

-----------------------------------------------------------------------------
(* A file runs again                                                       *)

\* Once its tables are there, the second execution has not failed.
AgainInv ==
  /\ walk.parsed /\ ~Silenced(RulesOnRepetition) /\ "unguarded_alteration" \notin events
  /\ ~run.failed /\ run.objects \cap Tables \subseteq again.start
  => ~again.failed /\ again.start \cap Tables \subseteq again.objects

\* What would fail only because it was executed before is reported or noted.
LEMMA RepetitionIsReported ==
  ASSUME LintTyping, NEW s \in Statements, WritesParsed(s), NEW objects,
         Needs(s) \subseteq objects, Fails(objects, s)
  PROVE  Silenced(RulesOnRepetition) \/ "unguarded_alteration" \in Happens(s)
<1> SUFFICES ASSUME "unguarded_alteration" \notin Happens(s)
             PROVE  Silenced(RulesOnRepetition)
  OBVIOUS
<1> USE DEF WritesParsed
<1>1. s.node \in GenericKinds <=> ~IsPg
  BY KindOfStatement
<1>2. /\ ~Alters(s, "add_constraint")
      /\ Alters(s, "add_column") => "if_not_exists" \in s.marks
      /\ Alters(s, "drop_column") => "missing_ok" \in s.marks
      /\ Is(s, "alter", "add") => "if_not_exists" \in s.marks
      /\ Is(s, "alter", "drop") => "if_exists" \in s.marks
      /\ s.node = "RenameStmt" \/ Is(s, "alter", "rename") => s.marks \cap {"table", "column"} # {}
  BY DEF Happens, Lacks, Alters, Is
<1>3. \/ Makes(s) /\ s.marks \cap {"if_not_exists", "replace"} = {}
      \/ Removes(s) /\ s.marks \cap {"missing_ok", "if_exists"} = {}
  BY DEF Fails
<1>4. CASE IsPg
  <2>1. \/ RequireIfNotExists(s) \/ RequireCreateOrReplaceView(s)
        \/ BanRenameTable(s) \/ BanRenameColumn(s)
    BY <1>1, <1>2, <1>3, <1>4
       DEF Makes, Removes, RequireIfNotExists, RequireCreateOrReplaceView, BanRenameTable, BanRenameColumn,
           Alters, Is, Lacks, GenericKinds
  <2> QED
    BY <1>4, <2>1, PgReports, RulesOfAnyPhase, ReportedIsSilenced DEF RulesOnRepetition, Silenced
<1>5. CASE ~IsPg
  <2>1. \/ GenericRequireIfNotExists(s) \/ GenericRequireCreateOrReplaceView(s)
        \/ GenericBanRenameTable(s) \/ GenericBanRenameColumn(s)
    BY <1>1, <1>2, <1>3, <1>5
       DEF Makes, Removes, GenericRequireIfNotExists, GenericRequireCreateOrReplaceView,
           GenericBanRenameTable, GenericBanRenameColumn, Alters, Is, Lacks, GenericKinds
  <2> QED
    BY <1>5, <2>1, GenericReports, RulesOfAnyPhase, ReportedIsSilenced DEF RulesOnRepetition, Silenced
<1> QED
  BY <1>4, <1>5

\* No statement that is not reported takes a table from a database.
LEMMA TablesStay ==
  ASSUME LintTyping, NEW s \in Statements, WritesParsed(s), ~Silenced(RulesOnRepetition),
         NEW objects
  PROVE  objects \cap Tables \subseteq After(objects, s)
<1> SUFFICES ASSUME NEW o \in objects \cap Tables, o \notin After(objects, s) PROVE FALSE
  OBVIOUS
<1>1. Removes(s) /\ s.obj \in Tables
  BY WhatIsTaken, PartsAreNoTables
<1> QED
  BY <1>1, GrammarAssumption, RemovedTablesAreReported DEF Silenced, RulesOnRepetition

LEMMA AgainNext == LintTyping /\ AgainInv /\ [LintNext]_lintVars => AgainInv'
<1> SUFFICES ASSUME LintTyping, AgainInv, [LintNext]_lintVars PROVE AgainInv'
  OBVIOUS
<1>1. ASSUME NEW s \in Statements, Write(s), walk'.parsed, ~Silenced(RulesOnRepetition)',
             "unguarded_alteration" \notin events', ~run'.failed,
             run'.objects \cap Tables \subseteq again'.start
      PROVE  ~again'.failed /\ again'.start \cap Tables \subseteq again'.objects
  <2>1. WritesParsed(s)
    BY <1>1, ParsedStep
  <2>2. /\ ~Silenced(RulesOnRepetition)
        /\ "unguarded_alteration" \notin events /\ "unguarded_alteration" \notin Happens(s)
    BY <1>1, FileIsFixed DEF Write
  <2>3. ~run.failed /\ ~Fails(run.objects, s) /\ run'.objects = After(run.objects, s)
    BY <1>1 DEF Write, Execute, LintTyping
  <2>4. again'.start = again.start
    BY <1>1 DEF Write, Execute, LintTyping
  <2>5. run.objects \cap Tables \subseteq again.start
    BY <1>1, <2>1, <2>2, <2>3, <2>4, TablesStay
  <2>6. ~again.failed /\ again.start \cap Tables \subseteq again.objects
    BY <2>1, <2>2, <2>3, <2>5 DEF AgainInv, WritesParsed
  <2>7. Needs(s) \subseteq again.objects
    <3>1. Needs(s) \subseteq run.objects /\ Needs(s) \subseteq Tables
      BY <2>3 DEF Fails, Needs
    <3> QED
      BY <2>5, <2>6, <3>1
  <2>8. ~Fails(again.objects, s)
    BY <2>1, <2>2, <2>7, RepetitionIsReported
  <2>9. ~again'.failed /\ again'.objects = After(again.objects, s)
    BY <1>1, <2>6, <2>8 DEF Write, Execute, LintTyping
  <2> QED
    BY <2>1, <2>2, <2>4, <2>6, <2>9, TablesStay
<1>2. CASE UNCHANGED lintVars
  BY <1>2 DEF lintVars, AgainInv, Silenced
<1> QED
  BY <1>1, <1>2 DEF LintNext, AgainInv

-----------------------------------------------------------------------------
(***************************************************************************)
(* WritesGoOn: no statement of a file that lint passes builds an index in  *)
(* a way that blocks the writes to a table the file did not make.          *)
(***************************************************************************)
THEOREM WritesAreNotBlocked == LintSpec => []WritesGoOn
<1>1. LintInit => WritesInv
  BY DEF LintInit, WritesInv
<1>2. WritesInv => WritesGoOn
  BY DEF WritesInv, WritesGoOn
<1> QED
  BY <1>1, <1>2, LintTypingInit, LintTypingNext, WritesNext, PTL DEF LintSpec

(***************************************************************************)
(* ConcurrentBuildsSucceed: PostgreSQL refuses no concurrent build of a    *)
(* file that lint passes, if the file has no START TRANSACTION.            *)
(***************************************************************************)
THEOREM ConcurrentBuildsAreAllowed == LintSpec => []ConcurrentBuildsSucceed
<1>1. LintInit => BuildsInv
  BY DEF LintInit, NewSession, BuildsInv, TransactionsAreSeen
<1>2. BuildsInv => ConcurrentBuildsSucceed
  BY DEF BuildsInv, ConcurrentBuildsSucceed
<1> QED
  BY <1>1, <1>2, LintTypingInit, LintTypingNext, BuildsNext, PTL DEF LintSpec

(***************************************************************************)
(* LockWaitsAreBounded: what waits for a lock on a table in use has a      *)
(* lock_timeout in force, if the file takes no setting back.               *)
(***************************************************************************)
THEOREM WaitsHaveATimeout == LintSpec => []LockWaitsAreBounded
<1>1. LintInit => LocksInv
  BY DEF LintInit, NewWalk, LocksInv, TimeoutIsInForce
<1>2. LocksInv => LockWaitsAreBounded
  BY DEF LocksInv, LockWaitsAreBounded
<1> QED
  BY <1>1, <1>2, LintTypingInit, LintTypingNext, LocksNext, PTL DEF LintSpec

(***************************************************************************)
(* DataStays: no table and no column of the database is gone after any     *)
(* prefix of a file that lint passes.                                      *)
(***************************************************************************)
THEOREM DataIsKept == LintSpec => []DataStays
<1>1. LintInit => DataInv
  BY DEF LintInit, DataInv
<1>2. DataInv => DataStays
  BY DEF DataInv, DataStays
<1> QED
  BY <1>1, <1>2, LintTypingInit, LintTypingNext, DataNext, PTL DEF LintSpec

(***************************************************************************)
(* RunsAgain: what lint passes, and succeeds, succeeds on the database it  *)
(* leaves.                                                                 *)
(***************************************************************************)
THEOREM FilesRunAgain == LintSpec => []RunsAgain
<1>1. LintInit => AgainInv
  BY DEF LintInit, AgainInv
<1>2. AgainInv => RunsAgain
  BY DEF AgainInv, RunsAgain
<1> QED
  BY <1>1, <1>2, LintTypingInit, LintTypingNext, AgainNext, PTL DEF LintSpec
=============================================================================
