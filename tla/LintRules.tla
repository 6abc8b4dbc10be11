------------------------------ MODULE LintRules ------------------------------
(***************************************************************************)
(* The lint rules for PostgreSQL, one operator per rule.                   *)
(*                                                                         *)
(* A statement is the root of a parse tree, as far as a rule looks at it:  *)
(* its kind, the table it is on, the object it makes or removes, and marks *)
(* for the flags and subtypes that are set in it.  An ALTER TABLE has one  *)
(* command.  A rule holds of a statement s when it reports s; x is what    *)
(* the walk over the file has gathered when it comes to s.                 *)
(***************************************************************************)
EXTENDS Naturals, Sequences, FiniteSets

Is(s, node, mark) == s.node = node /\ mark \in s.marks

Lacks(s, node, mark) == s.node = node /\ mark \notin s.marks

Alters(s, subtype) == Is(s, "AlterTableStmt", subtype)

Drops(s, type) == Is(s, "DropStmt", type)

Timeouts == {"lock_timeout", "statement_timeout"}

-----------------------------------------------------------------------------
(* Indexes and constraints *)

\* Fault: in a transaction, where no index can be built concurrently, none is required.
RequireConcurrentIndexOutside(s, x) ==
  Lacks(s, "IndexStmt", "concurrent") /\ s.on \notin x.created /\ ~x.inTransaction

RequireConcurrentIndex(s, x) == Lacks(s, "IndexStmt", "concurrent") /\ s.on \notin x.created

BanConcurrentIndexInTransaction(s, x) == Is(s, "IndexStmt", "concurrent") /\ x.inTransaction

RequireDropIndexConcurrently(s) == Drops(s, "index") /\ "concurrent" \notin s.marks

RequireUniqueViaConcurrentIndex(s) ==
  Alters(s, "add_constraint") /\ "unique" \in s.marks /\ "using_index" \notin s.marks

RequirePkViaConcurrentIndex(s) ==
  Alters(s, "add_constraint") /\ "primary" \in s.marks /\ "using_index" \notin s.marks

ConstraintMissingNotValid(s) ==
  /\ Alters(s, "add_constraint")
  /\ s.marks \cap {"foreign", "check"} # {}
  /\ "not_valid" \notin s.marks

\* A constraint without a name of its own is not remembered.
BanValidateConstraintSameFile(s, x) ==
  Alters(s, "validate_constraint") /\ <<s.on, s.obj>> \in x.notValid

-----------------------------------------------------------------------------
(* Timeouts and statistics *)

\* Fault: the statements that create and drop are DDL, those that alter are not.
IsTimedCreateOrDrop(s) ==
  s.node \in {"CreateStmt", "DropStmt"} \/ Lacks(s, "IndexStmt", "concurrent")

\* DDL, as the two rules on timeouts know it.
IsTimedDDL(s) ==
  \/ s.node \in {"CreateStmt", "AlterTableStmt", "DropStmt"}
  \/ Lacks(s, "IndexStmt", "concurrent")

RequireLockTimeout(s, x) == IsTimedDDL(s) /\ ~x.lockTimeoutSet

RequireStatementTimeout(s, x) == IsTimedDDL(s) /\ ~x.stmtTimeoutSet

\* Asked at the end of the file: whatever was set was reset, before or after.
RequireResetTimeouts(x) == ~(x.set \subseteq x.reset)

RequireAnalyzeAfterIndex(x) == x.unanalyzed # {}

BanBareAnalyze(s) == Is(s, "VacuumStmt", "no_table")

-----------------------------------------------------------------------------
(* Idempotency *)

\* Fault: the rule asks nothing of an index that is built concurrently.
RequireIfNotExistsOfTables(s) ==
  \/ Lacks(s, "CreateStmt", "if_not_exists")
  \/ s.node = "IndexStmt" /\ s.marks \cap {"if_not_exists", "concurrent"} = {}
  \/ Lacks(s, "DropStmt", "missing_ok")

RequireIfNotExists(s) ==
  \/ s.node \in {"CreateStmt", "IndexStmt"} /\ "if_not_exists" \notin s.marks
  \/ Lacks(s, "DropStmt", "missing_ok")

RequireIfNotExistsMaterializedView(s) ==
  Is(s, "CreateTableAsStmt", "matview") /\ "if_not_exists" \notin s.marks

RequireCreateOrReplaceView(s) == Lacks(s, "ViewStmt", "replace")

BanSelectStarInView(s) ==
  "star" \in s.marks /\ (s.node = "ViewStmt" \/ Is(s, "CreateTableAsStmt", "matview"))

\* IN (...) on a varchar column of the same statement, without a cast to text.
BanUnstableListPredicate(s) ==
  /\ s.node \in {"CreateStmt", "CreateDomainStmt"}
  /\ {"check", "varchar", "value_list"} \subseteq s.marks
  /\ "text_cast" \notin s.marks

-----------------------------------------------------------------------------
(* Changes that break clients, rewrite tables or lose data *)

AddingNotNullableField(s) ==
  Alters(s, "add_column") /\ "not_null" \in s.marks /\ "default" \notin s.marks

BanSetNotNull(s) == Alters(s, "set_not_null")

BanAlterColumnType(s) == Alters(s, "alter_column_type")

\* Fault: a column may be dropped if the statement can be executed again.
BanDropColumnOnce(s) == Alters(s, "drop_column") /\ "missing_ok" \notin s.marks

BanDropColumn(s) == Alters(s, "drop_column")

BanDropTable(s) == Drops(s, "table")

BanDropCascade(s) == Drops(s, "cascade")

BanRenameColumn(s) == Is(s, "RenameStmt", "column")

BanRenameTable(s) == Is(s, "RenameStmt", "table")

BanTruncate(s) == s.node = "TruncateStmt"

BanUpdateWithoutWhere(s) == Lacks(s, "UpdateStmt", "where")

BanDeleteWithoutWhere(s) == Lacks(s, "DeleteStmt", "where")

BanAlterEnumInTransaction(s, x) == s.node = "AlterEnumStmt" /\ x.inTransaction

BanVacuumFull(s) == Is(s, "VacuumStmt", "full") /\ "vacuum" \in s.marks

BanCluster(s) == s.node = "ClusterStmt"

BanReindex(s) == s.node = "ReindexStmt"

BanAlterSystem(s) == s.node = "AlterSystemStmt"

BanRefreshMaterializedView(s) == s.node = "RefreshMatViewStmt"

BanSetSessionReplicationRole(s) == s.node = "VariableSetStmt" /\ s.obj = "session_replication_role"

-----------------------------------------------------------------------------
(* Rules of one phase *)

ExpandRequiresIdempotentPattern(s) ==
  s.node \in {"CreateStmt", "IndexStmt"} /\ "if_not_exists" \notin s.marks

BackfillRequiresWhereClause(s) ==
  s.node \in {"UpdateStmt", "DeleteStmt"} /\ "where" \notin s.marks

BackfillBanDdl(s) == s.node \in {"CreateStmt", "AlterTableStmt", "IndexStmt", "DropStmt"}

ContractRequiresAllowDirective(s) ==
  Drops(s, "table") \/ Drops(s, "index") \/ Alters(s, "drop_column")

\* applicablePhases; a rule that has none applies to every file.
PhaseOfRule ==
  [expand_requires_idempotent_pattern |-> "expand",
   backfill_requires_where_clause     |-> "backfill",
   backfill_ban_ddl                   |-> "backfill",
   contract_requires_allow_directive  |-> "contract"]

-----------------------------------------------------------------------------
(* ALL_RULES: which of them report a statement, and which the end of a file. *)
Verdicts(s, x) ==
  [require_concurrent_index                   |-> RequireConcurrentIndex(s, x),
   require_if_not_exists                      |-> RequireIfNotExists(s),
   require_lock_timeout                       |-> RequireLockTimeout(s, x),
   ban_concurrent_index_in_transaction        |-> BanConcurrentIndexInTransaction(s, x),
   adding_not_nullable_field                  |-> AddingNotNullableField(s),
   constraint_missing_not_valid               |-> ConstraintMissingNotValid(s),
   require_create_or_replace_view             |-> RequireCreateOrReplaceView(s),
   ban_drop_cascade                           |-> BanDropCascade(s),
   require_statement_timeout                  |-> RequireStatementTimeout(s, x),
   ban_truncate                               |-> BanTruncate(s),
   ban_update_without_where                   |-> BanUpdateWithoutWhere(s),
   ban_delete_without_where                   |-> BanDeleteWithoutWhere(s),
   ban_drop_column                            |-> BanDropColumn(s),
   ban_alter_column_type                      |-> BanAlterColumnType(s),
   require_drop_index_concurrently            |-> RequireDropIndexConcurrently(s),
   require_unique_via_concurrent_index        |-> RequireUniqueViaConcurrentIndex(s),
   ban_validate_constraint_same_file          |-> BanValidateConstraintSameFile(s, x),
   ban_bare_analyze                           |-> BanBareAnalyze(s),
   require_if_not_exists_materialized_view    |-> RequireIfNotExistsMaterializedView(s),
   ban_refresh_materialized_view_in_migration |-> BanRefreshMaterializedView(s),
   ban_select_star_in_view                    |-> BanSelectStarInView(s),
   ban_unstable_list_predicate                |-> BanUnstableListPredicate(s),
   ban_rename_column                          |-> BanRenameColumn(s),
   ban_rename_table                           |-> BanRenameTable(s),
   ban_drop_table                             |-> BanDropTable(s),
   require_pk_via_concurrent_index            |-> RequirePkViaConcurrentIndex(s),
   ban_set_not_null                           |-> BanSetNotNull(s),
   ban_alter_enum_in_transaction              |-> BanAlterEnumInTransaction(s, x),
   ban_vacuum_full                            |-> BanVacuumFull(s),
   ban_cluster                                |-> BanCluster(s),
   ban_reindex                                |-> BanReindex(s),
   ban_alter_system                           |-> BanAlterSystem(s),
   ban_set_session_replication_role           |-> BanSetSessionReplicationRole(s),
   expand_requires_idempotent_pattern         |-> ExpandRequiresIdempotentPattern(s),
   backfill_requires_where_clause             |-> BackfillRequiresWhereClause(s),
   backfill_ban_ddl                           |-> BackfillBanDdl(s),
   contract_requires_allow_directive          |-> ContractRequiresAllowDirective(s)]

EndVerdicts(x) ==
  [require_reset_timeouts      |-> RequireResetTimeouts(x),
   require_analyze_after_index |-> RequireAnalyzeAfterIndex(x)]

RulesThatHold(verdicts) == {r \in DOMAIN verdicts : verdicts[r]}
=============================================================================
