----------------------------- MODULE GenericRules -----------------------------
(***************************************************************************)
(* The lint rules for MySQL and SQLite, on statements as node-sql-parser   *)
(* gives them.  Their kinds are the ones that stmtKey tells apart.  No     *)
(* rule looks at an earlier statement; the one on CASCADE, which that      *)
(* parser does not know, searches the text of the whole file at its end.   *)
(***************************************************************************)
EXTENDS LintRules

\* stmtKey: any other statement is passed over.
GenericKinds ==
  {"create_table", "create_index", "create_view", "alter", "drop", "update",
   "delete", "truncate", "transaction"}

GenericRequireIfNotExists(s) ==
  \/ s.node \in {"create_table", "create_index"} /\ "if_not_exists" \notin s.marks
  \/ Lacks(s, "drop", "if_exists")

GenericBanDropColumn(s) == Is(s, "alter", "drop") /\ "column" \in s.marks

GenericBanAlterColumnType(s) == Is(s, "alter", "modify")

GenericBanRenameColumn(s) == Is(s, "alter", "rename") /\ "column" \in s.marks

GenericBanRenameTable(s) == Is(s, "alter", "rename") /\ "table" \in s.marks

GenericBanDropTable(s) == Is(s, "drop", "table")

GenericBanUpdateWithoutWhere(s) == Lacks(s, "update", "where")

GenericBanDeleteWithoutWhere(s) == Lacks(s, "delete", "where")

GenericBanTruncate(s) == s.node = "truncate"

GenericAddingNotNullableField(s) ==
  Is(s, "alter", "add") /\ {"column", "not_null"} \subseteq s.marks /\ "default" \notin s.marks

\* SQLite has no OR REPLACE.
GenericRequireCreateOrReplaceView(s) ==
  s.node = "create_view" /\ s.marks \cap {"replace", "if_not_exists"} = {}

GenericBanSelectStarInView(s) == Is(s, "create_view", "star")

GenericBanDropCascade(x) == x.cascade

GenericExpandRequiresIdempotentPattern(s) ==
  s.node \in {"create_table", "create_index"} /\ "if_not_exists" \notin s.marks

GenericBackfillRequiresWhereClause(s) ==
  s.node \in {"update", "delete"} /\ "where" \notin s.marks

GenericBackfillBanDdl(s) == s.node \in {"create_table", "create_index", "alter", "drop"}

GenericContractRequiresAllowDirective(s) ==
  \/ Is(s, "drop", "table") \/ Is(s, "drop", "index")
  \/ Is(s, "alter", "drop") /\ "column" \in s.marks

\* ALL_GENERIC_RULES.
GenericVerdicts(s) ==
  [require_if_not_exists              |-> GenericRequireIfNotExists(s),
   ban_drop_column                    |-> GenericBanDropColumn(s),
   ban_alter_column_type              |-> GenericBanAlterColumnType(s),
   ban_rename_column                  |-> GenericBanRenameColumn(s),
   ban_rename_table                   |-> GenericBanRenameTable(s),
   ban_drop_table                     |-> GenericBanDropTable(s),
   ban_update_without_where           |-> GenericBanUpdateWithoutWhere(s),
   ban_delete_without_where           |-> GenericBanDeleteWithoutWhere(s),
   ban_truncate                       |-> GenericBanTruncate(s),
   adding_not_nullable_field          |-> GenericAddingNotNullableField(s),
   require_create_or_replace_view     |-> GenericRequireCreateOrReplaceView(s),
   ban_select_star_in_view            |-> GenericBanSelectStarInView(s),
   backfill_requires_where_clause     |-> GenericBackfillRequiresWhereClause(s),
   backfill_ban_ddl                   |-> GenericBackfillBanDdl(s),
   contract_requires_allow_directive  |-> GenericContractRequiresAllowDirective(s),
   expand_requires_idempotent_pattern |-> GenericExpandRequiresIdempotentPattern(s)]

GenericEndVerdicts(x) == [ban_drop_cascade |-> GenericBanDropCascade(x)]
=============================================================================
