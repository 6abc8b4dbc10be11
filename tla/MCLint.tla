-------------------------------- MODULE MCLint --------------------------------
(***************************************************************************)
(* A table that is in use and one that the file may create, with an index  *)
(* each, two columns, a constraint and a view.  A vocabulary is what the   *)
(* rules and the databases relate to one another.                          *)
(***************************************************************************)
EXTENDS Lint

S(node, on, obj, marks) == [node |-> node, on |-> on, obj |-> obj, marks |-> marks]

SetTo(name, marks) == S("VariableSetStmt", "", name, marks)

Index(on, obj, marks) == S("IndexStmt", on, obj, marks)

Alter(obj, marks) == S("AlterTableStmt", "used", obj, marks)

Timed == {SetTo("lock_timeout", {}), SetTo("lock_timeout", {"reset"})}

Transactions == {S("TransactionStmt", "", "", {m}) : m \in {"begin", "start", "commit", "rollback"}}

\* Settings, transactions and statements that wait for a lock.
Locks ==
  {SetTo("lock_timeout", {}), SetTo("lock_timeout", {"reset"}), SetTo("statement_timeout", {}),
   SetTo("", {"reset_all"}), SetTo("session_replication_role", {})}
    \cup Transactions
    \cup {S("VacuumStmt", "used", "", {"vacuum", "full"}), Alter("col", {"add_column", "if_not_exists"})}
    \cup {S(n, "used", "", {}) :
            n \in {"TruncateStmt", "ClusterStmt", "ReindexStmt", "RefreshMatViewStmt", "AlterEnumStmt"}}
    \cup {S("RenameStmt", "used", "used", {"table"}), S("RenameStmt", "used", "old", {"column"})}

\* Indexes on a table in use and on one that the file creates.
Indexes ==
  Timed
    \cup Transactions
    \cup {S("CreateStmt", t, t, {"if_not_exists"}) : t \in {"used", "fresh"}}
    \cup {Index("used", "used_idx", {"if_not_exists"} \cup m) : m \in {{}, {"concurrent"}}}
    \cup {Index("fresh", "fresh_idx", {"if_not_exists"})}
    \cup {S("VacuumStmt", t, "", {}) : t \in {"used", "fresh"}}
    \cup {S("VacuumStmt", "", "", {"no_table"})}

\* Columns and constraints of a table in use, and its data.
Alterations ==
  Timed
    \cup {Alter("col", m) :
            m \in {{"add_column"}, {"add_column", "if_not_exists"}, {"add_column", "not_null"},
                   {"alter_column_type"}, {"set_not_null"}}}
    \cup {Alter("old", {"drop_column", "missing_ok"})}
    \cup {Alter("fk", m) :
            m \in {{"add_constraint", "foreign", "named"}, {"validate_constraint"},
                   {"add_constraint", "foreign", "not_valid", "named"},
                   {"add_constraint", "unique"}, {"add_constraint", "primary"}}}
    \cup {S(n, "used", "", m) : n \in {"UpdateStmt", "DeleteStmt"}, m \in {{}, {"where"}}}

\* Tables, indexes and views that are made and dropped.
Schema ==
  Timed
    \cup {S("CreateStmt", "fresh", "fresh", m) : m \in {{}, {"if_not_exists"}}}
    \cup {Index("used", "used_idx", {"concurrent"} \cup m) : m \in {{}, {"if_not_exists"}}}
    \cup {S("VacuumStmt", "used", "", {}), S("RenameStmt", "used", "used_idx", {"index"})}
    \cup {S("DropStmt", "used", "used_idx", {"index"} \cup m) :
            m \in {{"missing_ok"}, {"concurrent"}, {"concurrent", "missing_ok"}}}
    \cup {S("DropStmt", "fresh", "fresh", {"table", "missing_ok"} \cup m) : m \in {{}, {"cascade"}}}
    \cup {S("ViewStmt", "used", "view", m) : m \in {{"replace"}, {}, {"replace", "star"}}}
    \cup {S("AlterSystemStmt", "", "", {})}

Generic ==
  {S("create_table", "fresh", "fresh", m) : m \in {{}, {"if_not_exists"}}}
    \cup {S("create_index", "fresh", "fresh_idx", m) : m \in {{}, {"if_not_exists"}}}
    \cup {S("create_view", "used", "view", m) : m \in {{}, {"replace"}, {"if_not_exists"}, {"replace", "star"}}}
    \cup {S("drop", "fresh", "fresh", {"table"} \cup m) : m \in {{}, {"if_exists"}, {"if_exists", "cascade"}}}
    \cup {S("drop", "", "view", {"view"} \cup m) : m \in {{}, {"if_exists"}}}
    \cup {S("alter", "used", "col", m) :
            m \in {{"modify"}, {"add", "column"}, {"add", "column", "not_null"}}}
    \cup {S("alter", "used", "old", {m, "column"}) : m \in {"drop", "rename"}}
    \cup {S("alter", "used", "used", {"rename", "table"})}
    \cup {S(n, "used", "", m) : n \in {"update", "delete"}, m \in {{}, {"where"}}}
    \cup {S("truncate", "used", "", {})}

\* The backfill of the template: an UPDATE over a range psql is told of.
RangeUpdate == S("UpdateStmt", "used", "", {"where", "psql_variable"})

AllWords ==
  [locks |-> Locks, indexes |-> Indexes, schema |-> Schema,
   alterations |-> Alterations \cup {RangeUpdate}, generic |-> Generic]

AllDialects == [v \in DOMAIN AllWords |-> IF v = "generic" THEN "mysql" ELSE "postgresql"]

SomeDirectives == {{}, {"ban_drop_column", "contract_requires_allow_directive"}}

Parts == {<<"used_idx", "used">>, <<"col", "used">>, <<"old", "used">>, <<"fk", "used">>, <<"fresh_idx", "fresh">>}

InUse == {"used", "old"}
=============================================================================
