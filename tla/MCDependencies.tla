--------------------------- MODULE MCDependencies ---------------------------
(***************************************************************************)
(* Four files.  The vocabulary foreign_keys gives every dependency graph   *)
(* of four files; the others bring together statements of different kinds. *)
(***************************************************************************)
EXTENDS Dependencies

O(type, name) == [type |-> type, name |-> name]

Users == O("table", "users")
Orders == O("table", "orders")
App == O("role", "app")

\* A statement, with the objects its clauses name.
St(node, obj, refs) ==
  [node |-> node, obj |-> obj, refs |-> refs, makes |-> {}, needs |-> {}, marks |-> {}, body |-> << >>]

Needing(s, needs) == [s EXCEPT !.needs = needs]

Marked(s, mark) == [s EXCEPT !.marks = {mark}]

Do(body) == [St("DoStmt", Users, {}) EXCEPT !.body = body]

Create(o, refs) ==
  St(CASE o.type = "table" -> "CreateStmt" [] o.type = "view" -> "ViewStmt"
       [] o.type = "function" -> "CreateFunctionStmt" [] o.type = "schema" -> "CreateSchemaStmt"
       [] o.type = "role" -> "CreateRoleStmt",
     o, refs)

Table(f) == O("table", <<"t1", "t2", "t3", "t4">>[f])

Email == O("column", "users.email")

Plain(sql) == [sql |-> sql, declared |-> {}, groups |-> {}]

Each(statements) == {Plain(<<s>>) : s \in statements}

ForeignKeys ==
  [f \in Node |-> Each({Create(Table(f), {Table(g) : g \in S}) : S \in SUBSET (Node \ {f})})]

\* Roles and tables of one name, schemas, functions and what is granted.
Privileges ==
  <<Each({Create(O("table", "app"), {}), Create(App, {}), Create(Users, {})}),
    Each({St("IndexStmt", O("table", "app"), {}), Create(O("schema", "s"), {App}), Create(App, {}),
          Marked(Create(O("function", "f"), {Users}), "sql"), Create(O("function", "f"), {Users})}),
    Each({Create(App, {}), St("GrantStmt", O("schema", "s"), {App}), St("AlterRoleStmt", App, {}),
          St("AlterOwnerStmt", O("function", "f"), {App}), Needing(Create(O("table", "s.t"), {}), {O("schema", "s")})}),
    Each({St("GrantStmt", Users, {App}), St("GrantStmt", O("table", "app"), {App}),
          St("GrantStmt", O("function", "f"), {App}), St("AlterTableStmt", Users, {App}),
          St("AlterDefaultPrivilegesStmt", O("schema", "s"), {App}), St("AlterRoleSetStmt", App, {}),
          St("GrantRoleStmt", App, {O("role", "reader")}), St("DropRoleStmt", App, {})})>>

\* Files of several statements, blocks, declared targets, and what is made twice.
Blocks ==
  <<{Plain(<<Create(Users, {})>>), Plain(<<Create(Users, {}), St("IndexStmt", Users, {})>>),
     Plain(<<Do(<<Create(Users, {})>>)>>)},
    {Plain(<<[St("AlterTableStmt", Users, {}) EXCEPT !.makes = {Email}]>>),
     Plain(<<Create(Orders, {}), St("AlterTableStmt", Orders, {Users})>>),
     Plain(<<Do(<<St("AlterTableStmt", Users, {}), Create(Orders, {Users})>>)>>)},
    {Plain(<<Needing(St("IndexStmt", Users, {}), {Email})>>),
     Plain(<<Create(O("view", "v"), {Users, Orders})>>),
     Plain(<<St("DropStmt", Users, {}), Create(Users, {})>>),
     [sql |-> <<Do(<<St("dynexecute", Users, {})>>)>>, declared |-> {2}, groups |-> {}],
     [sql |-> <<St("UpdateStmt", Users, {})>>, declared |-> {}, groups |-> {"group"}]},
    {Plain(<<St("IndexStmt", O("view", "v"), {}), St("AlterTableStmt", Orders, {Users})>>),
     Plain(<<Create(Orders, {Users})>>), Plain(<<St("DropStmt", Orders, {})>>),
     Plain(<<Marked(Create(O("table", "parts"), {Orders}), "psql_variable")>>)}>>

\* MySQL and SQLite have no DO blocks.
WithoutDo ==
  [f \in Node |-> {t \in Blocks[f] : \A s \in ToSet(t.sql) : s.node # "DoStmt"}]

SomeTexts ==
  [foreign_keys |-> ForeignKeys, privileges |-> Privileges, blocks |-> Blocks, generic |-> WithoutDo]

SomeDialects ==
  [v \in DOMAIN SomeTexts |-> IF v = "generic" THEN "mysql" ELSE "postgresql"]

Groups == [group |-> 2]
=============================================================================
