---------------------------- MODULE SqlAnalysis ----------------------------
(***************************************************************************)
(* What the analysis of a migration file finds: the objects the file       *)
(* creates and those it refers to, by which files come to depend on one    *)
(* another.                                                                *)
(*                                                                         *)
(* A statement is the root of a parse tree as far as this looks at it: its *)
(* kind; the object it creates, changes, drops or grants; the objects that *)
(* its clauses name (foreign keys, owners, what a query reads, grantees);  *)
(* marks; and for a DO block the statements in its body.  Beside that it   *)
(* has what only the database knows of: the objects it makes (a column, an *)
(* index) and needs (a column, a schema) that the analysis does not list.  *)
(* An object is a type and a name; a name in the schema public is without  *)
(* its schema (normalizeTableName).                                        *)
(***************************************************************************)
EXTENDS Naturals, Sequences, SequencesExt, FiniteSetsExt

Relations == {"table", "view", "sequence", "index"}

\* Fault: objects are matched by name alone.
NameOnly(o) == [namespace |-> "", name |-> o.name]

\* Objects are matched by namespace and name.
ObjectKey(o) ==
  [namespace |-> IF o.type \in Relations THEN "relation" ELSE o.type, name |-> o.name]

Keys(objects) == {ObjectKey(o) : o \in objects}

-----------------------------------------------------------------------------
(* PostgreSQL, one operator per kind of statement that is looked at *)

Tables(refs) == {r \in refs : r.type = "table"}

Roles(refs) == {r \in refs : r.type = "role"}

CreateTable(s) == [creates |-> {s.obj}, references |-> Tables(s.refs)]

\* An index is not among the objects that are created.
CreateIndex(s) == [creates |-> {}, references |-> {s.obj}]

\* The table, a new owner, the tables that new foreign keys refer to.
AlterTable(s) == [creates |-> {}, references |-> {s.obj} \cup Tables(s.refs) \cup Roles(s.refs)]

CreateView(s) == [creates |-> {s.obj}, references |-> Tables(s.refs)]

Drop(s) == [creates |-> {}, references |-> {s.obj}]

\* What a body in another language than sql reads is resolved when it runs.
CreateFunction(s) ==
  [creates    |-> {s.obj},
   references |-> IF "sql" \in s.marks THEN Tables(s.refs) ELSE {}]

CreateSchemaOrRole(s) == [creates |-> {s.obj}, references |-> Roles(s.refs)]

\* What is granted, or the schema of ALTER DEFAULT PRIVILEGES, and the grantees.
Grant(s) == [creates |-> {}, references |-> {s.obj} \cup Roles(s.refs)]

\* GRANT of a role, ALTER and DROP ROLE, and ALTER ... OWNER TO, name roles only.
OnRoles(s) == [creates |-> {}, references |-> Roles({s.obj} \cup s.refs)]

Nothing == [creates |-> {}, references |-> {}]

AnalyzeStatement(s) ==
  CASE s.node = "CreateStmt"                            -> CreateTable(s)
    [] s.node = "IndexStmt"                             -> CreateIndex(s)
    [] s.node = "AlterTableStmt"                        -> AlterTable(s)
    [] s.node = "ViewStmt"                              -> CreateView(s)
    [] s.node = "DropStmt"                              -> Drop(s)
    [] s.node = "CreateFunctionStmt"                    -> CreateFunction(s)
    [] s.node \in {"CreateSchemaStmt", "CreateRoleStmt"} -> CreateSchemaOrRole(s)
    [] s.node \in {"GrantStmt", "AlterDefaultPrivilegesStmt"} -> Grant(s)
    [] s.node \in {"GrantRoleStmt", "AlterRoleStmt", "AlterRoleSetStmt", "DropRoleStmt",
                   "AlterOwnerStmt"}                    -> OnRoles(s)
    [] OTHER                                            -> Nothing

\* The kinds of which all is found; of ALTER ... OWNER TO only the role is.
AnalyzedNodes ==
  {"CreateStmt", "IndexStmt", "AlterTableStmt", "ViewStmt", "DropStmt", "CreateFunctionStmt",
   "CreateSchemaStmt", "CreateRoleStmt", "GrantStmt", "AlterDefaultPrivilegesStmt",
   "GrantRoleStmt", "AlterRoleStmt", "AlterRoleSetStmt", "DropRoleStmt"}

\* What the statements of a text create, and refer to without creating it.
Collect(found) ==
  LET creates == UNION {a.creates : a \in found}
  IN  [creates    |-> creates,
       references |-> {r \in UNION {a.references : a \in found} :
                         ObjectKey(r) \notin Keys(creates)}]

\* Each statement of a DO block is analyzed by itself; EXECUTE has no text.
AnalyzeDo(s) ==
  [creates    |-> UNION {AnalyzeStatement(i).creates : i \in ToSet(s.body)},
   references |-> UNION {Collect({AnalyzeStatement(i)}).references : i \in ToSet(s.body)}]

\* A text with a psql variable or a meta command does not parse: nothing is found.
AnalyzeSql(text) ==
  IF \E s \in ToSet(text) : "psql_variable" \in s.marks THEN Nothing
  ELSE Collect({IF s.node = "DoStmt" THEN AnalyzeDo(s) ELSE AnalyzeStatement(s) : s \in ToSet(text)})

-----------------------------------------------------------------------------
(* MySQL and SQLite *)

GenericNodes == {"CreateStmt", "IndexStmt", "AlterTableStmt", "ViewStmt", "DropStmt"}

\* Only the tables that a file creates are taken out of its references.
AnalyzeGenericSql(text) ==
  LET found   == {AnalyzeStatement(s) : s \in {t \in ToSet(text) : t.node \in GenericNodes}}
      creates == UNION {a.creates : a \in found}
  IN  [creates    |-> creates,
       references |-> {r \in UNION {a.references : a \in found} :
                         r.name \notin {t.name : t \in Tables(creates)}}]

-----------------------------------------------------------------------------
(* The graph *)

\* The file an object's references lead to is the last one that creates it.
CreatorOf(analyses, key) ==
  LET creators == {f \in DOMAIN analyses : key \in Keys(analyses[f].creates)}
  IN  IF creators = {} THEN {} ELSE {Max(creators)}

\* A declared target is a file, or the directory of a group for its expand
\* file; one that is not there is passed over.
DeclaredTargets(files, text, expandOf) ==
  files \cap (text.declared \cup {expandOf[d] : d \in text.groups \cap DOMAIN expandOf})

\* configured holds the pairs of files in the configuration.
BuildEdges(analyses, texts, configured, expandOf) ==
  LET files == DOMAIN analyses
      found == [f \in files |-> UNION {CreatorOf(analyses, ObjectKey(r)) : r \in analyses[f].references}]
  IN  {e \in files \X files :
         /\ e[1] # e[2]
         /\ \/ e[2] \in found[e[1]]
            \/ e[2] \in DeclaredTargets(files, texts[e[1]], expandOf)
            \/ e \in configured}
=============================================================================
