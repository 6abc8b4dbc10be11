---------------------------- MODULE Dependencies ----------------------------
(***************************************************************************)
(* The DAG model from the SQL to the database.  Authors write the files of *)
(* a repository in the order of their names; deps looks for cycles, or an  *)
(* apply analyzes the files, sorts them and executes them.  Now and then a *)
(* file fails for a reason of its own, after some of its statements; then  *)
(* what depends on it is held back, and a second apply, in which nothing   *)
(* fails of its own, brings up the rest.                                   *)
(*                                                                         *)
(* Databases are external: a statement makes and removes objects, and it   *)
(* fails when an object that it needs is not there.  Statements are meant  *)
(* to be executed again, so that creating what exists is no error.         *)
(***************************************************************************)
EXTENDS SqlAnalysis, DetectCycles

CONSTANTS
  Texts,       \* for each vocabulary and file, the texts an author may write
  DialectOf,   \* the dialect of each vocabulary
  ExpandOf,    \* for the directory of each group, its expand file
  Configured   \* the dependencies in the configuration

ASSUME DependenciesAssumption ==
  /\ \A v \in DOMAIN Texts : DOMAIN Texts[v] = Node
  /\ DialectOf \in [DOMAIN Texts -> {"postgresql", "mysql", "sqlite"}]
  /\ Configured \subseteq Node \X Node
  /\ \A d \in DOMAIN ExpandOf : ExpandOf[d] \in Node

\* What the clauses of a statement can name, by its kind and the dialect.
IsStatement(s, dialect) ==
  /\ \A o \in {s.obj} \cup s.refs \cup s.makes \cup s.needs :
       o = [type |-> o.type, name |-> o.name]
  /\ \/ s.node \in {"CreateStmt", "ViewStmt", "CreateFunctionStmt"} /\ s.refs = Tables(s.refs)
     \/ s.node \in {"IndexStmt", "DropStmt"} /\ s.refs = {}
     \/ s.node = "AlterTableStmt" /\ s.refs = Tables(s.refs) \cup Roles(s.refs)
     \/ /\ s.node \in {"CreateSchemaStmt", "CreateRoleStmt", "GrantStmt",
                        "AlterDefaultPrivilegesStmt"}
        /\ s.refs = Roles(s.refs)
     \/ /\ s.node \in {"GrantRoleStmt", "AlterRoleStmt", "AlterRoleSetStmt", "DropRoleStmt"}
        /\ {s.obj} \cup s.refs = Roles({s.obj} \cup s.refs)
     \/ s.node \notin AnalyzedNodes
  /\ dialect # "postgresql" /\ s.node \in GenericNodes =>
       s.obj.type \in Relations /\ s.refs = Tables(s.refs)

ASSUME TextsAssumption ==
  \A v \in DOMAIN Texts : \A f \in Node : \A t \in Texts[v][f] :
    /\ t.sql \in Seq(ToSet(t.sql))
    /\ \A s \in ToSet(t.sql) :
         /\ IsStatement(s, DialectOf[v])
         /\ s.body \in Seq(ToSet(s.body))
         /\ \A i \in ToSet(s.body) : IsStatement(i, DialectOf[v])

VARIABLES
  vocabulary,  \* of the authors
  text,        \* the files written: their SQL, the files and groups they declare
  stage,       \* "writing", "deps", "apply" or "again"
  position,    \* how many files of its order a pass has been through
  objects,     \* the objects of the database
  executed,    \* the files that have been executed
  blocked,     \* the files that a failure of the pass holds back
  lacking      \* history: the files that failed for want of an object

repositoryVars == <<vocabulary, text, stage>>
databaseVars == <<position, objects, executed, blocked, lacking>>
dependencyVars == <<repositoryVars, databaseVars, sortVars, searchVars>>

DependenciesInit ==
  /\ vocabulary \in DOMAIN Texts
  /\ text = << >> /\ stage = "writing"
  /\ position = 0 /\ objects = {} /\ executed = {} /\ blocked = {} /\ lacking = {}
  /\ SortInit /\ SearchInit

WriteFile ==
  /\ stage = "writing" /\ Len(text) < N
  /\ \E t \in Texts[vocabulary][Len(text) + 1] : text' = Append(text, t)
  /\ UNCHANGED <<vocabulary, stage, databaseVars, sortVars, searchVars>>

AnalyzeFile(sql) ==
  IF DialectOf[vocabulary] = "postgresql" THEN AnalyzeSql(sql) ELSE AnalyzeGenericSql(sql)

BuildDependencyGraph ==
  BuildEdges([f \in Node |-> AnalyzeFile(text[f].sql)], text, Configured, ExpandOf)

StartDeps ==
  /\ stage = "writing" /\ Len(text) = N
  /\ stage' = "deps"
  /\ edge' = BuildDependencyGraph
  /\ UNCHANGED <<vocabulary, text, databaseVars, inDegree, queue, sorted, searchVars>>

Search == stage = "deps" /\ SearchNext /\ UNCHANGED <<repositoryVars, databaseVars, sortVars>>

StartApply ==
  /\ stage = "writing" /\ Len(text) = N
  /\ stage' = "apply"
  /\ StartSort(BuildDependencyGraph)
  /\ UNCHANGED <<vocabulary, text, databaseVars, searchVars>>

Sort == stage = "apply" /\ Shift /\ UNCHANGED <<repositoryVars, databaseVars, searchVars>>

-----------------------------------------------------------------------------
(* What deps prints of a graph without a cycle.  (On one with a cycle the  *)
(* depths depend on the order in which references were found.)             *)

Depth[f \in Node] ==
  LET parents == Successors(Graph, f)
  IN  IF parents = {} THEN 0 ELSE 1 + Max({Depth[g] : g \in parents})

\* Fault: the first by name, however deep.
ParentByName(f) == Min(Successors(Graph, f))

\* Of the files it depends on, a file stands below the deepest.
PrimaryParent(f) ==
  LET parents == Successors(Graph, f)
  IN  Min({g \in parents : \A h \in parents : Depth[h] <= Depth[g]})

\* The files on each level of the tree.
TreeLevel[n \in 0..N] ==
  IF n = 0 THEN {f \in Node : Successors(Graph, f) = {}}
  ELSE {f \in Node : Successors(Graph, f) # {} /\ PrimaryParent(f) \in TreeLevel[n - 1]}

-----------------------------------------------------------------------------
(* The database *)

Statements(sql) ==
  FlattenSeq([i \in DOMAIN sql |-> IF sql[i].node = "DoStmt" THEN sql[i].body ELSE <<sql[i]>>])

\* PostgreSQL keeps relations of all types in one namespace.
Named(objs) ==
  {IF o.type \in Relations THEN [o EXCEPT !.type = "relation"] ELSE o : o \in objs}

Creating ==
  {"CreateStmt", "ViewStmt", "CreateFunctionStmt", "CreateSchemaStmt", "CreateRoleStmt"}

Makes(s) == Named((IF s.node \in Creating THEN {s.obj} ELSE {}) \cup s.makes)

Removes(s) == IF s.node \in {"DropStmt", "DropRoleStmt"} THEN Named({s.obj}) ELSE {}

Needs(s) ==
  Named((IF s.node \in Creating \cup {"DropStmt", "DropRoleStmt"} THEN {} ELSE {s.obj})
       \cup (IF s.node = "CreateFunctionStmt" /\ "sql" \notin s.marks THEN {} ELSE s.refs)
       \cup s.needs)

\* Behind a statement that fails, nothing is executed.
ExecuteStatement(x, s) ==
  IF x.failed \/ ~(Needs(s) \subseteq x.objects)
    THEN [objects |-> x.objects, failed |-> TRUE]
    ELSE [objects |-> (x.objects \cup Makes(s)) \ Removes(s), failed |-> FALSE]

RunStatements(d, statements) ==
  FoldLeft(ExecuteStatement, [objects |-> d, failed |-> FALSE], statements)

-----------------------------------------------------------------------------
(* The passes of apply *)

SortIsDone == stage \in {"apply", "again"} /\ queue = {}

\* On a cycle the files come in the order of their names.
Order == IF Len(sorted) = N THEN sorted ELSE [i \in Node |-> i]

File == Order[position + 1]

IsDue == SortIsDone /\ position < N /\ File \notin executed \cup blocked

Outcome == RunStatements(objects, Statements(text[File].sql))

Succeed ==
  /\ IsDue /\ ~Outcome.failed
  /\ objects' = Outcome.objects
  /\ executed' = executed \cup {File}
  /\ position' = position + 1
  /\ UNCHANGED <<repositoryVars, blocked, lacking, sortVars, searchVars>>

\* Fault: only the files that refer to the failed one themselves are held back.
BlockUsers(file) == blocked' = blocked \cup Predecessors(Graph, file)

BlockDependents(file) == blocked' = blocked \cup TransitiveDependents(Graph, file)

FailForWant ==
  /\ IsDue /\ Outcome.failed
  /\ objects' = Outcome.objects
  /\ lacking' = lacking \cup {File}
  /\ BlockDependents(File)
  /\ position' = position + 1
  /\ UNCHANGED <<repositoryVars, executed, sortVars, searchVars>>

\* A timeout, a violated constraint, bad data: some statements are executed.
FailOfItsOwn ==
  /\ IsDue /\ stage = "apply" /\ ~Outcome.failed
  /\ LET statements == Statements(text[File].sql)
     IN  \E n \in 0..(Len(statements) - 1) :
           objects' = RunStatements(objects, SubSeq(statements, 1, n)).objects
  /\ BlockDependents(File)
  /\ position' = position + 1
  /\ UNCHANGED <<repositoryVars, executed, lacking, sortVars, searchVars>>

PassOver ==
  /\ SortIsDone /\ position < N /\ File \in executed \cup blocked
  /\ position' = position + 1
  /\ UNCHANGED <<repositoryVars, objects, executed, blocked, lacking, sortVars, searchVars>>

ApplyAgain ==
  /\ stage = "apply" /\ SortIsDone /\ position = N
  /\ stage' = "again"
  /\ position' = 0 /\ blocked' = {}
  /\ UNCHANGED <<vocabulary, text, objects, executed, lacking, sortVars, searchVars>>

DependenciesNext ==
  \/ WriteFile \/ StartDeps \/ Search \/ StartApply \/ Sort
  \/ Succeed \/ FailForWant \/ FailOfItsOwn \/ PassOver \/ ApplyAgain

DependenciesSpec == DependenciesInit /\ [][DependenciesNext]_dependencyVars

-----------------------------------------------------------------------------
IsWritten == Len(text) = N

\* What the analysis does not see: EXECUTE, data changes and other kinds of
\* statements, as docs/dag-internals.md:56-58 says; beside that, files that do not
\* parse, the target of ALTER ... OWNER TO (but for tables), columns, the schemas
\* of names, and what a statement makes beside the object that it creates.
IsSeen(f) ==
  /\ \A s \in ToSet(text[f].sql) :
       /\ "psql_variable" \notin s.marks
       /\ DialectOf[vocabulary] # "postgresql" => s.node \in GenericNodes
  /\ \A s \in ToSet(Statements(text[f].sql)) :
       /\ s.node \in AnalyzedNodes
       /\ s.needs = {}
       /\ \A g \in Node : \A i \in ToSet(Statements(text[g].sql)) :
            Needs(s) \cap Named(i.makes) = {}

MadeBy(f) == UNION {Makes(s) : s \in ToSet(Statements(text[f].sql))}

IsMadeOnce ==
  \A f, g \in Node : f # g => MadeBy(f) \cap MadeBy(g) = {}

NothingIsDropped ==
  \A f \in Node : \A s \in ToSet(Statements(text[f].sql)) : Removes(s) = {}

\* Each file can be executed when all the others have been.
IsComplete ==
  \A f \in Node :
    ~RunStatements(UNION {MadeBy(g) : g \in Node \ {f}}, Statements(text[f].sql)).failed

\* The authors have executed each file when they wrote it.
WorksInOrder ==
  ~RunStatements({}, FlattenSeq([f \in Node |-> Statements(text[f].sql)])).failed

(***************************************************************************)
(* In a repository without a cycle, whose objects are made in one file     *)
(* each, in any order of files, and are not dropped, apply never executes  *)
(* a file before what the file needs, whichever files fail of their own:   *)
(* the edges that the analysis finds, the order of the sort and the files  *)
(* that a failure holds back are enough.                                   *)
(***************************************************************************)
NothingIsLacking ==
  IsWritten /\ (\A f \in Node : IsSeen(f)) /\ IsMadeOnce /\ NothingIsDropped /\ IsComplete
    /\ IsAcyclic(Graph)
    => lacking = {}

(***************************************************************************)
(* Files that their authors could execute in the order of their names are  *)
(* applied in that order, unless an object is made in two of them, whose   *)
(* references then lead to the later one, or a dependency is declared on a *)
(* later file: the order in which a history was tested is not changed.     *)
(***************************************************************************)
HistoryKeepsItsOrder ==
  IsWritten /\ WorksInOrder /\ IsMadeOnce /\ NothingIsDropped
    /\ (\A f \in Node : DeclaredTargets(Node, text[f], ExpandOf) \subseteq 1..f)
    /\ Configured = {}
    => \A i \in DOMAIN sorted : sorted[i] = i

(***************************************************************************)
(* deps draws each file below one of those it depends on; in a repository  *)
(* without a cycle every file is drawn, and lower than all the files it    *)
(* depends on, not just that one: level by level the tree is an order in   *)
(* which the files can be applied.                                         *)
(***************************************************************************)
TreeIsInOrder ==
  stage = "deps" /\ path = << >> /\ IsAcyclic(Graph) =>
    \A f \in Node :
      \E n \in 0..N :
        /\ f \in TreeLevel[n]
        /\ \A g \in Successors(Graph, f) : \E m \in 0..N : m < n /\ g \in TreeLevel[m]

(***************************************************************************)
(* The queue always holds exactly the files that are not emitted and whose *)
(* dependencies all are.  This is why a pass of apply can be described by  *)
(* the first ready file among those left (IsNext of module Apply).         *)
(***************************************************************************)
QueueIsReady ==
  stage \in {"apply", "again"} => queue = Ready(Graph, Node \ Emitted)

(***************************************************************************)
(* topologicalSort stops short, upon which apply falls back to file order  *)
(* without a word, just on a cycle; and what it has emitted, then or       *)
(* before, has every file after those it depends on.                       *)
(***************************************************************************)
SortIsRight ==
  /\ DependenciesFirst
  /\ SortIsDone => (Len(sorted) # N <=> ~IsAcyclic(Graph))
=============================================================================
