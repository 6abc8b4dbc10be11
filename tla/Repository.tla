----------------------------- MODULE Repository -----------------------------
(***************************************************************************)
(* The migration files of the repository and the list of migrations in     *)
(* metadata.json, as the offline commands work on them: new, squash,       *)
(* editable and check, with the developer's edits between them.  No        *)
(* database is involved.                                                   *)
(*                                                                         *)
(* A statement is named by its timestamp, the one of the file it was       *)
(* written in.  A file is the statements it has come to hold, in order, on *)
(* which its name depends, and the edits that were made to it since.       *)
(***************************************************************************)
EXTENDS DepGraph, Integers, SequencesExt

CONSTANTS
  N,               \* how many statements can be written
  LateReferences,  \* in the DAG model, statements may refer to later timestamps
  MaxEdits,        \* bound on the developer's edits
  MaxCrashes       \* bound on the interruptions of squash

ASSUME RepositoryAssumption ==
  {N, MaxEdits, MaxCrashes} \subseteq Nat /\ LateReferences \in BOOLEAN

Statements == 1..N

VARIABLES
  dag,        \* the repository's model: DAG, or linear
  needs,      \* <<n, m>>: statement n refers to an object that m creates
  longFirst,  \* the order of the names of two files with the same timestamp
  disk,       \* the files
  meta,       \* metadata.json: the files it lists, with their checksums
  written,    \* the statements written so far
  edits,      \* how many edits have been made
  plan,       \* squash: the groups it has yet to merge
  doomed,     \* squash: the merged files it has yet to unlink
  merged,     \* squash: the files it has yet to add to the metadata
  stage,      \* squash: its next step
  inserted,   \* history: a file was added with a timestamp before a recorded one's
  crashes     \* how often squash was interrupted

squashVars == <<plan, doomed, merged, stage>>
repoVars   == <<dag, needs, longFirst, disk, meta, written, edits, squashVars,
                inserted, crashes>>
setting    == <<dag, needs, longFirst>>

File(statements, changes) == [of |-> statements, edited |-> changes]

\* Two files have the same name when they hold the same statements.
Names(files) == {f.of : f \in files}

\* A merged file has the timestamp of the last file in it.
Stamp(f) == Last(f.of)

RepoInit ==
  /\ dag \in BOOLEAN
  /\ needs \in SUBSET {e \in Statements \X Statements :
                      e[2] < e[1] \/ (dag /\ LateReferences /\ e[2] > e[1])}
  /\ IsDag([node |-> Statements, edge |-> needs])
  /\ longFirst \in BOOLEAN
  /\ disk = {} /\ meta = {} /\ written = {} /\ edits = 0
  /\ plan = {} /\ doomed = {} /\ merged = {} /\ stage = "none"
  /\ inserted = FALSE
  /\ crashes = 0

-----------------------------------------------------------------------------
(* Order and dependencies of the files *)

\* scanMigrations: by timestamp; equal ones as the directory lists them.
IsEarlier(f, g) ==
  \/ Stamp(f) < Stamp(g)
  \/ Stamp(f) = Stamp(g) /\ f # g /\ (Len(f.of) > Len(g.of)) = longFirst

\* The place of a file among others, and the list that has each at its place.
Place(files, f) == Cardinality({g \in files : IsEarlier(g, f)}) + 1

Ordered(files) == [i \in 1..Cardinality(files) |-> CHOOSE f \in files : Place(files, f) = i]

TailFile == CHOOSE f \in disk : \A g \in disk \ {f} : IsEarlier(g, f)

\* A file refers to the last file that creates the object, unless that is itself.
Edge(f, g) ==
  /\ f # g
  /\ \E e \in needs :
       /\ Contains(f.of, e[1]) /\ Contains(g.of, e[2])
       /\ \A h \in disk \ {g} : Contains(h.of, e[2]) => IsEarlier(h, g)

FileGraph == [node |-> disk, edge |-> {e \in disk \X disk : Edge(e[1], e[2])}]

NewFiles == {f \in disk : f.of \notin Names(meta)}
Recorded == disk \ NewFiles

-----------------------------------------------------------------------------
(* new, and the developer *)

\* The statement refers to what the checkout has; its timestamp may be older than
\* that of other files, which came from other branches.
New(n) ==
  /\ stage = "none"
  /\ n \notin written
  /\ \A m \in Statements : <<n, m>> \in needs => m \in written
  /\ disk' = disk \cup {File(<<n>>, {})}
  /\ written' = written \cup {n}
  /\ inserted' = (inserted \/ \E g \in Recorded : n < Stamp(g))
  /\ UNCHANGED <<setting, meta, edits, squashVars, crashes>>

\* What editable lists, offline: the tail or the leaves, and what is new.
EditableFiles == (IF dag THEN LeafNodes(FileGraph) ELSE {TailFile}) \cup NewFiles

Edit(f) ==
  /\ stage = "none"
  /\ edits < MaxEdits
  /\ f \in EditableFiles
  /\ edits' = edits + 1
  /\ disk' = (disk \ {f}) \cup {File(f.of, f.edited \cup {edits + 1})}
  /\ UNCHANGED <<setting, meta, written, squashVars, inserted, crashes>>

-----------------------------------------------------------------------------
(* squash *)

\* findConnectedComponents: the new files that depend on one another.
Components ==
  LET related == {e \in NewFiles \X NewFiles : Edge(e[1], e[2]) \/ Edge(e[2], e[1])}
      graph   == [node |-> NewFiles, edge |-> related]
  IN  {{f} \cup TransitiveDependents(graph, f) : f \in NewFiles}

\* Fault: recorded files are merged with the new ones.
GroupsOfAll == {g \in {disk} : Cardinality(g) >= 2}

\* Fault: what an interrupted squash has merged is not merged again.
GroupsOfUnmerged ==
  {g \in IF dag THEN Components ELSE {{f \in NewFiles : Len(f.of) = 1}} :
     Cardinality(g) >= 2}

\* What squash merges; a group of one file stays as it is.
SquashGroups ==
  {g \in IF dag THEN Components ELSE {NewFiles} : Cardinality(g) >= 2}

\* Fault: the files are concatenated the other way round.
MergeReversed(group) ==
  File(FlattenSeq([i \in DOMAIN Ordered(group) |-> Reverse(Ordered(group))[i].of]),
       UNION {f.edited : f \in group})

\* buildSquashedFileName and the concatenation, both in timestamp order.
Merge(group) ==
  File(FlattenSeq([i \in DOMAIN Ordered(group) |-> Ordered(group)[i].of]),
       UNION {f.edited : f \in group})

StartSquash ==
  /\ stage = "none"
  /\ plan' = SquashGroups
  /\ SquashGroups # {}
  /\ stage' = "write"
  /\ UNCHANGED <<setting, disk, meta, written, edits, doomed, merged, inserted, crashes>>

\* Fault: the files are removed before the one with all of them is written.
WriteMergedLast ==
  /\ stage = "write"
  /\ \E group \in plan :
       /\ plan' = plan \ {group}
       /\ doomed' = {Merge(group)}
       /\ merged' = merged \cup {Merge(group)}
       /\ disk' = disk \ group
  /\ stage' = "unlink"
  /\ UNCHANGED <<setting, meta, written, edits, inserted, crashes>>

WriteMerged ==
  /\ stage = "write"
  /\ \E group \in plan :
       /\ plan' = plan \ {group}
       /\ doomed' = group
       /\ merged' = merged \cup {Merge(group)}
       /\ disk' = {f \in disk : f.of # Merge(group).of} \cup {Merge(group)}
  /\ stage' = "unlink"
  /\ UNCHANGED <<setting, meta, written, edits, inserted, crashes>>

\* Fault: the loop over the merged files ends with the first one.
UnlinkFirst ==
  /\ stage = "unlink"
  /\ LET f == Head(Ordered(doomed))
     IN  /\ disk' = {g \in disk : g.of # f.of}
         /\ doomed' = doomed \ {f}
  /\ stage' = IF plan # {} THEN "write" ELSE "save"
  /\ UNCHANGED <<setting, meta, written, edits, plan, merged, inserted, crashes>>

Unlink ==
  /\ stage = "unlink"
  /\ LET f == Head(Ordered(doomed))
     IN  /\ disk' = {g \in disk : g.of # f.of}
         /\ doomed' = doomed \ {f}
  /\ stage' = IF doomed' # {} THEN "unlink" ELSE IF plan # {} THEN "write" ELSE "save"
  /\ UNCHANGED <<setting, meta, written, edits, plan, merged, inserted, crashes>>

SaveSquashed ==
  /\ stage = "save"
  /\ meta' = meta \cup merged
  /\ merged' = {}
  /\ stage' = "none"
  /\ UNCHANGED <<setting, disk, written, edits, plan, doomed, inserted, crashes>>

InterruptSquash ==
  /\ stage # "none"
  /\ crashes < MaxCrashes
  /\ crashes' = crashes + 1
  /\ plan' = {} /\ doomed' = {} /\ merged' = {} /\ stage' = "none"
  /\ UNCHANGED <<setting, disk, meta, written, edits, inserted>>

-----------------------------------------------------------------------------
(* check *)

\* Changed since it was recorded.
IsChanged(f) == \E e \in meta : e.of = f.of /\ e.edited # f.edited

CheckPasses ==
  /\ ~dag => /\ Cardinality(NewFiles) <= 1
             /\ \A f \in NewFiles, g \in Recorded : Stamp(g) <= Stamp(f)
  /\ \A f \in Recorded : IsChanged(f) => f \in EditableFiles
  /\ Names(meta) \subseteq Names(disk)

\* Nothing is left to write.
Done == stage = "none" /\ written = Statements /\ UNCHANGED repoVars

RepoNext ==
  \/ \E n \in Statements : New(n)
  \/ \E f \in disk : Edit(f)
  \/ StartSquash
  \/ WriteMerged
  \/ Unlink
  \/ SaveSquashed
  \/ InterruptSquash
  \/ Done

RepoSpec == RepoInit /\ [][RepoNext]_repoVars

-----------------------------------------------------------------------------
(* The type of the state.  No two files have the same name. *)
RepositoryTypeOK ==
  /\ \A f \in disk \cup meta \cup merged \cup doomed :
       f.of \in Seq(Statements) /\ f.of # << >> /\ f.edited \subseteq 1..MaxEdits
  /\ Cardinality(Names(disk)) = Cardinality(disk)
  /\ written \subseteq Statements
  /\ plan \subseteq SUBSET disk
  /\ stage \in {"none", "write", "unlink", "save"}
  /\ stage = "unlink" <=> doomed # {}

(***************************************************************************)
(* Wherever squash is interrupted, and whatever is written, edited or      *)
(* squashed afterwards, no statement and no edit is lost.                  *)
(***************************************************************************)
StatementsRemain ==
  /\ \A n \in written : \E f \in disk : Contains(f.of, n)
  /\ UNION {f.edited : f \in disk} = 1..edits

(***************************************************************************)
(* metadata.json lists no file that is not there: squash never removes a   *)
(* file that is recorded, and records none before it is complete.          *)
(***************************************************************************)
RecordedFilesExist == Names(meta) \subseteq Names(disk)

\* The order in which apply executes the files of the checkout: in the DAG model each
\* time the first of those whose dependencies have had their turn.
ApplyOrder ==
  IF dag /\ IsAcyclic(FileGraph)
    THEN LET order[k \in 0..Cardinality(disk)] ==
               IF k = 0 THEN << >>
               ELSE Append(order[k - 1],
                           Head(Ordered(Ready(FileGraph, disk \ ToSet(order[k - 1])))))
         IN  order[Cardinality(disk)]
    ELSE Ordered(disk)

StatementOrder == FlattenSeq([i \in DOMAIN ApplyOrder |-> ApplyOrder[i].of])

FirstAt(s, n) == CHOOSE i \in DOMAIN s : s[i] = n /\ \A j \in 1..(i - 1) : s[j] # n

(***************************************************************************)
(* However the statements have come from branches and have been merged     *)
(* into files, an apply of the whole checkout, which is what a new         *)
(* environment gets, executes what creates an object before what refers to *)
(* it.  In the linear model that is up to the order of the timestamps, and *)
(* not claimed for files inserted before a recorded one.  Nor is it after  *)
(* an interrupted squash: a merged file and one of its sources may have    *)
(* the same timestamp.                                                     *)
(***************************************************************************)
DependenciesPrecede ==
  stage = "none" /\ crashes = 0 /\ (dag \/ ~inserted) =>
    LET order == StatementOrder
    IN  \A e \in needs :
          e[1] \in written => FirstAt(order, e[2]) < FirstAt(order, e[1])

(***************************************************************************)
(* A squash that comes to its end leaves a checkout that check passes,     *)
(* even after interruptions of earlier ones, unless a file that had been   *)
(* recorded has been changed since.                                        *)
(***************************************************************************)
SquashSettles ==
  [][ stage = "save" /\ crashes' = crashes /\ (\A f \in Recorded : ~IsChanged(f))
        => CheckPasses' ]_repoVars

(***************************************************************************)
(* docs/dag-internals.md:142 on squash in the DAG model: "Within each      *)
(* group, files are concatenated in ascending timestamp order,             *)
(* guaranteeing that dependencies precede dependents."                     *)
(***************************************************************************)
DependenciesPrecedeInGroup ==
  dag => \A f \in disk : \A e \in needs :
           {e[1], e[2]} \subseteq ToSet(f.of) =>
             FirstAt(f.of, e[2]) < FirstAt(f.of, e[1])
=============================================================================
