-------------------------- MODULE MigraguardProofs --------------------------
(***************************************************************************)
(* Proofs of the types and of the safety of Migraguard, and that it        *)
(* implements the Ledger, for any clients, files, checkouts and bounds;    *)
(* and what the other proofs need to know of commands, CLI processes and   *)
(* the table.                                                              *)
(***************************************************************************)
EXTENDS Migraguard, MigraguardLedger, GraphProofs, SequenceTheorems, TLAPS

-----------------------------------------------------------------------------
(* The latest and the newest row of a set of rows exist.                   *)

\* A nonempty set of naturals no greater than n has a greatest element.
LEMMA GreatestNatural ==
  ASSUME NEW n \in Nat, NEW S \in SUBSET (0..n), S # {}
  PROVE  \E m \in S : \A k \in S : k <= m
<1> DEFINE D == {d \in Nat : n - d \in S}
<1>1. D # {}
  <2>1. PICK k \in S : TRUE
    OBVIOUS
  <2>2. n - k \in D
    BY <2>1
  <2> QED
    BY <2>2
<1>2. PICK d \in D : \A e \in D : d <= e
  BY <1>1, LeastNatural
<1>3. n - d \in S
  BY <1>2
<1>4. ASSUME NEW k \in S PROVE k <= n - d
  <2>1. n - k \in D
    OBVIOUS
  <2> QED
    BY <1>2, <2>1
<1> QED
  BY <1>3, <1>4

IsLatest(log, rows, k) ==
  \A j \in rows : \/ log[j].at < log[k].at
                  \/ log[j].at = log[k].at /\ k <= j

(* Of a nonempty set of rows, none later than t, LatestOf is the latest. *)
LEMMA LatestIsRow ==
  ASSUME NEW log, NEW rows \in SUBSET Nat, rows # {}, NEW t \in Nat,
         \A k \in rows : log[k].at \in 0..t
  PROVE  LatestOf(log, rows) \in rows /\ IsLatest(log, rows, LatestOf(log, rows))
<1> DEFINE Times == {a \in 0..t : \E k \in rows : log[k].at = a}
<1>1. Times # {}
  OBVIOUS
<1>2. PICK a \in Times : \A b \in Times : b <= a
  BY <1>1, GreatestNatural
<1> DEFINE Ties == {k \in rows : log[k].at = a}
<1>3. PICK k \in Ties : \A j \in Ties : k <= j
  <2>1. Ties # {} /\ Ties \in SUBSET Nat
    BY <1>2
  <2> QED
    BY <2>1, LeastNatural
<1>4. IsLatest(log, rows, k)
  BY <1>2, <1>3 DEF IsLatest
<1> QED
  BY <1>3, <1>4 DEF LatestOf, IsLatest

(* The row of a nonempty set that was inserted last exists. *)
LEMMA NewestIsRow ==
  ASSUME NEW n \in Nat, NEW rows \in SUBSET (1..n), rows # {}
  PROVE  LET k == CHOOSE m \in rows : \A j \in rows : j <= m
         IN  k \in rows /\ \A j \in rows : j <= k
<1>1. PICK m \in rows : \A j \in rows : j <= m
  <2>1. rows \in SUBSET (0..n)
    OBVIOUS
  <2> QED
    BY <2>1, GreatestNatural
<1> QED
  BY <1>1

-----------------------------------------------------------------------------
(* The types of the state, and what a command's own variables hold.        *)

\* A command that runs has a job; one that executes or records has a row at
\* hand; the files an apply has still to visit are in its checkout.
LocalsOK ==
  \A c \in Clients :
    /\ pc[c] # "idle" => job[c] \in Jobs
    /\ pc[c] \in {"sql", "insert"} => work[c] \in Work
    /\ IsMidPass(c) => left[c] \subseteq Scan(job[c].tree)

\* A CLI process that has an owner is the only one of that owner, which is
\* waiting for it.
CliOK ==
  /\ \A e \in cli : e.owner # None => pc[e.owner] = "sql"
  /\ \A d, e \in cli : d.owner = e.owner /\ d.owner # None => d = e

\* The clock of the database does not go back; where applied_at is fine
\* enough, it goes on from each row to the next.
ClockOK ==
  /\ \A k \in DOMAIN records : records[k].at <= now
  /\ HasLock => \A j, k \in DOMAIN records : j < k => records[j].at < records[k].at

Typing == TypeOK /\ LocalsOK /\ CliOK

\* The fields a command's job has.
LEMMA JobFields ==
  ASSUME NEW j \in Jobs
  PROVE  /\ j.cmd \in {"apply", "apply-phase", "advance", "resolve"}
         /\ j.cmd \in {"apply", "apply-phase"} => j.tree \in Trees
         /\ j.cmd # "apply" => j.file \in Files
         /\ j.cmd = "advance" => j.status \in {"applied", "failed", "running"}
BY JobsAssumption DEF JobType

\* The fields of a row.
LEMMA RowFields ==
  ASSUME NEW r \in Row
  PROVE  /\ r.file \in Files
         /\ r.sum \in Sums \cup {NoSum}
         /\ r.at \in Nat
BY DEF Row

\* The table as a function on the positions of its rows.
LEMMA TableOfRows ==
  ASSUME TypeOK
  PROVE  /\ Len(records) \in Nat
         /\ DOMAIN records = 1..Len(records)
         /\ \A k \in DOMAIN records : records[k] \in Row
BY DEF TypeOK

\* Three steps write the table.
LEMMA WhoInserts ==
  ASSUME [Next]_vars
  PROVE  \/ UNCHANGED dbVars
         \/ \E c \in Clients : RecordResult(c) \/ ResolveInsert(c) \/ PhaseInsert(c)
<1>1. CASE \E o \in Owners : SqlEndsOf(o)
  BY <1>1 DEF SqlEndsOf, SqlEnds
<1>2. CASE Finished \/ UNCHANGED vars
  BY <1>2 DEF Finished, vars
<1>3. ASSUME NEW c \in Clients, \E j \in Jobs : Start(c, j) PROVE UNCHANGED dbVars
  BY <1>3 DEF Start
<1>4. ASSUME NEW c \in Clients, Acquire(c) \/ WaitTimeout(c) \/ Close(c) \/ Crash(c)
      PROVE  UNCHANGED dbVars
  BY <1>4 DEF Acquire, WaitTimeout, Close, Crash
<1>5. ASSUME NEW c \in Clients, ApplyStep(c), ~RecordResult(c) PROVE UNCHANGED dbVars
  BY <1>5 DEF ApplyStep, LoadRecords, PassOver, Refuse, Execute, Finish
<1>6. ASSUME NEW c \in Clients, OperatorStep(c), ~ResolveInsert(c), ~PhaseInsert(c)
      PROVE  UNCHANGED dbVars
  BY <1>6 DEF OperatorStep, ResolveRead, AdvanceRead, ApplyPhaseRead
<1> QED
  BY <1>1, <1>2, <1>3, <1>4, <1>5, <1>6 DEF Next, Step

\* The table only grows, and by insertRecord.
LEMMA NextInserts ==
  ASSUME [Next]_vars
  PROVE  UNCHANGED dbVars \/ \E f, s, status, g, ph : InsertRow(f, s, status, g, ph)
BY WhoInserts DEF RecordResult, ResolveInsert, PhaseInsert

LEMMA ClockInit == Init => ClockOK
BY DEF Init, ClockOK

LEMMA InsertKeepsClock ==
  ASSUME records \in Seq(Row), now \in Nat, ClockOK,
         NEW f, NEW s, NEW status, NEW g, NEW ph, InsertRow(f, s, status, g, ph)
  PROVE  ClockOK'
<1>1. PICK t \in NextTimes :
        /\ now' = t
        /\ records' = Append(records, [file |-> f, sum |-> s, status |-> status,
                                       at |-> t, group |-> g, phase |-> ph])
  BY DEF InsertRow
<1>2. t \in Nat /\ now <= t /\ (HasLock => now < t)
  BY DEF NextTimes, HasLock
<1>3. Len(records) \in Nat /\ DOMAIN records = 1..Len(records)
  OBVIOUS
<1>4. DOMAIN records' = 1..(Len(records) + 1)
  BY <1>1, <1>3
<1>5. /\ \A k \in 1..Len(records) : records'[k] = records[k]
      /\ records'[Len(records) + 1].at = t
  BY <1>1
<1>6. \A k \in 1..Len(records) : records[k].at \in Nat
  BY <1>3, RowFields
<1> QED
  BY <1>1, <1>2, <1>3, <1>4, <1>5, <1>6 DEF ClockOK, HasLock

LEMMA ClockNext == TypeOK /\ ClockOK /\ [Next]_vars => ClockOK'
<1> SUFFICES ASSUME TypeOK, ClockOK, [Next]_vars PROVE ClockOK'
  OBVIOUS
<1>1. CASE UNCHANGED dbVars
  BY <1>1 DEF ClockOK, dbVars
<1>2. ASSUME NEW f, NEW s, NEW status, NEW g, NEW ph, InsertRow(f, s, status, g, ph)
      PROVE  ClockOK'
  BY <1>2, InsertKeepsClock DEF TypeOK
<1> QED
  BY <1>1, <1>2, NextInserts

LEMMA TypingInit == Init => Typing
BY BoundsAssumption DEF Init, Typing, TypeOK, LocalsOK, CliOK, IsMidPass, PCs, Owners

\* A row that insertRecord adds keeps the table's type.
LEMMA InsertKeepsType ==
  ASSUME records \in Seq(Row), now \in Nat,
         NEW f \in Files, NEW s \in Sums \cup {NoSum}, NEW status \in Statuses,
         NEW g \in Groups \cup {None}, NEW ph \in Phases \cup {None},
         InsertRow(f, s, status, g, ph)
  PROVE  records' \in Seq(Row) /\ now' \in Nat
BY DEF InsertRow, NextTimes, Row

LEMMA FilesAreFinite == IsFiniteSet(Files)
<1>1. Len(FileOrder) \in Nat /\ FileOrder \in [1..Len(FileOrder) -> Files]
  BY FilesAssumption
<1>2. FileOrder \in Surjection(1..Len(FileOrder), Files)
  BY <1>1 DEF Files, Surjection
<1>3. IsFiniteSet(1..Len(FileOrder))
  BY <1>1, FS_Interval
<1> QED
  BY <1>2, <1>3, FS_Surjection

\* The dependencies of any checkout are a finite graph.
LEMMA GraphOfIsGraph == ASSUME NEW tree PROVE IsGraph(GraphOf(tree)) /\ GraphOf(tree).node = Scan(tree)
<1>1. Scan(tree) \in SUBSET Files
  BY DEF Scan
<1>2. IsFiniteSet(Scan(tree))
  BY <1>1, FilesAreFinite, FS_Subset
<1> QED
  BY <1>2 DEF IsGraph, GraphOf

LEMMA DependentsAreFiles ==
  ASSUME NEW tree, NEW f
  PROVE  TransitiveDependents(GraphOf(tree), f) \subseteq Files
BY GraphOfIsGraph, DependentsAreNodes DEF Scan

\* The latest row of a file that has one is a row of the table.
LEMMA LatestRowIsRow ==
  ASSUME TypeOK, ClockOK, NEW f \in Files, RowsOf(records, f) # {}
  PROVE  LatestRow(records, f) \in Row
<1>1. RowsOf(records, f) \in SUBSET Nat
      /\ \A k \in RowsOf(records, f) : records[k] \in Row /\ records[k].at \in 0..now
  <2>1. RowsOf(records, f) \subseteq DOMAIN records
    BY DEF RowsOf
  <2>2. \A k \in DOMAIN records : records[k].at \in Nat /\ records[k].at <= now
    BY TableOfRows, RowFields DEF ClockOK
  <2>3. now \in Nat
    BY DEF TypeOK
  <2> QED
    BY <2>1, <2>2, <2>3, TableOfRows
<1>2. LatestOf(records, RowsOf(records, f)) \in RowsOf(records, f)
  BY <1>1, LatestIsRow DEF TypeOK
<1> QED
  BY <1>1, <1>2 DEF LatestRow

LEMMA TypingNext == Typing /\ ClockOK /\ [Next]_vars => Typing'
<1> SUFFICES ASSUME Typing, ClockOK, [Next]_vars PROVE Typing'
  OBVIOUS
<1> USE DEF Typing
<1>1. ASSUME NEW c \in Clients, NEW j \in Jobs, Start(c, j) PROVE Typing'
  <2>1. TypeOK'
    BY <1>1, NoneAssumption DEF Start, Goto, dbVars, TypeOK, PCs, Owners
  <2>2. LocalsOK'
    BY <1>1, NoneAssumption DEF Start, Goto, dbVars, TypeOK, LocalsOK, CliOK, IsMidPass, PCs, Owners
  <2>3. CliOK'
    BY <1>1, NoneAssumption DEF Start, Goto, dbVars, TypeOK, CliOK, PCs, Owners
  <2> QED
    BY <2>1, <2>2, <2>3
<1>2. ASSUME NEW c \in Clients, Acquire(c) PROVE Typing'
  <2>1. TypeOK'
    BY <1>2, NoneAssumption DEF Acquire, Goto, dbVars, TypeOK, PCs, Owners
  <2>2. LocalsOK'
    BY <1>2, NoneAssumption DEF Acquire, Goto, dbVars, TypeOK, LocalsOK, CliOK, IsMidPass, PCs, Owners
  <2>3. CliOK'
    BY <1>2, NoneAssumption DEF Acquire, Goto, dbVars, TypeOK, CliOK, PCs, Owners
  <2> QED
    BY <2>1, <2>2, <2>3
<1>3. ASSUME NEW c \in Clients, WaitTimeout(c) PROVE Typing'
  <2>1. TypeOK'
    BY <1>3, NoneAssumption DEF WaitTimeout, Exit, Goto, dbVars, TypeOK, PCs, Owners
  <2>2. LocalsOK'
    BY <1>3, NoneAssumption DEF WaitTimeout, Exit, Goto, dbVars, TypeOK, LocalsOK, CliOK, IsMidPass, PCs, Owners
  <2>3. CliOK'
    BY <1>3, NoneAssumption DEF WaitTimeout, Exit, Goto, dbVars, TypeOK, CliOK, PCs, Owners
  <2> QED
    BY <2>1, <2>2, <2>3
<1>4. ASSUME NEW c \in Clients, Close(c) PROVE Typing'
  <2>1. TypeOK'
    BY <1>4, NoneAssumption DEF Close, Released, Exit, Goto, dbVars, TypeOK, PCs, Owners
  <2>2. LocalsOK'
    BY <1>4, NoneAssumption DEF Close, Released, Exit, Goto, dbVars, TypeOK, LocalsOK, CliOK, IsMidPass, PCs, Owners
  <2>3. CliOK'
    BY <1>4, NoneAssumption DEF Close, Released, Exit, Goto, dbVars, TypeOK, CliOK, PCs, Owners
  <2> QED
    BY <2>1, <2>2, <2>3
<1>5. ASSUME NEW c \in Clients, Crash(c) PROVE Typing'
  <2>1. TypeOK'
    <3>1. cli' \subseteq [owner : Owners, file : Files, sum : Sums]
      <4> DEFINE orphan(e) == [e EXCEPT !.owner = IF @ = c THEN None ELSE @]
      <4>1. cli' = {orphan(e) : e \in cli}
        BY <1>5 DEF Crash
      <4>2. \A e \in cli : orphan(e) \in [owner : Owners, file : Files, sum : Sums]
        BY DEF TypeOK, Owners
      <4> QED
        BY <4>1, <4>2
    <3> QED
      BY <3>1, <1>5, NoneAssumption
         DEF Crash, Released, Exit, Goto, dbVars, TypeOK, PCs, Owners
  <2>2. LocalsOK'
    BY <1>5, NoneAssumption DEF Crash, Released, Exit, Goto, dbVars, TypeOK, LocalsOK, CliOK, IsMidPass, PCs, Owners
  <2>3. CliOK'
    BY <1>5, NoneAssumption DEF Crash, Released, Exit, Goto, dbVars, TypeOK, CliOK, PCs, Owners
  <2> QED
    BY <2>1, <2>2, <2>3
<1>6. ASSUME NEW c \in Clients, LoadRecords(c) PROVE Typing'
  <2>1. TypeOK'
    <3>1. Len(records) \in Nat /\ Scan(job[c].tree) \in SUBSET Files
      BY DEF TypeOK, Scan
    <3> QED
      BY <3>1, <1>6 DEF LoadRecords, Applying, Goto, dbVars, TypeOK, PCs, Owners
  <2>2. LocalsOK'
    BY <1>6 DEF LoadRecords, Applying, Goto, dbVars, TypeOK, LocalsOK, CliOK, IsMidPass, PCs, Owners
  <2>3. CliOK'
    BY <1>6 DEF LoadRecords, Applying, Goto, dbVars, TypeOK, CliOK, PCs, Owners
  <2> QED
    BY <2>1, <2>2, <2>3
<1>7. ASSUME NEW c \in Clients, PassOver(c) PROVE Typing'
  <2>1. TypeOK'
    BY <1>7 DEF PassOver, Applying, Visited, dbVars, TypeOK, PCs, Owners
  <2>2. LocalsOK'
    BY <1>7 DEF PassOver, Applying, Visited, dbVars, TypeOK, LocalsOK, CliOK, IsMidPass, PCs, Owners
  <2>3. CliOK'
    BY <1>7 DEF PassOver, Applying, Visited, dbVars, TypeOK, CliOK, PCs, Owners
  <2> QED
    BY <2>1, <2>2, <2>3
<1>8. ASSUME NEW c \in Clients, Refuse(c) PROVE Typing'
  <2>1. TypeOK'
    <3>1. PICK f \in left[c] : Visited(c, f) /\ AfterError(c, f)
      BY <1>8 DEF Refuse
    <3>2. left' \in [Clients -> SUBSET Files]
      BY <3>1 DEF Visited, TypeOK
    <3>3. blocked' \in [Clients -> SUBSET Files] /\ pc' \in [Clients -> PCs]
      <4>1. CASE Dag
        <5> DEFINE dependents == TransitiveDependents(GraphOf(job[c].tree), f)
        <5>1. blocked' = [blocked EXCEPT ![c] = @ \cup dependents]
              /\ pc' = [pc EXCEPT ![c] = "loop"]
          BY <3>1, <4>1 DEF AfterError, Goto
        <5>2. dependents \subseteq Files
          BY DependentsAreFiles
        <5> HIDE DEF dependents
        <5> QED
          BY <5>1, <5>2 DEF TypeOK, PCs
      <4>2. CASE ~Dag
        BY <3>1, <4>2 DEF AfterError, Goto, TypeOK, PCs
      <4> QED
        BY <4>1, <4>2
    <3> QED
      BY <3>2, <3>3, <1>8 DEF Refuse, dbVars, TypeOK
  <2>2. LocalsOK'
    BY <1>8, DependentsAreFiles DEF Refuse, Applying, Visited, AfterError, Goto, dbVars, TypeOK, LocalsOK, CliOK, IsMidPass, PCs, Owners
  <2>3. CliOK'
    BY <1>8, DependentsAreFiles DEF Refuse, Applying, Visited, AfterError, Goto, dbVars, TypeOK, CliOK, PCs, Owners
  <2> QED
    BY <2>1, <2>2, <2>3
<1>9. ASSUME NEW c \in Clients, Execute(c) PROVE Typing'
  <2>1. PICK f \in left[c] : Spawn(c, f, job[c].tree[f])
    BY <1>9 DEF Execute
  <2> DEFINE s == job[c].tree[f]
  <2>2. f \in Files /\ s \in Sums
    BY <1>9, JobFields DEF Execute, Applying, LocalsOK, IsMidPass, Scan, Trees
  <2>3. /\ pc' = [pc EXCEPT ![c] = "sql"]
        /\ cli' = cli \cup {[owner |-> c, file |-> f, sum |-> s]}
        /\ work' = [work EXCEPT ![c] = [file |-> f, sum |-> s, status |-> "running"]]
    BY <2>1 DEF Spawn, Goto
  <2>4. TypeOK'
    BY <2>2, <2>3, <1>9 DEF Execute, dbVars, TypeOK, PCs, Owners, Work, Statuses
  <2>5. LocalsOK'
    <3>1. work'[c] \in Work
      BY <2>2, <2>3 DEF TypeOK, Work, Statuses
    <3>2. UNCHANGED <<job, left>> /\ pc[c] = "loop"
      BY <1>9 DEF Execute, Applying
    <3> SUFFICES ASSUME NEW d \in Clients
                 PROVE  /\ pc'[d] # "idle" => job[d] \in Jobs
                        /\ pc'[d] \in {"sql", "insert"} => work'[d] \in Work
                        /\ IsMidPass(d)' => left[d] \subseteq Scan(job[d].tree)
      BY <3>2 DEF LocalsOK
    <3> QED
      BY <2>3, <3>1, <3>2 DEF TypeOK, LocalsOK, IsMidPass
  <2>6. CliOK'
    BY <2>2, <2>3, <1>9, NoneAssumption DEF Execute, Applying, TypeOK, CliOK, PCs, Owners
  <2> QED
    BY <2>4, <2>5, <2>6
<1>10. ASSUME NEW c \in Clients, RecordResult(c) PROVE Typing'
  <2>1. TypeOK'
    <3> DEFINE f == work[c].file
    <3>1. work[c] \in Work
      BY <1>10 DEF RecordResult, Applying, LocalsOK
    <3>2. InsertRow(f, work[c].sum, work[c].status, GroupOf[f], PhaseOf[f])
      BY <1>10 DEF RecordResult
    <3>3. records' \in Seq(Row) /\ now' \in Nat
      BY <3>1, <3>2, FilesAssumption, InsertKeepsType DEF TypeOK, Work
    <3>4. left' \in [Clients -> SUBSET Files] /\ work' \in [Clients -> Work \cup {None}]
      BY <1>10 DEF RecordResult, Visited, TypeOK
    <3>5. blocked' \in [Clients -> SUBSET Files] /\ pc' \in [Clients -> PCs]
      <4>1. CASE AfterError(c, f)
        <5>1. TransitiveDependents(GraphOf(job[c].tree), f) \subseteq Files
          BY DependentsAreFiles
        <5>2. \/ blocked' = blocked
              \/ blocked' = [blocked EXCEPT
                               ![c] = @ \cup TransitiveDependents(GraphOf(job[c].tree), f)]
          BY <4>1 DEF AfterError
        <5>3. pc' = [pc EXCEPT ![c] = "loop"] \/ pc' = [pc EXCEPT ![c] = "close"]
          BY <4>1 DEF AfterError, Goto
        <5>4. blocked' \in [Clients -> SUBSET Files]
          BY <5>1, <5>2 DEF TypeOK
        <5>5. pc' \in [Clients -> PCs]
          BY <5>3 DEF TypeOK, PCs
        <5> QED
          BY <5>4, <5>5
      <4>2. CASE UNCHANGED blocked /\ Goto(c, "loop")
        BY <4>2 DEF Goto, TypeOK, PCs
      <4> QED
        BY <4>1, <4>2, <1>10 DEF RecordResult
    <3> QED
      BY <3>3, <3>4, <3>5, <1>10 DEF RecordResult, TypeOK
  <2>2. LocalsOK'
    BY <1>10, DependentsAreFiles DEF RecordResult, Applying, Visited, AfterError, Goto, TypeOK, LocalsOK, CliOK, IsMidPass, PCs, Owners
  <2>3. CliOK'
    BY <1>10, DependentsAreFiles DEF RecordResult, Applying, Visited, AfterError, Goto, TypeOK, CliOK, PCs, Owners
  <2> QED
    BY <2>1, <2>2, <2>3
<1>11. ASSUME NEW c \in Clients, Finish(c) PROVE Typing'
  <2>1. TypeOK'
    BY <1>11 DEF Finish, Applying, Goto, dbVars, TypeOK, PCs, Owners
  <2>2. LocalsOK'
    BY <1>11 DEF Finish, Applying, Goto, dbVars, TypeOK, LocalsOK, CliOK, IsMidPass, PCs, Owners
  <2>3. CliOK'
    BY <1>11 DEF Finish, Applying, Goto, dbVars, TypeOK, CliOK, PCs, Owners
  <2> QED
    BY <2>1, <2>2, <2>3
<1>12. ASSUME NEW c \in Clients, ResolveRead(c) PROVE Typing'
  <2> DEFINE row == [file |-> job[c].file, sum |-> LatestRow(records, job[c].file).sum,
                      status |-> "skipped"]
  <2>1. RowsOf(records, job[c].file) # {} => row \in Work
    BY <1>12, JobFields, LatestRowIsRow
       DEF ResolveRead, Running, TypeOK, LocalsOK, Work, Statuses, Row
  <2>2. \/ /\ RowsOf(records, job[c].file) # {}
           /\ work' = [work EXCEPT ![c] = row]
           /\ pc' = [pc EXCEPT ![c] = "insert"]
        \/ work' = work /\ pc' = [pc EXCEPT ![c] = "close"]
    BY <1>12 DEF ResolveRead, Goto
  <2>3. TypeOK'
    BY <2>1, <2>2, <1>12 DEF ResolveRead, dbVars, TypeOK, PCs
  <2>4. LocalsOK'
    BY <2>1, <2>2, <1>12 DEF ResolveRead, Running, TypeOK, LocalsOK, IsMidPass
  <2>5. CliOK'
    BY <2>2, <1>12 DEF ResolveRead, Running, TypeOK, CliOK, Owners
  <2> QED
    BY <2>3, <2>4, <2>5
<1>13. ASSUME NEW c \in Clients, ResolveInsert(c) PROVE Typing'
  <2>1. TypeOK'
    <3>1. work[c] \in Work
      BY <1>13 DEF ResolveInsert, Running, LocalsOK
    <3>2. InsertRow(work[c].file, work[c].sum, "skipped", None, None)
      BY <1>13 DEF ResolveInsert
    <3>3. records' \in Seq(Row) /\ now' \in Nat
      BY <3>1, <3>2, FilesAssumption, InsertKeepsType DEF TypeOK, Work, Statuses
    <3> QED
      BY <3>3, <1>13 DEF ResolveInsert, Goto, TypeOK, PCs
  <2>2. LocalsOK'
    BY <1>13 DEF ResolveInsert, Running, Goto, TypeOK, LocalsOK, CliOK, IsMidPass, PCs, Owners
  <2>3. CliOK'
    BY <1>13 DEF ResolveInsert, Running, Goto, TypeOK, CliOK, PCs, Owners
  <2> QED
    BY <2>1, <2>2, <2>3
<1>14. ASSUME NEW c \in Clients, AdvanceRead(c) PROVE Typing'
  <2> DEFINE row == [file |-> job[c].file, sum |-> NoSum, status |-> job[c].status]
  <2>1. row \in Work
    BY <1>14, JobFields DEF AdvanceRead, Running, TypeOK, LocalsOK, Work, Statuses, Row
  <2>2. \/ work' = [work EXCEPT ![c] = row] /\ pc' = [pc EXCEPT ![c] = "insert"]
        \/ work' = work /\ pc' = [pc EXCEPT ![c] = "close"]
    BY <1>14 DEF AdvanceRead, Goto
  <2>3. TypeOK'
    BY <2>1, <2>2, <1>14 DEF AdvanceRead, dbVars, TypeOK, PCs
  <2>4. LocalsOK'
    BY <2>1, <2>2, <1>14 DEF AdvanceRead, Running, TypeOK, LocalsOK, IsMidPass
  <2>5. CliOK'
    BY <2>2, <1>14 DEF AdvanceRead, Running, TypeOK, CliOK, Owners
  <2> QED
    BY <2>3, <2>4, <2>5
<1>15. ASSUME NEW c \in Clients, ApplyPhaseRead(c) PROVE Typing'
  <2> DEFINE f == job[c].file
             s == job[c].tree[f]
  <2>1. CASE Spawn(c, f, s) /\ s # None
    <3>1. f \in Files /\ s \in Sums
      BY <2>1, <1>15, JobFields DEF ApplyPhaseRead, Running, LocalsOK, Trees
    <3>2. pc' = [pc EXCEPT ![c] = "sql"]
          /\ cli' = cli \cup {[owner |-> c, file |-> f, sum |-> s]}
          /\ work' = [work EXCEPT ![c] = [file |-> f, sum |-> s, status |-> "running"]]
      BY <2>1 DEF Spawn, Goto
    <3>3. TypeOK'
      BY <3>1, <3>2, <1>15 DEF ApplyPhaseRead, dbVars, TypeOK, PCs, Owners, Work, Statuses
    <3>4. LocalsOK'
      BY <3>1, <3>2, <1>15
         DEF ApplyPhaseRead, Running, TypeOK, LocalsOK, IsMidPass, Work, Statuses
    <3>5. CliOK'
      BY <3>1, <3>2, <1>15, NoneAssumption
         DEF ApplyPhaseRead, Running, TypeOK, CliOK, PCs, Owners
    <3> QED
      BY <3>3, <3>4, <3>5
  <2>2. CASE UNCHANGED <<cli, work>> /\ Goto(c, "close")
    BY <2>2, <1>15
       DEF ApplyPhaseRead, Running, Goto, dbVars, TypeOK, LocalsOK, CliOK, IsMidPass, PCs
  <2> QED
    BY <2>1, <2>2, <1>15 DEF ApplyPhaseRead
<1>16. ASSUME NEW c \in Clients, PhaseInsert(c) PROVE Typing'
  <2>1. TypeOK'
    <3>1. work[c] \in Work
      BY <1>16 DEF PhaseInsert, Running, LocalsOK
    <3>2. InsertRow(work[c].file, work[c].sum, work[c].status,
                    GroupOf[work[c].file], PhaseOf[work[c].file])
      BY <1>16 DEF PhaseInsert
    <3>3. /\ work[c].file \in Files
          /\ work[c].sum \in Sums \cup {NoSum}
          /\ work[c].status \in Statuses
      BY <3>1 DEF Work
    <3>4. records \in Seq(Row) /\ now \in Nat
      BY DEF TypeOK
    <3>5. records' \in Seq(Row) /\ now' \in Nat
      BY <3>2, <3>3, <3>4, FilesAssumption, InsertKeepsType
    <3> QED
      BY <3>5, <1>16 DEF PhaseInsert, Goto, TypeOK, PCs
  <2>2. LocalsOK'
    BY <1>16 DEF PhaseInsert, Running, Goto, TypeOK, LocalsOK, CliOK, IsMidPass, PCs, Owners
  <2>3. CliOK'
    BY <1>16 DEF PhaseInsert, Running, Goto, TypeOK, CliOK, PCs, Owners
  <2> QED
    BY <2>1, <2>2, <2>3
<1>17. ASSUME NEW o \in Owners, SqlEndsOf(o) PROVE Typing'
  <2>1. PICK e \in cli : e.owner = o /\ SqlEnds(e)
    BY <1>17 DEF SqlEndsOf
  <2>2. PICK status \in {"applied", "failed"} :
          /\ ran' = IF status = "applied" THEN ran \cup {<<e.file, e.sum>>} ELSE ran
          /\ IF o = None
               THEN UNCHANGED <<pc, work>>
               ELSE /\ work' = [work EXCEPT ![o].status = status]
                    /\ pc' = [pc EXCEPT ![o] = "insert"]
    BY <2>1 DEF SqlEnds, Goto
  <2>3. cli' = cli \ {e}
        /\ UNCHANGED <<dbVars, holder, job, snap, left, blocked, runs, crashes>>
    BY <2>1 DEF SqlEnds
  <2>4. o # None => o \in Clients /\ pc[o] = "sql" /\ work[o] \in Work
    BY <2>1 DEF CliOK, LocalsOK, Owners
  <2>5. ran' \subseteq Files \X Sums
    BY <2>1, <2>2 DEF TypeOK
  <2>6. pc' \in [Clients -> PCs]
    BY <2>2, <2>4 DEF TypeOK, PCs
  <2>7. o # None => [work[o] EXCEPT !.status = status] \in Work
    BY <2>2, <2>4 DEF Work, Statuses
  <2>8. work' \in [Clients -> Work \cup {None}]
    BY <2>2, <2>4, <2>7 DEF TypeOK
  <2>9. TypeOK'
    BY <2>3, <2>5, <2>6, <2>8 DEF TypeOK, dbVars
  <2>10. LocalsOK'
    BY <2>2, <2>3, <2>4, <2>7 DEF TypeOK, LocalsOK, IsMidPass
  <2>11. CliOK'
    <3>1. \A d \in cli' : d \in cli /\ d # e
      BY <2>3
    <3>2. \A d \in cli' : d.owner # None => d.owner # o /\ pc[d.owner] = "sql"
      BY <2>1, <3>1 DEF CliOK
    <3>3. \A d \in cli' : d.owner # None => pc'[d.owner] = "sql"
      BY <2>2, <2>4, <3>1, <3>2 DEF TypeOK, Owners
    <3> QED
      BY <3>1, <3>3 DEF CliOK
  <2> QED
    BY <2>9, <2>10, <2>11
<1>18. CASE UNCHANGED vars
  BY <1>18 DEF TypeOK, LocalsOK, CliOK, IsMidPass, vars, dbVars, clientVars
<1> QED
  BY <1>1, <1>2, <1>3, <1>4, <1>5, <1>6, <1>7, <1>8, <1>9,
     <1>10, <1>11, <1>12, <1>13, <1>14, <1>15, <1>16, <1>17, <1>18
     DEF Next, Step, ApplyStep, OperatorStep, Finished

(***************************************************************************)
(* Every reachable state of the commands and the database is well typed,   *)
(* whatever crashes: in particular no command records a row it has not     *)
(* prepared, and an interrupted CLI process is never taken for a live      *)
(* command's.                                                              *)
(***************************************************************************)
THEOREM TypeCorrect == Spec => [](Typing /\ ClockOK)
<1>1. Init => Typing /\ ClockOK
  BY TypingInit, ClockInit
<1>2. Typing /\ ClockOK /\ [Next]_vars => (Typing /\ ClockOK)'
  BY TypingNext, ClockNext DEF Typing
<1> QED
  BY <1>1, <1>2, PTL DEF Spec

THEOREM TypeInvariant == Spec => []TypeOK
<1>1. Typing /\ ClockOK => TypeOK
  BY DEF Typing
<1> QED
  BY <1>1, TypeCorrect, PTL

-----------------------------------------------------------------------------
(* The advisory lock                                                       *)

\* Whoever is past its wait holds the lock.
LockHeld == HasLock => \A c \in Clients : IsInLock(c) => holder = c

LEMMA LockInit == Init => LockHeld
BY DEF Init, LockHeld, IsInLock

LEMMA LockNext == Typing /\ LockHeld /\ [Next]_vars => LockHeld'
<1> SUFFICES ASSUME Typing, LockHeld, HasLock, [Next]_vars,
                    NEW d \in Clients, IsInLock(d)'
             PROVE  holder' = d
  BY DEF LockHeld, HasLock
<1> USE NoneAssumption DEF LockHeld, IsInLock, Locks, Typing, TypeOK, LocalsOK
<1>1. ASSUME NEW c \in Clients, NEW j \in Jobs, Start(c, j) PROVE holder' = d
  BY <1>1 DEF Start, Goto
<1>2. ASSUME NEW c \in Clients, Acquire(c) PROVE holder' = d
  BY <1>2 DEF Acquire, Goto
<1>3. ASSUME NEW c \in Clients, WaitTimeout(c) PROVE holder' = d
  BY <1>3 DEF WaitTimeout, Exit, Goto
<1>4. ASSUME NEW c \in Clients, Close(c) PROVE holder' = d
  BY <1>4 DEF Close, Released, Exit, Goto
<1>5. ASSUME NEW c \in Clients, Crash(c) PROVE holder' = d
  BY <1>5 DEF Crash, Released, Exit, Goto
<1>6. ASSUME NEW c \in Clients, LoadRecords(c) PROVE holder' = d
  BY <1>6 DEF LoadRecords, Applying, Goto
<1>7. ASSUME NEW c \in Clients, PassOver(c) PROVE holder' = d
  BY <1>7 DEF PassOver, Applying
<1>8. ASSUME NEW c \in Clients, Refuse(c) PROVE holder' = d
  BY <1>8 DEF Refuse, Applying, AfterError, Goto
<1>9. ASSUME NEW c \in Clients, Execute(c) PROVE holder' = d
  BY <1>9 DEF Execute, Applying, Spawn, Goto
<1>10. ASSUME NEW c \in Clients, RecordResult(c) PROVE holder' = d
  BY <1>10 DEF RecordResult, Applying, AfterError, Goto
<1>11. ASSUME NEW c \in Clients, Finish(c) PROVE holder' = d
  BY <1>11 DEF Finish, Applying, Goto
<1>12. ASSUME NEW c \in Clients, ResolveRead(c) PROVE holder' = d
  BY <1>12 DEF ResolveRead, Running, Goto
<1>13. ASSUME NEW c \in Clients, ResolveInsert(c) PROVE holder' = d
  BY <1>13 DEF ResolveInsert, Running, Goto
<1>14. ASSUME NEW c \in Clients, AdvanceRead(c) PROVE holder' = d
  BY <1>14 DEF AdvanceRead, Running, Goto
<1>15. ASSUME NEW c \in Clients, ApplyPhaseRead(c) PROVE holder' = d
  BY <1>15 DEF ApplyPhaseRead, Running, Spawn, Goto
<1>16. ASSUME NEW c \in Clients, PhaseInsert(c) PROVE holder' = d
  BY <1>16 DEF PhaseInsert, Running, Goto
<1>17. ASSUME NEW o \in Owners, SqlEndsOf(o) PROVE holder' = d
  BY <1>17 DEF SqlEndsOf, SqlEnds, CliOK, Goto, Owners
<1>18. CASE UNCHANGED vars
  BY <1>18 DEF vars, clientVars
<1> QED
  BY <1>1, <1>2, <1>3, <1>4, <1>5, <1>6, <1>7, <1>8, <1>9,
     <1>10, <1>11, <1>12, <1>13, <1>14, <1>15, <1>16, <1>17, <1>18
     DEF Next, Step, ApplyStep, OperatorStep, Finished

(***************************************************************************)
(* On a dialect with an advisory lock, no two commands that take it are    *)
(* past acquireAdvisoryLock at once, whatever crashes and times out.       *)
(***************************************************************************)
THEOREM LockExcludes == Spec => []MutualExclusion
<1>1. Init => Typing /\ ClockOK /\ LockHeld
  BY TypingInit, ClockInit, LockInit
<1>2. Typing /\ ClockOK /\ LockHeld /\ [Next]_vars => (Typing /\ ClockOK /\ LockHeld)'
  BY TypingNext, ClockNext, LockNext DEF Typing
<1>3. LockHeld => MutualExclusion
  BY DEF LockHeld, MutualExclusion
<1> QED
  BY <1>1, <1>2, <1>3, PTL DEF Spec

-----------------------------------------------------------------------------
(* The rows an apply decides on                                            *)

\* A pass of apply is a holder of the lock.
LEMMA PassHoldsLock ==
  ASSUME LockHeld, HasLock, NEW c \in Clients, IsMidPass(c)
  PROVE  holder = c
BY DEF LockHeld, IsMidPass, IsInLock, Locks

LEMMA FreshInit == Init => FreshView
BY DEF Init, FreshView, IsMidPass

\* A row is added by a command that holds the lock, or by a resolve.
LEMMA FreshNext == Typing /\ LockHeld /\ FreshView /\ [Next]_vars => FreshView'
<1> SUFFICES ASSUME Typing, LockHeld, FreshView, HasLock, [Next]_vars,
                    NEW d \in Clients, IsMidPass(d)',
                    NEW k \in DOMAIN records', k > snap'[d], records'[k].file \in left'[d]
             PROVE  records'[k].status = "skipped"
  BY DEF FreshView, HasLock
<1>1. \A c \in Clients : IsMidPass(c) =>
        \A i \in DOMAIN records :
          i > snap[c] /\ records[i].file \in left[c] => records[i].status = "skipped"
  BY DEF FreshView
<1> USE DEF Typing, TypeOK, LocalsOK, IsMidPass
<1>2. ASSUME UNCHANGED records, IsMidPass(d), snap'[d] = snap[d], left'[d] \subseteq left[d]
      PROVE  records'[k].status = "skipped"
  BY <1>1, <1>2
<1>3. ASSUME NEW c \in Clients, NEW j \in Jobs, Start(c, j)
      PROVE  records'[k].status = "skipped"
  BY <1>2, <1>3 DEF Start, Goto, dbVars
<1>4. ASSUME NEW c \in Clients, Acquire(c) PROVE records'[k].status = "skipped"
  BY <1>2, <1>4 DEF Acquire, Goto, dbVars
<1>5. ASSUME NEW c \in Clients, WaitTimeout(c) PROVE records'[k].status = "skipped"
  BY <1>2, <1>5 DEF WaitTimeout, Exit, Goto, dbVars
<1>6. ASSUME NEW c \in Clients, Close(c) PROVE records'[k].status = "skipped"
  BY <1>2, <1>6 DEF Close, Exit, Goto, dbVars
<1>7. ASSUME NEW c \in Clients, Crash(c) PROVE records'[k].status = "skipped"
  BY <1>2, <1>7 DEF Crash, Exit, Goto, dbVars
<1>8. ASSUME NEW c \in Clients, LoadRecords(c) PROVE records'[k].status = "skipped"
  <2>1. CASE d = c /\ Scan(job[c].tree) # {}
    <3>1. snap'[d] = Len(records) /\ records' = records
      BY <2>1, <1>8 DEF LoadRecords, dbVars
    <3> QED
      BY <3>1, TableOfRows
  <2>2. CASE d # c \/ Scan(job[c].tree) = {}
    BY <1>2, <1>8, <2>2 DEF LoadRecords, Applying, Goto, dbVars
  <2> QED
    BY <2>1, <2>2
<1>9. ASSUME NEW c \in Clients, PassOver(c) PROVE records'[k].status = "skipped"
  BY <1>2, <1>9 DEF PassOver, Visited, dbVars
<1>10. ASSUME NEW c \in Clients, Refuse(c) PROVE records'[k].status = "skipped"
  BY <1>2, <1>10 DEF Refuse, Applying, Visited, AfterError, Goto, dbVars
<1>11. ASSUME NEW c \in Clients, Execute(c) PROVE records'[k].status = "skipped"
  BY <1>2, <1>11 DEF Execute, Applying, Spawn, Goto, dbVars
<1>12. ASSUME NEW c \in Clients, Finish(c) PROVE records'[k].status = "skipped"
  BY <1>2, <1>12 DEF Finish, Applying, Goto, dbVars
<1>13. ASSUME NEW c \in Clients, ResolveRead(c) PROVE records'[k].status = "skipped"
  BY <1>2, <1>13 DEF ResolveRead, Running, Goto, dbVars
<1>14. ASSUME NEW c \in Clients, AdvanceRead(c) PROVE records'[k].status = "skipped"
  BY <1>2, <1>14 DEF AdvanceRead, Running, Goto, dbVars
<1>15. ASSUME NEW c \in Clients, ApplyPhaseRead(c) PROVE records'[k].status = "skipped"
  BY <1>2, <1>15 DEF ApplyPhaseRead, Running, Spawn, Goto, dbVars
<1>16. ASSUME NEW o \in Owners, SqlEndsOf(o) PROVE records'[k].status = "skipped"
  BY <1>2, <1>16 DEF SqlEndsOf, SqlEnds, CliOK, Goto, Owners, dbVars
<1>17. CASE UNCHANGED vars
  BY <1>2, <1>17 DEF vars, dbVars, clientVars
<1>18. ASSUME NEW r, records' = Append(records, r), IsMidPass(d), snap'[d] = snap[d],
              left'[d] \subseteq left[d], r.file \in left'[d] => r.status = "skipped"
       PROVE  records'[k].status = "skipped"
  <2>1. k \in DOMAIN records \/ k = Len(records) + 1
    BY <1>18, TableOfRows
  <2>2. CASE k \in DOMAIN records
    <3>1. records'[k] = records[k]
      BY <2>2, <1>18, TableOfRows
    <3> QED
      BY <1>1, <1>18, <2>2, <3>1
  <2>3. CASE k = Len(records) + 1
    <3>1. records'[k] = r
      BY <2>3, <1>18, TableOfRows
    <3> QED
      BY <1>18, <3>1
  <2> QED
    BY <2>1, <2>2, <2>3
<1>19. ASSUME NEW c \in Clients, RecordResult(c) PROVE records'[k].status = "skipped"
  <2>1. IsMidPass(c) /\ IsMidPass(d)
    BY <1>19 DEF RecordResult, Applying, AfterError, Goto
  <2>2. c = d
    BY <2>1, PassHoldsLock
  <2>3. PICK r : records' = Append(records, r) /\ r.file = work[c].file
    BY <1>19 DEF RecordResult, InsertRow
  <2>4. left'[d] = left[d] \ {work[c].file} /\ snap' = snap
    BY <1>19, <2>2 DEF RecordResult, Visited
  <2> QED
    BY <1>18, <2>1, <2>3, <2>4
<1>20. ASSUME NEW c \in Clients, ResolveInsert(c) PROVE records'[k].status = "skipped"
  <2> DEFINE row(t) == [file |-> work[c].file, sum |-> work[c].sum, status |-> "skipped",
                        at |-> t, group |-> None, phase |-> None]
  <2>1. PICK t \in NextTimes : records' = Append(records, row(t))
    BY <1>20 DEF ResolveInsert, InsertRow
  <2>2. row(t).status = "skipped"
    OBVIOUS
  <2>3. IsMidPass(d) /\ snap' = snap /\ left' = left
    BY <1>20 DEF ResolveInsert, Running, Goto
  <2> QED
    BY <1>18, <2>1, <2>2, <2>3
<1>21. ASSUME NEW c \in Clients, PhaseInsert(c) PROVE records'[k].status = "skipped"
  <2>1. IsMidPass(d) /\ IsInLock(c) /\ job[c].cmd # "apply"
    BY <1>21 DEF PhaseInsert, Running, Goto, IsInLock, Locks
  <2>2. holder = d /\ holder = c
    BY <2>1, PassHoldsLock DEF LockHeld
  <2> QED
    BY <2>1, <2>2
<1> QED
  BY <1>3, <1>4, <1>5, <1>6, <1>7, <1>8, <1>9, <1>10, <1>11, <1>12, <1>13,
     <1>14, <1>15, <1>16, <1>17, <1>19, <1>20, <1>21
     DEF Next, Step, ApplyStep, OperatorStep, Finished

Inv == Typing /\ ClockOK /\ LockHeld /\ FreshView

LEMMA InvInit == Init => Inv
BY TypingInit, ClockInit, LockInit, FreshInit DEF Inv

LEMMA InvNext == Inv /\ [Next]_vars => Inv'
BY TypingNext, ClockNext, LockNext, FreshNext DEF Inv, Typing

(***************************************************************************)
(* On a dialect with an advisory lock, the rows that appear after an apply *)
(* has read the table, about files it has still to visit, are those of     *)
(* resolves.                                                               *)
(***************************************************************************)
THEOREM ViewStaysFresh == Spec => []FreshView
<1>1. Inv => FreshView
  BY DEF Inv
<1> QED
  BY <1>1, InvInit, InvNext, PTL DEF Spec

-----------------------------------------------------------------------------
(* What an applied row says                                                *)

\* A CLI process at work for a command executes what the command will record,
\* and a command that is about to record a success has seen it.
WorkIsRun ==
  /\ \A e \in cli : e.owner # None =>
       work[e.owner].file = e.file /\ work[e.owner].sum = e.sum
  /\ \A c \in Clients :
       pc[c] = "insert" /\ work[c].status = "applied" /\ work[c].sum # NoSum
         => <<work[c].file, work[c].sum>> \in ran

LEMMA WorkInit == Init => WorkIsRun /\ AppliedWasRun
BY DEF Init, WorkIsRun, AppliedWasRun

LEMMA WorkNext == Typing /\ WorkIsRun /\ [Next]_vars => WorkIsRun'
<1> SUFFICES ASSUME Typing, WorkIsRun, [Next]_vars PROVE WorkIsRun'
  OBVIOUS
<1> USE NoneAssumption DEF Typing, TypeOK, LocalsOK, WorkIsRun, Owners
<1>1. ASSUME NEW c \in Clients, NEW j \in Jobs, Start(c, j) PROVE WorkIsRun'
  BY <1>1 DEF Start, Goto
<1>2. ASSUME NEW c \in Clients, Acquire(c) PROVE WorkIsRun'
  BY <1>2 DEF Acquire, Goto
<1>3. ASSUME NEW c \in Clients, WaitTimeout(c) PROVE WorkIsRun'
  BY <1>3 DEF WaitTimeout, Exit, Goto, CliOK
<1>4. ASSUME NEW c \in Clients, Close(c) PROVE WorkIsRun'
  BY <1>4 DEF Close, Exit, Goto, CliOK
<1>5. ASSUME NEW c \in Clients, Crash(c) PROVE WorkIsRun'
  BY <1>5 DEF Crash, Exit, Goto, CliOK
<1>6. ASSUME NEW c \in Clients, LoadRecords(c) PROVE WorkIsRun'
  BY <1>6 DEF LoadRecords, Goto
<1>7. ASSUME NEW c \in Clients, PassOver(c) PROVE WorkIsRun'
  BY <1>7 DEF PassOver
<1>8. ASSUME NEW c \in Clients, Refuse(c) PROVE WorkIsRun'
  BY <1>8 DEF Refuse, AfterError, Goto
<1>9. ASSUME NEW c \in Clients, Execute(c) PROVE WorkIsRun'
  BY <1>9 DEF Execute, Applying, Spawn, Goto, CliOK
<1>10. ASSUME NEW c \in Clients, RecordResult(c) PROVE WorkIsRun'
  BY <1>10 DEF RecordResult, Applying, AfterError, Goto, CliOK
<1>11. ASSUME NEW c \in Clients, Finish(c) PROVE WorkIsRun'
  BY <1>11 DEF Finish, Goto
<1>12. ASSUME NEW c \in Clients, ResolveRead(c) PROVE WorkIsRun'
  <2> DEFINE row == [file |-> job[c].file, sum |-> LatestRow(records, job[c].file).sum,
                    status |-> "skipped"]
  <2>1. cli' = cli /\ ran' = ran /\ \A e \in cli : e.owner # c
    BY <1>12 DEF ResolveRead, Running, CliOK
  <2>2. row.status = "skipped"
    OBVIOUS
  <2> HIDE DEF row
  <2>3. CASE work' = [work EXCEPT ![c] = row] /\ pc' = [pc EXCEPT ![c] = "insert"]
    BY <2>1, <2>2, <2>3
  <2>4. CASE work' = work /\ pc' = [pc EXCEPT ![c] = "close"]
    BY <2>1, <2>4
  <2> QED
    BY <1>12, <2>3, <2>4 DEF ResolveRead, Goto, row
<1>13. ASSUME NEW c \in Clients, ResolveInsert(c) PROVE WorkIsRun'
  BY <1>13 DEF ResolveInsert, Goto
<1>14. ASSUME NEW c \in Clients, AdvanceRead(c) PROVE WorkIsRun'
  <2> DEFINE row == [file |-> job[c].file, sum |-> NoSum, status |-> job[c].status]
  <2>1. cli' = cli /\ ran' = ran /\ \A e \in cli : e.owner # c
    BY <1>14 DEF AdvanceRead, Running, CliOK
  <2>2. row.sum = NoSum
    OBVIOUS
  <2> HIDE DEF row
  <2>3. CASE work' = [work EXCEPT ![c] = row] /\ pc' = [pc EXCEPT ![c] = "insert"]
    BY <2>1, <2>2, <2>3
  <2>4. CASE work' = work /\ pc' = [pc EXCEPT ![c] = "close"]
    BY <2>1, <2>4
  <2> QED
    BY <1>14, <2>3, <2>4 DEF AdvanceRead, Goto, row
<1>15. ASSUME NEW c \in Clients, ApplyPhaseRead(c) PROVE WorkIsRun'
  <2> DEFINE f == job[c].file
             s == job[c].tree[f]
             proc == [owner |-> c, file |-> f, sum |-> s]
             row == [file |-> f, sum |-> s, status |-> "running"]
  <2>1. ran' = ran /\ pc[c] = "load" /\ \A e \in cli : e.owner # c
    BY <1>15 DEF ApplyPhaseRead, Running, CliOK
  <2>2. /\ proc.owner = c /\ proc.file = row.file /\ proc.sum = row.sum
    OBVIOUS
  <2> HIDE DEF proc, row
  <2>3. CASE /\ cli' = cli \cup {proc}
             /\ work' = [work EXCEPT ![c] = row]
             /\ pc' = [pc EXCEPT ![c] = "sql"]
    BY <2>1, <2>2, <2>3
  <2>4. CASE UNCHANGED <<cli, work>> /\ pc' = [pc EXCEPT ![c] = "close"]
    BY <2>1, <2>4
  <2> QED
    BY <1>15, <2>3, <2>4 DEF ApplyPhaseRead, Spawn, Goto, proc, row
<1>16. ASSUME NEW c \in Clients, PhaseInsert(c) PROVE WorkIsRun'
  BY <1>16 DEF PhaseInsert, Goto
<1>17. ASSUME NEW o \in Owners, SqlEndsOf(o) PROVE WorkIsRun'
  <2>1. PICK e \in cli : e.owner = o /\ SqlEnds(e)
    BY <1>17 DEF SqlEndsOf
  <2>2. cli' = cli \ {e} /\ \A d \in cli' : d.owner # None => d.owner # o
    BY <2>1 DEF SqlEnds, CliOK
  <2>3. PICK status \in {"applied", "failed"} :
          /\ ran' = IF status = "applied" THEN ran \cup {<<e.file, e.sum>>} ELSE ran
          /\ IF o = None
               THEN UNCHANGED <<pc, work>>
               ELSE /\ work' = [work EXCEPT ![o].status = status]
                    /\ pc' = [pc EXCEPT ![o] = "insert"]
    BY <2>1 DEF SqlEnds, Goto
  <2>4. CASE o = None
    BY <2>2, <2>3, <2>4
  <2>5. CASE o # None
    <3>1. o \in Clients /\ pc[o] = "sql" /\ work[o] \in Work
          /\ work[o].file = e.file /\ work[o].sum = e.sum
      BY <2>1, <2>5 DEF CliOK
    <3>2. /\ work'[o].status = status
          /\ work'[o].file = e.file
          /\ work'[o].sum = e.sum
          /\ \A d \in Clients \ {o} : work'[d] = work[d] /\ pc'[d] = pc[d]
      BY <2>3, <2>5, <3>1 DEF Work
    <3>3. \A d \in cli' : d.owner # None =>
            work'[d.owner].file = d.file /\ work'[d.owner].sum = d.sum
      BY <2>2, <3>2
    <3>4. ASSUME NEW d \in Clients, pc'[d] = "insert", work'[d].status = "applied",
                 work'[d].sum # NoSum
          PROVE  <<work'[d].file, work'[d].sum>> \in ran'
      BY <2>3, <3>2, <3>4
    <3> QED
      BY <3>3, <3>4
  <2> QED
    BY <2>4, <2>5
<1>18. CASE UNCHANGED vars
  BY <1>18 DEF vars, clientVars
<1> QED
  BY <1>1, <1>2, <1>3, <1>4, <1>5, <1>6, <1>7, <1>8, <1>9,
     <1>10, <1>11, <1>12, <1>13, <1>14, <1>15, <1>16, <1>17, <1>18
     DEF Next, Step, ApplyStep, OperatorStep, Finished

\* What a step inserts is resolved, or is the work of the command that does.
LEMMA InsertsWork ==
  ASSUME [Next]_vars
  PROVE  \/ UNCHANGED dbVars
         \/ \E c \in Clients : \E g, ph :
              /\ pc[c] = "insert"
              /\ \/ InsertRow(work[c].file, work[c].sum, work[c].status, g, ph)
                 \/ InsertRow(work[c].file, work[c].sum, "skipped", g, ph)
BY WhoInserts DEF RecordResult, ResolveInsert, PhaseInsert, Applying, Running

LEMMA HistoryGrows == [Next]_vars => ran \subseteq ran'
BY DEF Next, Start, Acquire, WaitTimeout, Step, Close, Crash, ApplyStep, LoadRecords, PassOver,
       Refuse, Execute, RecordResult, Finish, OperatorStep, ResolveRead, ResolveInsert,
       AdvanceRead, ApplyPhaseRead, PhaseInsert, SqlEndsOf, SqlEnds, Finished, vars

LEMMA AppliedNext ==
  TypeOK /\ WorkIsRun /\ AppliedWasRun /\ [Next]_vars => AppliedWasRun'
<1> SUFFICES ASSUME TypeOK, WorkIsRun, AppliedWasRun, [Next]_vars PROVE AppliedWasRun'
  OBVIOUS
<1>1. CASE UNCHANGED dbVars
  BY <1>1, HistoryGrows DEF AppliedWasRun, dbVars
<1>2. ASSUME NEW c \in Clients, NEW g, NEW ph, NEW status, pc[c] = "insert",
             status \in {work[c].status, "skipped"},
             InsertRow(work[c].file, work[c].sum, status, g, ph)
      PROVE  AppliedWasRun'
  <2> DEFINE row(t) == [file |-> work[c].file, sum |-> work[c].sum, status |-> status,
                        at |-> t, group |-> g, phase |-> ph]
  <2>1. PICK t \in NextTimes : records' = Append(records, row(t))
    BY <1>2 DEF InsertRow
  <2> SUFFICES ASSUME NEW k \in DOMAIN records',
                      records'[k].status = "applied", records'[k].sum # NoSum
               PROVE  <<records'[k].file, records'[k].sum>> \in ran'
    BY DEF AppliedWasRun
  <2>2. CASE k \in DOMAIN records
    <3>1. records'[k] = records[k]
      BY <2>1, <2>2, TableOfRows
    <3> QED
      BY <2>2, <3>1, HistoryGrows DEF AppliedWasRun
  <2>3. CASE k \notin DOMAIN records
    <3>1. records'[k] = row(t)
      BY <2>1, <2>3, TableOfRows
    <3> QED
      BY <3>1, <1>2, HistoryGrows DEF WorkIsRun
  <2> QED
    BY <2>2, <2>3
<1> QED
  BY <1>1, <1>2, InsertsWork

(***************************************************************************)
(* Whatever is interrupted, a row that says applied (and that no external  *)
(* executor reported) is about content whose SQL ran without error.        *)
(***************************************************************************)
THEOREM AppliedIsTrue == Spec => []AppliedWasRun
<1>1. Init => Typing /\ ClockOK /\ WorkIsRun /\ AppliedWasRun
  BY TypingInit, ClockInit, WorkInit
<1>2. Typing /\ ClockOK /\ WorkIsRun /\ AppliedWasRun /\ [Next]_vars
        => (Typing /\ ClockOK /\ WorkIsRun /\ AppliedWasRun)'
  BY TypingNext, ClockNext, WorkNext, AppliedNext DEF Typing
<1> QED
  BY <1>1, <1>2, PTL DEF Spec

-----------------------------------------------------------------------------
(* What apply executes                                                     *)

\* What a client has read is a part of the table.
SeenOK == \A c \in Clients : snap[c] <= Len(records)

LEMMA SeenInit == Init => SeenOK
BY DEF Init, SeenOK

LEMMA SeenNext == TypeOK /\ SeenOK /\ [Next]_vars => SeenOK'
<1> SUFFICES ASSUME TypeOK, SeenOK, [Next]_vars PROVE SeenOK'
  OBVIOUS
<1>1. Len(records') \in Nat /\ Len(records) <= Len(records')
  <2>1. CASE UNCHANGED dbVars
    BY <2>1, TableOfRows DEF dbVars
  <2>2. ASSUME NEW r, records' = Append(records, r) PROVE Len(records') = Len(records) + 1
    BY <2>2 DEF TypeOK
  <2>3. UNCHANGED dbVars \/ \E r : records' = Append(records, r)
    BY NextInserts DEF InsertRow
  <2> QED
    BY <2>1, <2>2, <2>3, TableOfRows
<1>2. \A c \in Clients : snap'[c] \in {snap[c], 0, Len(records)}
  BY DEF Next, Start, Acquire, WaitTimeout, Step, Close, Crash, ApplyStep, LoadRecords, PassOver,
         Refuse, Execute, RecordResult, Finish, OperatorStep, ResolveRead, ResolveInsert,
         AdvanceRead, ApplyPhaseRead, PhaseInsert, SqlEndsOf, SqlEnds, Finished, Exit,
         vars, clientVars, TypeOK
<1> QED
  <2> SUFFICES ASSUME NEW c \in Clients PROVE snap'[c] <= Len(records')
    BY DEF SeenOK
  <2>1. snap[c] \in Nat /\ snap[c] <= Len(records) /\ Len(records) \in Nat
    BY TableOfRows DEF SeenOK, TypeOK
  <2> QED
    BY <1>1, <1>2, <2>1

\* As long as the newest row of a file it has still to visit is applied, an
\* apply has read all the rows of the file, and takes that row for the latest.
LEMMA SeenIsCurrent ==
  ASSUME TypeOK, ClockOK, SeenOK, FreshView, HasLock,
         NEW c \in Clients, IsMidPass(c), NEW f \in left[c], IsNewest(f, "applied")
  PROVE  /\ RowsOf(Seen(c), f) = RowsOf(records, f)
         /\ RowsOf(Seen(c), f) # {}
         /\ \A k \in RowsOf(records, f) : Seen(c)[k] = records[k]
         /\ Seen(c)[LatestOf(Seen(c), RowsOf(Seen(c), f))] = NewestRow(records, f)
<1> DEFINE rows == RowsOf(records, f)
           n == CHOOSE k \in rows : \A j \in rows : j <= k
<1>1. rows \in SUBSET (1..Len(records)) /\ rows # {}
  BY TableOfRows DEF IsNewest, HasRow, RowsOf
<1>2. n \in rows /\ \A j \in rows : j <= n
  BY <1>1, TableOfRows, NewestIsRow
<1>3. NewestRow(records, f) = records[n] /\ records[n].status = "applied"
  BY DEF IsNewest, NewestRow
<1> HIDE DEF n
<1>4. snap[c] \in Nat /\ snap[c] <= Len(records)
  BY DEF SeenOK, TypeOK
<1>5. n <= snap[c]
  <2>1. n \in DOMAIN records /\ records[n].file = f
    BY <1>2 DEF RowsOf
  <2>2. \A k \in DOMAIN records :
          k > snap[c] /\ records[k].file \in left[c] => records[k].status = "skipped"
    BY DEF FreshView
  <2> QED
    BY <1>1, <1>2, <1>3, <1>4, <2>1, <2>2
<1>6. /\ DOMAIN Seen(c) = 1..snap[c]
      /\ \A k \in 1..snap[c] : Seen(c)[k] = records[k]
  BY <1>4 DEF Seen, TypeOK
<1>7. RowsOf(Seen(c), f) = rows
  <2>1. \A k \in rows : k \in 1..snap[c] /\ records[k].file = f
    BY <1>1, <1>2, <1>4, <1>5, TableOfRows DEF RowsOf
  <2>2. 1..snap[c] \subseteq DOMAIN records
    BY <1>4, TableOfRows
  <2> QED
    BY <1>6, <2>1, <2>2 DEF RowsOf
<1>8. \A k \in rows : Seen(c)[k] = records[k]
  BY <1>1, <1>2, <1>4, <1>5, <1>6, TableOfRows
<1> DEFINE l == LatestOf(Seen(c), rows)
<1>9. l \in rows /\ IsLatest(Seen(c), rows, l)
  <2>1. now \in Nat /\ rows \in SUBSET Nat
    BY <1>1 DEF TypeOK
  <2>2. \A k \in rows : records[k].at \in 0..now
    <3> SUFFICES ASSUME NEW k \in rows PROVE records[k].at \in 0..now
      OBVIOUS
    <3>1. records[k].at \in Nat /\ records[k].at <= now
      BY <1>1, TableOfRows, RowFields DEF ClockOK
    <3> QED
      BY <2>1, <3>1
  <2> QED
    BY <1>1, <1>8, <2>1, <2>2, LatestIsRow
<1> HIDE DEF l
<1>10. l = n
  <2>1. l <= n /\ l \in Nat /\ n \in Nat
    BY <1>1, <1>2, <1>9
  <2>2. records[n].at < records[l].at \/ (records[n].at = records[l].at /\ l <= n)
    BY <1>2, <1>8, <1>9 DEF IsLatest
  <2>3. l < n => records[l].at < records[n].at
    BY <1>1, <1>2, <1>9, TableOfRows DEF ClockOK
  <2>4. records[l].at \in Nat /\ records[n].at \in Nat
    BY <1>1, <1>2, <1>9, TableOfRows, RowFields
  <2> QED
    BY <2>1, <2>2, <2>3, <2>4
<1> QED
  BY <1>1, <1>2, <1>3, <1>7, <1>8, <1>10 DEF l

\* Only Execute starts the SQL of a file from within a pass.
LEMMA ApplyStartsByExecute ==
  ASSUME Typing, [Next]_vars, NEW c \in Clients, ApplyStarts(c)
  PROVE  Execute(c)
<1> USE DEF ApplyStarts, Typing, TypeOK
<1>1. ASSUME NEW d \in Clients, NEW j \in Jobs, Start(d, j) PROVE FALSE
  BY <1>1 DEF Start, Goto
<1>2. ASSUME NEW d \in Clients,
             \/ Acquire(d) \/ WaitTimeout(d) \/ Close(d) \/ Crash(d)
             \/ LoadRecords(d) \/ PassOver(d) \/ Refuse(d) \/ RecordResult(d) \/ Finish(d)
      PROVE  FALSE
  BY <1>2 DEF Acquire, WaitTimeout, Close, Crash, Exit, LoadRecords, PassOver, Refuse,
              RecordResult, Finish, AfterError, Goto
<1>3. ASSUME NEW d \in Clients, Execute(d) PROVE Execute(c)
  BY <1>3 DEF Execute, Spawn, Goto
<1>4. ASSUME NEW d \in Clients, OperatorStep(d) PROVE FALSE
  BY <1>4 DEF OperatorStep, ResolveRead, ResolveInsert, AdvanceRead, ApplyPhaseRead, PhaseInsert,
              Running, Spawn, Goto
<1>5. ASSUME NEW o \in Owners, SqlEndsOf(o) PROVE FALSE
  BY <1>5 DEF SqlEndsOf, SqlEnds, CliOK, Goto, Owners
<1>6. CASE UNCHANGED vars
  BY <1>6 DEF vars, clientVars
<1> QED
  BY <1>1, <1>2, <1>3, <1>4, <1>5, <1>6 DEF Next, Step, ApplyStep, Finished

\* What apply starts, when the newest row of the file is applied, is content
\* that no row of the file has.
LEMMA StartedIsNew ==
  ASSUME HasLock, Typing, ClockOK, SeenOK, FreshView, [Next]_vars,
         NEW c \in Clients, ApplyStarts(c), IsNewest(StartedFile(c), "applied")
  PROVE  \A k \in RowsOf(records, StartedFile(c)) : records[k].sum # StartedSum(c)
<1>1. Execute(c)
  BY ApplyStartsByExecute
<1>2. PICK f \in left[c] : Verdict(c, f) = "execute" /\ Spawn(c, f, job[c].tree[f])
  BY <1>1 DEF Execute
<1> DEFINE sum == job[c].tree[f]
           latest == LatestOf(Seen(c), RowsOf(Seen(c), f))
<1>3. StartedFile(c) = f /\ StartedSum(c) = sum
  BY <1>2 DEF StartedFile, StartedSum, Spawn, Typing, TypeOK
<1>4. IsMidPass(c)
  BY <1>1 DEF Execute, Applying, IsMidPass
<1>5. /\ RowsOf(Seen(c), f) = RowsOf(records, f)
      /\ RowsOf(Seen(c), f) # {}
      /\ \A k \in RowsOf(records, f) : Seen(c)[k] = records[k]
      /\ Seen(c)[latest] = NewestRow(records, f)
  BY <1>3, <1>4, SeenIsCurrent DEF Typing
<1>6. Seen(c)[latest].status = "applied"
  BY <1>3, <1>5 DEF IsNewest
<1>7. Seen(c)[latest].sum # sum /\ sum \notin PastChecksums(Seen(c), f)
  BY <1>2, <1>5, <1>6 DEF Verdict, LatestRow
<1>8. \A k \in RowsOf(Seen(c), f) : Seen(c)[k].sum # sum
  BY <1>7 DEF PastChecksums
<1> QED
  BY <1>3, <1>5, <1>8

StepInv == Typing /\ ClockOK /\ LockHeld /\ SeenOK /\ FreshView

LEMMA StepInvHolds == Spec => []StepInv
<1>1. Init => StepInv
  BY TypingInit, ClockInit, LockInit, SeenInit, FreshInit DEF StepInv
<1>2. StepInv /\ [Next]_vars => StepInv'
  BY TypingNext, ClockNext, LockNext, SeenNext, FreshNext DEF StepInv, Typing
<1> QED
  BY <1>1, <1>2, PTL DEF Spec

(***************************************************************************)
(* Under an advisory lock, apply never executes a version of a file whose  *)
(* latest version, at that moment, is applied and is the same one...       *)
(***************************************************************************)
THEOREM NoRepetition == HasLock => (Spec => NothingIsRepeated)
<1> SUFFICES ASSUME HasLock PROVE Spec => NothingIsRepeated
  OBVIOUS
<1> DEFINE A == \A c \in Clients : ApplyStarts(c) =>
                  LET f == StartedFile(c)
                  IN  IsNewest(f, "applied") => NewestRow(records, f).sum # StartedSum(c)
<1>1. StepInv /\ [Next]_vars => [A]_vars
  <2> SUFFICES ASSUME StepInv, [Next]_vars, NEW c \in Clients, ApplyStarts(c),
                      IsNewest(StartedFile(c), "applied")
               PROVE  NewestRow(records, StartedFile(c)).sum # StartedSum(c)
    OBVIOUS
  <2> DEFINE rows == RowsOf(records, StartedFile(c))
  <2>1. \A k \in rows : records[k].sum # StartedSum(c)
    BY StartedIsNew DEF StepInv
  <2>2. rows \in SUBSET (1..Len(records)) /\ rows # {} /\ Len(records) \in Nat
    BY TableOfRows DEF IsNewest, HasRow, RowsOf, StepInv, Typing
  <2>3. (CHOOSE k \in rows : \A j \in rows : j <= k) \in rows
    BY <2>2, NewestIsRow
  <2> QED
    BY <2>1, <2>3 DEF NewestRow
<1>2. Spec => [][A]_vars
  BY <1>1, StepInvHolds, PTL DEF Spec
<1> QED
  BY <1>2 DEF NothingIsRepeated

(***************************************************************************)
(* ... nor one that any earlier row of the file has.                       *)
(***************************************************************************)
THEOREM NoRevert == HasLock => (Spec => NoRevertOfApplied)
<1> SUFFICES ASSUME HasLock PROVE Spec => NoRevertOfApplied
  OBVIOUS
<1> DEFINE A == \A c \in Clients : ApplyStarts(c) =>
                  LET f == StartedFile(c)
                  IN  IsNewest(f, "applied") =>
                        \A k \in RowsOf(records, f) : records[k].sum # StartedSum(c)
<1>1. StepInv /\ [Next]_vars => [A]_vars
  BY StartedIsNew DEF StepInv
<1>2. Spec => [][A]_vars
  BY <1>1, StepInvHolds, PTL DEF Spec
<1> QED
  BY <1>2 DEF NoRevertOfApplied

-----------------------------------------------------------------------------
(* Migraguard implements the Ledger, on a dialect with an advisory lock.   *)

EntryType == [file : Files, sum : Sums \cup {NoSum}, status : Statuses]

LEMMA EntryOfRow == ASSUME NEW r \in Row PROVE Entry(r) \in EntryType
BY DEF Row, Entry, EntryType

\* The entries, as a function on their positions and as a sequence.
LEMMA EntriesOfRows ==
  ASSUME TypeOK
  PROVE  /\ Entries \in Seq(EntryType)
         /\ Len(Entries) = Len(records)
         /\ DOMAIN Entries = 1..Len(records)
         /\ \A k \in 1..Len(records) : Entries[k] = Entry(records[k])
<1>1. Entries \in [1..Len(records) -> EntryType] /\ Len(records) \in Nat
  BY TableOfRows, EntryOfRow DEF Entries
<1> QED
  BY <1>1, TableOfRows DEF Entries

\* What insertRecord adds to the table, it adds to the ledger.
LEMMA EntriesGrow ==
  ASSUME TypeOK, NEW f \in Files, NEW s \in Sums \cup {NoSum}, NEW status \in Statuses,
         NEW g \in Groups \cup {None}, NEW ph \in Phases \cup {None},
         InsertRow(f, s, status, g, ph)
  PROVE  Entries' = Append(Entries, [file |-> f, sum |-> s, status |-> status])
<1> DEFINE row(t) == [file |-> f, sum |-> s, status |-> status, at |-> t,
                      group |-> g, phase |-> ph]
           new == [file |-> f, sum |-> s, status |-> status]
<1>1. PICK t \in NextTimes : records' = Append(records, row(t))
  BY DEF InsertRow
<1>2. t \in Nat
  BY DEF NextTimes, TypeOK
<1>3. row(t) \in Row /\ Entry(row(t)) = new /\ new \in EntryType
  BY <1>2 DEF Row, Entry, EntryType
<1> HIDE DEF row, new
<1>4. /\ Len(records) \in Nat
      /\ DOMAIN records' = 1..(Len(records) + 1)
      /\ \A k \in 1..Len(records) : records'[k] = records[k]
      /\ records'[Len(records) + 1] = row(t)
  BY <1>1, <1>3, TableOfRows DEF TypeOK
<1>5. Entries' = [k \in 1..(Len(records) + 1) |-> Entry(records'[k])]
  BY <1>4 DEF Entries
<1> DEFINE n == Len(records) + 1
<1>6. Entries' \in Seq(EntryType) /\ Len(Entries') = n
  <2>1. \A k \in 1..n : Entry(records'[k]) \in EntryType
    BY <1>3, <1>4, EntryOfRow, TableOfRows
  <2> QED
    BY <1>4, <1>5, <2>1
<1>7. /\ Append(Entries, new) \in Seq(EntryType)
      /\ Len(Append(Entries, new)) = n
      /\ \A k \in 1..Len(records) : Append(Entries, new)[k] = Entries[k]
      /\ Append(Entries, new)[n] = new
  BY <1>3, <1>4, EntriesOfRows, AppendProperties
<1>8. \A k \in 1..n : Entries'[k] = Append(Entries, new)[k]
  BY <1>3, <1>4, <1>5, <1>7, EntriesOfRows
<1>9. Entries' = Append(Entries, new)
  BY <1>6, <1>7, <1>8, SeqEqual
<1> QED
  BY <1>9 DEF new

-----------------------------------------------------------------------------
(* What a command is about to record                                       *)

WasFailed(f, s) ==
  \E k \in DOMAIN records :
    records[k].file = f /\ records[k].sum = s /\ records[k].status = "failed"

\* The outcome of an execution, a report, or the resolution of a failure.
OutcomeOf(c) ==
  /\ pc[c] = "sql" => job[c].cmd \in {"apply", "apply-phase"} /\ work[c].sum \in Sums
  /\ pc[c] = "insert" =>
       \/ /\ job[c].cmd \in {"apply", "apply-phase"}
          /\ work[c].sum \in Sums
          /\ work[c].status \in {"applied", "failed"}
       \/ /\ job[c].cmd = "advance"
          /\ PhaseOf[work[c].file] # None
          /\ work[c].sum = NoSum
          /\ work[c].status \in {"applied", "failed", "running"}
       \/ /\ job[c].cmd = "resolve"
          /\ WasFailed(work[c].file, work[c].sum)

OutcomeOK == \A c \in Clients : OutcomeOf(c)

LEMMA OutcomeInit == Init => OutcomeOK
BY DEF Init, OutcomeOK, OutcomeOf

LEMMA FailureStays ==
  ASSUME TypeOK, [Next]_vars, NEW f, NEW s, WasFailed(f, s)
  PROVE  WasFailed(f, s)'
<1>1. CASE UNCHANGED dbVars
  BY <1>1 DEF WasFailed, dbVars
<1>2. ASSUME NEW r, records' = Append(records, r) PROVE WasFailed(f, s)'
  <2>1. \A k \in DOMAIN records : k \in DOMAIN records' /\ records'[k] = records[k]
    BY <1>2, TableOfRows DEF TypeOK
  <2> QED
    BY <2>1 DEF WasFailed
<1>3. UNCHANGED dbVars \/ \E r : records' = Append(records, r)
  BY NextInserts DEF InsertRow
<1> QED
  BY <1>1, <1>2, <1>3

LEMMA OutcomeNext == Typing /\ ClockOK /\ OutcomeOK /\ [Next]_vars => OutcomeOK'
<1> SUFFICES ASSUME Typing, ClockOK, OutcomeOK, [Next]_vars, NEW d \in Clients
             PROVE  OutcomeOf(d)'
  BY DEF OutcomeOK
<1> USE DEF Typing
<1>1. ASSUME pc'[d] = pc[d], job'[d] = job[d], work'[d] = work[d] PROVE OutcomeOf(d)'
  BY <1>1, FailureStays DEF OutcomeOK, OutcomeOf
<1>2. ASSUME pc'[d] \notin {"sql", "insert"} PROVE OutcomeOf(d)'
  BY <1>2 DEF OutcomeOf
<1>3. ASSUME NEW c \in Clients,
             \/ \E j \in Jobs : Start(c, j)
             \/ Acquire(c) \/ WaitTimeout(c) \/ Close(c) \/ Crash(c)
      PROVE  OutcomeOf(d)'
  BY <1>1, <1>2, <1>3 DEF Start, Acquire, WaitTimeout, Close, Crash, Exit, Goto, TypeOK
<1>4. ASSUME NEW c \in Clients,
             LoadRecords(c) \/ PassOver(c) \/ Refuse(c) \/ RecordResult(c) \/ Finish(c)
      PROVE  OutcomeOf(d)'
  BY <1>1, <1>2, <1>4
     DEF LoadRecords, PassOver, Refuse, RecordResult, Finish, Applying, AfterError, Goto, TypeOK
<1>5. ASSUME NEW c \in Clients, ResolveInsert(c) \/ PhaseInsert(c) PROVE OutcomeOf(d)'
  BY <1>1, <1>2, <1>5 DEF ResolveInsert, PhaseInsert, Goto, TypeOK
<1>6. ASSUME NEW c \in Clients, Execute(c) PROVE OutcomeOf(d)'
  <2>1. CASE d # c
    BY <1>1, <1>6, <2>1 DEF Execute, Spawn, Goto, TypeOK
  <2>2. CASE d = c
    <3>1. PICK f \in left[c] : Spawn(c, f, job[c].tree[f])
      BY <1>6 DEF Execute
    <3>2. pc'[c] = "sql" /\ work'[c].sum = job[c].tree[f] /\ job' = job /\ job[c].cmd = "apply"
      BY <1>6, <3>1 DEF Execute, Applying, Spawn, Goto, TypeOK
    <3>3. f \in Scan(job[c].tree) /\ job[c] \in Jobs
      BY <1>6, <3>1 DEF Execute, Applying, IsMidPass, LocalsOK, TypeOK
    <3>4. job[c].tree[f] \in Sums
      BY <3>2, <3>3, JobFields DEF Scan, Trees
    <3> QED
      BY <2>2, <3>2, <3>4 DEF OutcomeOf
  <2> QED
    BY <2>1, <2>2
<1>7. ASSUME NEW c \in Clients, ApplyPhaseRead(c) PROVE OutcomeOf(d)'
  <2>1. CASE d # c
    BY <1>1, <1>7, <2>1 DEF ApplyPhaseRead, Spawn, Goto, TypeOK
  <2>2. CASE d = c /\ pc'[c] # "sql"
    BY <1>2, <1>7, <2>2 DEF ApplyPhaseRead, Spawn, Goto, TypeOK
  <2>3. CASE d = c /\ pc'[c] = "sql"
    <3> DEFINE s == job[c].tree[job[c].file]
    <3>1. /\ Spawn(c, job[c].file, s)
          /\ s # None
          /\ job[c].cmd = "apply-phase" /\ pc[c] = "load" /\ job' = job
      BY <1>7, <2>3 DEF ApplyPhaseRead, Running, Goto, TypeOK
    <3>2. work'[c].sum = s
      BY <3>1 DEF Spawn, TypeOK
    <3>3. s \in Sums
      BY <3>1, JobFields DEF LocalsOK, Trees
    <3> QED
      BY <2>3, <3>1, <3>2, <3>3 DEF OutcomeOf
  <2> QED
    BY <2>1, <2>2, <2>3
<1>8. ASSUME NEW c \in Clients, AdvanceRead(c) PROVE OutcomeOf(d)'
  <2>1. CASE d # c
    BY <1>1, <1>8, <2>1 DEF AdvanceRead, Goto, TypeOK
  <2>2. CASE d = c /\ pc'[c] # "insert"
    BY <1>2, <1>8, <2>2 DEF AdvanceRead, Goto, TypeOK
  <2>3. CASE d = c /\ pc'[c] = "insert"
    <3>1. /\ work'[c] = [file |-> job[c].file, sum |-> NoSum, status |-> job[c].status]
          /\ job[c].cmd = "advance" /\ pc[c] = "load" /\ job' = job
      BY <1>8, <2>3 DEF AdvanceRead, Running, Goto, TypeOK
    <3>2. job[c] \in Jobs
      BY <3>1 DEF LocalsOK
    <3>3. PhaseOf[job[c].file] # None
      BY <3>1, <3>2, JobFields, JobsAssumption, FilesAssumption
    <3> QED
      BY <2>3, <3>1, <3>2, <3>3, JobFields DEF OutcomeOf
  <2> QED
    BY <2>1, <2>2, <2>3
<1>9. ASSUME NEW c \in Clients, ResolveRead(c) PROVE OutcomeOf(d)'
  <2>1. CASE d # c
    BY <1>1, <1>9, <2>1 DEF ResolveRead, Goto, TypeOK
  <2>2. CASE d = c /\ pc'[c] # "insert"
    BY <1>2, <1>9, <2>2 DEF ResolveRead, Goto, TypeOK
  <2>3. CASE d = c /\ pc'[c] = "insert"
    <3> DEFINE f == job[c].file
               rows == RowsOf(records, f)
               l == LatestOf(records, rows)
    <3>1. /\ work'[c] = [file |-> f, sum |-> LatestRow(records, f).sum, status |-> "skipped"]
          /\ rows # {} /\ LatestRow(records, f).status = "failed"
          /\ job[c].cmd = "resolve" /\ job' = job /\ records' = records
      BY <1>9, <2>3 DEF ResolveRead, Running, Goto, TypeOK, dbVars
    <3>2. l \in rows
      <4>1. rows \in SUBSET Nat /\ \A k \in rows : records[k].at \in 0..now
        <5>1. rows \subseteq DOMAIN records
          BY DEF RowsOf
        <5>2. \A k \in DOMAIN records : records[k].at \in Nat /\ records[k].at <= now
          BY TableOfRows, RowFields DEF ClockOK
        <5> QED
          BY <5>1, <5>2, TableOfRows DEF TypeOK
      <4> QED
        BY <3>1, <4>1, LatestIsRow DEF TypeOK
    <3>3. l \in DOMAIN records /\ records[l].file = f
      BY <3>2 DEF RowsOf
    <3>4. records[l] = LatestRow(records, f)
      BY DEF LatestRow
    <3> HIDE DEF l
    <3>5. WasFailed(f, LatestRow(records, f).sum)
      BY <3>1, <3>3, <3>4 DEF WasFailed
    <3>6. WasFailed(work[c].file, work[c].sum)'
      BY <3>1, <3>5 DEF WasFailed
    <3> QED
      BY <2>3, <3>1, <3>6 DEF OutcomeOf
  <2> QED
    BY <2>1, <2>2, <2>3
<1>10. ASSUME NEW o \in Owners, SqlEndsOf(o) PROVE OutcomeOf(d)'
  <2>1. PICK e \in cli : e.owner = o /\ SqlEnds(e)
    BY <1>10 DEF SqlEndsOf
  <2>2. CASE o # d
    BY <1>1, <2>1, <2>2 DEF SqlEnds, Goto, TypeOK, Owners
  <2>3. CASE o = d
    <3>1. o # None /\ pc[d] = "sql" /\ work[d] \in Work
      BY <2>1, <2>3, NoneAssumption DEF CliOK, LocalsOK
    <3>2. PICK status \in {"applied", "failed"} :
            work' = [work EXCEPT ![d].status = status] /\ pc' = [pc EXCEPT ![d] = "insert"]
      BY <2>1, <2>3, <3>1 DEF SqlEnds, Goto
    <3>3. work'[d].status = status /\ work'[d].sum = work[d].sum /\ job' = job
      BY <2>1, <3>1, <3>2 DEF SqlEnds, TypeOK, Work
    <3> QED
      BY <3>1, <3>2, <3>3 DEF OutcomeOK, OutcomeOf, TypeOK
  <2> QED
    BY <2>2, <2>3
<1>11. CASE UNCHANGED vars
  BY <1>1, <1>11 DEF vars, clientVars
<1> QED
  BY <1>3, <1>4, <1>5, <1>6, <1>7, <1>8, <1>9, <1>10, <1>11
     DEF Next, Step, ApplyStep, OperatorStep, Finished

-----------------------------------------------------------------------------
(* What a command may start                                                *)

\* The attempts an apply decides on: those it has read.
LEMMA AttemptsAreSeen ==
  ASSUME HasLock, Typing, SeenOK, FreshView,
         NEW c \in Clients, IsMidPass(c), NEW f \in left[c]
  PROVE  /\ \A k \in RowsOf(Seen(c), f) : k \in DOMAIN records /\ Seen(c)[k] = records[k]
         /\ L!Attempts(f) =
              {k \in RowsOf(Seen(c), f) : records[k].status # "skipped"}
<1>1. /\ Len(records) \in Nat /\ DOMAIN records = 1..Len(records)
      /\ snap[c] \in Nat /\ snap[c] <= Len(records)
  BY TableOfRows DEF Typing, TypeOK, SeenOK
<1>2. /\ DOMAIN Seen(c) = 1..snap[c]
      /\ \A k \in 1..snap[c] : Seen(c)[k] = records[k]
  BY <1>1 DEF Seen, Typing, TypeOK
<1>3. \A k \in RowsOf(Seen(c), f) :
        k \in 1..snap[c] /\ k \in DOMAIN records /\ records[k].file = f
  BY <1>1, <1>2 DEF RowsOf
<1>4. \A k \in DOMAIN records :
        records[k].file = f /\ records[k].status # "skipped" => k \in RowsOf(Seen(c), f)
  <2>1. \A k \in DOMAIN records :
          records[k].file = f /\ records[k].status # "skipped" => k <= snap[c]
    BY <1>1 DEF FreshView
  <2> QED
    BY <1>1, <1>2, <2>1 DEF RowsOf
<1>5. /\ DOMAIN Entries = DOMAIN records
      /\ \A k \in DOMAIN records :
           Entries[k].file = records[k].file /\ Entries[k].status = records[k].status
  BY DEF Entries, Entry
<1> QED
  BY <1>2, <1>3, <1>4, <1>5 DEF L!Attempts

\* The ledger permits what a pass decides to execute.
LEMMA ExecuteIsPermitted ==
  ASSUME HasLock, Typing, ClockOK, SeenOK, FreshView,
         NEW c \in Clients, IsMidPass(c), NEW f \in left[c], Verdict(c, f) = "execute"
  PROVE  L!MayStart(f, job[c].tree[f])
<1> DEFINE s == job[c].tree[f]
           rows == RowsOf(Seen(c), f)
           l == LatestOf(Seen(c), rows)
<1>1. /\ \A k \in rows : k \in DOMAIN records /\ Seen(c)[k] = records[k]
      /\ L!Attempts(f) = {k \in rows : records[k].status # "skipped"}
  BY AttemptsAreSeen
<1>2. \A k \in DOMAIN records :
        Entries[k].sum = records[k].sum /\ Entries[k].status = records[k].status
  BY DEF Entries, Entry
<1>3. CASE rows = {}
  BY <1>1, <1>3 DEF L!MayStart
<1>4. CASE rows # {}
  <2>1. rows \in SUBSET Nat /\ \A k \in rows : Seen(c)[k].at \in 0..now
    <3>1. \A k \in DOMAIN records : k \in Nat /\ records[k].at \in Nat /\ records[k].at <= now
      BY TableOfRows, RowFields DEF ClockOK, Typing
    <3> QED
      BY <1>1, <3>1 DEF Typing, TypeOK
  <2>2. l \in rows /\ IsLatest(Seen(c), rows, l)
    BY <1>4, <2>1, LatestIsRow DEF Typing, TypeOK
  <2> HIDE DEF l
  <2>3. \A j \in rows : j <= l
    <3> SUFFICES ASSUME NEW j \in rows, l < j PROVE FALSE
      BY <2>1, <2>2
    <3>1. records[l].at < records[j].at
      BY <1>1, <2>2 DEF ClockOK
    <3>2. records[j].at < records[l].at \/ (records[j].at = records[l].at /\ l <= j)
      BY <1>1, <2>2 DEF IsLatest
    <3>3. records[j].at \in Nat /\ records[l].at \in Nat
      BY <1>1, <2>2, TableOfRows, RowFields DEF Typing
    <3> QED
      BY <3>1, <3>2, <3>3
  <2>4. Seen(c)[l].status \notin {"skipped"}
        /\ \/ Seen(c)[l].status = "failed"
           \/ Seen(c)[l].sum # s /\ s \notin PastChecksums(Seen(c), f)
    BY <1>4 DEF Verdict, LatestRow, l
  <2>5. CASE Seen(c)[l].status = "failed"
    <3>1. l \in L!Attempts(f) /\ Entries[l].status = "failed"
      BY <1>1, <1>2, <2>2, <2>5
    <3>2. \A j \in L!Attempts(f) : j <= l
      BY <1>1, <2>3
    <3> QED
      BY <3>1, <3>2 DEF L!MayStart
  <2>6. CASE Seen(c)[l].sum # s /\ s \notin PastChecksums(Seen(c), f)
    <3>1. \A k \in rows : Seen(c)[k].sum # s
      BY <2>6 DEF PastChecksums, l
    <3>2. \A k \in L!Attempts(f) : Entries[k].sum # s
      BY <1>1, <1>2, <3>1
    <3> QED
      BY <3>2 DEF L!MayStart
  <2> QED
    BY <2>4, <2>5, <2>6
<1> QED
  BY <1>3, <1>4

-----------------------------------------------------------------------------
(* Every step is a step of the Ledger, or none                             *)

LEMMA QuietStep ==
  ASSUME UNCHANGED records, UNCHANGED cli, UNCHANGED ran
  PROVE  UNCHANGED L!ledgerVars
BY DEF L!ledgerVars, Entries, AtWork

LEMMA SpawnIsStart ==
  ASSUME NEW c \in Clients, NEW f \in Files, NEW s \in Sums, Spawn(c, f, s),
         UNCHANGED records, UNCHANGED ran,
         PhaseOf[f] # None \/ L!MayStart(f, s)
  PROVE  L!LedgerNext
<1>1. AtWork' = AtWork \cup {<<f, s>>}
  <2> DEFINE p == [owner |-> c, file |-> f, sum |-> s]
  <2>1. cli' = cli \cup {p} /\ p.file = f /\ p.sum = s
    BY DEF Spawn
  <2> HIDE DEF p
  <2>2. AtWork' = {<<e.file, e.sum>> : e \in cli \cup {p}}
    BY <2>1 DEF AtWork
  <2> QED
    BY <2>1, <2>2 DEF AtWork
<1>2. Entries' = Entries
  BY DEF Entries
<1>3. L!StartSql(f, s)
  BY <1>1, <1>2 DEF L!StartSql
<1> QED
  BY <1>3 DEF L!LedgerNext

\* A row about content that a command has executed, reported or resolved.
LEMMA InsertIsNote ==
  ASSUME TypeOK, UNCHANGED cli, UNCHANGED ran,
         NEW f \in Files, NEW s \in Sums \cup {NoSum}, NEW status \in Statuses,
         NEW g \in Groups \cup {None}, NEW ph \in Phases \cup {None},
         InsertRow(f, s, status, g, ph),
         \/ /\ s \in Sums /\ status \in {"applied", "failed"}
            /\ status = "applied" => <<f, s>> \in ran
         \/ /\ PhaseOf[f] # None /\ s = NoSum /\ status \in {"applied", "failed", "running"}
         \/ status = "skipped" /\ WasFailed(f, s)
  PROVE  L!LedgerNext
<1>1. L!Note(f, s, status)
  <2>1. Entries' = Append(Entries, [file |-> f, sum |-> s, status |-> status])
    BY EntriesGrow
  <2> QED
    BY <2>1 DEF L!Note, AtWork
<1>2. CASE /\ s \in Sums /\ status \in {"applied", "failed"}
           /\ status = "applied" => <<f, s>> \in ran
  BY <1>1, <1>2 DEF L!NoteOutcome, L!LedgerNext
<1>3. CASE PhaseOf[f] # None /\ s = NoSum /\ status \in {"applied", "failed", "running"}
  BY <1>1, <1>3 DEF L!NoteReport, L!LedgerNext
<1>4. CASE status = "skipped" /\ WasFailed(f, s)
  <2>1. \E k \in DOMAIN Entries : Entries[k] = [file |-> f, sum |-> s, status |-> "failed"]
    BY <1>4 DEF WasFailed, Entries, Entry
  <2> QED
    BY <1>1, <1>4, <2>1 DEF L!Resolve, L!LedgerNext
<1> QED
  BY <1>2, <1>3, <1>4

LEMMA EndIsEnd ==
  ASSUME TypeOK, NEW e \in cli, SqlEnds(e)
  PROVE  [L!LedgerNext]_L!ledgerVars
<1> DEFINE p == <<e.file, e.sum>>
<1>1. e.file \in Files /\ e.sum \in Sums /\ p \in AtWork
  BY DEF TypeOK, AtWork
<1>2. cli' = cli \ {e} /\ Entries' = Entries /\ ran' \in {ran, ran \cup {p}}
  BY DEF SqlEnds, dbVars, Entries
<1>3. AtWork' \in {AtWork, AtWork \ {p}}
  <2>1. AtWork' = {<<d.file, d.sum>> : d \in cli \ {e}}
    BY <1>2 DEF AtWork
  <2>2. CASE \E d \in cli \ {e} : <<d.file, d.sum>> = p
    <3>1. AtWork' = AtWork
      BY <2>1, <2>2 DEF AtWork
    <3> QED
      BY <3>1
  <2>3. CASE \A d \in cli \ {e} : <<d.file, d.sum>> # p
    <3>1. AtWork' = AtWork \ {p}
      BY <2>1, <2>3 DEF AtWork
    <3> QED
      BY <3>1
  <2> QED
    BY <2>2, <2>3
<1>4. L!EndSql(e.file, e.sum)
  BY <1>1, <1>2, <1>3 DEF L!EndSql
<1> QED
  BY <1>1, <1>4 DEF L!LedgerNext

LedgerInv == StepInv /\ WorkIsRun /\ OutcomeOK

LEMMA LedgerStep ==
  HasLock /\ LedgerInv /\ [Next]_vars => [L!LedgerNext]_L!ledgerVars
<1> SUFFICES ASSUME HasLock, LedgerInv, [Next]_vars PROVE [L!LedgerNext]_L!ledgerVars
  OBVIOUS
<1> USE DEF LedgerInv, StepInv, Typing
<1>1. ASSUME NEW c \in Clients,
             \/ \E j \in Jobs : Start(c, j)
             \/ Acquire(c) \/ WaitTimeout(c) \/ Close(c)
             \/ LoadRecords(c) \/ PassOver(c) \/ Refuse(c) \/ Finish(c)
             \/ ResolveRead(c) \/ AdvanceRead(c)
      PROVE  UNCHANGED L!ledgerVars
  BY <1>1, QuietStep
     DEF Start, Acquire, WaitTimeout, Close, LoadRecords, PassOver, Refuse, Finish,
         ResolveRead, AdvanceRead, dbVars
<1>2. ASSUME NEW c \in Clients, Crash(c) PROVE UNCHANGED L!ledgerVars
  <2> DEFINE orphan(e) == [e EXCEPT !.owner = IF @ = c THEN None ELSE @]
  <2>1. cli' = {orphan(e) : e \in cli} /\ records' = records /\ ran' = ran
    BY <1>2 DEF Crash, dbVars
  <2>2. \A e \in cli : orphan(e).file = e.file /\ orphan(e).sum = e.sum
    BY DEF TypeOK
  <2> HIDE DEF orphan
  <2>3. AtWork' = AtWork
    BY <2>1, <2>2 DEF AtWork
  <2> QED
    BY <2>1, <2>3 DEF L!ledgerVars, Entries
<1>3. ASSUME NEW c \in Clients, Execute(c) PROVE L!LedgerNext
  <2>1. PICK f \in left[c] : Verdict(c, f) = "execute" /\ Spawn(c, f, job[c].tree[f])
    BY <1>3 DEF Execute
  <2>2. IsMidPass(c) /\ records' = records /\ ran' = ran
    BY <1>3 DEF Execute, Applying, IsMidPass, dbVars
  <2>3. f \in Files /\ job[c].tree[f] \in Sums
    <3>1. f \in Scan(job[c].tree) /\ job[c] \in Jobs /\ job[c].cmd = "apply"
      BY <2>2 DEF LocalsOK, IsMidPass
    <3> QED
      BY <3>1, JobFields DEF Scan, Trees
  <2>4. L!MayStart(f, job[c].tree[f])
    BY <2>1, <2>2, ExecuteIsPermitted
  <2> QED
    BY <2>1, <2>2, <2>3, <2>4, SpawnIsStart
<1>4. ASSUME NEW c \in Clients, ApplyPhaseRead(c) PROVE [L!LedgerNext]_L!ledgerVars
  <2> DEFINE f == job[c].file
             s == job[c].tree[f]
  <2>1. job[c] \in Jobs /\ job[c].cmd = "apply-phase" /\ records' = records /\ ran' = ran
    BY <1>4 DEF ApplyPhaseRead, Running, LocalsOK, dbVars
  <2>2. f \in Files /\ s \in Sums \cup {None} /\ PhaseOf[f] # None
    BY <2>1, JobFields, JobsAssumption, FilesAssumption DEF Trees
  <2>3. CASE s # None /\ Spawn(c, f, s)
    BY <2>1, <2>2, <2>3, SpawnIsStart
  <2>4. CASE UNCHANGED cli
    BY <2>1, <2>4, QuietStep
  <2> QED
    BY <1>4, <2>3, <2>4 DEF ApplyPhaseRead
<1>5. ASSUME NEW c \in Clients, RecordResult(c) PROVE L!LedgerNext
  <2>1. /\ InsertRow(work[c].file, work[c].sum, work[c].status,
                     GroupOf[work[c].file], PhaseOf[work[c].file])
        /\ pc[c] = "insert" /\ job[c].cmd = "apply"
        /\ cli' = cli /\ ran' = ran
    BY <1>5 DEF RecordResult, Applying
  <2>2. work[c] \in Work /\ work[c].sum \in Sums /\ work[c].status \in {"applied", "failed"}
    BY <2>1 DEF LocalsOK, OutcomeOK, OutcomeOf
  <2>3. work[c].status = "applied" => <<work[c].file, work[c].sum>> \in ran
    BY <2>1, <2>2, NoneAssumption DEF WorkIsRun
  <2>4. /\ work[c].file \in Files /\ work[c].status \in Statuses
        /\ GroupOf[work[c].file] \in Groups \cup {None}
        /\ PhaseOf[work[c].file] \in Phases \cup {None}
    BY <2>2, FilesAssumption DEF Work
  <2> QED
    BY <2>1, <2>2, <2>3, <2>4, InsertIsNote
<1>6. ASSUME NEW c \in Clients, ResolveInsert(c) PROVE L!LedgerNext
  <2>1. /\ InsertRow(work[c].file, work[c].sum, "skipped", None, None)
        /\ pc[c] = "insert" /\ job[c].cmd = "resolve"
        /\ cli' = cli /\ ran' = ran
    BY <1>6 DEF ResolveInsert, Running
  <2>2. work[c] \in Work /\ WasFailed(work[c].file, work[c].sum)
    BY <2>1 DEF LocalsOK, OutcomeOK, OutcomeOf
  <2>3. work[c].file \in Files /\ work[c].sum \in Sums \cup {NoSum}
    BY <2>2 DEF Work
  <2>4. "skipped" \in Statuses
    BY DEF Statuses
  <2> QED
    BY <2>1, <2>2, <2>3, <2>4, InsertIsNote
<1>7. ASSUME NEW c \in Clients, PhaseInsert(c) PROVE L!LedgerNext
  <2>1. /\ InsertRow(work[c].file, work[c].sum, work[c].status,
                     GroupOf[work[c].file], PhaseOf[work[c].file])
        /\ pc[c] = "insert" /\ job[c].cmd \in {"advance", "apply-phase"}
        /\ cli' = cli /\ ran' = ran
    BY <1>7 DEF PhaseInsert, Running
  <2>2. /\ work[c].file \in Files /\ work[c].sum \in Sums \cup {NoSum}
        /\ work[c].status \in Statuses
        /\ GroupOf[work[c].file] \in Groups \cup {None}
        /\ PhaseOf[work[c].file] \in Phases \cup {None}
    BY <2>1, FilesAssumption DEF LocalsOK, Work
  <2>3. \/ /\ work[c].sum \in Sums /\ work[c].status \in {"applied", "failed"}
           /\ work[c].status = "applied" => <<work[c].file, work[c].sum>> \in ran
        \/ /\ PhaseOf[work[c].file] # None /\ work[c].sum = NoSum
           /\ work[c].status \in {"applied", "failed", "running"}
    BY <2>1, NoneAssumption DEF OutcomeOK, OutcomeOf, WorkIsRun
  <2> QED
    BY <2>1, <2>2, <2>3, InsertIsNote
<1>8. ASSUME NEW o \in Owners, SqlEndsOf(o) PROVE [L!LedgerNext]_L!ledgerVars
  BY <1>8, EndIsEnd DEF SqlEndsOf
<1>9. CASE UNCHANGED vars
  BY <1>9, QuietStep DEF vars, dbVars
<1> QED
  BY <1>1, <1>2, <1>3, <1>4, <1>5, <1>6, <1>7, <1>8, <1>9
     DEF Next, Step, ApplyStep, OperatorStep, Finished

LEMMA LedgerStart == Init => L!LedgerInit
<1> SUFFICES ASSUME Init PROVE L!LedgerInit
  OBVIOUS
<1>1. Entries = << >>
  BY DEF Init, Entries
<1> QED
  BY <1>1 DEF Init, L!LedgerInit, AtWork

(***************************************************************************)
(* On a dialect with an advisory lock, the commands implement the Ledger:  *)
(* whatever dies and however old a checkout is, a content is executed only *)
(* where the table, as it is at that moment, permits it, and what is added *)
(* to the table is true.                                                   *)
(***************************************************************************)
THEOREM ImplementsLedger == HasLock => (Spec => KeepsLedger)
<1> SUFFICES ASSUME HasLock PROVE Spec => KeepsLedger
  OBVIOUS
<1>1. Init => LedgerInv
  BY TypingInit, ClockInit, LockInit, SeenInit, FreshInit, WorkInit, OutcomeInit
     DEF LedgerInv, StepInv
<1>2. LedgerInv /\ [Next]_vars => LedgerInv'
  BY TypingNext, ClockNext, LockNext, SeenNext, FreshNext, WorkNext, OutcomeNext
     DEF LedgerInv, StepInv, Typing
<1>3. LedgerInv /\ [Next]_vars => [L!LedgerNext]_L!ledgerVars
  BY LedgerStep
<1> QED
  BY <1>1, <1>2, <1>3, LedgerStart, PTL DEF Spec, KeepsLedger, L!LedgerSpec
=============================================================================
