----------------------------- MODULE PassProofs -----------------------------
(***************************************************************************)
(* Proofs about the order in which an apply executes the files of its      *)
(* checkout, for any clients, files, checkouts and bounds: what a failure  *)
(* holds back in the linear model, and what status foretells of it.        *)
(***************************************************************************)
EXTENDS MigraguardProofs, Status

-----------------------------------------------------------------------------
(* The newest row of a file                                                *)

IsNewestAt(log, f, n) ==
  n \in DOMAIN log /\ log[n].file = f /\ \A k \in RowsOf(log, f) : k <= n

LEMMA NewestAt ==
  ASSUME NEW log, DOMAIN log \in SUBSET Nat, NEW f, NEW n, IsNewestAt(log, f, n)
  PROVE  RowsOf(log, f) # {} /\ NewestRow(log, f) = log[n]
<1>1. n \in RowsOf(log, f)
  BY DEF IsNewestAt, RowsOf
<1>2. \A k \in RowsOf(log, f) : (\A j \in RowsOf(log, f) : j <= k) => k = n
  BY <1>1 DEF IsNewestAt, RowsOf
<1> QED
  BY <1>1, <1>2 DEF IsNewestAt, NewestRow

LEMMA NewestExists ==
  ASSUME NEW log, NEW m \in Nat, DOMAIN log = 1..m, NEW f, RowsOf(log, f) # {}
  PROVE  \E n \in 1..m : IsNewestAt(log, f, n)
<1>1. RowsOf(log, f) \in SUBSET (1..m)
  BY DEF RowsOf
<1> QED
  BY <1>1, NewestIsRow DEF IsNewestAt, RowsOf

\* A table under a strict clock.
IsStrict(log) ==
  /\ Len(log) \in Nat
  /\ DOMAIN log = 1..Len(log)
  /\ \A k \in DOMAIN log : log[k].at \in Nat
  /\ \A j, k \in DOMAIN log : j < k => log[j].at < log[k].at

LEMMA ClockIsStrict == HasLock /\ records \in Seq(Row) /\ ClockOK => IsStrict(records)
BY RowFields DEF ClockOK, IsStrict

LEMMA RecordsAreStrict == HasLock /\ TypeOK /\ ClockOK => IsStrict(records)
BY ClockIsStrict DEF TypeOK

\* Of rows of such a table, the code's latest is the last.
LEMMA LatestIsLast ==
  ASSUME NEW log, IsStrict(log), NEW rows \in SUBSET DOMAIN log,
         NEW n \in rows, \A k \in rows : k <= n
  PROVE  LatestOf(log, rows) = n
<1>1. IsLatest(log, rows, n)
  BY DEF IsStrict, IsLatest
<1>2. ASSUME NEW k \in rows, IsLatest(log, rows, k) PROVE k = n
  <2>1. k \in Nat /\ n \in Nat /\ k <= n /\ log[k].at \in Nat /\ log[n].at \in Nat
    BY DEF IsStrict
  <2>2. ~(log[n].at < log[k].at)
    BY <2>1 DEF IsStrict
  <2>3. log[n].at = log[k].at
    BY <1>2, <2>1, <2>2 DEF IsLatest
  <2> QED
    BY <2>1, <2>3 DEF IsStrict
<1>3. LatestOf(log, rows) = CHOOSE k \in rows : IsLatest(log, rows, k)
  BY DEF LatestOf, IsLatest
<1> HIDE DEF IsLatest
<1> QED
  BY <1>1, <1>2, <1>3

\* A new row is the newest of its file, and leaves the newest of others.
LEMMA NewestAfter ==
  ASSUME records \in Seq(Row), NEW r, records' = Append(records, r), NEW f
  PROVE  IF r.file = f
           THEN RowsOf(records', f) # {} /\ NewestRow(records', f) = r
           ELSE RowsOf(records, f) # {} =>
                  RowsOf(records', f) # {} /\ NewestRow(records', f) = NewestRow(records, f)
<1> DEFINE m == Len(records)
<1>1. /\ m \in Nat /\ DOMAIN records = 1..m /\ DOMAIN records' = 1..(m + 1)
      /\ DOMAIN records \in SUBSET Nat /\ DOMAIN records' \in SUBSET Nat
      /\ \A k \in 1..m : records'[k] = records[k]
      /\ records'[m + 1] = r
  OBVIOUS
<1> HIDE DEF m
<1>2. CASE r.file = f
  <2>1. IsNewestAt(records', f, m + 1)
    BY <1>1, <1>2 DEF IsNewestAt, RowsOf
  <2> QED
    BY <1>1, <1>2, <2>1, NewestAt
<1>3. CASE r.file # f /\ RowsOf(records, f) # {}
  <2>1. PICK n \in 1..m : IsNewestAt(records, f, n)
    BY <1>1, <1>3, NewestExists
  <2>2. \A k \in RowsOf(records', f) : k \in RowsOf(records, f)
    BY <1>1, <1>3 DEF RowsOf
  <2>3. IsNewestAt(records', f, n)
    BY <1>1, <2>1, <2>2 DEF IsNewestAt
  <2>4. RowsOf(records', f) # {} /\ NewestRow(records', f) = records'[n]
    BY <1>1, <2>3, NewestAt
  <2>5. NewestRow(records, f) = records[n]
    BY <1>1, <2>1, NewestAt
  <2> QED
    BY <1>1, <1>3, <2>4, <2>5
<1> QED
  BY <1>2, <1>3

-----------------------------------------------------------------------------
(* Rows about content                                                      *)

\* Of a content that was executed a row says how that went, or that it was
\* resolved; only a report of an executor, which has no content, says running.
ContentRows ==
  \A k \in DOMAIN records :
    records[k].sum \in Sums => records[k].status \in {"applied", "failed", "skipped"}

LEMMA ContentInit == Init => ContentRows
BY DEF Init, ContentRows

\* What a step inserts: the work of a command, under the group and phase of
\* its file, or a resolution, under none.
LEMMA NextNotes ==
  ASSUME [Next]_vars
  PROVE  \/ UNCHANGED dbVars
         \/ \E c \in Clients :
              /\ pc[c] = "insert"
              /\ \/ /\ job[c].cmd # "resolve"
                    /\ InsertRow(work[c].file, work[c].sum, work[c].status,
                                 GroupOf[work[c].file], PhaseOf[work[c].file])
                 \/ /\ job[c].cmd = "resolve"
                    /\ InsertRow(work[c].file, work[c].sum, "skipped", None, None)
BY WhoInserts DEF RecordResult, ResolveInsert, PhaseInsert, Applying, Running

LEMMA ContentNext == TypeOK /\ OutcomeOK /\ ContentRows /\ [Next]_vars => ContentRows'
<1> SUFFICES ASSUME TypeOK, OutcomeOK, ContentRows, [Next]_vars PROVE ContentRows'
  OBVIOUS
<1>1. CASE UNCHANGED dbVars
  BY <1>1 DEF ContentRows, dbVars
<1>2. ASSUME NEW c \in Clients, NEW g, NEW ph, NEW status, pc[c] = "insert",
             InsertRow(work[c].file, work[c].sum, status, g, ph),
             \/ job[c].cmd # "resolve" /\ status = work[c].status
             \/ status = "skipped"
      PROVE  ContentRows'
  <2> DEFINE row(t) == [file |-> work[c].file, sum |-> work[c].sum, status |-> status,
                        at |-> t, group |-> g, phase |-> ph]
  <2>1. PICK t \in NextTimes : records' = Append(records, row(t))
    BY <1>2 DEF InsertRow
  <2> SUFFICES ASSUME NEW k \in DOMAIN records', records'[k].sum \in Sums
               PROVE  records'[k].status \in {"applied", "failed", "skipped"}
    BY DEF ContentRows
  <2>2. CASE k \in DOMAIN records
    <3>1. records'[k] = records[k]
      BY <2>1, <2>2, TableOfRows
    <3> QED
      BY <2>2, <3>1 DEF ContentRows
  <2>3. CASE k \notin DOMAIN records
    <3>1. records'[k] = row(t)
      BY <2>1, <2>3, TableOfRows
    <3> QED
      BY <3>1, <1>2, NoneAssumption DEF OutcomeOK, OutcomeOf
  <2> QED
    BY <2>2, <2>3
<1> QED
  BY <1>1, <1>2, NextNotes

-----------------------------------------------------------------------------
(* What a pass has at hand                                                 *)

\* What an apply executes or records is the file it visits next, in the version
\* of its checkout.
OfTree(c) ==
  pc[c] \in {"sql", "insert"} /\ job[c].cmd = "apply" =>
    /\ work[c].file \in left[c]
    /\ work[c].sum = job[c].tree[work[c].file]
    /\ IsNext(c, work[c].file)

WorkOfTree == \A c \in Clients : OfTree(c)

LEMMA OfTreeInit == Init => WorkOfTree
BY DEF Init, WorkOfTree, OfTree

LEMMA OfTreeNext == Typing /\ WorkOfTree /\ [Next]_vars => WorkOfTree'
<1> SUFFICES ASSUME Typing, WorkOfTree, [Next]_vars, NEW d \in Clients PROVE OfTree(d)'
  BY DEF WorkOfTree
<1> USE DEF Typing
<1>1. ASSUME pc'[d] = pc[d], job'[d] = job[d], work'[d] = work[d], left'[d] = left[d]
      PROVE  OfTree(d)'
  BY <1>1 DEF WorkOfTree, OfTree, IsNext
<1>2. ASSUME pc'[d] \notin {"sql", "insert"} \/ job'[d].cmd # "apply" PROVE OfTree(d)'
  BY <1>2 DEF OfTree
<1>3. ASSUME NEW c \in Clients,
             \/ \E j \in Jobs : Start(c, j)
             \/ Acquire(c) \/ WaitTimeout(c) \/ Close(c) \/ Crash(c)
      PROVE  OfTree(d)'
  BY <1>1, <1>2, <1>3 DEF Start, Acquire, WaitTimeout, Close, Crash, Exit, Goto, TypeOK
<1>4. ASSUME NEW c \in Clients,
             LoadRecords(c) \/ PassOver(c) \/ Refuse(c) \/ RecordResult(c) \/ Finish(c)
      PROVE  OfTree(d)'
  BY <1>1, <1>2, <1>4
     DEF LoadRecords, PassOver, Refuse, RecordResult, Finish, Applying, Visited, AfterError,
         Goto, TypeOK
<1>5. ASSUME NEW c \in Clients, OperatorStep(c) PROVE OfTree(d)'
  BY <1>1, <1>2, <1>5
     DEF OperatorStep, ResolveRead, ResolveInsert, AdvanceRead, ApplyPhaseRead, PhaseInsert,
         Running, Spawn, Goto, TypeOK
<1>6. ASSUME NEW c \in Clients, Execute(c) PROVE OfTree(d)'
  <2>1. CASE d # c
    BY <1>1, <1>6, <2>1 DEF Execute, Spawn, Goto, TypeOK
  <2>2. CASE d = c
    <3>1. PICK f \in left[c] : IsNext(c, f) /\ Spawn(c, f, job[c].tree[f])
      BY <1>6 DEF Execute
    <3>2. /\ work'[c].file = f /\ work'[c].sum = job[c].tree[f]
          /\ job' = job /\ left' = left
      BY <1>6, <3>1 DEF Execute, Spawn, TypeOK
    <3> QED
      BY <2>2, <3>1, <3>2 DEF OfTree, IsNext
  <2> QED
    BY <2>1, <2>2
<1>7. ASSUME NEW o \in Owners, SqlEndsOf(o) PROVE OfTree(d)'
  <2>1. PICK e \in cli : e.owner = o /\ SqlEnds(e)
    BY <1>7 DEF SqlEndsOf
  <2>2. CASE o # d
    BY <1>1, <2>1, <2>2 DEF SqlEnds, Goto, TypeOK, Owners
  <2>3. CASE o = d
    <3>1. o # None /\ pc[d] = "sql" /\ work[d] \in Work
      BY <2>1, <2>3, NoneAssumption DEF CliOK, LocalsOK
    <3>2. PICK status \in {"applied", "failed"} : work' = [work EXCEPT ![d].status = status]
      BY <2>1, <2>3, <3>1 DEF SqlEnds
    <3>3. /\ work'[d].file = work[d].file /\ work'[d].sum = work[d].sum
          /\ job' = job /\ left' = left
      BY <2>1, <3>1, <3>2 DEF SqlEnds, TypeOK, Work
    <3> QED
      BY <2>3, <3>1, <3>3 DEF WorkOfTree, OfTree, IsNext
  <2> QED
    BY <2>2, <2>3
<1>8. CASE UNCHANGED vars
  BY <1>1, <1>8 DEF vars, clientVars
<1> QED
  BY <1>3, <1>4, <1>5, <1>6, <1>7, <1>8 DEF Next, Step, ApplyStep, Finished

\* In the linear model nothing is blocked: an error ends the pass.
NothingBlocked == ~Dag => \A c \in Clients : blocked[c] = {}

LEMMA BlockedInit == Init => NothingBlocked
BY DEF Init, NothingBlocked

LEMMA BlockedNext == TypeOK /\ NothingBlocked /\ [Next]_vars => NothingBlocked'
<1> SUFFICES ASSUME TypeOK, NothingBlocked, ~Dag, [Next]_vars
             PROVE  \A c \in Clients : blocked'[c] \in {blocked[c], {}}
  BY DEF NothingBlocked
<1>1. CASE \E o \in Owners : SqlEndsOf(o)
  BY <1>1 DEF SqlEndsOf, SqlEnds
<1>2. CASE Finished \/ UNCHANGED vars
  BY <1>2 DEF Finished, vars, clientVars
<1>3. ASSUME NEW d \in Clients,
             (\E j \in Jobs : Start(d, j)) \/ Acquire(d) \/ OperatorStep(d)
      PROVE  blocked' = blocked
  BY <1>3 DEF Start, Acquire, OperatorStep, ResolveRead, ResolveInsert, AdvanceRead,
              ApplyPhaseRead, PhaseInsert
<1>4. ASSUME NEW d \in Clients, WaitTimeout(d) \/ Close(d) \/ Crash(d)
      PROVE  \A c \in Clients : blocked'[c] \in {blocked[c], {}}
  BY <1>4 DEF WaitTimeout, Close, Crash, Exit, TypeOK
<1>5. ASSUME NEW d \in Clients, ApplyStep(d)
      PROVE  \A c \in Clients : blocked'[c] \in {blocked[c], {}}
  BY <1>5 DEF ApplyStep, LoadRecords, PassOver, Refuse, Execute, RecordResult, Finish,
              AfterError, TypeOK
<1> QED
  BY <1>1, <1>2, <1>3, <1>4, <1>5 DEF Next, Step

-----------------------------------------------------------------------------
(* What a pass reads                                                       *)

LEMMA PassView ==
  ASSUME HasLock, TypeOK, ClockOK, SeenOK, NEW c \in Clients
  PROVE  records \in Seq(Row) /\ IsStrict(records) /\ snap[c] \in 0..Len(records)
BY RecordsAreStrict, TableOfRows DEF TypeOK, SeenOK

\* Of the rows of a file that a pass has read, the code's latest is the last.
LEMMA SeenLatestIsLast ==
  ASSUME records \in Seq(Row), IsStrict(records),
         NEW c, snap[c] \in 0..Len(records), NEW f, RowsOf(Seen(c), f) # {}
  PROVE  LET l == LatestOf(Seen(c), RowsOf(Seen(c), f))
         IN  /\ l \in RowsOf(records, f) /\ l <= snap[c]
             /\ \A j \in RowsOf(records, f) : j <= snap[c] => j <= l
             /\ LatestRow(Seen(c), f) = records[l]
<1> DEFINE n == snap[c]
           log == Seen(c)
<1>1. /\ n \in Nat /\ n <= Len(records) /\ Len(records) \in Nat
      /\ DOMAIN records = 1..Len(records)
      /\ DOMAIN log = 1..n /\ Len(log) = n
      /\ \A k \in 1..n : log[k] = records[k]
  BY DEF Seen
<1> HIDE DEF n, log
<1>2. IsStrict(log)
  BY <1>1 DEF IsStrict
<1>3. RowsOf(log, f) # {}
  BY DEF log
<1>4. PICK k \in 1..n : IsNewestAt(log, f, k)
  BY <1>1, <1>3, NewestExists
<1>5. LatestOf(log, RowsOf(log, f)) = k
  BY <1>2, <1>4, LatestIsLast DEF IsNewestAt, RowsOf
<1>6. k \in RowsOf(records, f) /\ \A j \in RowsOf(records, f) : j <= n => j <= k
  BY <1>1, <1>4 DEF IsNewestAt, RowsOf
<1>7. LatestRow(log, f) = records[k]
  BY <1>1, <1>4, <1>5 DEF LatestRow
<1> QED
  BY <1>1, <1>4, <1>5, <1>6, <1>7 DEF n, log

\* If what it has not read of a file are resolutions, the newest row of the file
\* is what it takes for the latest, or a resolution.
LEMMA NewestIsSeen ==
  ASSUME records \in Seq(Row), IsStrict(records),
         NEW c, snap[c] \in 0..Len(records), NEW f, RowsOf(Seen(c), f) # {},
         \A k \in RowsOf(records, f) : k > snap[c] => records[k].status = "skipped"
  PROVE  /\ RowsOf(records, f) # {}
         /\ \/ NewestRow(records, f) = LatestRow(Seen(c), f)
            \/ NewestRow(records, f).status = "skipped"
<1> DEFINE l == LatestOf(Seen(c), RowsOf(Seen(c), f))
<1>1. /\ l \in RowsOf(records, f) /\ l <= snap[c]
      /\ \A j \in RowsOf(records, f) : j <= snap[c] => j <= l
      /\ LatestRow(Seen(c), f) = records[l]
  BY SeenLatestIsLast
<1> HIDE DEF l
<1>2. DOMAIN records = 1..Len(records) /\ Len(records) \in Nat /\ snap[c] \in Nat
      /\ DOMAIN records \in SUBSET Nat
  OBVIOUS
<1>3. PICK n \in 1..Len(records) : IsNewestAt(records, f, n)
  BY <1>1, <1>2, NewestExists
<1>4. RowsOf(records, f) # {} /\ NewestRow(records, f) = records[n]
  BY <1>2, <1>3, NewestAt
<1>5. n \in RowsOf(records, f) /\ (n <= snap[c] => n = l)
  BY <1>1, <1>2, <1>3 DEF IsNewestAt, RowsOf
<1> QED
  BY <1>1, <1>2, <1>4, <1>5

\* What an apply takes for settled is settled in the table.
LEMMA SettledByVerdict ==
  ASSUME HasLock, Typing, ClockOK, SeenOK, FreshView, ContentRows,
         NEW c \in Clients, IsMidPass(c), NEW f \in left[c], Verdict(c, f) = "settled"
  PROVE  IsSettled(records, job[c].tree, f)
<1> DEFINE tree == job[c].tree
           latest == LatestRow(Seen(c), f)
<1>1. /\ RowsOf(Seen(c), f) # {}
      /\ \/ latest.status = "skipped"
         \/ latest.status # "failed" /\ latest.sum = tree[f]
  BY DEF Verdict
<1>2. records \in Seq(Row) /\ IsStrict(records) /\ snap[c] \in 0..Len(records)
  BY PassView DEF Typing
<1>3. \A k \in RowsOf(records, f) : k > snap[c] => records[k].status = "skipped"
  BY DEF FreshView, RowsOf
<1>4. /\ RowsOf(records, f) # {}
      /\ NewestRow(records, f) = latest \/ NewestRow(records, f).status = "skipped"
  BY <1>1, <1>2, <1>3, NewestIsSeen
<1>5. PICK k \in DOMAIN records : latest = records[k]
  <2> DEFINE l == LatestOf(Seen(c), RowsOf(Seen(c), f))
  <2>1. l \in RowsOf(records, f) /\ latest = records[l]
    BY <1>1, <1>2, SeenLatestIsLast
  <2> QED
    BY <2>1 DEF RowsOf
<1>6. tree[f] \in Sums
  <2>1. f \in Scan(tree) /\ job[c] \in Jobs /\ job[c].cmd = "apply"
    BY DEF Typing, LocalsOK, IsMidPass
  <2> QED
    BY <2>1, JobFields DEF Scan, Trees
<1>7. \/ latest.status = "skipped"
      \/ latest.status = "applied" /\ latest.sum = tree[f]
  BY <1>1, <1>5, <1>6 DEF ContentRows
<1> QED
  BY <1>4, <1>7 DEF IsSettled

-----------------------------------------------------------------------------
(* What a pass has behind it                                               *)

IsVisited(c, f) == IsMidPass(c) /\ f \in Scan(job[c].tree) \ left[c]

\* In the DAG model an error in f blocks what depends on f.
Blocks(c, f) ==
  Dag /\ blocked'[c] = blocked[c] \cup TransitiveDependents(GraphOf(job[c].tree), f)

\* What apply inserts for a file it visits.
Answers(f, sum, status) ==
  \E r : /\ records' = Append(records, r)
         /\ r.file = f /\ r.sum = sum /\ r.status = status

\* The ways in which a pass that goes on leaves a file behind.
LeavesBehind(c, f) ==
  /\ f \in left[c]
  /\ IsNext(c, f)
  /\ left'[c] = left[c] \ {f}
  /\ \/ UNCHANGED records /\ blocked'[c] = blocked[c] /\ IsPassedOver(c, f)
     \/ UNCHANGED records /\ blocked'[c] = blocked[c] /\ Verdict(c, f) = "settled"
     \/ UNCHANGED records /\ Blocks(c, f) /\ Verdict(c, f) = "refuse"
     \/ Answers(f, job[c].tree[f], "applied") /\ blocked'[c] = blocked[c]
     \/ Answers(f, job[c].tree[f], "failed") /\ Blocks(c, f)

\* What happens to a file that a pass has behind it, while the pass goes on.
StaysBehind(c, f) ==
  /\ IsVisited(c, f)
  /\ left'[c] \subseteq left[c]
  /\ blocked[c] \subseteq blocked'[c]
  /\ \/ UNCHANGED records
     \/ \E r : records' = Append(records, r) /\ (r.status = "skipped" \/ r.file # f)

\* A file that a pass has behind it after a step was behind it before the step,
\* or has been left behind by it, or by the end of its SQL.
LEMMA VisitStep ==
  ASSUME HasLock, StepInv, OutcomeOK, WorkOfTree, [Next]_vars,
         NEW d \in Clients, NEW g \in Files, IsVisited(d, g)'
  PROVE  /\ IsMidPass(d) /\ job'[d] = job[d] /\ snap'[d] = snap[d]
         /\ StaysBehind(d, g) \/ LeavesBehind(d, g)
<1> DEFINE Goal == /\ IsMidPass(d) /\ job'[d] = job[d] /\ snap'[d] = snap[d]
                   /\ StaysBehind(d, g) \/ LeavesBehind(d, g)
<1> USE DEF StepInv, Typing
<1>1. ASSUME UNCHANGED records, IsVisited(d, g), job'[d] = job[d], snap'[d] = snap[d],
             left'[d] = left[d], blocked[d] \subseteq blocked'[d]
      PROVE  Goal
  BY <1>1 DEF StaysBehind, IsVisited
<1>2. ASSUME NEW c \in Clients,
             \/ \E j \in Jobs : Start(c, j)
             \/ Acquire(c) \/ WaitTimeout(c) \/ Close(c) \/ Crash(c) \/ Finish(c)
      PROVE  Goal
  BY <1>1, <1>2
     DEF Start, Acquire, WaitTimeout, Close, Crash, Finish, Exit, Goto, TypeOK, dbVars,
         IsVisited, IsMidPass
<1>3. ASSUME NEW c \in Clients, ResolveRead(c) \/ AdvanceRead(c) \/ ApplyPhaseRead(c)
      PROVE  Goal
  BY <1>1, <1>3
     DEF ResolveRead, AdvanceRead, ApplyPhaseRead, Running, Spawn, Goto, TypeOK, dbVars,
         IsVisited, IsMidPass
<1>4. ASSUME NEW c \in Clients, LoadRecords(c) PROVE Goal
  BY <1>1, <1>4 DEF LoadRecords, Applying, Goto, TypeOK, dbVars, IsVisited, IsMidPass
<1>5. ASSUME NEW c \in Clients, Execute(c) PROVE Goal
  BY <1>1, <1>5 DEF Execute, Applying, Spawn, Goto, TypeOK, dbVars, IsVisited, IsMidPass
<1>6. ASSUME NEW o \in Owners, SqlEndsOf(o) PROVE Goal
  BY <1>1, <1>6 DEF SqlEndsOf, SqlEnds, CliOK, Goto, Owners, TypeOK, dbVars, IsVisited, IsMidPass
<1>7. ASSUME NEW c \in Clients, PassOver(c) PROVE Goal
  <2>1. PICK f \in left[c] : /\ IsNext(c, f)
                             /\ IsPassedOver(c, f) \/ Verdict(c, f) = "settled"
                             /\ Visited(c, f)
    BY <1>7 DEF PassOver
  <2>2. UNCHANGED <<records, pc, job, snap, blocked>> /\ IsMidPass(c)
    BY <1>7 DEF PassOver, Applying, IsMidPass, dbVars
  <2>3. CASE c = d /\ f = g
    BY <2>1, <2>2, <2>3 DEF Visited, TypeOK, LeavesBehind
  <2>4. CASE ~(c = d /\ f = g)
    BY <2>1, <2>2, <2>4 DEF Visited, TypeOK, StaysBehind, IsVisited, IsMidPass
  <2> QED
    BY <2>3, <2>4
<1>8. ASSUME NEW c \in Clients, Refuse(c) PROVE Goal
  <2>1. PICK f \in left[c] : /\ IsNext(c, f)
                             /\ Verdict(c, f) = "refuse"
                             /\ Visited(c, f)
                             /\ AfterError(c, f)
    BY <1>8 DEF Refuse
  <2>2. UNCHANGED <<records, job, snap>> /\ IsMidPass(c)
    BY <1>8 DEF Refuse, Applying, IsMidPass, dbVars
  <2>3. IsMidPass(d) /\ (c = d => Blocks(c, f)) /\ (c # d => blocked'[d] = blocked[d])
    BY <2>1, <2>2 DEF AfterError, Blocks, Goto, TypeOK, IsVisited, IsMidPass
  <2>4. CASE c = d /\ f = g
    BY <2>1, <2>2, <2>3, <2>4 DEF Visited, TypeOK, LeavesBehind
  <2>5. CASE ~(c = d /\ f = g)
    BY <2>1, <2>2, <2>3, <2>5 DEF Visited, TypeOK, StaysBehind, IsVisited, Blocks
  <2> QED
    BY <2>4, <2>5
<1>9. ASSUME NEW c \in Clients, RecordResult(c) PROVE Goal
  <2> DEFINE f == work[c].file
             row(t) == [file |-> f, sum |-> work[c].sum, status |-> work[c].status, at |-> t,
                        group |-> GroupOf[f], phase |-> PhaseOf[f]]
  <2>1. PICK t \in NextTimes : records' = Append(records, row(t))
    BY <1>9 DEF RecordResult, InsertRow
  <2>2. row(t).file = f /\ row(t).sum = work[c].sum /\ row(t).status = work[c].status
    OBVIOUS
  <2> HIDE DEF row
  <2>3. IsMidPass(c) /\ IsMidPass(d)
    BY <1>9 DEF RecordResult, Applying, AfterError, Goto, TypeOK, IsVisited, IsMidPass
  <2>4. c = d
    BY <2>3, PassHoldsLock
  <2>5. /\ UNCHANGED <<job, snap>> /\ left'[d] = left[d] \ {f}
        /\ pc[d] = "insert" /\ job[d].cmd = "apply"
    BY <1>9, <2>4 DEF RecordResult, Applying, Visited, TypeOK
  <2>6. f \in left[d] /\ work[d].sum = job[d].tree[f] /\ IsNext(d, f)
    BY <2>4, <2>5 DEF WorkOfTree, OfTree
  <2>7. work[d].status \in {"applied", "failed"}
    BY <2>5 DEF OutcomeOK, OutcomeOf
  <2>8. IF work[d].status = "failed" THEN Blocks(d, f) ELSE blocked'[d] = blocked[d]
    BY <1>9, <2>4 DEF RecordResult, AfterError, Blocks, Goto, TypeOK, IsVisited, IsMidPass
  <2>9. CASE f = g
    <3>1. Answers(g, job[d].tree[g], work[d].status)
      BY <2>1, <2>2, <2>4, <2>6, <2>9 DEF Answers
    <3> QED
      BY <2>3, <2>5, <2>6, <2>7, <2>8, <2>9, <3>1 DEF LeavesBehind
  <2>10. CASE f # g
    BY <2>1, <2>2, <2>3, <2>5, <2>8, <2>10 DEF StaysBehind, IsVisited, Blocks
  <2> QED
    BY <2>9, <2>10
<1>10. ASSUME NEW c \in Clients, ResolveInsert(c) PROVE Goal
  <2> DEFINE row(t) == [file |-> work[c].file, sum |-> work[c].sum, status |-> "skipped",
                        at |-> t, group |-> None, phase |-> None]
  <2>1. PICK t \in NextTimes : records' = Append(records, row(t))
    BY <1>10 DEF ResolveInsert, InsertRow
  <2>2. row(t).status = "skipped"
    OBVIOUS
  <2> HIDE DEF row
  <2>3. IsVisited(d, g) /\ UNCHANGED <<job, snap, left, blocked>>
    BY <1>10 DEF ResolveInsert, Running, Goto, TypeOK, IsVisited, IsMidPass
  <2> QED
    BY <2>1, <2>2, <2>3 DEF StaysBehind, IsVisited
<1>11. ASSUME NEW c \in Clients, PhaseInsert(c) PROVE Goal
  <2>1. IsMidPass(d) /\ IsInLock(c) /\ job[c].cmd # "apply"
    BY <1>11 DEF PhaseInsert, Running, Goto, TypeOK, IsInLock, Locks, IsVisited, IsMidPass
  <2>2. holder = d /\ holder = c
    BY <2>1, PassHoldsLock DEF LockHeld
  <2> QED
    BY <2>1, <2>2 DEF IsMidPass
<1>12. CASE UNCHANGED vars
  BY <1>1, <1>12 DEF vars, dbVars, clientVars, IsVisited, IsMidPass
<1> QED
  BY <1>2, <1>3, <1>4, <1>5, <1>6, <1>7, <1>8, <1>9, <1>10, <1>11, <1>12
     DEF Next, Step, ApplyStep, OperatorStep, Finished

\* What is settled, and stays behind, stays settled.
LEMMA SettledStays ==
  ASSUME TypeOK, NEW c, NEW f \in Files, NEW tree, StaysBehind(c, f),
         IsSettled(records, tree, f)
  PROVE  IsSettled(records', tree, f)
<1>1. CASE UNCHANGED records
  BY <1>1
<1>2. CASE \E r : records' = Append(records, r) /\ (r.status = "skipped" \/ r.file # f)
  BY <1>2, NewestAfter DEF IsSettled, TypeOK
<1> QED
  BY <1>1, <1>2 DEF StaysBehind

\* What apply has recorded is settled if it was applied, and in error if not.
LEMMA AnswerSettles ==
  ASSUME TypeOK, NEW f \in Files, NEW tree, NEW status, Answers(f, tree[f], status)
  PROVE  /\ status = "applied" => IsSettled(records', tree, f)
         /\ status = "failed" => RowsOf(records', f) # {} /\ ~IsSettled(records', tree, f)
BY NewestAfter DEF Answers, IsSettled, TypeOK

\* In the linear model every safe file and expand that a pass has visited is
\* settled, in the table as it is now, at the version of the checkout.
IsBehind(c, f) == IsVisited(c, f) /\ PhaseOf[f] \in {None, "expand"}

PassedAreSettled ==
  ~Dag => \A c \in Clients, f \in Files :
            IsBehind(c, f) => IsSettled(records, job[c].tree, f)

LEMMA PassInit == Init => PassedAreSettled
BY DEF Init, PassedAreSettled, IsBehind, IsVisited, IsMidPass

LEMMA PassNext ==
  ASSUME HasLock, StepInv, OutcomeOK, ContentRows, WorkOfTree, NothingBlocked,
         PassedAreSettled, [Next]_vars
  PROVE  PassedAreSettled'
<1> SUFFICES ASSUME ~Dag, NEW d \in Clients, NEW g \in Files, IsBehind(d, g)'
             PROVE  IsSettled(records', job'[d].tree, g)
  BY DEF PassedAreSettled
<1> USE DEF StepInv, Typing
<1>1. /\ IsMidPass(d) /\ job'[d] = job[d]
      /\ StaysBehind(d, g) \/ LeavesBehind(d, g)
      /\ PhaseOf[g] \in {None, "expand"}
  BY VisitStep DEF IsBehind
<1>2. CASE StaysBehind(d, g)
  <2>1. IsSettled(records, job[d].tree, g)
    BY <1>1, <1>2 DEF PassedAreSettled, IsBehind, StaysBehind
  <2> QED
    BY <1>1, <1>2, <2>1, SettledStays
<1>3. CASE LeavesBehind(d, g)
  <2>1. ~IsPassedOver(d, g)
    BY <1>1, NoneAssumption DEF IsPassedOver, NothingBlocked, IsGated, IsHeldByOpenGroup, Phases
  <2>2. CASE UNCHANGED records /\ Verdict(d, g) = "settled"
    BY <1>1, <1>3, <2>2, SettledByVerdict DEF LeavesBehind
  <2>3. CASE Answers(g, job[d].tree[g], "applied")
    BY <1>1, <2>3, AnswerSettles
  <2> QED
    BY <1>3, <2>1, <2>2, <2>3 DEF LeavesBehind, Blocks
<1> QED
  BY <1>1, <1>2, <1>3

-----------------------------------------------------------------------------
(* What an error holds back in the DAG model                               *)

\* A table that grows keeps what a pass has read, and what it was at any time.
LEMMA TablesStay ==
  ASSUME TypeOK, [Next]_vars, NEW n \in 0..Len(records)
  PROVE  SubSeq(records', 1, n) = SubSeq(records, 1, n) /\ n \in 0..Len(records')
<1>1. CASE UNCHANGED records
  BY <1>1
<1>2. ASSUME NEW r, records' = Append(records, r)
      PROVE  SubSeq(records', 1, n) = SubSeq(records, 1, n) /\ n \in 0..Len(records')
  <2>1. /\ Len(records) \in Nat /\ n \in Nat /\ n <= Len(records)
        /\ Len(records') = Len(records) + 1
        /\ \A k \in 1..Len(records) : records'[k] = records[k]
    BY <1>2 DEF TypeOK
  <2>2. \A k \in 1..n : records'[k] = records[k]
    BY <2>1
  <2>3. /\ SubSeq(records', 1, n) = [k \in 1..n |-> records'[k]]
        /\ SubSeq(records, 1, n) = [k \in 1..n |-> records[k]]
    BY <2>1
  <2> QED
    BY <2>1, <2>2, <2>3
<1>3. UNCHANGED records \/ \E r : records' = Append(records, r)
  BY NextInserts DEF InsertRow, dbVars
<1> QED
  BY <1>1, <1>2, <1>3

LEMMA SeenStays ==
  ASSUME TypeOK, SeenOK, [Next]_vars, NEW c \in Clients, snap'[c] = snap[c]
  PROVE  Seen(c)' = Seen(c)
<1>1. snap[c] \in 0..Len(records)
  BY TableOfRows DEF TypeOK, SeenOK
<1> QED
  BY <1>1, TablesStay DEF Seen

LEMMA ErrorStays ==
  ASSUME TypeOK, SeenOK, [Next]_vars, NEW c \in Clients, NEW f,
         job'[c] = job[c], snap'[c] = snap[c], WasInError(c, f)
  PROVE  WasInError(c, f)'
<1>1. PICK n \in snap[c]..Len(records) :
        LET log == SubSeq(records, 1, n)
        IN  RowsOf(log, f) # {} /\ ~IsSettled(log, job[c].tree, f)
  BY DEF WasInError, LogsSince
<1>2. n \in 0..Len(records) /\ snap[c] <= n /\ snap[c] \in Nat
  BY TableOfRows DEF TypeOK
<1>3. SubSeq(records', 1, n) = SubSeq(records, 1, n) /\ n \in snap[c]..Len(records')
  BY <1>2, TablesStay
<1> QED
  BY <1>1, <1>3 DEF WasInError, LogsSince

\* What apply refuses to execute was in error when the pass began.
LEMMA RefusedIsError ==
  ASSUME HasLock, TypeOK, ClockOK, SeenOK, NEW c \in Clients, NEW f, Verdict(c, f) = "refuse"
  PROVE  WasInError(c, f)
<1> DEFINE log == Seen(c)
           latest == LatestRow(log, f)
<1>1. /\ RowsOf(log, f) # {}
      /\ latest.status # "skipped"
      /\ latest.status = "failed" \/ latest.sum # job[c].tree[f]
  BY DEF Verdict
<1>2. records \in Seq(Row) /\ IsStrict(records) /\ snap[c] \in 0..Len(records)
  BY PassView
<1>3. /\ IsStrict(log) /\ DOMAIN log = 1..snap[c] /\ snap[c] \in Nat
      /\ DOMAIN log \in SUBSET Nat
  BY <1>2 DEF Seen, IsStrict
<1> HIDE DEF log
<1>4. PICK n \in 1..snap[c] : IsNewestAt(log, f, n)
  BY <1>1, <1>3, NewestExists
<1>5. NewestRow(log, f) = log[n]
  BY <1>3, <1>4, NewestAt
<1>6. LatestOf(log, RowsOf(log, f)) = n
  BY <1>3, <1>4, LatestIsLast DEF IsNewestAt, RowsOf
<1>7. ~IsSettled(log, job[c].tree, f)
  BY <1>1, <1>5, <1>6 DEF IsSettled, LatestRow
<1>8. log \in LogsSince(c)
  BY <1>2 DEF log, Seen, LogsSince
<1> QED
  BY <1>1, <1>7, <1>8 DEF WasInError

\* What apply has recorded as failed is in error in the table as it is then.
LEMMA FailedIsError ==
  ASSUME Typing, ClockOK, SeenOK, [Next]_vars, NEW c \in Clients, NEW f \in Files,
         job'[c] = job[c], snap'[c] = snap[c], Answers(f, job[c].tree[f], "failed")
  PROVE  WasInError(c, f)'
<1>0. Typing'
  BY TypingNext
<1> TypeOK /\ TypeOK'
  BY <1>0 DEF Typing
<1>1. RowsOf(records', f) # {} /\ ~IsSettled(records', job[c].tree, f)
  BY AnswerSettles
<1>2. PICK r : records' = Append(records, r)
  BY DEF Answers
<1>3. /\ Len(records') \in snap[c]..Len(records')
      /\ SubSeq(records', 1, Len(records')) = records'
  <2>1. snap[c] \in Nat /\ snap[c] <= Len(records) /\ Len(records) \in Nat
    BY TableOfRows DEF TypeOK, SeenOK
  <2>2. records' \in Seq(Row)
    BY DEF TypeOK
  <2>3. SubSeq(records', 1, Len(records')) = records'
    BY <2>2
  <2>4. Len(records') = Len(records) + 1
    BY <1>2 DEF TypeOK
  <2> QED
    BY <2>1, <2>3, <2>4
<1>4. records' \in LogsSince(c)'
  BY <1>3 DEF LogsSince
<1> QED
  BY <1>1, <1>4 DEF WasInError

\* What the pass leaves alone because of an error: all that depends on a file
\* in error waits.
Reasons(c, f) == {g \in {f} \cup TransitiveDependencies(GraphOf(job[c].tree), f) : WasInError(c, g)}

BlockedIsJustified ==
  \A c \in Clients : \A f \in blocked[c] : pc[c] # "close" =>
    /\ IsMidPass(c)
    /\ TransitiveDependents(GraphOf(job[c].tree), f) \subseteq blocked[c]
    /\ Reasons(c, f) # {}

\* Every safe file and expand that a pass has behind it is settled, or waits for
\* an open group, or holds back what depends on it.
IsAnswered(c, f) ==
  \/ IsSettled(records, job[c].tree, f)
  \/ IsHeldByOpenGroup(c, f)
  \/ /\ TransitiveDependents(GraphOf(job[c].tree), f) \subseteq blocked[c]
     /\ Reasons(c, f) # {}

PassedAreAnswered ==
  Dag => \A c \in Clients, f \in Files : IsBehind(c, f) => IsAnswered(c, f)

\* A pass has behind it, with a file, all that the file depends on.
VisitedAreClosed ==
  Dag => \A c \in Clients, f \in Files :
           IsVisited(c, f) /\ IsAcyclic(GraphOf(job[c].tree)) =>
             Successors(GraphOf(job[c].tree), f) \cap left[c] = {}

LEMMA DagInit == Init => BlockedIsJustified /\ PassedAreAnswered /\ VisitedAreClosed
BY DEF Init, BlockedIsJustified, PassedAreAnswered, VisitedAreClosed, IsBehind, IsVisited, IsMidPass

LEMMA ReasonsStay ==
  ASSUME TypeOK, SeenOK, [Next]_vars, NEW c \in Clients, NEW f,
         job'[c] = job[c], snap'[c] = snap[c], Reasons(c, f) # {}
  PROVE  Reasons(c, f)' # {}
BY ErrorStays DEF Reasons

LEMMA HeldStays ==
  ASSUME TypeOK, SeenOK, [Next]_vars, NEW c \in Clients, NEW f,
         job'[c] = job[c], snap'[c] = snap[c], IsHeldByOpenGroup(c, f)
  PROVE  IsHeldByOpenGroup(c, f)'
BY SeenStays DEF IsHeldByOpenGroup

\* What depends on a file that is left behind in error has that error as a reason.
LEMMA ErrorIsReason ==
  ASSUME HasLock, Typing, ClockOK, SeenOK, [Next]_vars,
         NEW c \in Clients, IsMidPass(c), job'[c] = job[c], snap'[c] = snap[c],
         NEW f \in left[c],
         \/ Verdict(c, f) = "refuse"
         \/ Answers(f, job[c].tree[f], "failed")
  PROVE  /\ WasInError(c, f)'
         /\ \A x \in TransitiveDependents(GraphOf(job[c].tree), f) : Reasons(c, x)' # {}
<1>1. f \in Scan(job[c].tree) /\ f \in Files
  BY DEF Typing, LocalsOK, Scan
<1>2. WasInError(c, f)'
  <2>1. CASE Verdict(c, f) = "refuse"
    BY <2>1, RefusedIsError, ErrorStays DEF Typing
  <2>2. CASE Answers(f, job[c].tree[f], "failed")
    BY <1>1, <2>2, FailedIsError
  <2> QED
    BY <2>1, <2>2
<1>3. ASSUME NEW x \in TransitiveDependents(GraphOf(job[c].tree), f)
      PROVE  f \in Reasons(c, x)'
  BY <1>1, <1>2, GraphOfIsGraph DEF Reasons, TransitiveDependencies
<1> QED
  BY <1>2, <1>3

LEMMA AnsweredNext ==
  ASSUME HasLock, StepInv, OutcomeOK, ContentRows, WorkOfTree,
         BlockedIsJustified, PassedAreAnswered, [Next]_vars
  PROVE  PassedAreAnswered'
<1> SUFFICES ASSUME Dag, NEW d \in Clients, NEW g \in Files, IsBehind(d, g)'
             PROVE  IsAnswered(d, g)'
  BY DEF PassedAreAnswered
<1> USE DEF StepInv, Typing
<1> DEFINE G == GraphOf(job[d].tree)
<1>1. /\ IsMidPass(d) /\ job'[d] = job[d] /\ snap'[d] = snap[d]
      /\ StaysBehind(d, g) \/ LeavesBehind(d, g)
      /\ PhaseOf[g] \in {None, "expand"}
  BY VisitStep DEF IsBehind
<1>2. ASSUME blocked[d] \subseteq blocked'[d],
             TransitiveDependents(G, g) \subseteq blocked[d], Reasons(d, g) # {}
      PROVE  IsAnswered(d, g)'
  BY <1>1, <1>2, ReasonsStay DEF IsAnswered
<1>3. ASSUME IsHeldByOpenGroup(d, g) PROVE IsAnswered(d, g)'
  BY <1>1, <1>3, HeldStays DEF IsAnswered
<1>4. ASSUME IsSettled(records', job[d].tree, g) PROVE IsAnswered(d, g)'
  BY <1>1, <1>4 DEF IsAnswered
<1>5. CASE StaysBehind(d, g)
  <2>1. IsAnswered(d, g)
    BY <1>1, <1>5 DEF PassedAreAnswered, IsBehind, StaysBehind
  <2>2. CASE IsSettled(records, job[d].tree, g)
    BY <1>4, <1>5, <2>2, SettledStays
  <2> QED
    BY <1>2, <1>3, <1>5, <2>1, <2>2 DEF IsAnswered, StaysBehind
<1>6. CASE LeavesBehind(d, g)
  <2>1. CASE IsPassedOver(d, g) /\ blocked'[d] = blocked[d]
    <3>1. g \in blocked[d] \/ IsHeldByOpenGroup(d, g)
      BY <1>1, <2>1, NoneAssumption DEF IsPassedOver, IsGated, Phases
    <3>2. CASE g \in blocked[d]
      BY <1>1, <1>2, <2>1, <3>2 DEF BlockedIsJustified, IsMidPass
    <3> QED
      BY <1>3, <3>1, <3>2
  <2>2. CASE UNCHANGED records /\ Verdict(d, g) = "settled"
    BY <1>1, <1>4, <1>6, <2>2, SettledByVerdict DEF LeavesBehind
  <2>3. CASE Answers(g, job[d].tree[g], "applied")
    BY <1>4, <2>3, AnswerSettles
  <2>4. CASE Blocks(d, g) /\ (Verdict(d, g) = "refuse" \/ Answers(g, job[d].tree[g], "failed"))
    <3>1. WasInError(d, g)'
      BY <1>1, <1>6, <2>4, ErrorIsReason DEF LeavesBehind
    <3>2. g \in Reasons(d, g)'
      BY <3>1 DEF Reasons
    <3> QED
      BY <1>1, <2>4, <3>2 DEF Blocks, IsAnswered
  <2> QED
    BY <1>6, <2>1, <2>2, <2>3, <2>4 DEF LeavesBehind
<1> QED
  BY <1>1, <1>5, <1>6

LEMMA ClosedNext ==
  ASSUME HasLock, StepInv, OutcomeOK, WorkOfTree, VisitedAreClosed, [Next]_vars
  PROVE  VisitedAreClosed'
<1> SUFFICES ASSUME Dag, NEW d \in Clients, NEW g \in Files, IsVisited(d, g)',
                    IsAcyclic(GraphOf(job'[d].tree))
             PROVE  Successors(GraphOf(job'[d].tree), g) \cap left'[d] = {}
  BY DEF VisitedAreClosed
<1>1. /\ IsMidPass(d) /\ job'[d] = job[d]
      /\ StaysBehind(d, g) \/ LeavesBehind(d, g)
  BY VisitStep
<1>2. CASE StaysBehind(d, g)
  BY <1>1, <1>2 DEF StaysBehind, VisitedAreClosed
<1>3. CASE LeavesBehind(d, g)
  BY <1>1, <1>3 DEF LeavesBehind, IsNext, IsFirstOf, Ready
<1> QED
  BY <1>1, <1>2, <1>3

\* A file that is blocked after a step was blocked before it, in the same pass,
\* or depends on one that the step has left behind in error.
LEMMA BlockStep ==
  ASSUME HasLock, StepInv, OutcomeOK, WorkOfTree, [Next]_vars,
         NEW d \in Clients, NEW f \in blocked'[d], pc'[d] # "close"
  PROVE  \/ /\ f \in blocked[d] /\ blocked[d] \subseteq blocked'[d] /\ pc[d] # "close"
            /\ IsMidPass(d) => IsMidPass(d)' /\ job'[d] = job[d] /\ snap'[d] = snap[d]
         \/ /\ IsMidPass(d) /\ IsMidPass(d)' /\ job'[d] = job[d] /\ snap'[d] = snap[d]
            /\ \E g \in left[d] :
                 /\ Blocks(d, g)
                 /\ f \in TransitiveDependents(GraphOf(job[d].tree), g)
                 /\ \/ Verdict(d, g) = "refuse"
                    \/ Answers(g, job[d].tree[g], "failed")
<1> DEFINE Goal ==
      \/ /\ f \in blocked[d] /\ blocked[d] \subseteq blocked'[d] /\ pc[d] # "close"
         /\ IsMidPass(d) => IsMidPass(d)' /\ job'[d] = job[d] /\ snap'[d] = snap[d]
      \/ /\ IsMidPass(d) /\ IsMidPass(d)' /\ job'[d] = job[d] /\ snap'[d] = snap[d]
         /\ \E g \in left[d] :
              /\ Blocks(d, g)
              /\ f \in TransitiveDependents(GraphOf(job[d].tree), g)
              /\ \/ Verdict(d, g) = "refuse"
                 \/ Answers(g, job[d].tree[g], "failed")
<1> USE DEF StepInv, Typing
<1>1. ASSUME blocked'[d] = blocked[d], pc[d] # "close",
             IsMidPass(d) => IsMidPass(d)' /\ job'[d] = job[d] /\ snap'[d] = snap[d]
      PROVE  Goal
  BY <1>1
<1>2. ASSUME NEW c \in Clients,
             (\E j \in Jobs : Start(c, j)) \/ Acquire(c) \/ LoadRecords(c) \/ Finish(c)
      PROVE  Goal
  BY <1>1, <1>2
     DEF Start, Acquire, LoadRecords, Finish, Applying, Goto, TypeOK, dbVars, IsMidPass
<1>3. ASSUME NEW c \in Clients, WaitTimeout(c) \/ Close(c) \/ Crash(c) PROVE Goal
  BY <1>1, <1>3 DEF WaitTimeout, Close, Crash, Exit, Goto, TypeOK, dbVars, IsMidPass
<1>4. ASSUME NEW c \in Clients, OperatorStep(c) PROVE Goal
  BY <1>1, <1>4
     DEF OperatorStep, ResolveRead, ResolveInsert, AdvanceRead, ApplyPhaseRead, PhaseInsert,
         Running, Spawn, Goto, TypeOK, dbVars, IsMidPass
<1>5. ASSUME NEW c \in Clients, PassOver(c) \/ Execute(c) PROVE Goal
  BY <1>1, <1>5 DEF PassOver, Execute, Applying, Spawn, Goto, TypeOK, dbVars, IsMidPass
<1>6. ASSUME NEW o \in Owners, SqlEndsOf(o) PROVE Goal
  BY <1>1, <1>6 DEF SqlEndsOf, SqlEnds, CliOK, Goto, Owners, TypeOK, dbVars, IsMidPass
<1>7. ASSUME NEW c \in Clients, Refuse(c) PROVE Goal
  <2>1. PICK g \in left[c] : Verdict(c, g) = "refuse" /\ AfterError(c, g)
    BY <1>7 DEF Refuse
  <2>2. CASE c # d
    BY <1>1, <1>7, <2>1, <2>2 DEF Refuse, AfterError, Goto, TypeOK, IsMidPass
  <2>3. CASE c = d
    <3>1. /\ Blocks(d, g) /\ job' = job /\ snap' = snap
          /\ IsMidPass(d) /\ IsMidPass(d)' /\ pc[d] # "close"
      BY <1>7, <2>1, <2>3 DEF Refuse, Applying, AfterError, Blocks, Goto, TypeOK, IsMidPass
    <3> QED
      BY <2>1, <2>3, <3>1 DEF Blocks
  <2> QED
    BY <2>2, <2>3
<1>8. ASSUME NEW c \in Clients, RecordResult(c) PROVE Goal
  <2> DEFINE g == work[c].file
             row(t) == [file |-> g, sum |-> work[c].sum, status |-> work[c].status, at |-> t,
                        group |-> GroupOf[g], phase |-> PhaseOf[g]]
  <2>1. PICK t \in NextTimes : records' = Append(records, row(t))
    BY <1>8 DEF RecordResult, InsertRow
  <2>2. row(t).file = g /\ row(t).sum = work[c].sum /\ row(t).status = work[c].status
    OBVIOUS
  <2> HIDE DEF row
  <2>3. CASE c # d
    BY <1>1, <1>8, <2>3 DEF RecordResult, AfterError, Goto, TypeOK, IsMidPass
  <2>4. CASE c = d
    <3>1. /\ pc[d] = "insert" /\ job[d].cmd = "apply" /\ job' = job /\ snap' = snap
          /\ IsMidPass(d)
      BY <1>8, <2>4 DEF RecordResult, Applying, IsMidPass
    <3>2. g \in left[d] /\ work[d].sum = job[d].tree[g]
      BY <2>4, <3>1 DEF WorkOfTree, OfTree
    <3>3. CASE work[d].status = "failed"
      <4>1. Blocks(d, g) /\ IsMidPass(d)'
        BY <1>8, <2>4, <3>1, <3>3
           DEF RecordResult, AfterError, Blocks, Goto, TypeOK, IsMidPass
      <4>2. Answers(g, job[d].tree[g], "failed")
        BY <2>1, <2>2, <2>4, <3>2, <3>3 DEF Answers
      <4> QED
        BY <3>1, <3>2, <4>1, <4>2 DEF Blocks
    <3>4. CASE work[d].status # "failed"
      BY <1>1, <1>8, <2>4, <3>1, <3>4 DEF RecordResult, Goto, TypeOK, IsMidPass
    <3> QED
      BY <3>3, <3>4
  <2> QED
    BY <2>3, <2>4
<1>9. CASE UNCHANGED vars
  BY <1>1, <1>9 DEF vars, clientVars, IsMidPass
<1> QED
  BY <1>2, <1>3, <1>4, <1>5, <1>6, <1>7, <1>8, <1>9 DEF Next, Step, ApplyStep, Finished

LEMMA JustifiedNext ==
  ASSUME HasLock, StepInv, OutcomeOK, WorkOfTree, BlockedIsJustified, [Next]_vars
  PROVE  BlockedIsJustified'
<1> SUFFICES ASSUME NEW d \in Clients, NEW f \in blocked'[d], pc'[d] # "close"
             PROVE  /\ IsMidPass(d)'
                    /\ TransitiveDependents(GraphOf(job'[d].tree), f) \subseteq blocked'[d]
                    /\ Reasons(d, f)' # {}
  BY DEF BlockedIsJustified
<1> USE DEF StepInv, Typing
<1>1. CASE /\ f \in blocked[d] /\ blocked[d] \subseteq blocked'[d] /\ pc[d] # "close"
           /\ IsMidPass(d) => IsMidPass(d)' /\ job'[d] = job[d] /\ snap'[d] = snap[d]
  <2>1. /\ IsMidPass(d) /\ Reasons(d, f) # {}
        /\ TransitiveDependents(GraphOf(job[d].tree), f) \subseteq blocked[d]
    BY <1>1 DEF BlockedIsJustified
  <2> QED
    BY <1>1, <2>1, ReasonsStay
<1>2. ASSUME IsMidPass(d), IsMidPass(d)', job'[d] = job[d], snap'[d] = snap[d],
             NEW g \in left[d], Blocks(d, g),
             f \in TransitiveDependents(GraphOf(job[d].tree), g),
             Verdict(d, g) = "refuse" \/ Answers(g, job[d].tree[g], "failed")
      PROVE  /\ TransitiveDependents(GraphOf(job'[d].tree), f) \subseteq blocked'[d]
             /\ Reasons(d, f)' # {}
  <2>1. Reasons(d, f)' # {}
    BY <1>2, ErrorIsReason
  <2>2. TransitiveDependents(GraphOf(job[d].tree), f)
          \subseteq TransitiveDependents(GraphOf(job[d].tree), g)
    BY <1>2, GraphOfIsGraph, DependentsOfDependents
  <2> QED
    BY <1>2, <2>1, <2>2 DEF Blocks
<1> QED
  BY <1>1, <1>2, BlockStep

PassInv ==
  /\ StepInv /\ OutcomeOK /\ ContentRows
  /\ WorkOfTree /\ NothingBlocked /\ PassedAreSettled
  /\ BlockedIsJustified /\ PassedAreAnswered /\ VisitedAreClosed

LEMMA PassInvInit == HasLock /\ Init => PassInv
BY TypingInit, ClockInit, LockInit, SeenInit, FreshInit, OutcomeInit, ContentInit,
   OfTreeInit, BlockedInit, PassInit, DagInit
   DEF PassInv, StepInv

LEMMA PassInvNext == HasLock /\ PassInv /\ [Next]_vars => PassInv'
<1> SUFFICES ASSUME HasLock, PassInv, [Next]_vars PROVE PassInv'
  OBVIOUS
<1>1. StepInv'
  BY TypingNext, ClockNext, LockNext, SeenNext, FreshNext DEF PassInv, StepInv, Typing
<1>2. OutcomeOK' /\ ContentRows' /\ WorkOfTree' /\ NothingBlocked' /\ PassedAreSettled'
  BY OutcomeNext, ContentNext, OfTreeNext, BlockedNext, PassNext DEF PassInv, StepInv, Typing
<1>3. BlockedIsJustified' /\ PassedAreAnswered' /\ VisitedAreClosed'
  BY JustifiedNext, AnsweredNext, ClosedNext DEF PassInv
<1> QED
  BY <1>1, <1>2, <1>3 DEF PassInv

LEMMA PassInvHolds == HasLock => (Spec => []PassInv)
<1> SUFFICES ASSUME HasLock PROVE Spec => []PassInv
  OBVIOUS
<1> QED
  BY PassInvInit, PassInvNext, PTL DEF Spec

LEMMA PositionOfFile == ASSUME NEW f \in Files PROVE Position(f) \in Nat
<1>1. DOMAIN FileOrder \in SUBSET Nat /\ \E i \in DOMAIN FileOrder : FileOrder[i] = f
  BY FilesAssumption DEF Files
<1> QED
  BY <1>1 DEF Position

\* What a step of apply starts, it has decided to execute.
LEMMA StartedByVerdict ==
  ASSUME Typing, [Next]_vars, NEW c \in Clients, ApplyStarts(c)
  PROVE  /\ IsMidPass(c)
         /\ StartedFile(c) \in left[c]
         /\ IsNext(c, StartedFile(c))
         /\ ~IsPassedOver(c, StartedFile(c))
         /\ Verdict(c, StartedFile(c)) = "execute"
<1>1. Execute(c)
  BY ApplyStartsByExecute
<1>2. PICK f \in left[c] : /\ IsNext(c, f)
                           /\ ~IsPassedOver(c, f)
                           /\ Verdict(c, f) = "execute"
                           /\ Spawn(c, f, job[c].tree[f])
  BY <1>1 DEF Execute
<1>3. StartedFile(c) = f
  BY <1>2 DEF StartedFile, Spawn, Typing, TypeOK
<1>4. IsMidPass(c)
  BY <1>1 DEF Execute, Applying, IsMidPass
<1> QED
  BY <1>2, <1>3, <1>4

\* In the DAG model a pass ends when it has no file left.
LEMMA DagPassEnds ==
  ASSUME Dag, Typing, [Next]_vars, NEW c \in Clients, IsMidPass(c), pc'[c] = "close"
  PROVE  left[c] = {}
<1> USE DEF Typing, TypeOK
<1>1. ASSUME NEW d \in Clients,
             \/ \E j \in Jobs : Start(d, j)
             \/ Acquire(d) \/ WaitTimeout(d) \/ Close(d) \/ Crash(d)
      PROVE  FALSE
  BY <1>1 DEF Start, Acquire, WaitTimeout, Close, Crash, Exit, Goto, IsMidPass
<1>2. ASSUME NEW d \in Clients, ApplyStep(d) PROVE left[c] = {}
  BY <1>2 DEF ApplyStep, LoadRecords, Applying, PassOver, Refuse, Execute, Spawn, RecordResult,
              Finish, AfterError, Goto, IsMidPass
<1>3. ASSUME NEW d \in Clients, OperatorStep(d) PROVE FALSE
  BY <1>3 DEF OperatorStep, ResolveRead, ResolveInsert, AdvanceRead, ApplyPhaseRead, PhaseInsert,
              Running, Spawn, Goto, IsMidPass
<1>4. ASSUME NEW o \in Owners, SqlEndsOf(o) PROVE FALSE
  BY <1>4 DEF SqlEndsOf, SqlEnds, CliOK, Goto, Owners, IsMidPass
<1>5. CASE UNCHANGED vars
  BY <1>5 DEF vars, clientVars, IsMidPass
<1> QED
  BY <1>1, <1>2, <1>3, <1>4, <1>5 DEF Next, Step, Finished

\* What comes before the file that an apply starts is behind the pass.
LEMMA BeforeIsBehind ==
  ASSUME DependenciesAreAcyclic, PassInv, [Next]_vars,
         NEW c \in Clients, ApplyStarts(c), NEW g \in Before(job[c].tree, StartedFile(c))
  PROVE  IsBehind(c, g) /\ g \in Files
<1> USE DEF PassInv, StepInv, Typing
<1> DEFINE f == StartedFile(c)
           G == GraphOf(job[c].tree)
<1>1. IsMidPass(c) /\ f \in left[c] /\ IsNext(c, f)
  BY StartedByVerdict
<1>2. g \in Scan(job[c].tree) /\ PhaseOf[g] \in {None, "expand"} /\ g \in Files
  BY DEF Before, Scan
<1>3. left[c] \subseteq Scan(job[c].tree) /\ job[c] \in Jobs /\ job[c].cmd = "apply"
  BY <1>1 DEF LocalsOK, IsMidPass
<1>4. CASE ~Dag
  <2>1. Position(g) < Position(f) /\ IsFirstOf(f, left[c])
    BY <1>1, <1>4 DEF Before, IsNext
  <2>2. g \notin left[c]
    BY <1>1, <1>2, <1>3, <2>1, PositionOfFile DEF IsFirstOf, Scan
  <2> QED
    BY <1>1, <1>2, <2>2 DEF IsBehind, IsVisited
<1>5. CASE Dag
  <2> DEFINE behind == (Scan(job[c].tree) \ left[c]) \cup {f}
  <2>1. g \in TransitiveDependencies(G, f) /\ IsAcyclic(G)
    BY <1>3, <1>5 DEF Before, DependenciesAreAcyclic
  <2>2. Successors(G, f) \cap left[c] = {}
    BY <1>1, <1>5, <2>1 DEF IsNext, IsFirstOf, Ready
  <2>3. \A x \in Scan(job[c].tree) \ left[c] : Successors(G, x) \cap left[c] = {}
    BY <1>1, <1>5, <2>1 DEF VisitedAreClosed, IsVisited, Scan
  <2>4. \A x : Successors(G, x) \subseteq Scan(job[c].tree)
    BY GraphOfIsGraph DEF Successors
  <2>5. IsGraph(G) /\ f \in behind /\ \A x \in behind : Successors(G, x) \subseteq behind
    BY <2>2, <2>3, <2>4, GraphOfIsGraph
  <2>6. g \in behind
    BY <2>1, <2>5, DependenciesStayInside
  <2>7. g # f
    BY <1>2, <2>1, GraphOfIsGraph DEF IsAcyclic, TransitiveDependencies
  <2> QED
    BY <1>1, <1>2, <2>6, <2>7 DEF IsBehind, IsVisited
<1> QED
  BY <1>4, <1>5

\* What comes before it is settled, or waits for an open group.
LEMMA BeforeIsSettled ==
  ASSUME DependenciesAreAcyclic, PassInv, [Next]_vars,
         NEW c \in Clients, ApplyStarts(c), NEW g \in Before(job[c].tree, StartedFile(c))
  PROVE  IsSettled(records, job[c].tree, g) \/ IsHeldByOpenGroup(c, g)
<1> USE DEF PassInv
<1>1. IsBehind(c, g) /\ g \in Files
  BY BeforeIsBehind
<1>2. CASE ~Dag
  BY <1>1, <1>2 DEF PassedAreSettled
<1>3. CASE Dag
  <2>1. IsAnswered(c, g)
    BY <1>1, <1>3 DEF PassedAreAnswered
  <2>2. StartedFile(c) \notin blocked[c]
    BY StartedByVerdict DEF StepInv, IsPassedOver
  <2>3. StartedFile(c) \in TransitiveDependents(GraphOf(job[c].tree), g)
    BY <1>3 DEF Before, TransitiveDependencies
  <2> QED
    BY <2>1, <2>2, <2>3 DEF IsAnswered
<1> QED
  BY <1>2, <1>3

(***************************************************************************)
(* Under an advisory lock, in both models, a failed file holds back what   *)
(* comes after it: whatever crashes and whatever is resolved while the     *)
(* pass is under way, the SQL of a file starts only when every safe file   *)
(* and expand before it is applied or resolved in the table, or waits for  *)
(* an open group.  In the DAG model this takes dependencies without cycles *)
(* (apply visits the files of a cyclic graph by name).                     *)
(***************************************************************************)
THEOREM FailureHoldsBack == HasLock /\ DependenciesAreAcyclic => (Spec => FailureBlocks)
<1> SUFFICES ASSUME HasLock, DependenciesAreAcyclic PROVE Spec => FailureBlocks
  OBVIOUS
<1> DEFINE A == \A c \in Clients : ApplyStarts(c) =>
                  \A g \in Before(job[c].tree, StartedFile(c)) :
                    IsDone(g) \/ IsHeldByOpenGroup(c, g)
<1>1. PassInv /\ [Next]_vars => [A]_vars
  BY BeforeIsSettled DEF IsSettled, IsDone, IsNewest, HasRow
<1>2. Spec => [][A]_vars
  BY <1>1, PassInvHolds, PTL DEF Spec
<1> QED
  BY <1>2 DEF FailureBlocks

(***************************************************************************)
(* Under an advisory lock, in the DAG model, only the dependents of a file *)
(* in error, and of an open group, wait: when a pass ends, every safe file *)
(* and expand is settled, or it or what it depends on has been in error    *)
(* since the pass began, or a group it depends on was open.                *)
(***************************************************************************)
THEOREM OthersProceed == HasLock => (Spec => IndependentFilesProceed)
<1> SUFFICES ASSUME HasLock PROVE Spec => IndependentFilesProceed
  OBVIOUS
<1> DEFINE Goal(c, f) ==
             \/ IsSettled(records, job[c].tree, f)
             \/ \E g \in {f} \cup TransitiveDependencies(GraphOf(job[c].tree), f) :
                  WasInError(c, g)
             \/ \E g \in Successors(GraphOf(job[c].tree), f) : WasOpen(c, g)
           A == \A c \in Clients : Dag /\ IsMidPass(c) /\ pc'[c] = "close" =>
                  LET tree == job[c].tree
                  IN  \A f \in {g \in Scan(tree) : PhaseOf[g] \in {None, "expand"}} :
                        \/ IsSettled(records, tree, f)
                        \/ \E g \in {f} \cup TransitiveDependencies(GraphOf(tree), f) :
                             WasInError(c, g)
                        \/ \E g \in Successors(GraphOf(tree), f) : WasOpen(c, g)
<1>1. PassInv /\ [Next]_vars => [A]_vars
  <2> SUFFICES ASSUME PassInv, [Next]_vars, NEW c \in Clients,
                      Dag, IsMidPass(c), pc'[c] = "close",
                      NEW f \in Scan(job[c].tree), PhaseOf[f] \in {None, "expand"}
               PROVE  Goal(c, f)
    OBVIOUS
  <2> USE DEF PassInv, StepInv, Typing
  <2>1. left[c] = {}
    BY DagPassEnds
  <2>2. IsAnswered(c, f)
    BY <2>1 DEF PassedAreAnswered, IsBehind, IsVisited, Scan
  <2>3. CASE IsHeldByOpenGroup(c, f)
    <3>1. PICK g \in Successors(GraphOf(job[c].tree), f) :
            GroupOf[g] # None /\ IsGroupOpen(Seen(c), GroupOf[g])
      BY <2>3 DEF IsHeldByOpenGroup
    <3>2. Seen(c) \in LogsSince(c)
      BY TableOfRows DEF Seen, LogsSince, SeenOK, TypeOK
    <3> QED
      BY <3>1, <3>2 DEF WasOpen
  <2> QED
    BY <2>2, <2>3 DEF IsAnswered, Reasons
<1>2. Spec => [][A]_vars
  BY <1>1, PassInvHolds, PTL DEF Spec
<1> QED
  BY <1>2 DEF IndependentFilesProceed

-----------------------------------------------------------------------------
(* What status shows                                                       *)

\* Under a strict clock the latest row of a file is the newest.
LEMMA LatestIsNewest ==
  ASSUME HasLock, TypeOK, ClockOK, NEW f, RowsOf(records, f) # {}
  PROVE  LatestRow(records, f) = NewestRow(records, f)
<1> DEFINE rows == RowsOf(records, f)
           l == LatestOf(records, rows)
<1>1. /\ DOMAIN records = 1..Len(records) /\ Len(records) \in Nat /\ now \in Nat
      /\ \A k \in DOMAIN records : records[k].at \in Nat /\ records[k].at <= now
  BY TableOfRows, RowFields DEF TypeOK, ClockOK
<1>2. rows \in SUBSET Nat /\ rows \subseteq DOMAIN records
  BY <1>1 DEF RowsOf
<1>3. l \in rows /\ IsLatest(records, rows, l)
  <2>1. \A k \in rows : records[k].at \in 0..now
    BY <1>1, <1>2
  <2>2. rows # {}
    OBVIOUS
  <2> HIDE DEF rows
  <2> QED
    BY <1>1, <1>2, <2>1, <2>2, LatestIsRow
<1> HIDE DEF l
<1>4. \A j \in rows : j <= l
  BY <1>1, <1>2, <1>3 DEF IsLatest, ClockOK
<1>5. IsNewestAt(records, f, l)
  BY <1>3, <1>4 DEF IsNewestAt, RowsOf
<1>6. NewestRow(records, f) = records[l]
  BY <1>1, <1>5, NewestAt
<1> QED
  BY <1>6 DEF l, LatestRow

\* What apply starts is not shown as settled, unless it was resolved meanwhile.
LEMMA StartedIsShown ==
  ASSUME HasLock, StepInv, [Next]_vars, NEW c \in Clients
  PROVE  StartIsShown(c)
<1> DEFINE f == StartedFile(c)
           tree == job[c].tree
           l == LatestOf(Seen(c), RowsOf(Seen(c), f))
<1> SUFFICES ASSUME ApplyStarts(c), ~IsResolvedSince(c, f)
             PROVE  StatusOf(records, tree, f) \in {"pending", "failed", "changed"}
  BY DEF StartIsShown
<1> USE DEF StepInv, Typing
<1>1. IsMidPass(c) /\ f \in left[c] /\ Verdict(c, f) = "execute"
  BY StartedByVerdict
<1>2. /\ Len(records) \in Nat /\ DOMAIN records = 1..Len(records)
      /\ snap[c] \in Nat /\ snap[c] <= Len(records)
      /\ DOMAIN Seen(c) = 1..snap[c]
      /\ \A k \in 1..snap[c] : Seen(c)[k] = records[k]
  BY TableOfRows DEF TypeOK, SeenOK, Seen
<1>3. \A k \in RowsOf(records, f) : k <= snap[c]
  BY <1>1, <1>2 DEF RowsOf, FreshView, IsResolvedSince
<1>4. CASE RowsOf(records, f) = {}
  BY <1>4 DEF StatusOf
<1>5. CASE RowsOf(records, f) # {}
  <2>1. RowsOf(Seen(c), f) # {}
    BY <1>2, <1>3, <1>5 DEF RowsOf
  <2>2. /\ l \in RowsOf(records, f)
        /\ \A j \in RowsOf(records, f) : j <= l
        /\ LatestRow(Seen(c), f) = records[l]
    BY <1>3, <2>1, PassView, SeenLatestIsLast
  <2> HIDE DEF l
  <2>3. IsNewestAt(records, f, l)
    BY <2>2 DEF IsNewestAt, RowsOf
  <2>4. LatestRow(records, f) = LatestRow(Seen(c), f)
    BY <1>2, <1>5, <2>2, <2>3, NewestAt, LatestIsNewest
  <2>5. \/ LatestRow(Seen(c), f).status = "failed"
        \/ /\ LatestRow(Seen(c), f).status # "skipped"
           /\ LatestRow(Seen(c), f).sum # tree[f]
    BY <1>1, <2>1 DEF Verdict
  <2> QED
    BY <1>5, <2>4, <2>5 DEF StatusOf
<1> QED
  BY <1>4, <1>5

\* Only Finish ends a pass that has no file left.
LEMMA PassEndsByFinish ==
  ASSUME Typing, [Next]_vars, NEW c \in Clients,
         pc[c] = "loop", pc'[c] = "close", left[c] = {}
  PROVE  IsMidPass(c) /\ UNCHANGED <<records, job>>
<1> USE DEF Typing, TypeOK
<1>1. ASSUME NEW d \in Clients,
             \/ \E j \in Jobs : Start(d, j)
             \/ Acquire(d) \/ WaitTimeout(d) \/ Close(d) \/ Crash(d)
             \/ LoadRecords(d) \/ PassOver(d) \/ Refuse(d) \/ Execute(d) \/ RecordResult(d)
      PROVE  FALSE
  BY <1>1 DEF Start, Acquire, WaitTimeout, Close, Crash, Exit, LoadRecords, Applying, PassOver,
              Refuse, Execute, Spawn, RecordResult, AfterError, Goto
<1>2. ASSUME NEW d \in Clients, Finish(d) PROVE IsMidPass(c) /\ UNCHANGED <<records, job>>
  BY <1>2 DEF Finish, Applying, Goto, IsMidPass, dbVars
<1>3. ASSUME NEW d \in Clients, OperatorStep(d) PROVE FALSE
  BY <1>3 DEF OperatorStep, ResolveRead, ResolveInsert, AdvanceRead, ApplyPhaseRead, PhaseInsert,
              Running, Spawn, Goto
<1>4. ASSUME NEW o \in Owners, SqlEndsOf(o) PROVE FALSE
  BY <1>4 DEF SqlEndsOf, SqlEnds, CliOK, Goto, Owners
<1>5. CASE UNCHANGED vars
  BY <1>5 DEF vars, clientVars
<1> QED
  BY <1>1, <1>2, <1>3, <1>4, <1>5 DEF Next, Step, ApplyStep, Finished

(***************************************************************************)
(* In the linear model, for a repository without migration groups, status  *)
(* foretells what apply does, though each reads the table at a time and    *)
(* with code of its own: what it shows as applied or skipped is not        *)
(* executed, and when a pass ends without error it shows nothing else.     *)
(***************************************************************************)
THEOREM StatusIsRight ==
  HasLock /\ ~Dag /\ (\A f \in Files : GroupOf[f] = None) => (Spec => StatusForetells)
<1> SUFFICES ASSUME HasLock, ~Dag, \A f \in Files : GroupOf[f] = None
             PROVE  Spec => StatusForetells
  OBVIOUS
<1> DEFINE A == \A c \in Clients : StartIsShown(c) /\ EndIsShown(c)
<1>1. PassInv /\ [Next]_vars => [A]_vars
  <2> SUFFICES ASSUME PassInv, [Next]_vars, NEW c \in Clients
               PROVE  StartIsShown(c) /\ EndIsShown(c)
    OBVIOUS
  <2> USE DEF PassInv, StepInv, Typing
  <2>1. StartIsShown(c)
    BY StartedIsShown
  <2>2. EndIsShown(c)
    <3> SUFFICES ASSUME pc[c] = "loop", pc'[c] = "close", left[c] = {},
                        NEW f \in Scan(job[c].tree)
                 PROVE  StatusOf(records, job[c].tree, f) \in {"applied", "skipped"}
      BY DEF EndIsShown
    <3>1. IsMidPass(c)
      BY PassEndsByFinish
    <3>2. f \in Files /\ PhaseOf[f] = None
      BY FilesAssumption DEF Scan
    <3>3. IsSettled(records, job[c].tree, f)
      BY <3>1, <3>2 DEF IsBehind, IsVisited, PassedAreSettled
    <3>4. LatestRow(records, f) = NewestRow(records, f)
      BY <3>3, LatestIsNewest DEF IsSettled
    <3> QED
      BY <3>3, <3>4 DEF IsSettled, StatusOf
  <2> QED
    BY <2>1, <2>2
<1>2. Spec => [][A]_vars
  BY <1>1, PassInvHolds, PTL DEF Spec
<1> QED
  BY <1>2 DEF StatusForetells
=============================================================================
