--------------------------- MODULE CheckoutProofs ---------------------------
(***************************************************************************)
(* Proofs about baseline, dump and the gated apply in one checkout, beside *)
(* any number of applies and resolves of others: what is removed from the  *)
(* checkout is kept, wherever a command is interrupted.                    *)
(***************************************************************************)
EXTENDS Checkout, PassProofs

-----------------------------------------------------------------------------
(* Commands, CLI processes and the table                                   *)

Commands ==
  Jobs \cup [cmd : {"apply"}, tree : Trees] \cup [cmd : {"baseline"}, keep : KeepSince]

\* A checkout has a file as the maintainer has it, or not at all.
IsOurs(tree) == tree \in Trees /\ \A f \in Scan(tree) : tree[f] = VersionOf[f]

IsCommand(c, j) ==
  /\ j \in Commands
  /\ \/ j.cmd = "apply" /\ IsOurs(j.tree)
     \/ j.cmd = "resolve" /\ j.file \in Files /\ c # m
     \/ j.cmd = "baseline" /\ c = m

\* What a command executes or records is a file as the maintainer has it; a
\* success that it is about to record has happened.
IsWork(c) ==
  /\ job[c].cmd \in {"apply", "resolve"}
  /\ pc[c] = "sql" => job[c].cmd = "apply"
  /\ work[c] \in Work
  /\ work[c].sum = VersionOf[work[c].file]
  /\ pc[c] = "insert" /\ work[c].status = "applied" => <<work[c].file, work[c].sum>> \in ran
  /\ pc[c] = "insert" => work[c].status # "running"

\* Every row is about a file as the maintainer has it, and what it says is so.
TableIsTrue ==
  \A k \in DOMAIN records :
    /\ records[k].at <= now
    /\ records[k].status # "running"
    /\ records[k].sum = VersionOf[records[k].file]
    /\ records[k].status = "applied" => <<records[k].file, records[k].sum>> \in ran

SessionTypeOK ==
  /\ records \in Seq(Row)
  /\ now \in Nat
  /\ cli \subseteq [owner : Owners, file : Files, sum : Sums]
  /\ pc \in [Clients -> PCs]
  /\ job \in [Clients -> Commands \cup {None}]
  /\ left \in [Clients -> SUBSET Files]
  /\ work \in [Clients -> Work \cup {None}]
  /\ ran \subseteq Files \X Sums

SessionOK ==
  /\ SessionTypeOK
  /\ \A c \in Clients :
       /\ pc[c] # "idle" => IsCommand(c, job[c])
       /\ pc[c] \in {"sql", "insert"} => IsWork(c)
       /\ IsMidPass(c) => left[c] \subseteq Scan(job[c].tree)
  /\ CliOK
  /\ \A e \in cli : e.owner # None =>
       work[e.owner].file = e.file /\ work[e.owner].sum = e.sum
  /\ TableIsTrue

LEMMA SessionInit == Init => SessionOK
BY DEF Init, SessionOK, SessionTypeOK, CliOK, TableIsTrue, IsMidPass, PCs, Owners

\* The table as a function on the positions of its rows.
LEMMA TableIsFunction ==
  ASSUME SessionTypeOK
  PROVE  /\ Len(records) \in Nat
         /\ DOMAIN records = 1..Len(records)
         /\ \A k \in DOMAIN records : records[k] \in Row
BY DEF SessionTypeOK

LEMMA LatestIsInTable ==
  ASSUME SessionOK, NEW f \in Files, RowsOf(records, f) # {}
  PROVE  \E k \in DOMAIN records : records[k].file = f /\ LatestRow(records, f) = records[k]
<1>1. RowsOf(records, f) \in SUBSET Nat
      /\ \A k \in RowsOf(records, f) : records[k].at \in 0..now
  <2>1. \A k \in DOMAIN records : records[k].at \in Nat /\ records[k].at <= now
    BY TableIsFunction, RowFields DEF SessionOK, TableIsTrue
  <2> QED
    BY <2>1, TableIsFunction DEF RowsOf, SessionOK, SessionTypeOK
<1>2. LatestOf(records, RowsOf(records, f)) \in RowsOf(records, f)
  BY <1>1, LatestIsRow DEF SessionOK, SessionTypeOK
<1> QED
  BY <1>2 DEF LatestRow, RowsOf

\* A row that is true leaves the table true.
LEMMA InsertKeepsRows ==
  ASSUME SessionOK, UNCHANGED ran,
         NEW f \in Files, NEW s \in Sums \cup {NoSum}, NEW status \in Statuses,
         NEW g \in Groups \cup {None}, NEW ph \in Phases \cup {None},
         InsertRow(f, s, status, g, ph), status # "running",
         s = VersionOf[f], status = "applied" => <<f, s>> \in ran
  PROVE  /\ records' \in Seq(Row) /\ now' \in Nat
         /\ TableIsTrue'
<1> DEFINE row(t) == [file |-> f, sum |-> s, status |-> status,
                      at |-> t, group |-> g, phase |-> ph]
<1>1. PICK t \in NextTimes : now' = t /\ records' = Append(records, row(t))
  BY DEF InsertRow
<1>2. t \in Nat /\ now <= t /\ now \in Nat
  BY <1>1 DEF NextTimes, SessionOK, SessionTypeOK
<1>3. row(t) \in Row
  BY <1>2 DEF Row
<1>4. row(t).file = f /\ row(t).sum = s /\ row(t).status = status /\ row(t).at = t
  OBVIOUS
<1> HIDE DEF row
<1>5. records \in Seq(Row)
  BY DEF SessionOK, SessionTypeOK
<1>6. DOMAIN records = 1..Len(records) /\ Len(records) \in Nat
      /\ DOMAIN records' = 1..(Len(records) + 1)
      /\ records'[Len(records) + 1] = row(t)
      /\ \A k \in DOMAIN records : records'[k] = records[k]
  BY <1>1, <1>3, <1>5
<1>7. \A k \in DOMAIN records : records[k].at \in Nat
  BY <1>5, <1>6, RowFields
<1>8. TableIsTrue
  BY DEF SessionOK
<1>9. \A k \in DOMAIN records :
        /\ records'[k].at <= now'
        /\ records'[k].status # "running"
        /\ records'[k].sum = VersionOf[records'[k].file]
        /\ records'[k].status = "applied" => <<records'[k].file, records'[k].sum>> \in ran'
  <2>1. now' \in Nat /\ now <= now'
    BY <1>1, <1>2
  <2>2. \A k \in DOMAIN records : records[k].at <= now
    BY <1>8 DEF TableIsTrue
  <2>3. \A k \in DOMAIN records : records[k].at <= now'
    BY <1>2, <1>7, <2>1, <2>2
  <2> QED
    BY <1>6, <1>8, <2>3 DEF TableIsTrue
<1>10. /\ row(t).at <= now'
       /\ row(t).status # "running"
       /\ row(t).sum = VersionOf[row(t).file]
       /\ row(t).status = "applied" => <<row(t).file, row(t).sum>> \in ran'
  BY <1>1, <1>2, <1>4
<1>11. \A k \in DOMAIN records' : k \in DOMAIN records \/ k = Len(records) + 1
  BY <1>6
<1>12. TableIsTrue'
  BY <1>6, <1>9, <1>10, <1>11 DEF TableIsTrue
<1>13. records' \in Seq(Row)
  BY <1>1, <1>3, <1>5
<1> QED
  BY <1>1, <1>2, <1>12, <1>13

\* A step that leaves the table, and loses nothing of what ran, keeps it true.
LEMMA RowsStayTrue ==
  ASSUME SessionOK, UNCHANGED dbVars, ran \subseteq ran'
  PROVE  TableIsTrue'
BY DEF SessionOK, TableIsTrue, dbVars

LEMMA WorkStays ==
  ASSUME SessionOK, NEW d \in Clients, ran \subseteq ran',
         pc'[d] = pc[d] /\ job'[d] = job[d] /\ work'[d] = work[d]
  PROVE  (pc[d] \in {"sql", "insert"} => IsWork(d))'
BY DEF SessionOK, IsWork

LEMMA StartKeepsSession ==
  ASSUME SessionOK, NEW c \in Clients, NEW j, IsCommand(c, j), Start(c, j)
  PROVE  SessionOK'
<1> USE DEF SessionOK, SessionTypeOK
<1>1. SessionTypeOK'
  BY DEF Start, Goto, dbVars, IsCommand, PCs
<1>2. TableIsTrue'
  BY RowsStayTrue DEF Start
<1>3. CliOK'
  BY DEF Start, Goto, CliOK
<1>4. \A e \in cli' : e.owner # None =>
        work'[e.owner].file = e.file /\ work'[e.owner].sum = e.sum
  BY DEF Start
<1>5. \A d \in Clients :
        /\ pc'[d] # "idle" => IsCommand(d, job'[d])
        /\ (pc[d] \in {"sql", "insert"} => IsWork(d))'
        /\ (IsMidPass(d) => left[d] \subseteq Scan(job[d].tree))'
  BY DEF Start, Goto, IsWork, IsMidPass
<1> QED
  BY <1>1, <1>2, <1>3, <1>4, <1>5

\* A command that waits for the lock, ends or dies.
LEMMA WaitKeepsSession ==
  ASSUME SessionOK, NEW c \in Clients,
         Acquire(c) \/ WaitTimeout(c) \/ Close(c) \/ Crash(c)
  PROVE  SessionOK'
<1> USE DEF SessionOK, SessionTypeOK
<1>1. SessionTypeOK'
  <2>1. CASE Acquire(c)
    BY <2>1 DEF Acquire, Goto, dbVars, PCs
  <2>2. CASE WaitTimeout(c) \/ Close(c)
    BY <2>2 DEF WaitTimeout, Close, Exit, Goto, dbVars, PCs
  <2>3. CASE Crash(c)
    <3>1. cli' \subseteq [owner : Owners, file : Files, sum : Sums]
      BY <2>3 DEF Crash, Owners
    <3> QED
      BY <2>3, <3>1 DEF Crash, Exit, Goto, dbVars, PCs
  <2> QED
    BY <2>1, <2>2, <2>3
<1>2. TableIsTrue'
  BY RowsStayTrue DEF Acquire, WaitTimeout, Close, Crash
<1>3. CASE Acquire(c)
  <2>1. CliOK'
    BY <1>3 DEF Acquire, Goto, CliOK
  <2> QED
    BY <1>1, <1>2, <1>3, <2>1 DEF Acquire, Goto, IsWork, IsMidPass
<1>4. CASE WaitTimeout(c) \/ Close(c)
  <2>1. \A e \in cli : e.owner # c
    BY <1>4, NoneAssumption DEF WaitTimeout, Close, CliOK
  <2>2. CliOK'
    BY <1>4, <2>1 DEF WaitTimeout, Close, Exit, Goto, CliOK, Owners
  <2>3. /\ pc'[c] = "idle" /\ UNCHANGED <<cli, ran>>
        /\ \A d \in Clients \ {c} : /\ pc'[d] = pc[d] /\ job'[d] = job[d]
                                    /\ left'[d] = left[d] /\ work'[d] = work[d]
    BY <1>4 DEF WaitTimeout, Close, Exit, Goto
  <2>4. \A d \in Clients : (pc[d] \in {"sql", "insert"} => IsWork(d))'
    BY <2>3, WorkStays
  <2> QED
    BY <1>1, <1>2, <2>1, <2>2, <2>3, <2>4 DEF IsMidPass, Owners
<1>5. CASE Crash(c)
  <2>1. CliOK'
    BY <1>5, NoneAssumption DEF Crash, Exit, Goto, CliOK, Owners
  <2>2. \A e \in cli' : e.owner # None =>
          work'[e.owner].file = e.file /\ work'[e.owner].sum = e.sum
    BY <1>5 DEF Crash, Exit, Owners
  <2> QED
    BY <1>1, <1>2, <1>5, <2>1, <2>2 DEF Crash, Exit, Goto, IsWork, IsMidPass
<1> QED
  BY <1>3, <1>4, <1>5

\* The steps of a pass that neither execute nor record.
LEMMA VisitKeepsSession ==
  ASSUME SessionOK, NEW c \in Clients,
         LoadRecords(c) \/ PassOver(c) \/ Refuse(c) \/ Finish(c)
  PROVE  SessionOK'
<1> USE DEF SessionOK, SessionTypeOK
<1>1. UNCHANGED <<dbVars, cli, job, work, ran>>
  BY DEF LoadRecords, PassOver, Refuse, Finish
<1>2. pc[c] \in {"load", "loop"} /\ job[c].cmd = "apply"
  BY DEF LoadRecords, PassOver, Refuse, Finish, Applying
<1>3. PICK to \in {"loop", "close"} : pc' = [pc EXCEPT ![c] = to]
  BY <1>2 DEF LoadRecords, PassOver, Refuse, Finish, AfterError, Applying, Goto
<1>4. PICK S \in SUBSET Files : /\ left' = [left EXCEPT ![c] = S]
                                /\ to = "loop" => S \subseteq Scan(job[c].tree)
  <2>1. CASE LoadRecords(c)
    BY <1>3, <2>1 DEF LoadRecords, Goto, Scan
  <2>2. CASE PassOver(c) \/ Refuse(c) \/ Finish(c)
    BY <1>2, <2>2 DEF PassOver, Refuse, Finish, Visited, Applying, IsMidPass
  <2> QED
    BY <2>1, <2>2
<1>5. SessionTypeOK'
  BY <1>1, <1>3, <1>4 DEF dbVars, PCs
<1>6. TableIsTrue'
  BY <1>1, RowsStayTrue
<1>7. CliOK'
  BY <1>1, <1>2, <1>3 DEF CliOK
<1> QED
  BY <1>1, <1>2, <1>3, <1>4, <1>5, <1>6, <1>7 DEF IsWork, IsMidPass

LEMMA ExecuteKeepsSession ==
  ASSUME SessionOK, NEW c \in Clients, Execute(c)
  PROVE  SessionOK'
<1> USE DEF SessionOK, SessionTypeOK
<1>1. PICK f \in left[c] : Spawn(c, f, job[c].tree[f])
  BY DEF Execute
<1> DEFINE s == job[c].tree[f]
           proc == [owner |-> c, file |-> f, sum |-> s]
           row == [file |-> f, sum |-> s, status |-> "running"]
<1>2. pc[c] = "loop" /\ job[c].cmd = "apply"
  BY DEF Execute, Applying
<1>3. f \in Files /\ s \in Sums /\ s = VersionOf[f]
  BY <1>1, <1>2, NoneAssumption DEF IsMidPass, IsCommand, IsOurs, Scan, Trees
<1>4. /\ cli' = cli \cup {proc}
      /\ work' = [work EXCEPT ![c] = row]
      /\ pc' = [pc EXCEPT ![c] = "sql"]
  BY <1>1 DEF Spawn, Goto
<1>5. /\ row \in Work /\ row.file = f /\ row.sum = s
      /\ proc \in [owner : Owners, file : Files, sum : Sums]
      /\ proc.owner = c /\ proc.file = f /\ proc.sum = s
  BY <1>3 DEF Work, Statuses, Owners
<1> HIDE DEF proc, row, s
<1>6. UNCHANGED <<dbVars, job, left, ran>>
  BY DEF Execute
<1>7. SessionTypeOK'
  BY <1>4, <1>5, <1>6 DEF dbVars, PCs
<1>8. TableIsTrue'
  BY <1>6, RowsStayTrue
<1>9. \A e \in cli : e.owner # c
  BY <1>2, NoneAssumption DEF CliOK
<1>10. CliOK'
  BY <1>4, <1>5, <1>9 DEF CliOK, Owners
<1>11. IsWork(c)'
  BY <1>2, <1>3, <1>4, <1>5, <1>6 DEF IsWork
<1> QED
  BY <1>2, <1>4, <1>5, <1>6, <1>7, <1>8, <1>9, <1>10, <1>11 DEF IsWork, IsMidPass, Owners

LEMMA RecordKeepsSession ==
  ASSUME SessionOK, NEW c \in Clients, RecordResult(c) \/ ResolveInsert(c)
  PROVE  SessionOK'
<1> USE DEF SessionOK, SessionTypeOK
<1>1. pc[c] = "insert" /\ IsWork(c)
  BY DEF RecordResult, Applying, ResolveInsert, Running
<1>2. work[c].file \in Files /\ work[c].sum \in Sums \cup {NoSum} /\ work[c].status \in Statuses
  BY <1>1 DEF IsWork, Work
<1>3. UNCHANGED <<cli, job, ran>>
  BY DEF RecordResult, ResolveInsert
<1>4. records' \in Seq(Row) /\ now' \in Nat /\ TableIsTrue'
  <2>1. CASE RecordResult(c)
    <3> DEFINE f == work[c].file
    <3>1. GroupOf[f] \in Groups \cup {None} /\ PhaseOf[f] \in Phases \cup {None}
      BY <1>2, FilesAssumption
    <3>2. InsertRow(f, work[c].sum, work[c].status, GroupOf[f], PhaseOf[f])
      BY <2>1 DEF RecordResult
    <3>3. work[c].sum = VersionOf[f] /\ work[c].status # "running"
          /\ (work[c].status = "applied" => <<f, work[c].sum>> \in ran)
      BY <1>1 DEF IsWork
    <3> QED
      BY <1>2, <1>3, <3>1, <3>2, <3>3, InsertKeepsRows
  <2>2. CASE ResolveInsert(c)
    <3>1. "skipped" \in Statuses
      BY DEF Statuses
    <3> QED
      BY <1>1, <1>2, <1>3, <2>2, <3>1, InsertKeepsRows DEF ResolveInsert, IsWork
  <2> QED
    BY <2>1, <2>2
<1>5. PICK to \in {"loop", "close"} : pc' = [pc EXCEPT ![c] = to]
  BY DEF RecordResult, ResolveInsert, AfterError, Goto
<1>6. PICK w \in Work \cup {None} : work' = [work EXCEPT ![c] = w]
  BY <1>1 DEF RecordResult, ResolveInsert, IsWork
<1>7. PICK S \in SUBSET left[c] : left' = [left EXCEPT ![c] = S]
  BY DEF RecordResult, ResolveInsert, Visited
<1>8. SessionTypeOK'
  BY <1>3, <1>4, <1>5, <1>6, <1>7 DEF PCs
<1>9. \A e \in cli : e.owner # c
  BY <1>1, NoneAssumption DEF CliOK
<1>10. CliOK'
  BY <1>3, <1>5, <1>9 DEF CliOK, Owners
<1>11. \A d \in Clients :
         /\ pc'[d] # "idle" => IsCommand(d, job'[d])
         /\ (pc[d] \in {"sql", "insert"} => IsWork(d))'
  BY <1>1, <1>3, <1>5, <1>6 DEF IsWork
<1>12. \A d \in Clients : (IsMidPass(d) => left[d] \subseteq Scan(job[d].tree))'
  BY <1>1, <1>3, <1>5, <1>7 DEF IsMidPass
<1>13. \A e \in cli' : e.owner # None =>
         work'[e.owner].file = e.file /\ work'[e.owner].sum = e.sum
  BY <1>3, <1>6, <1>9
<1> QED
  BY <1>4, <1>8, <1>10, <1>11, <1>12, <1>13

LEMMA ResolveKeepsSession ==
  ASSUME SessionOK, NEW c \in Clients, ResolveRead(c)
  PROVE  SessionOK'
<1> USE DEF SessionOK, SessionTypeOK
<1>1. UNCHANGED <<dbVars, cli, job, left, ran>>
  BY DEF ResolveRead
<1>2. pc[c] = "load" /\ job[c].cmd = "resolve" /\ job[c].file \in Files
  BY DEF ResolveRead, Running, IsCommand
<1>3. TableIsTrue'
  BY <1>1, RowsStayTrue
<1>4. \A e \in cli : e.owner # c
  BY <1>2, NoneAssumption DEF CliOK
<1> DEFINE f == job[c].file
           row == [file |-> f, sum |-> LatestRow(records, f).sum, status |-> "skipped"]
<1>5. CASE work' = [work EXCEPT ![c] = row] /\ pc' = [pc EXCEPT ![c] = "insert"]
           /\ RowsOf(records, f) # {}
  <2>1. PICK k \in DOMAIN records : records[k].file = f /\ LatestRow(records, f) = records[k]
    BY <1>2, <1>5, LatestIsInTable
  <2>2. row.sum = VersionOf[f] /\ row.sum \in Sums \cup {NoSum}
    BY <2>1, TableIsFunction, RowFields DEF TableIsTrue
  <2>3. row \in Work /\ row.file = f /\ row.status = "skipped"
    BY <1>2, <2>2 DEF Work, Statuses
  <2> HIDE DEF row
  <2>4. SessionTypeOK'
    BY <1>1, <1>5, <2>3 DEF dbVars, PCs
  <2>5. CliOK'
    BY <1>1, <1>4, <1>5 DEF CliOK, Owners
  <2>6. IsWork(c)'
    BY <1>1, <1>2, <1>5, <2>2, <2>3 DEF IsWork
  <2> QED
    BY <1>1, <1>2, <1>3, <1>4, <1>5, <2>4, <2>5, <2>6 DEF IsWork, IsMidPass, Owners
<1>6. CASE UNCHANGED work /\ pc' = [pc EXCEPT ![c] = "close"]
  <2>1. SessionTypeOK'
    BY <1>1, <1>6 DEF dbVars, PCs
  <2>2. CliOK'
    BY <1>1, <1>4, <1>6 DEF CliOK, Owners
  <2> QED
    BY <1>1, <1>2, <1>3, <1>6, <2>1, <2>2 DEF IsWork, IsMidPass
<1> QED
  BY <1>5, <1>6 DEF ResolveRead, Goto

LEMMA SqlEndKeepsSession ==
  ASSUME SessionOK, NEW o \in Owners, SqlEndsOf(o)
  PROVE  SessionOK'
<1> USE DEF SessionOK, SessionTypeOK
<1>1. PICK e \in cli : e.owner = o /\ SqlEnds(e)
  BY DEF SqlEndsOf
<1>2. cli' = cli \ {e} /\ \A d \in cli' : d.owner # None => d.owner # o
  BY <1>1 DEF SqlEnds, CliOK
<1>3. UNCHANGED <<dbVars, job, left>>
  BY <1>1 DEF SqlEnds
<1>4. PICK status \in {"applied", "failed"} :
        /\ ran' = IF status = "applied" THEN ran \cup {<<e.file, e.sum>>} ELSE ran
        /\ IF o = None
             THEN UNCHANGED <<pc, work>>
             ELSE /\ work' = [work EXCEPT ![o].status = status]
                  /\ pc' = [pc EXCEPT ![o] = "insert"]
  BY <1>1 DEF SqlEnds, Goto
<1>5. TableIsTrue'
  BY <1>3, <1>4, RowsStayTrue
<1>6. ran' \subseteq Files \X Sums
  BY <1>4
<1>7. CASE o = None
  <2>1. SessionTypeOK' /\ CliOK'
    BY <1>2, <1>3, <1>4, <1>6, <1>7 DEF dbVars, CliOK
  <2> QED
    BY <1>2, <1>3, <1>4, <1>5, <1>7, <2>1 DEF IsWork, IsMidPass
<1>8. CASE o # None
  <2>1. o \in Clients /\ pc[o] = "sql" /\ IsWork(o)
        /\ work[o].file = e.file /\ work[o].sum = e.sum
    BY <1>1, <1>8 DEF CliOK, Owners
  <2>2. /\ work'[o] = [work[o] EXCEPT !.status = status]
        /\ \A d \in Clients \ {o} : work'[d] = work[d] /\ pc'[d] = pc[d]
        /\ pc'[o] = "insert"
    BY <1>4, <1>8, <2>1
  <2>3. work'[o] \in Work /\ work'[o].file = e.file /\ work'[o].sum = e.sum
        /\ work'[o].status = status
    BY <2>1, <2>2 DEF IsWork, Work, Statuses
  <2>4. SessionTypeOK'
    BY <1>2, <1>3, <1>4, <1>6, <1>8, <2>1, <2>3 DEF dbVars, PCs
  <2>5. CliOK'
    BY <1>2, <2>1, <2>2 DEF CliOK, Owners
  <2>6. IsWork(o)'
    BY <1>3, <1>4, <2>1, <2>2, <2>3 DEF IsWork
  <2>7. \A d \in cli' : d.owner # None =>
          work'[d.owner].file = d.file /\ work'[d.owner].sum = d.sum
    BY <1>2, <2>2 DEF Owners
  <2>8. \A d \in Clients : (pc[d] \in {"sql", "insert"} => IsWork(d))'
    <3> SUFFICES ASSUME NEW d \in Clients \ {o}
                 PROVE  (pc[d] \in {"sql", "insert"} => IsWork(d))'
      BY <2>6
    <3> QED
      BY <1>3, <1>4, <2>2, WorkStays
  <2>9. \A d \in Clients : IsMidPass(d)' => IsMidPass(d)
    BY <1>3, <2>1, <2>2 DEF IsWork, IsMidPass
  <2>10. \A d \in Clients : pc'[d] # "idle" => pc[d] # "idle"
    BY <2>1, <2>2
  <2> QED
    BY <1>3, <1>5, <2>4, <2>5, <2>7, <2>8, <2>9, <2>10
<1> QED
  BY <1>7, <1>8

LEMMA HistoryKeepsSession ==
  ASSUME SessionOK, UNCHANGED <<dbVars, cli, pc, job, left, work>>,
         ran \subseteq ran', ran' \subseteq Files \X Sums
  PROVE  SessionOK'
<1>1. TableIsTrue'
  BY RowsStayTrue
<1> QED
  BY <1>1 DEF SessionOK, SessionTypeOK, CliOK, IsWork, IsMidPass, dbVars

LEMMA ClosingKeepsSession ==
  ASSUME SessionOK, NEW c \in Clients, pc[c] = "load", Goto(c, "close"),
         UNCHANGED <<dbVars, cli, job, left, work, ran>>
  PROVE  SessionOK'
<1>1. TableIsTrue'
  BY RowsStayTrue
<1>2. SessionTypeOK'
  BY DEF SessionOK, SessionTypeOK, Goto, PCs, dbVars
<1> QED
  BY <1>1, <1>2, NoneAssumption DEF SessionOK, SessionTypeOK, CliOK, IsWork, IsMidPass, Goto, Owners

\* A command that is not one of a group applies or resolves.
LEMMA StepKeepsSession ==
  ASSUME SessionOK, NEW c \in Clients, Step(c)
  PROVE  SessionOK'
<1>1. pc[c] # "idle" => job[c].cmd \in {"apply", "resolve", "baseline"}
  BY DEF SessionOK, IsCommand
<1>2. ~AdvanceRead(c) /\ ~ApplyPhaseRead(c) /\ ~PhaseInsert(c)
  BY <1>1 DEF AdvanceRead, ApplyPhaseRead, PhaseInsert, Running
<1> QED
  BY <1>2, WaitKeepsSession, VisitKeepsSession, ExecuteKeepsSession, RecordKeepsSession,
     ResolveKeepsSession
     DEF Step, ApplyStep, OperatorStep

-----------------------------------------------------------------------------
(* The maintainer's command                                                *)

Dumps == [objects : SUBSET (Files \X Sums), intact : BOOLEAN]

\* Where the command is, beside pc, and that it has the lock.
StageOK ==
  /\ disk \subseteq Files
  /\ dump \in Dumps \cup {None}
  /\ included \subseteq {Version(f) : f \in Files}
  /\ stage \in Stages
  /\ report \in [drift : BOOLEAN, base : BOOLEAN, applied : BOOLEAN, errors : BOOLEAN]
  /\ fresh \in BOOLEAN
  /\ stage \in {"none", "redump", "write"} <=> pc[m] = "idle"
  /\ stage \in {"base", "rows", "pass"} => job[m].cmd = "apply"
  /\ stage \in {"base", "rows"} => pc[m] \in {"lock", "load"}
  /\ stage \in {"decide", "schema", "metadata", "remove"} =>
       job[m].cmd = "baseline" /\ pc[m] \in {"lock", "load", "close"}
  /\ stage \in {"rows", "schema", "metadata", "remove"} => pc[m] # "lock"
  /\ HasLock /\ pc[m] \notin {"idle", "lock"} => holder = m

\* What baselines include is in schema.sql, in what is about to become it, and,
\* while a command counts on it, in the database; what a baseline is about to
\* record or remove is in the text before.
KeptOK ==
  /\ IF dump = None THEN included = {} ELSE included \subseteq dump.objects
  /\ \A f \in Files \ disk : Version(f) \in included
  /\ stage \in {"rows", "decide", "redump"} \/ report.drift => included \subseteq ran
  /\ stage \in {"none", "decide", "schema", "metadata", "remove"} => ~report.drift
  /\ stage = "rows" => todo \subseteq included
  /\ stage \in {"schema", "write"} => text \in Dumps /\ included \subseteq text.objects
  /\ stage \in {"schema", "metadata", "remove"} => todo \subseteq Files
  /\ stage = "schema" => \A f \in todo : Version(f) \in text.objects
  /\ stage = "metadata" => dump # None /\ \A f \in todo : Version(f) \in dump.objects
  /\ stage = "remove" => \A f \in todo : Version(f) \in included

CheckoutInv == SessionOK /\ StageOK /\ KeptOK

LEMMA CheckoutInvInit == CheckoutInit => CheckoutInv
<1> SUFFICES ASSUME CheckoutInit PROVE CheckoutInv
  OBVIOUS
<1>1. SessionOK
  BY SessionInit DEF CheckoutInit
<1>2. StageOK
  BY CheckoutAssumption DEF CheckoutInit, Init, StageOK, Stages, NoReport, m
<1>3. KeptOK
  BY DEF CheckoutInit, KeptOK, NoReport
<1> QED
  BY <1>1, <1>2, <1>3 DEF CheckoutInv

LEMMA VersionFields == \A f \in Files : Version(f)[1] = f /\ Version(f)[2] = VersionOf[f]
                                        /\ Version(f) \in Files \X Sums
BY CheckoutAssumption DEF Version

LEMMA MaintainerCommands ==
  /\ IsCommand(m, [cmd |-> "apply", tree |-> Tree])
  /\ \A keep \in KeepSince : IsCommand(m, [cmd |-> "baseline", keep |-> keep])
<1>1. Tree \in Trees /\ \A f \in Scan(Tree) : Tree[f] = VersionOf[f]
  BY CheckoutAssumption DEF Tree, Trees, Scan
<1> DEFINE j == [cmd |-> "apply", tree |-> Tree]
<1>3. j \in [cmd : {"apply"}, tree : Trees] /\ j.cmd = "apply" /\ j.tree = Tree
  BY <1>1
<1>4. ASSUME NEW keep \in KeepSince
      PROVE  IsCommand(m, [cmd |-> "baseline", keep |-> keep])
  BY DEF IsCommand, Commands
<1> QED
  BY <1>1, <1>3, <1>4 DEF IsCommand, Commands, IsOurs

\* Nobody advances a group where there is none.
LEMMA OtherCommands ==
  ASSUME HasNoGroups, VersionsAgree, NEW c \in Clients \ {m}, NEW j \in Jobs
  PROVE  IsCommand(c, j)
<1>1. j.cmd \in {"apply", "resolve"}
  BY JobFields, JobsAssumption DEF HasNoGroups
<1> QED
  BY <1>1, JobFields DEF VersionsAgree, IsCommand, Commands, IsOurs

LEMMA SessionNext ==
  ASSUME HasNoGroups, VersionsAgree, CheckoutInv, [CheckoutNext]_<<vars, checkoutVars>>
  PROVE  SessionOK'
<1> USE DEF CheckoutInv
<1> m \in Clients
  BY CheckoutAssumption DEF m
<1>1. ASSUME UNCHANGED vars PROVE SessionOK'
  BY <1>1, HistoryKeepsSession DEF vars, clientVars, SessionOK, SessionTypeOK
<1>2. CASE OtherStep
  BY <1>2, OtherCommands, StartKeepsSession, WaitKeepsSession, StepKeepsSession,
     SqlEndKeepsSession
     DEF OtherStep
<1>3. ASSUME NEW option, StartApply(option) PROVE SessionOK'
  BY <1>3, MaintainerCommands, StartKeepsSession DEF StartApply
<1>4. ASSUME NEW keep \in KeepSince, StartBaseline(keep) PROVE SessionOK'
  BY <1>4, MaintainerCommands, StartKeepsSession DEF StartBaseline
<1>5. CASE Acquire(m) \/ WaitTimeout(m) \/ CloseCommand \/ Crash(m)
  BY <1>5, WaitKeepsSession DEF CloseCommand
<1>6. CASE Pass
  BY <1>6, StepKeepsSession DEF Pass, Step, ApplyStep
<1>7. CASE ApplyBaseline
  <2>1. ran \subseteq ran'
    BY <1>7 DEF ApplyBaseline
  <2>2. ran' \subseteq Files \X Sums
    BY <1>7 DEF ApplyBaseline, IsExecutable, Leftovers, StageOK, SessionOK, SessionTypeOK, Dumps
  <2> QED
    BY <1>7, <2>1, <2>2, HistoryKeepsSession DEF ApplyBaseline, clientVars
<1>8. CASE RecordBaselined
  <2>1. PICK p \in todo : InsertRow(p[1], p[2], "applied", None, None)
    BY <1>8 DEF RecordBaselined
  <2>2. p \in included /\ p \in ran
    BY <1>8 DEF RecordBaselined, KeptOK
  <2>3. PICK f \in Files : p = Version(f)
    BY <2>2 DEF StageOK
  <2>4. UNCHANGED <<cli, pc, job, left, work, ran>>
    BY <1>8 DEF RecordBaselined, clientVars
  <2>5. VersionOf[f] \in Sums \cup {NoSum} /\ "applied" \in Statuses
    BY CheckoutAssumption DEF Statuses
  <2>6. InsertRow(f, VersionOf[f], "applied", None, None) /\ <<f, VersionOf[f]>> \in ran
    BY <2>1, <2>2, <2>3, VersionFields DEF Version
  <2>7. records' \in Seq(Row) /\ now' \in Nat /\ TableIsTrue'
    BY <2>4, <2>5, <2>6, InsertKeepsRows
  <2> QED
    BY <2>4, <2>7 DEF SessionOK, SessionTypeOK, CliOK, IsWork, IsMidPass
<1>9. CASE Decide
  <2>1. CASE UNCHANGED pc
    BY <1>9, <2>1, HistoryKeepsSession DEF Decide, SessionOK, SessionTypeOK
  <2>2. CASE Goto(m, "close")
    BY <1>9, <2>2, ClosingKeepsSession DEF Decide
  <2> QED
    BY <1>9, <2>1, <2>2 DEF Decide
<1>10. CASE RemoveFile
  <2>1. CASE UNCHANGED pc
    BY <1>10, <2>1, HistoryKeepsSession DEF RemoveFile, SessionOK, SessionTypeOK
  <2>2. CASE Goto(m, "close")
    BY <1>10, <2>2, ClosingKeepsSession DEF RemoveFile
  <2> QED
    BY <1>10, <2>1, <2>2 DEF RemoveFile
<1>11. CASE StartDump \/ Die
  BY <1>11, HistoryKeepsSession DEF StartDump, Die, clientVars, SessionOK, SessionTypeOK
<1>12. CASE NewDatabase
  BY <1>12 DEF NewDatabase, clientVars, SessionOK, SessionTypeOK, CliOK, IsMidPass, TableIsTrue
<1> QED
  BY <1>1, <1>2, <1>3, <1>4, <1>5, <1>6, <1>7, <1>8, <1>9, <1>10, <1>11, <1>12
     DEF CheckoutNext, MaintainerStep, TakeDump, WriteDump, WriteSchema, SaveMetadata,
         CheckoutFinished, Finished

-----------------------------------------------------------------------------
(* Every step keeps what is included                                       *)

\* What the commands of others, and the CLI processes, leave to the maintainer.
LEMMA OthersLeave ==
  ASSUME SessionOK, OtherStep
  PROVE  /\ UNCHANGED <<checkoutVars, job[m]>>
         /\ ran \subseteq ran'
         /\ pc'[m] = pc[m] \/ (pc[m] = "sql" /\ job[m].cmd = "apply" /\ pc'[m] = "insert")
         /\ HasLock /\ holder = m => holder' = m
<1> m \in Clients /\ None # m
  BY CheckoutAssumption, NoneAssumption DEF m
<1> USE DEF SessionOK, SessionTypeOK
<1>1. UNCHANGED checkoutVars
  BY DEF OtherStep
<1>2. ASSUME NEW c \in Clients \ {m}, NEW j \in Jobs, Start(c, j)
      PROVE  /\ UNCHANGED <<job[m], ran, pc[m]>>
             /\ HasLock /\ holder = m => holder' = m
  BY <1>2 DEF Start, Goto
<1>3. ASSUME NEW c \in Clients \ {m}, Acquire(c) \/ WaitTimeout(c) \/ Close(c) \/ Crash(c)
      PROVE  /\ UNCHANGED <<job[m], ran, pc[m]>>
             /\ HasLock /\ holder = m => holder' = m
  BY <1>3 DEF Acquire, WaitTimeout, Close, Crash, Released, Exit, Goto
<1>4. ASSUME NEW c \in Clients \ {m}, ApplyStep(c) \/ OperatorStep(c)
      PROVE  /\ UNCHANGED <<job[m], ran, pc[m]>>
             /\ HasLock /\ holder = m => holder' = m
  BY <1>4 DEF ApplyStep, LoadRecords, PassOver, Refuse, Execute, RecordResult, Finish,
              AfterError, OperatorStep, ResolveRead, ResolveInsert, AdvanceRead,
              ApplyPhaseRead, PhaseInsert, Spawn, Goto
<1>5. ASSUME NEW o \in Owners, SqlEndsOf(o)
      PROVE  /\ UNCHANGED <<job[m], holder>> /\ ran \subseteq ran'
             /\ pc'[m] = pc[m] \/ (pc[m] = "sql" /\ job[m].cmd = "apply" /\ pc'[m] = "insert")
  <2>1. PICK e \in cli : e.owner = o /\ SqlEnds(e)
    BY <1>5 DEF SqlEndsOf
  <2>2. UNCHANGED <<job, holder>> /\ ran \subseteq ran'
    BY <2>1 DEF SqlEnds
  <2>3. pc' = pc \/ (pc' = [pc EXCEPT ![o] = "insert"] /\ o # None)
    BY <2>1 DEF SqlEnds, Goto
  <2>4. o = m => pc[m] = "sql" /\ job[m].cmd = "apply"
    BY <2>1 DEF CliOK, IsWork
  <2> QED
    BY <2>2, <2>3, <2>4 DEF Owners
<1> QED
  BY <1>1, <1>2, <1>3, <1>4, <1>5 DEF OtherStep, Step

\* The same of the maintainer's pass.
LEMMA PassLeaves ==
  ASSUME SessionOK, Pass
  PROVE  /\ UNCHANGED <<disk, dump, included, stage, text, todo, fresh, job, holder, ran>>
         /\ pc[m] \in {"load", "loop", "insert"} /\ job[m].cmd = "apply"
         /\ pc'[m] \in {"loop", "sql", "close"}
<1> m \in Clients
  BY CheckoutAssumption DEF m
<1> USE DEF SessionOK, SessionTypeOK
<1>1. CASE LoadRecords(m) \/ PassOver(m) \/ Refuse(m) \/ Finish(m)
  BY <1>1 DEF Pass, LoadRecords, PassOver, Refuse, Finish, Applying, AfterError, Goto
<1>2. CASE Execute(m) \/ RecordResult(m)
  BY <1>2 DEF Pass, Execute, RecordResult, Applying, AfterError, Spawn, Goto
<1> QED
  BY <1>1, <1>2 DEF Pass

\* The report says whether there was an error; the options stay.
LEMMA PassReports ==
  ASSUME StageOK, Pass
  PROVE  /\ report' \in [drift : BOOLEAN, base : BOOLEAN, applied : BOOLEAN, errors : BOOLEAN]
         /\ report'.drift = report.drift /\ report'.base = report.base
         /\ ~report'.errors => ~report.errors
BY DEF Pass, StageOK

LEMMA StageNext ==
  ASSUME CheckoutInv, [CheckoutNext]_<<vars, checkoutVars>>
  PROVE  StageOK'
<1> USE DEF CheckoutInv, StageOK
<1> m \in Clients /\ None # m
  BY CheckoutAssumption, NoneAssumption DEF m
<1>0. pc \in [Clients -> PCs] /\ job \in [Clients -> Commands \cup {None}]
  BY DEF SessionOK, SessionTypeOK
<1>1. CASE OtherStep
  BY <1>1, OthersLeave DEF checkoutVars, memory
<1>2. CASE Pass
  BY <1>2, PassLeaves, PassReports DEF Pass
<1>3. ASSUME NEW option \in ApplyOptions, StartApply(option) PROVE StageOK'
  <2>1. option.drift \in BOOLEAN /\ option.base \in BOOLEAN
    BY CheckoutAssumption
  <2>2. report' = [NoReport EXCEPT !.drift = option.drift, !.base = option.base]
    BY <1>3 DEF StartApply
  <2>3. report' \in [drift : BOOLEAN, base : BOOLEAN, applied : BOOLEAN, errors : BOOLEAN]
    BY <2>1, <2>2 DEF NoReport
  <2>4. pc'[m] = "lock" /\ job'[m].cmd = "apply"
    BY <1>0, <1>3 DEF StartApply, Start, Goto
  <2> QED
    BY <1>3, <2>3, <2>4 DEF StartApply, Start, Stages
<1>4. ASSUME NEW keep \in KeepSince, StartBaseline(keep) PROVE StageOK'
  BY <1>0, <1>4 DEF StartBaseline, Start, Goto, Stages
<1>5. CASE Acquire(m) /\ UNCHANGED checkoutVars
  BY <1>0, <1>5 DEF Acquire, Goto, checkoutVars, memory
<1>6. CASE (WaitTimeout(m) \/ Crash(m) \/ Die) /\ Forget /\ UNCHANGED <<disk, dump, included, fresh>>
  <2>1. pc'[m] = "idle" /\ stage' = "none" /\ report' = NoReport
    BY <1>0, <1>6 DEF WaitTimeout, Crash, Die, Exit, Goto, clientVars, Forget
  <2> QED
    BY <1>6, <2>1 DEF NoReport, Stages
<1>7. CASE CloseCommand
  <2>1. /\ pc'[m] = "idle"
        /\ \/ stage' = "redump" /\ UNCHANGED report
           \/ stage' = "none" /\ report' = NoReport
    BY <1>0, <1>7 DEF CloseCommand, Close, Exit, Goto, Forget
  <2>2. UNCHANGED <<disk, dump, included, fresh>>
    BY <1>7 DEF CloseCommand
  <2>3. CASE stage' = "redump" /\ UNCHANGED report
    BY <2>1, <2>2, <2>3 DEF Stages
  <2>4. CASE stage' = "none" /\ report' = NoReport
    BY <2>1, <2>2, <2>4 DEF NoReport, Stages
  <2> QED
    BY <2>1, <2>3, <2>4
<1>8. CASE StartDump \/ TakeDump
  BY <1>8 DEF StartDump, TakeDump, vars, clientVars, Stages
<1>9. CASE WriteDump
  BY <1>9 DEF WriteDump, vars, clientVars, Stages, Forget, NoReport, KeptOK
<1>10. CASE ApplyBaseline
  BY <1>10 DEF ApplyBaseline, BaselineSucceeds, BaselineFails, clientVars, Stages
<1>11. CASE RecordBaselined
  BY <1>11 DEF RecordBaselined, clientVars, Stages
<1>12. CASE Decide
  BY <1>0, <1>12 DEF Decide, Goto, Stages
<1>13. CASE WriteSchema
  <2>1. text \in Dumps
    BY <1>13 DEF WriteSchema, KeptOK
  <2>2. dump' \in Dumps
    BY <1>13, <2>1 DEF WriteSchema, Dumps
  <2> QED
    BY <1>13, <2>2 DEF WriteSchema, vars, clientVars, Stages
<1>14. CASE SaveMetadata
  <2>1. todo \subseteq Files
    BY <1>14 DEF SaveMetadata, KeptOK
  <2> QED
    BY <1>14, <2>1 DEF SaveMetadata, vars, clientVars, Stages
<1>15. CASE RemoveFile
  BY <1>0, <1>15 DEF RemoveFile, Goto
<1>16. CASE NewDatabase
  BY <1>16 DEF NewDatabase, clientVars, memory
<1>17. CASE UNCHANGED <<vars, checkoutVars>>
  BY <1>17 DEF vars, clientVars, checkoutVars, memory
<1> QED
  BY <1>1, <1>2, <1>3, <1>4, <1>5, <1>6, <1>7, <1>8, <1>9, <1>10, <1>11, <1>12, <1>13,
     <1>14, <1>15, <1>16, <1>17
     DEF CheckoutNext, MaintainerStep, CheckoutFinished, Finished

\* What baseline decides to fold has been executed as the checkout has it.
LEMMA DecidedIsRun ==
  ASSUME SessionOK, NEW f \in Files, IsLatestApplied(f)
  PROVE  Version(f) \in ran
<1>1. PICK k \in DOMAIN records : records[k].file = f /\ LatestRow(records, f) = records[k]
  BY LatestIsInTable DEF IsLatestApplied
<1> QED
  BY <1>1 DEF IsLatestApplied, SessionOK, TableIsTrue, Version

LEMMA KeptNext ==
  ASSUME HasNoGroups, CheckoutInv, [CheckoutNext]_<<vars, checkoutVars>>
  PROVE  KeptOK'
<1> USE DEF CheckoutInv, KeptOK
<1> m \in Clients /\ None # m
  BY CheckoutAssumption, NoneAssumption DEF m
<1>0. pc \in [Clients -> PCs] /\ ran \subseteq Files \X Sums
  BY DEF SessionOK, SessionTypeOK
<1>1. CASE OtherStep
  BY <1>1, OthersLeave DEF checkoutVars, memory
<1>2. CASE Pass
  BY <1>2, PassLeaves, PassReports DEF Pass
<1>3. ASSUME NEW option \in ApplyOptions, StartApply(option) PROVE KeptOK'
  <2>1. report'.drift = option.drift /\ stage' \in {"base", "pass"}
    BY <1>3 DEF StartApply, NoReport
  <2>2. option.drift => included \subseteq ran
    BY <1>3 DEF StartApply, IsInSync, DumpOf
  <2> QED
    BY <1>3, <2>1, <2>2 DEF StartApply, Start
<1>4. ASSUME NEW keep \in KeepSince, StartBaseline(keep) PROVE KeptOK'
  BY <1>4 DEF StartBaseline, IsCurrent, Start
<1>5. CASE Acquire(m) /\ UNCHANGED checkoutVars
  BY <1>5 DEF Acquire, checkoutVars, memory
<1>6. CASE (WaitTimeout(m) \/ Crash(m) \/ Die) /\ Forget /\ UNCHANGED <<disk, dump, included, fresh>>
  BY <1>6 DEF Forget, NoReport
<1>7. CASE CloseCommand
  BY <1>7 DEF CloseCommand, Close, Forget, NoReport
<1>8. CASE StartDump
  BY <1>8 DEF StartDump, IsCurrent
<1>9. CASE TakeDump
  <2>1. text' \in Dumps /\ text'.objects = ran
    BY <1>0, <1>9 DEF TakeDump, DumpOf, Dumps
  <2> QED
    BY <1>9, <2>1 DEF TakeDump, vars
<1>10. CASE WriteDump
  <2>1. dump' = text /\ text # None
    BY <1>10, CheckoutAssumption DEF WriteDump, Dumps
  <2> QED
    BY <1>10, <2>1 DEF WriteDump, Forget, NoReport
<1>11. CASE ApplyBaseline
  <2>1. stage' \in {"rows", "pass"} /\ report'.drift = report.drift /\ ran \subseteq ran'
    BY <1>11 DEF ApplyBaseline, BaselineSucceeds, BaselineFails, StageOK
  <2>2. stage' = "rows" => included \subseteq ran' /\ todo' = included
    BY <1>11 DEF ApplyBaseline, BaselineSucceeds, BaselineFails, IsExecutable
  <2> QED
    BY <1>11, <2>1, <2>2 DEF ApplyBaseline
<1>12. CASE RecordBaselined
  BY <1>12 DEF RecordBaselined, StageOK
<1>13. CASE Decide
  <2>1. CASE UNCHANGED <<stage, text, todo>>
    BY <1>13, <2>1 DEF Decide
  <2>2. CASE stage' = "schema" /\ text' = DumpOf /\ todo' \subseteq disk
             /\ \A f \in todo' : IsLatestApplied(f)
    <3>1. text' \in Dumps /\ text'.objects = ran
      BY <1>0, <2>2 DEF DumpOf, Dumps
    <3>2. todo' \subseteq Files
      BY <2>2 DEF StageOK
    <3>3. \A f \in todo' : Version(f) \in ran
      BY <2>2, <3>2, DecidedIsRun
    <3> QED
      BY <1>13, <2>2, <3>1, <3>2, <3>3 DEF Decide
  <2> QED
    BY <1>13, <2>1, <2>2 DEF Decide
<1>14. CASE WriteSchema
  <2>1. dump'.objects = text.objects /\ dump' \in Dumps
    BY <1>14 DEF WriteSchema, Dumps
  <2>2. dump' # None
    BY <2>1, CheckoutAssumption DEF Dumps
  <2> QED
    BY <1>14, <2>1, <2>2 DEF WriteSchema, vars
<1>15. CASE SaveMetadata
  BY <1>15 DEF SaveMetadata, vars
<1>16. CASE RemoveFile
  <2>1. PICK f \in todo : disk' = disk \ {f} /\ todo' = todo \ {f}
    BY <1>16 DEF RemoveFile, HasNoGroups
  <2> QED
    BY <1>16, <2>1 DEF RemoveFile
<1>17. CASE NewDatabase
  BY <1>17 DEF NewDatabase, memory
<1>18. CASE UNCHANGED <<vars, checkoutVars>>
  BY <1>18 DEF vars, checkoutVars, memory
<1> QED
  BY <1>1, <1>2, <1>3, <1>4, <1>5, <1>6, <1>7, <1>8, <1>9, <1>10, <1>11, <1>12, <1>13,
     <1>14, <1>15, <1>16, <1>17, <1>18
     DEF CheckoutNext, MaintainerStep, CheckoutFinished, Finished

-----------------------------------------------------------------------------
(* The lock and the clock beside the maintainer's commands                 *)

LEMMA LockKept ==
  ASSUME CheckoutInv, LockHeld, [CheckoutNext]_<<vars, checkoutVars>>
  PROVE  LockHeld'
<1> SUFFICES ASSUME HasLock, NEW d \in Clients, IsInLock(d)' PROVE holder' = d
  BY DEF LockHeld, HasLock
<1> m \in Clients
  BY CheckoutAssumption DEF m
<1> USE NoneAssumption DEF CheckoutInv, SessionOK, SessionTypeOK, LockHeld, IsInLock, Locks
<1>1. ASSUME NEW c \in Clients, NEW j, Start(c, j) PROVE holder' = d
  BY <1>1 DEF Start, Goto
<1>2. ASSUME NEW c \in Clients, Acquire(c) \/ WaitTimeout(c) \/ Close(c) \/ Crash(c)
      PROVE  holder' = d
  BY <1>2 DEF Acquire, WaitTimeout, Close, Crash, Released, Exit, Goto
<1>3. ASSUME NEW c \in Clients, ApplyStep(c) PROVE holder' = d
  BY <1>3 DEF ApplyStep, LoadRecords, PassOver, Refuse, Execute, RecordResult, Finish,
              Applying, AfterError, Spawn, Goto
<1>4. ASSUME NEW c \in Clients, OperatorStep(c) PROVE holder' = d
  BY <1>4 DEF OperatorStep, ResolveRead, ResolveInsert, AdvanceRead, ApplyPhaseRead,
              PhaseInsert, Running, Spawn, Goto
<1>5. ASSUME NEW o \in Owners, SqlEndsOf(o) PROVE holder' = d
  BY <1>5 DEF SqlEndsOf, SqlEnds, CliOK, Goto, Owners
<1>6. ASSUME UNCHANGED <<holder, job>>, UNCHANGED pc \/ (pc[m] = "load" /\ Goto(m, "close"))
      PROVE  holder' = d
  BY <1>6 DEF Goto
<1>7. CASE OtherStep
  BY <1>1, <1>2, <1>3, <1>4, <1>5, <1>7 DEF OtherStep, Step
<1>8. CASE Pass
  BY <1>3, <1>8 DEF Pass, ApplyStep
<1>9. CASE ApplyBaseline \/ RecordBaselined \/ StartDump \/ Die \/ NewDatabase
  BY <1>6, <1>9 DEF ApplyBaseline, RecordBaselined, StartDump, Die, NewDatabase, clientVars
<1>10. CASE Decide \/ RemoveFile
  BY <1>6, <1>10 DEF Decide, RemoveFile
<1>11. CASE UNCHANGED vars
  BY <1>6, <1>11 DEF vars, clientVars
<1> QED
  BY <1>1, <1>2, <1>7, <1>8, <1>9, <1>10, <1>11
     DEF CheckoutNext, MaintainerStep, StartApply, StartBaseline, CloseCommand, TakeDump,
         WriteDump, WriteSchema, SaveMetadata, CheckoutFinished, Finished

\* The steps of the composition are steps of the commands, but for those that
\* only a maintainer takes; of these one inserts rows, and one begins anew.
LEMMA CheckoutInserts ==
  ASSUME [CheckoutNext]_<<vars, checkoutVars>>
  PROVE  \/ UNCHANGED dbVars
         \/ \E f, s, status, g, ph : InsertRow(f, s, status, g, ph)
         \/ records' = << >> /\ now' = 0
<1> m \in Clients
  BY CheckoutAssumption DEF m
<1>1. CASE OtherStep
  BY <1>1, NextInserts DEF OtherStep, Next
<1>2. CASE Pass
  BY <1>2, NextInserts DEF Pass, Next, Step, ApplyStep
<1>3. CASE RecordBaselined
  BY <1>3 DEF RecordBaselined
<1>4. CASE NewDatabase
  BY <1>4 DEF NewDatabase
<1> QED
  BY <1>1, <1>2, <1>3, <1>4
     DEF CheckoutNext, MaintainerStep, StartDump, TakeDump, WriteDump, StartApply, StartBaseline,
         Start, Acquire, ApplyBaseline, CloseCommand, Close, Decide, WriteSchema, SaveMetadata,
         RemoveFile, WaitTimeout, Crash, Die, CheckoutFinished, Finished, vars, dbVars

LEMMA ClockKept ==
  ASSUME CheckoutInv, ClockOK, [CheckoutNext]_<<vars, checkoutVars>>
  PROVE  ClockOK'
<1>1. CASE UNCHANGED dbVars
  BY <1>1 DEF ClockOK, dbVars
<1>2. CASE records' = << >>
  BY <1>2 DEF ClockOK
<1> QED
  BY <1>1, <1>2, CheckoutInserts, InsertKeepsClock DEF CheckoutInv, SessionOK, SessionTypeOK

ViewTypeOK == snap \in [Clients -> Nat] /\ blocked \in [Clients -> SUBSET Files]

LEMMA ViewTypeKept ==
  ASSUME CheckoutInv, ViewTypeOK, [CheckoutNext]_<<vars, checkoutVars>>
  PROVE  ViewTypeOK'
<1> m \in Clients
  BY CheckoutAssumption DEF m
<1>1. ASSUME UNCHANGED <<snap, blocked>> PROVE ViewTypeOK'
  BY <1>1 DEF ViewTypeOK
<1>2. ASSUME NEW c \in Clients, WaitTimeout(c) \/ Close(c) \/ Crash(c) PROVE ViewTypeOK'
  BY <1>2 DEF WaitTimeout, Close, Crash, Exit, ViewTypeOK
<1>3. ASSUME NEW c \in Clients, ApplyStep(c) PROVE ViewTypeOK'
  <2>1. UNCHANGED snap \/ snap' = [snap EXCEPT ![c] = Len(records)]
    BY <1>3 DEF ApplyStep, LoadRecords, PassOver, Refuse, Execute, RecordResult, Finish
  <2>2. \/ UNCHANGED blocked
        \/ \E f : blocked' = [blocked EXCEPT
                     ![c] = @ \cup TransitiveDependents(GraphOf(job[c].tree), f)]
    BY <1>3 DEF ApplyStep, LoadRecords, PassOver, Refuse, Execute, RecordResult, Finish,
                AfterError
  <2>3. Len(records) \in Nat
    BY TableIsFunction DEF CheckoutInv, SessionOK
  <2> QED
    BY <2>1, <2>2, <2>3, DependentsAreFiles DEF ViewTypeOK
<1>4. ASSUME NEW c \in Clients, OperatorStep(c) PROVE ViewTypeOK'
  BY <1>1, <1>4 DEF OperatorStep, ResolveRead, ResolveInsert, AdvanceRead, ApplyPhaseRead,
                    PhaseInsert
<1>5. CASE OtherStep
  BY <1>1, <1>2, <1>3, <1>4, <1>5 DEF OtherStep, Start, Acquire, Step, SqlEndsOf, SqlEnds
<1>6. CASE Pass
  BY <1>3, <1>6 DEF Pass, ApplyStep
<1> QED
  BY <1>1, <1>2, <1>5, <1>6
     DEF CheckoutNext, MaintainerStep, StartDump, TakeDump, WriteDump, StartApply, StartBaseline,
         Start, Acquire, ApplyBaseline, RecordBaselined, CloseCommand, Decide, WriteSchema,
         SaveMetadata, RemoveFile, Die, NewDatabase, CheckoutFinished, Finished, vars, clientVars

LEMMA CheckoutInvHolds ==
  HasNoGroups /\ VersionsAgree => (CheckoutSpec => []CheckoutInv)
<1> SUFFICES ASSUME HasNoGroups, VersionsAgree PROVE CheckoutSpec => []CheckoutInv
  OBVIOUS
<1>1. CheckoutInv /\ [CheckoutNext]_<<vars, checkoutVars>> => CheckoutInv'
  BY SessionNext, StageNext, KeptNext DEF CheckoutInv
<1> QED
  BY <1>1, CheckoutInvInit, PTL DEF CheckoutSpec

(***************************************************************************)
(* The maintainer's command is where its pc says, a process that is gone   *)
(* has left nothing behind, and what writes schema.sql and metadata.json,  *)
(* removes files or records baselines has the lock while it does.          *)
(***************************************************************************)
THEOREM CheckoutTypeCorrect ==
  HasNoGroups /\ VersionsAgree => (CheckoutSpec => []CheckoutTypeOK)
<1> SUFFICES ASSUME HasNoGroups, VersionsAgree PROVE CheckoutSpec => []CheckoutTypeOK
  OBVIOUS
<1>1. CheckoutInv => CheckoutTypeOK
  <2>1. CheckoutInv => included \subseteq Files \X Sums
    BY VersionFields DEF CheckoutInv, StageOK
  <2> QED
    BY <2>1 DEF CheckoutInv, StageOK, Dumps, CheckoutTypeOK
<1> QED
  BY <1>1, CheckoutInvHolds, PTL

(***************************************************************************)
(* For a repository without groups, of whose files nobody has a version    *)
(* that is not the maintainer's: however often baseline, dump and gated    *)
(* applies are interrupted, and whatever others apply and resolve in       *)
(* between, a file that is gone from the checkout is in schema.sql and in  *)
(* metadata.json.                                                          *)
(***************************************************************************)
THEOREM NothingGoesMissing ==
  HasNoGroups /\ VersionsAgree => (CheckoutSpec => []NothingIsLost)
<1> SUFFICES ASSUME HasNoGroups, VersionsAgree PROVE CheckoutSpec => []NothingIsLost
  OBVIOUS
<1>1. CheckoutInv => NothingIsLost
  BY DEF CheckoutInv, KeptOK, NothingIsLost
<1> QED
  BY <1>1, CheckoutInvHolds, PTL

(***************************************************************************)
(* For the same repositories: no applied row is untrue, though apply       *)
(* --from-baseline inserts such rows for files that it has not executed.   *)
(***************************************************************************)
THEOREM BaselinesAreTrue ==
  HasNoGroups /\ VersionsAgree => (CheckoutSpec => []AppliedWasRun)
<1> SUFFICES ASSUME HasNoGroups, VersionsAgree PROVE CheckoutSpec => []AppliedWasRun
  OBVIOUS
<1>1. CheckoutInv => AppliedWasRun
  BY DEF CheckoutInv, SessionOK, TableIsTrue, AppliedWasRun
<1> QED
  BY <1>1, CheckoutInvHolds, PTL

-----------------------------------------------------------------------------
(* What an apply from the baseline has behind it                           *)

\* What has been recorded or passed without an error is settled in the table
\* as it is now.
CleanInv ==
  /\ pc[m] \in {"idle", "lock", "load"} => blocked[m] = {}
  /\ stage \in {"base", "rows", "pass"} => job[m].tree = Tree
  /\ stage \in {"none", "decide", "schema", "metadata", "remove"} => ~report.base
  /\ stage = "pass" /\ report.base => pc[m] # "lock"
  /\ IsMidPass(m) =>
       /\ snap[m] <= Len(records)
       /\ \A k \in DOMAIN records :
            k > snap[m] /\ records[k].file \in left[m] => records[k].status = "skipped"
  /\ stage = "rows" => \A p \in included \ todo : IsDone(p[1])
  /\ stage = "pass" /\ report.base /\ ~report.errors =>
       included \subseteq ran /\ \A p \in included : IsDone(p[1])
  /\ stage = "pass" /\ ~report.errors =>
       /\ blocked[m] = {}
       /\ IsMidPass(m) => \A f \in disk \ left[m] : IsDone(f)
       /\ pc[m] = "close" => \A f \in disk : IsDone(f)

CompleteInv == CheckoutInv /\ LockHeld /\ ClockOK /\ ViewTypeOK /\ CleanInv

LEMMA CompleteInit == CheckoutInit => CompleteInv
<1> SUFFICES ASSUME CheckoutInit PROVE CompleteInv
  OBVIOUS
<1> m \in Clients
  BY CheckoutAssumption DEF m
<1>1. LockHeld /\ ClockOK /\ ViewTypeOK
  BY DEF CheckoutInit, Init, LockHeld, IsInLock, ClockOK, ViewTypeOK
<1>2. CleanInv
  BY DEF CheckoutInit, Init, CleanInv, NoReport, IsMidPass
<1> QED
  BY <1>1, <1>2, CheckoutInvInit DEF CompleteInv

\* No row but one that says failed or running unsettles a file.
LEMMA DoneStays ==
  ASSUME SessionOK, NEW f, IsDone(f),
         \/ UNCHANGED records
         \/ \E r : records' = Append(records, r) /\ (r.status \in {"applied", "skipped"} \/ r.file # f)
  PROVE  IsDone(f)'
<1>1. CASE UNCHANGED records
  BY <1>1 DEF IsDone, IsNewest, HasRow
<1>2. ASSUME NEW r, records' = Append(records, r),
             r.status \in {"applied", "skipped"} \/ r.file # f
      PROVE  IsDone(f)'
  BY <1>2, NewestAfter DEF SessionOK, SessionTypeOK, IsDone, IsNewest, HasRow
<1> QED
  BY <1>1, <1>2

\* A file whose newest row is about it is settled by it.
LEMMA DoneByRow ==
  ASSUME SessionOK, NEW r, records' = Append(records, r), r.status \in {"applied", "skipped"}
  PROVE  IsDone(r.file)'
BY NewestAfter DEF SessionOK, SessionTypeOK, IsDone, IsNewest, HasRow

\* While the maintainer has the lock, others insert resolutions only.
LEMMA OthersResolve ==
  ASSUME HasLock, SessionOK, LockHeld, OtherStep, IsInLock(m)
  PROVE  \/ UNCHANGED records
         \/ \E r : records' = Append(records, r) /\ r.status = "skipped"
<1> m \in Clients
  BY CheckoutAssumption DEF m
<1>1. \A c \in Clients \ {m} : ~IsInLock(c)
  BY DEF LockHeld
<1>2. ASSUME NEW c \in Clients \ {m}, RecordResult(c) \/ PhaseInsert(c) PROVE FALSE
  BY <1>1, <1>2 DEF RecordResult, PhaseInsert, Applying, Running, IsInLock, Locks
<1>3. ASSUME NEW c \in Clients \ {m}, ResolveInsert(c)
      PROVE  \E r : records' = Append(records, r) /\ r.status = "skipped"
  <2> DEFINE row(t) == [file |-> work[c].file, sum |-> work[c].sum, status |-> "skipped",
                        at |-> t, group |-> None, phase |-> None]
  <2>1. PICK t \in NextTimes : records' = Append(records, row(t))
    BY <1>3 DEF ResolveInsert, InsertRow
  <2>2. row(t).status = "skipped"
    OBVIOUS
  <2> QED
    BY <2>1, <2>2
<1> QED
  BY <1>2, <1>3
     DEF OtherStep, Start, Acquire, WaitTimeout, Step, Close, Crash, ApplyStep, LoadRecords,
         PassOver, Refuse, Execute, Finish, OperatorStep, ResolveRead, AdvanceRead,
         ApplyPhaseRead, SqlEndsOf, SqlEnds, dbVars

LEMMA OthersLeaveView ==
  ASSUME SessionOK, ViewTypeOK, OtherStep
  PROVE  UNCHANGED <<snap[m], left[m], blocked[m]>>
<1> m \in Clients
  BY CheckoutAssumption DEF m
<1> USE DEF SessionOK, SessionTypeOK, ViewTypeOK
<1>1. ASSUME NEW c \in Clients \ {m}, ApplyStep(c)
      PROVE  UNCHANGED <<snap[m], left[m], blocked[m]>>
  BY <1>1 DEF ApplyStep, LoadRecords, PassOver, Refuse, Execute, RecordResult, Finish,
              Visited, AfterError
<1>2. ASSUME NEW c \in Clients \ {m}, WaitTimeout(c) \/ Close(c) \/ Crash(c)
      PROVE  UNCHANGED <<snap[m], left[m], blocked[m]>>
  BY <1>2 DEF WaitTimeout, Close, Crash, Exit
<1> QED
  BY <1>1, <1>2
     DEF OtherStep, Start, Acquire, Step, OperatorStep, ResolveRead, ResolveInsert, AdvanceRead,
         ApplyPhaseRead, PhaseInsert, SqlEndsOf, SqlEnds

LEMMA OthersKeepClean ==
  ASSUME HasLock, CompleteInv, OtherStep
  PROVE  CleanInv'
<1> USE DEF CompleteInv, CheckoutInv
<1> DEFINE Resolved == \/ UNCHANGED records
                       \/ \E r : records' = Append(records, r) /\ r.status = "skipped"
<1>1. /\ UNCHANGED <<disk, included, stage, todo, report, job[m]>>
      /\ ran \subseteq ran'
      /\ pc'[m] = pc[m] \/ (pc[m] = "sql" /\ job[m].cmd = "apply" /\ pc'[m] = "insert")
  BY OthersLeave DEF checkoutVars, memory
<1>2. UNCHANGED <<snap[m], left[m], blocked[m]>>
  BY OthersLeaveView
<1>3. IsMidPass(m)' = IsMidPass(m) /\ UNCHANGED Tree
  BY <1>1 DEF IsMidPass, Tree
<1>4. IsInLock(m) => Resolved
  BY OthersResolve
<1> HIDE DEF Resolved
<1>5. ASSUME NEW f, IsInLock(m), IsDone(f) PROVE IsDone(f)'
  BY <1>4, <1>5, DoneStays DEF Resolved
<1>6. /\ stage = "rows" => IsInLock(m)
      /\ stage = "pass" /\ (report.base \/ IsMidPass(m) \/ pc[m] = "close") => IsInLock(m)
      /\ IsMidPass(m) => IsInLock(m)
  BY DEF StageOK, CleanInv, IsInLock, Locks, IsMidPass
<1>7. ASSUME IsMidPass(m)
      PROVE  /\ snap'[m] <= Len(records')
             /\ \A k \in DOMAIN records' : k > snap'[m] /\ records'[k].file \in left'[m]
                                             => records'[k].status = "skipped"
  <2>1. CASE UNCHANGED records
    BY <1>2, <1>7, <2>1 DEF CleanInv
  <2>2. ASSUME NEW r, records' = Append(records, r), r.status = "skipped"
        PROVE  <1>7!2
    <3>1. /\ Len(records) \in Nat /\ Len(records') = Len(records) + 1
          /\ DOMAIN records = 1..Len(records) /\ DOMAIN records' = 1..(Len(records) + 1)
          /\ \A k \in DOMAIN records : records'[k] = records[k]
          /\ records'[Len(records) + 1] = r
      BY <2>2 DEF SessionOK, SessionTypeOK
    <3>2. snap[m] \in Nat
      BY CheckoutAssumption DEF ViewTypeOK, m
    <3> QED
      BY <1>2, <1>7, <2>2, <3>1, <3>2 DEF CleanInv
  <2> QED
    BY <1>4, <1>6, <1>7, <2>1, <2>2 DEF Resolved
<1>8. /\ stage = "rows" => \A p \in included \ todo : IsDone(p[1])'
      /\ stage = "pass" /\ report.base /\ ~report.errors =>
           included \subseteq ran' /\ \A p \in included : IsDone(p[1])'
  BY <1>1, <1>5, <1>6 DEF CleanInv
<1>9. stage = "pass" /\ ~report.errors =>
        /\ IsMidPass(m) => \A f \in disk \ left[m] : IsDone(f)'
        /\ pc[m] = "close" => \A f \in disk : IsDone(f)'
  BY <1>5, <1>6 DEF CleanInv
<1> QED
  BY <1>1, <1>2, <1>3, <1>7, <1>8, <1>9 DEF CleanInv

\* A safe file is passed over only behind an error.
LEMMA OnlyErrorsHoldBack ==
  ASSUME HasNoGroups, NEW c, NEW f \in Files, f \notin blocked[c]
  PROVE  ~IsPassedOver(c, f)
<1>1. PhaseOf[f] = None /\ None # "backfill"
  BY FilesAssumption, NoneAssumption DEF HasNoGroups, Phases
<1>2. ASSUME NEW g \in Successors(GraphOf(job[c].tree), f) PROVE GroupOf[g] = None
  BY DEF Successors, GraphOf, Scan, HasNoGroups
<1> QED
  BY <1>1, <1>2 DEF IsPassedOver, IsGated, IsHeldByOpenGroup

\* What the maintainer's pass takes for settled is settled.
LEMMA SettledIsDone ==
  ASSUME HasLock, CompleteInv, IsMidPass(m), NEW f \in left[m], f \in Files,
         Verdict(m, f) = "settled"
  PROVE  IsDone(f)
<1> USE DEF CompleteInv, CheckoutInv, SessionOK, SessionTypeOK
<1> DEFINE latest == LatestRow(Seen(m), f)
<1> m \in Clients
  BY CheckoutAssumption DEF m
<1>1. /\ RowsOf(Seen(m), f) # {}
      /\ \/ latest.status = "skipped"
         \/ latest.status # "failed"
  BY DEF Verdict
<1>2. records \in Seq(Row) /\ IsStrict(records) /\ snap[m] \in 0..Len(records)
  BY ClockIsStrict DEF ViewTypeOK, CleanInv
<1>3. \A k \in RowsOf(records, f) : k > snap[m] => records[k].status = "skipped"
  BY DEF CleanInv, RowsOf
<1>4. /\ RowsOf(records, f) # {}
      /\ NewestRow(records, f) = latest \/ NewestRow(records, f).status = "skipped"
  BY <1>1, <1>2, <1>3, NewestIsSeen
<1>5. PICK k \in DOMAIN records : latest = records[k]
  <2> DEFINE l == LatestOf(Seen(m), RowsOf(Seen(m), f))
  <2>1. l \in RowsOf(records, f) /\ latest = records[l]
    BY <1>1, <1>2, SeenLatestIsLast
  <2> QED
    BY <2>1 DEF RowsOf
<1>6. latest.status \in Statuses /\ latest.status # "running"
  <2>1. records[k] \in Row
    BY <1>5
  <2> QED
    BY <1>5, <2>1 DEF TableIsTrue, Row
<1> QED
  BY <1>1, <1>4, <1>6 DEF Statuses, IsDone, IsNewest, HasRow

\* Loading the table and looking at a file: no row is inserted.
LEMMA VisitKeepsClean ==
  ASSUME HasLock, HasNoGroups, CompleteInv, Pass, ~RecordResult(m)
  PROVE  CleanInv'
<1> USE DEF CompleteInv, CheckoutInv
<1> m \in Clients
  BY CheckoutAssumption DEF m
<1>0. /\ pc \in [Clients -> PCs] /\ left \in [Clients -> SUBSET Files]
      /\ snap \in [Clients -> Nat] /\ blocked \in [Clients -> SUBSET Files]
      /\ Len(records) \in Nat /\ DOMAIN records = 1..Len(records)
  BY TableIsFunction DEF SessionOK, SessionTypeOK, ViewTypeOK
<1>1. /\ UNCHANGED <<disk, included, stage, todo, job, ran, Tree>>
      /\ stage = "pass" /\ job[m].cmd = "apply" /\ job[m].tree = Tree
      /\ Scan(job[m].tree) = disk /\ disk \subseteq Files
  <2>1. Scan(Tree) = disk
    BY CheckoutAssumption, NoneAssumption DEF Tree, Scan, StageOK
  <2> QED
    BY <2>1, PassLeaves DEF Pass, CleanInv, StageOK, Tree
<1>2. UNCHANGED records /\ report'.base = report.base /\ (~report'.errors => ~report.errors)
  BY PassReports DEF Pass, LoadRecords, PassOver, Refuse, Execute, Finish, dbVars
<1>3. \A f : IsDone(f)' = IsDone(f)
  BY <1>2 DEF IsDone, IsNewest, HasRow
<1>4. CASE LoadRecords(m)
  <2>1. CASE disk = {}
    BY <1>0, <1>1, <1>2, <1>3, <1>4, <2>1 DEF LoadRecords, Goto, CleanInv, IsMidPass, Applying, Pass
  <2>2. CASE disk # {}
    BY <1>0, <1>1, <1>2, <1>3, <1>4, <2>2 DEF LoadRecords, Goto, CleanInv, IsMidPass, Applying, Pass
  <2> QED
    BY <2>1, <2>2
<1>5. CASE PassOver(m)
  <2>1. PICK f \in left[m] : /\ IsPassedOver(m, f) \/ Verdict(m, f) = "settled"
                             /\ Visited(m, f)
    BY <1>5 DEF PassOver
  <2>2. IsMidPass(m) /\ UNCHANGED <<pc, snap, blocked>> /\ left'[m] = left[m] \ {f}
    BY <1>0, <1>5, <2>1 DEF PassOver, Applying, IsMidPass, Visited
  <2>3. ~report.errors => IsDone(f)
    BY <1>0, <1>1, <2>1, <2>2, OnlyErrorsHoldBack, SettledIsDone DEF CleanInv
  <2> QED
    BY <1>0, <1>1, <1>2, <1>3, <2>2, <2>3 DEF CleanInv, IsMidPass
<1>6. CASE Refuse(m) /\ report' = [report EXCEPT !.errors = TRUE]
  <2>1. PICK f \in left[m] : Visited(m, f) /\ AfterError(m, f)
    BY <1>6 DEF Refuse
  <2>2. /\ IsMidPass(m) /\ UNCHANGED snap /\ left'[m] = left[m] \ {f}
        /\ pc'[m] \in {"loop", "close"}
    BY <1>0, <1>6, <2>1 DEF Refuse, Applying, IsMidPass, Visited, AfterError, Goto
  <2>3. report'.errors
    BY <1>6 DEF StageOK
  <2> QED
    BY <1>0, <1>1, <1>2, <1>3, <2>2, <2>3 DEF CleanInv, IsMidPass
<1>7. CASE Execute(m)
  BY <1>0, <1>1, <1>2, <1>3, <1>7 DEF Execute, Spawn, Goto, Applying, CleanInv, IsMidPass
<1>8. CASE Finish(m)
  BY <1>0, <1>1, <1>2, <1>3, <1>8 DEF Finish, Goto, Applying, CleanInv, IsMidPass
<1> QED
  BY <1>4, <1>5, <1>6, <1>7, <1>8 DEF Pass

\* Recording what became of a file: it is settled, or the command has erred.
LEMMA RecordKeepsClean ==
  ASSUME HasLock, CompleteInv, Pass, RecordResult(m),
         report' = IF work[m].status = "failed"
                     THEN [report EXCEPT !.errors = TRUE]
                     ELSE [report EXCEPT !.applied = TRUE]
  PROVE  CleanInv'
<1> USE DEF CompleteInv, CheckoutInv
<1> m \in Clients
  BY CheckoutAssumption DEF m
<1>0. /\ pc \in [Clients -> PCs] /\ left \in [Clients -> SUBSET Files]
      /\ snap \in [Clients -> Nat] /\ records \in Seq(Row)
  BY DEF SessionOK, SessionTypeOK, ViewTypeOK
<1>1. /\ UNCHANGED <<disk, included, stage, todo, job, ran, Tree>>
      /\ stage = "pass" /\ job[m].tree = Tree
  BY PassLeaves DEF Pass, CleanInv, Tree
<1>2. PICK f : f = work[m].file
  OBVIOUS
<1> DEFINE row(t) == [file |-> f, sum |-> work[m].sum, status |-> work[m].status,
                      at |-> t, group |-> GroupOf[f], phase |-> PhaseOf[f]]
<1>3. PICK r : /\ records' = Append(records, r)
               /\ r.file = f /\ r.status = work[m].status
  <2>1. PICK t \in NextTimes : records' = Append(records, row(t))
    BY <1>2 DEF RecordResult, InsertRow
  <2>2. row(t).file = f /\ row(t).status = work[m].status
    OBVIOUS
  <2> QED
    BY <2>1, <2>2
<1> HIDE DEF row
<1>4. /\ IsMidPass(m) /\ UNCHANGED snap /\ left'[m] = left[m] \ {f}
      /\ pc'[m] \in {"loop", "close"}
      /\ work[m].status # "failed" => pc'[m] = "loop" /\ UNCHANGED blocked
  BY <1>0, <1>2 DEF RecordResult, Applying, IsMidPass, Visited, AfterError, Goto
<1>5. work[m].status \in Statuses /\ work[m].status # "running"
  BY DEF RecordResult, Applying, SessionOK, IsWork, Work
<1>6. /\ Len(records) \in Nat /\ Len(records') = Len(records) + 1
      /\ DOMAIN records = 1..Len(records) /\ DOMAIN records' = 1..(Len(records) + 1)
      /\ \A k \in DOMAIN records : records'[k] = records[k]
      /\ records'[Len(records) + 1] = r
  BY <1>0, <1>3
<1>7. /\ snap'[m] <= Len(records')
      /\ \A k \in DOMAIN records' :
           k > snap'[m] /\ records'[k].file \in left'[m] => records'[k].status = "skipped"
  BY <1>0, <1>3, <1>4, <1>6 DEF CleanInv
<1>8. CASE work[m].status = "failed"
  <2>1. report'.errors
    BY <1>8 DEF StageOK
  <2> QED
    BY <1>1, <1>4, <1>7, <2>1 DEF CleanInv, IsMidPass
<1>9. CASE work[m].status # "failed"
  <2>1. report'.base = report.base /\ report'.errors = report.errors
    BY <1>9 DEF StageOK
  <2>2. r.status \in {"applied", "skipped"}
    BY <1>3, <1>5, <1>9 DEF Statuses
  <2>3. \A g : IsDone(g) => IsDone(g)'
    BY <1>3, <2>2, DoneStays
  <2>4. IsDone(f)'
    BY <1>3, <2>2, DoneByRow
  <2> QED
    BY <1>1, <1>4, <1>7, <1>9, <2>1, <2>3, <2>4 DEF CleanInv, IsMidPass
<1> QED
  BY <1>8, <1>9

LEMMA PassKeepsClean ==
  ASSUME HasLock, HasNoGroups, CompleteInv, Pass
  PROVE  CleanInv'
<1>1. CASE RecordResult(m)
  <2>1. pc[m] = "insert"
    BY <1>1 DEF RecordResult, Applying
  <2> QED
    BY <1>1, <2>1, RecordKeepsClean
       DEF Pass, LoadRecords, PassOver, Refuse, Execute, Finish, Applying
<1> QED
  BY <1>1, VisitKeepsClean

\* Executing schema.sql, and recording what it includes.
LEMMA BaselineKeepsClean ==
  ASSUME CompleteInv, ApplyBaseline \/ RecordBaselined
  PROVE  CleanInv'
<1> USE DEF CompleteInv, CheckoutInv
<1> m \in Clients
  BY CheckoutAssumption DEF m
<1>1. /\ UNCHANGED <<disk, included, pc, job, left, snap, blocked, Tree>>
      /\ pc[m] = "load" /\ ~IsMidPass(m)
      /\ stage \in {"base", "rows"} /\ stage' \in {"rows", "pass"}
      /\ blocked[m] = {} /\ job[m].tree = Tree
      /\ report'.base = report.base
  BY DEF ApplyBaseline, RecordBaselined, BaselineSucceeds, BaselineFails, clientVars, IsMidPass,
         CleanInv, StageOK, Tree
<1>2. CASE ApplyBaseline
  <2>1. \/ included \subseteq ran' /\ todo' = included /\ (stage' = "pass" => included = {})
        \/ stage' = "pass" /\ report'.errors
    <3>1. CASE IsExecutable /\ ran' = ran \cup dump.objects /\ BaselineSucceeds
      BY <3>1 DEF IsExecutable, BaselineSucceeds, KeptOK
    <3>2. CASE BaselineFails
      BY <3>2 DEF BaselineFails, StageOK
    <3> QED
      BY <1>2, <3>1, <3>2 DEF ApplyBaseline
  <2> QED
    BY <1>1, <2>1 DEF CleanInv, IsMidPass
<1>3. CASE RecordBaselined
  <2>1. PICK p \in todo : /\ InsertRow(p[1], p[2], "applied", None, None)
                          /\ todo' = todo \ {p}
    BY <1>3 DEF RecordBaselined
  <2> DEFINE row(t) == [file |-> p[1], sum |-> p[2], status |-> "applied",
                        at |-> t, group |-> None, phase |-> None]
  <2>2. PICK t \in NextTimes : records' = Append(records, row(t))
    BY <2>1 DEF InsertRow
  <2>3. row(t).file = p[1] /\ row(t).status = "applied"
    OBVIOUS
  <2> HIDE DEF row
  <2>4. \A g : IsDone(g) => IsDone(g)'
    BY <2>2, <2>3, DoneStays
  <2>5. IsDone(p[1])'
    BY <2>2, <2>3, DoneByRow
  <2>6. /\ stage = "rows" /\ UNCHANGED ran /\ included \subseteq ran
        /\ stage' = "pass" => todo' = {}
        /\ \A q \in included \ todo' : IsDone(q[1])'
    BY <1>3, <2>1, <2>4, <2>5 DEF RecordBaselined, KeptOK, CleanInv
  <2> QED
    BY <1>1, <2>6 DEF CleanInv, IsMidPass
<1> QED
  BY <1>2, <1>3

LEMMA CleanNext ==
  ASSUME HasLock, HasNoGroups, CompleteInv, [CheckoutNext]_<<vars, checkoutVars>>
  PROVE  CleanInv'
<1> USE DEF CompleteInv, CheckoutInv
<1> m \in Clients
  BY CheckoutAssumption DEF m
<1>0. /\ pc \in [Clients -> PCs] /\ job \in [Clients -> Commands \cup {None}]
      /\ blocked \in [Clients -> SUBSET Files]
  BY DEF SessionOK, SessionTypeOK, ViewTypeOK
<1>1. CASE OtherStep
  BY <1>1, OthersKeepClean
<1>2. CASE Pass
  BY <1>2, PassKeepsClean
<1>3. CASE ApplyBaseline \/ RecordBaselined
  BY <1>3, BaselineKeepsClean
\* A step after which no apply of the maintainer is past its wait for the lock.
<1>4. ASSUME ~IsMidPass(m)', blocked'[m] = {},
             \/ /\ pc'[m] = "idle"
                /\ stage' \in {"none", "redump", "write"}
                /\ stage' = "none" => ~report'.base
             \/ /\ pc'[m] = "lock"
                /\ stage' \in {"base", "pass"}
                /\ stage' = "pass" => ~report'.base
                /\ job'[m].tree = Tree'
      PROVE  CleanInv'
  BY <1>4 DEF CleanInv
<1>5. ASSUME NEW option \in ApplyOptions, StartApply(option) PROVE CleanInv'
  <2>1. /\ pc'[m] = "lock" /\ UNCHANGED <<blocked, Tree>> /\ pc[m] = "idle"
        /\ job'[m] = [cmd |-> "apply", tree |-> Tree]
        /\ report'.base = option.base /\ stage' = IF option.base THEN "base" ELSE "pass"
    BY <1>0, <1>5 DEF StartApply, Start, Goto, Tree, NoReport
  <2>2. blocked'[m] = {} /\ job'[m].tree = Tree' /\ ~IsMidPass(m)'
    BY <2>1 DEF CleanInv, IsMidPass
  <2> QED
    BY <1>4, <2>1, <2>2
<1>6. CASE CloseCommand \/ ((WaitTimeout(m) \/ Crash(m)) /\ Forget)
  <2>1. /\ pc'[m] = "idle" /\ blocked'[m] = {}
        /\ stage' = "redump" \/ (stage' = "none" /\ ~report'.base)
    BY <1>0, <1>6 DEF CloseCommand, Close, WaitTimeout, Crash, Exit, Goto, Forget, NoReport
  <2> QED
    BY <1>4, <2>1 DEF IsMidPass
<1>7. CASE StartDump \/ TakeDump \/ WriteDump \/ (Die /\ Forget)
  <2>1. /\ pc[m] = "idle" /\ UNCHANGED <<pc, blocked>>
        /\ stage' \in {"redump", "write"} \/ (stage' = "none" /\ ~report'.base)
    BY <1>7 DEF StartDump, TakeDump, WriteDump, Die, StageOK, Forget, NoReport, vars, clientVars
  <2> QED
    BY <1>4, <2>1 DEF CleanInv, IsMidPass
<1>8. CASE NewDatabase
  <2>1. pc'[m] = "idle" /\ UNCHANGED <<pc, blocked, stage, report>> /\ stage = "none"
    BY <1>8 DEF NewDatabase, clientVars, memory, StageOK
  <2> QED
    BY <1>4, <2>1 DEF CleanInv, IsMidPass
\* A step of baseline.
<1>9. ASSUME ~IsMidPass(m)', stage' \in {"decide", "schema", "metadata", "remove"},
             ~report'.base, pc'[m] \in {"idle", "lock", "load"} => blocked'[m] = {}
      PROVE  CleanInv'
  BY <1>9, <1>0 DEF CleanInv
<1>10. ASSUME NEW keep \in KeepSince, StartBaseline(keep) PROVE CleanInv'
  <2>1. pc'[m] = "lock" /\ pc[m] = "idle" /\ UNCHANGED <<blocked, report>> /\ stage = "none"
        /\ stage' = "decide"
    BY <1>0, <1>10 DEF StartBaseline, Start, Goto
  <2> QED
    BY <1>9, <2>1 DEF CleanInv, IsMidPass
<1>11. CASE Decide \/ WriteSchema \/ SaveMetadata \/ RemoveFile
  <2>1. /\ pc[m] = "load" /\ pc'[m] \in {"load", "close"} /\ UNCHANGED <<blocked, report>>
        /\ stage \in {"decide", "schema", "metadata", "remove"}
        /\ stage' \in {"decide", "schema", "metadata", "remove"}
    BY <1>0, <1>11 DEF Decide, WriteSchema, SaveMetadata, RemoveFile, Goto, vars, clientVars
  <2> QED
    BY <1>9, <2>1 DEF CleanInv, IsMidPass
<1>12. CASE Acquire(m) /\ UNCHANGED checkoutVars
  <2>1. /\ pc[m] = "lock" /\ pc'[m] = "load"
        /\ UNCHANGED <<blocked, job, records, ran, Tree, checkoutVars>>
    BY <1>0, <1>12 DEF Acquire, Goto, dbVars, checkoutVars, Tree
  <2> QED
    BY <2>1 DEF CleanInv, IsMidPass, checkoutVars, memory, StageOK
<1>13. CASE UNCHANGED <<vars, checkoutVars>>
  BY <1>13 DEF vars, dbVars, clientVars, checkoutVars, memory, CleanInv, IsMidPass, Tree, IsDone,
               IsNewest, HasRow
<1> QED
  BY <1>1, <1>2, <1>3, <1>5, <1>6, <1>7, <1>8, <1>10, <1>11, <1>12, <1>13
     DEF CheckoutNext, MaintainerStep, CheckoutFinished, Finished

LEMMA CompleteInvHolds ==
  HasLock /\ HasNoGroups /\ VersionsAgree => (CheckoutSpec => []CompleteInv)
<1> SUFFICES ASSUME HasLock, HasNoGroups, VersionsAgree PROVE CheckoutSpec => []CompleteInv
  OBVIOUS
<1>1. ASSUME CompleteInv, [CheckoutNext]_<<vars, checkoutVars>> PROVE CompleteInv'
  <2>1. CheckoutInv'
    BY <1>1, SessionNext, StageNext, KeptNext DEF CompleteInv, CheckoutInv
  <2> QED
    BY <1>1, <2>1, LockKept, ClockKept, ViewTypeKept, CleanNext DEF CompleteInv
<1> QED
  BY <1>1, CompleteInit, PTL DEF CheckoutSpec

\* The newest row of a file is in the table.
LEMMA AppliedIsRun ==
  ASSUME SessionOK, NEW f \in Files, IsNewest(f, "applied")
  PROVE  Version(f) \in ran
<1>1. /\ Len(records) \in Nat /\ DOMAIN records = 1..Len(records)
      /\ DOMAIN records \in SUBSET Nat
  BY DEF SessionOK, SessionTypeOK
<1>2. PICK n \in 1..Len(records) : IsNewestAt(records, f, n)
  BY <1>1, NewestExists DEF IsNewest, HasRow
<1>3. NewestRow(records, f) = records[n]
  BY <1>1, <1>2, NewestAt
<1> QED
  BY <1>1, <1>2, <1>3 DEF IsNewest, IsNewestAt, SessionOK, TableIsTrue, Version

(***************************************************************************)
(* On a dialect with a lock, and for the same repositories: an apply       *)
(* --from-baseline that ends without an error leaves the database with     *)
(* every baselined file executed and every file of the checkout executed   *)
(* and recorded, or resolved, whatever others applied and resolved before  *)
(* it, and resolve while it runs.                                          *)
(***************************************************************************)
THEOREM BaselinesAreComplete ==
  HasLock /\ HasNoGroups /\ VersionsAgree => (CheckoutSpec => []CleanRunIsComplete)
<1> SUFFICES ASSUME HasLock, HasNoGroups, VersionsAgree
             PROVE  CheckoutSpec => []CleanRunIsComplete
  OBVIOUS
<1>1. ASSUME CompleteInv PROVE CleanRunIsComplete
  <2> SUFFICES ASSUME pc[m] = "close", report.base, ~report.errors
               PROVE  /\ included \subseteq ran
                      /\ \A p \in included \cup {Version(f) : f \in disk} :
                           \/ IsNewest(p[1], "applied") /\ p \in ran
                           \/ IsNewest(p[1], "skipped")
    BY DEF CleanRunIsComplete
  <2> USE <1>1 DEF CompleteInv, CheckoutInv
  <2>1. stage = "pass"
    BY DEF StageOK, CleanInv, Stages
  <2>2. /\ included \subseteq ran
        /\ \A p \in included : IsDone(p[1])
        /\ \A f \in disk : IsDone(f)
    BY <2>1 DEF CleanInv
  <2>3. ASSUME NEW p \in included \cup {Version(f) : f \in disk}
        PROVE  \E f \in Files : p = Version(f) /\ IsDone(f)
    <3>1. PICK f \in Files : p = Version(f) /\ (p \in included \/ f \in disk)
      BY DEF StageOK
    <3>2. p[1] = f
      BY <3>1, VersionFields
    <3> QED
      BY <2>2, <3>1, <3>2
  <2>4. ASSUME NEW p \in included \cup {Version(f) : f \in disk}
        PROVE  \/ IsNewest(p[1], "applied") /\ p \in ran
               \/ IsNewest(p[1], "skipped")
    <3>1. PICK f \in Files : p = Version(f) /\ IsDone(f)
      BY <2>3
    <3>2. p[1] = f
      BY <3>1, VersionFields
    <3> QED
      BY <3>1, <3>2, AppliedIsRun DEF IsDone
  <2> QED
    BY <2>2, <2>4
<1> QED
  BY <1>1, CompleteInvHolds, PTL
=============================================================================
