---------------------------- MODULE ReleaseProofs ----------------------------
(***************************************************************************)
(* Proofs about what a release rests on: the order of the phases of a      *)
(* group, what gate answers about them, and what verify's report is worth  *)
(* to a later apply.                                                       *)
(***************************************************************************)
EXTENDS PassProofs, Gate, Verify

-----------------------------------------------------------------------------
(* The status of a phase                                                   *)

\* The status of a phase that has rows is that of the last.
IsLastOfPhase(log, g, ph, n) ==
  n \in PhaseRows(log, g, ph) /\ \A k \in PhaseRows(log, g, ph) : k <= n

LEMMA PhaseStatusAt ==
  ASSUME NEW log, IsStrict(log), NEW g, NEW ph, NEW n, IsLastOfPhase(log, g, ph, n)
  PROVE  PhaseStatus(log, g, ph) = log[n].status
<1>1. PhaseRows(log, g, ph) \in SUBSET DOMAIN log
  BY DEF PhaseRows
<1>2. LatestOf(log, PhaseRows(log, g, ph)) = n
  BY <1>1, LatestIsLast DEF IsLastOfPhase
<1> QED
  BY <1>2 DEF PhaseStatus, IsLastOfPhase

LEMMA LastOfPhaseExists ==
  ASSUME NEW log, IsStrict(log), NEW g, NEW ph, PhaseRows(log, g, ph) # {}
  PROVE  \E n \in DOMAIN log : IsLastOfPhase(log, g, ph, n)
<1>1. PhaseRows(log, g, ph) \in SUBSET (1..Len(log))
  BY DEF PhaseRows, IsStrict
<1>2. DOMAIN log = 1..Len(log) /\ Len(log) \in Nat
  BY DEF IsStrict
<1> QED
  BY <1>1, <1>2, NewestIsRow DEF IsLastOfPhase, PhaseRows

\* The code's status of a phase is that of the row inserted last.
LEMMA PhaseStatusIsNewest ==
  ASSUME IsStrict(records), NEW g, NEW ph
  PROVE  NewestOfPhase(g, ph) = PhaseStatus(records, g, ph)
<1> DEFINE rows == PhaseRows(records, g, ph)
<1>1. CASE rows = {}
  BY <1>1 DEF NewestOfPhase, PhaseStatus
<1>2. CASE rows # {}
  <2>1. PICK n \in DOMAIN records : IsLastOfPhase(records, g, ph, n)
    BY <1>2, LastOfPhaseExists
  <2>2. PhaseStatus(records, g, ph) = records[n].status
    BY <2>1, PhaseStatusAt
  <2>3. rows \in SUBSET Nat
    BY DEF PhaseRows, IsStrict
  <2>4. \A k \in rows : (\A j \in rows : j <= k) => k = n
    BY <2>1, <2>3 DEF IsLastOfPhase
  <2>5. (CHOOSE k \in rows : \A j \in rows : j <= k) = n
    BY <2>1, <2>4 DEF IsLastOfPhase
  <2> QED
    BY <1>2, <2>2, <2>5 DEF NewestOfPhase
<1> QED
  BY <1>1, <1>2

\* A new row is the last of its phase, and leaves that of other phases.
LEMMA PhaseStatusAfter ==
  ASSUME IsStrict(records), IsStrict(records)', NEW r, records' = Append(records, r),
         TypeOK, NEW g, NEW ph
  PROVE  PhaseStatus(records', g, ph) =
           IF r.group = g /\ r.phase = ph THEN r.status ELSE PhaseStatus(records, g, ph)
<1> DEFINE m == Len(records)
<1>1. /\ m \in Nat /\ DOMAIN records = 1..m /\ DOMAIN records' = 1..(m + 1)
      /\ \A k \in 1..m : records'[k] = records[k]
      /\ records'[m + 1] = r
  BY TableOfRows DEF TypeOK
<1> HIDE DEF m
<1>2. CASE r.group = g /\ r.phase = ph
  <2>1. IsLastOfPhase(records', g, ph, m + 1)
    BY <1>1, <1>2 DEF IsLastOfPhase, PhaseRows
  <2>2. PhaseStatus(records', g, ph) = records'[m + 1].status
    BY <2>1, PhaseStatusAt DEF IsStrict
  <2> QED
    BY <1>1, <1>2, <2>2
<1>3. CASE ~(r.group = g /\ r.phase = ph)
  <2>1. PhaseRows(records', g, ph) = PhaseRows(records, g, ph)
    BY <1>1, <1>3 DEF PhaseRows
  <2>2. CASE PhaseRows(records, g, ph) = {}
    BY <1>3, <2>1, <2>2 DEF PhaseStatus
  <2>3. CASE PhaseRows(records, g, ph) # {}
    <3>1. PICK n \in DOMAIN records : IsLastOfPhase(records, g, ph, n)
      BY <2>3, LastOfPhaseExists
    <3>2. IsLastOfPhase(records', g, ph, n)
      BY <2>1, <3>1 DEF IsLastOfPhase
    <3>3. /\ PhaseStatus(records, g, ph) = records[n].status
          /\ PhaseStatus(records', g, ph) = records'[n].status
      BY <3>1, <3>2, PhaseStatusAt DEF IsStrict
    <3> QED
      BY <1>1, <1>3, <3>1, <3>3
  <2> QED
    BY <2>2, <2>3
<1> QED
  BY <1>2, <1>3

-----------------------------------------------------------------------------
(* What a gate requires                                                    *)

\* A row that a command inserts: how the work of a phase went, or a resolution.
IsNote(r) ==
  \/ /\ r.file \in Files
     /\ r.status \in {"applied", "failed", "running"}
     /\ r.group = GroupOf[r.file]
     /\ r.phase = PhaseOf[r.file]
  \/ /\ r.file \in Files
     /\ r.status = "skipped"
     /\ r.group = None
     /\ r.phase = None
     /\ \E k \in DOMAIN records : records[k].file = r.file /\ records[k].status = "failed"

LEMMA NextIsNote ==
  ASSUME Typing, OutcomeOK, [Next]_vars
  PROVE  UNCHANGED records \/ \E r : IsNote(r) /\ r.at \in NextTimes /\ records' = Append(records, r)
<1> USE DEF Typing
<1>1. CASE UNCHANGED dbVars
  BY <1>1 DEF dbVars
<1>2. ASSUME NEW c \in Clients, pc[c] = "insert", job[c].cmd # "resolve",
             InsertRow(work[c].file, work[c].sum, work[c].status,
                       GroupOf[work[c].file], PhaseOf[work[c].file])
      PROVE  \E r : IsNote(r) /\ r.at \in NextTimes /\ records' = Append(records, r)
  <2> DEFINE f == work[c].file
             row(t) == [file |-> f, sum |-> work[c].sum, status |-> work[c].status, at |-> t,
                        group |-> GroupOf[f], phase |-> PhaseOf[f]]
  <2>1. PICK t \in NextTimes : records' = Append(records, row(t))
    BY <1>2 DEF InsertRow
  <2>2. work[c].status \in {"applied", "failed", "running"} /\ f \in Files
    BY <1>2 DEF OutcomeOK, OutcomeOf, LocalsOK, Work
  <2>3. IsNote(row(t))
    BY <2>2 DEF IsNote
  <2> QED
    BY <2>1, <2>3
<1>3. ASSUME NEW c \in Clients, pc[c] = "insert", job[c].cmd = "resolve",
             InsertRow(work[c].file, work[c].sum, "skipped", None, None)
      PROVE  \E r : IsNote(r) /\ r.at \in NextTimes /\ records' = Append(records, r)
  <2> DEFINE f == work[c].file
             row(t) == [file |-> f, sum |-> work[c].sum, status |-> "skipped", at |-> t,
                        group |-> None, phase |-> None]
  <2>1. PICK t \in NextTimes : records' = Append(records, row(t))
    BY <1>3 DEF InsertRow
  <2>2. f \in Files /\ WasFailed(f, work[c].sum)
    BY <1>3 DEF OutcomeOK, OutcomeOf, LocalsOK, Work
  <2>3. IsNote(row(t))
    BY <2>2 DEF IsNote, WasFailed
  <2> QED
    BY <2>1, <2>3
<1> QED
  BY <1>1, <1>2, <1>3, NextNotes

\* What stays of the first rows of named groups when the table grows.
LEMMA MeaningStays ==
  ASSUME TypeOK, NEW r, records' = Append(records, r), NEW name, NEW g \in Groups,
         MeansGroup(records, name, g)
  PROVE  MeansGroup(records', name, g)
<1> DEFINE m == Len(records)
<1>1. /\ m \in Nat /\ DOMAIN records = 1..m /\ DOMAIN records' = 1..(m + 1)
      /\ \A k \in 1..m : records'[k] = records[k]
      /\ records'[m + 1] = r
  BY TableOfRows DEF TypeOK
<1> HIDE DEF m
<1>2. PICK k \in 1..m : /\ records[k].group = g
                        /\ \A j \in 1..m : records[j].group \in NamedGroups(records, name) => k <= j
  BY <1>1 DEF MeansGroup
<1>3. g \in NamedGroups(records', name)
  BY <1>1, <1>2 DEF MeansGroup, NamedGroups, IsGroupKnown
<1>4. ASSUME NEW j \in 1..m, records'[j].group \in NamedGroups(records', name)
      PROVE  k <= j
  BY <1>1, <1>2, <1>4 DEF NamedGroups, IsGroupKnown
<1>5. \A j \in 1..(m + 1) : records'[j].group \in NamedGroups(records', name) => k <= j
  BY <1>1, <1>4
<1> QED
  BY <1>1, <1>2, <1>3, <1>5 DEF MeansGroup

\* The order of a release, as indices.
LEMMA OrderOfStates ==
  /\ DOMAIN StateOrder = 1..7
  /\ StateOrder[1] = "not_applied" /\ StateOrder[2] = "expand_applied"
  /\ StateOrder[3] = "backfill_running" /\ StateOrder[4] = "backfill_completed"
  /\ StateOrder[5] = "switch_applied" /\ StateOrder[6] = "contract_ready"
  /\ StateOrder[7] = "contract_completed"
  /\ Range(Tail(StateOrder)) = {StateOrder[i] : i \in 2..7}
<1> DEFINE later == <<"expand_applied", "backfill_running", "backfill_completed",
                      "switch_applied", "contract_ready", "contract_completed">>
<1>1. /\ DOMAIN StateOrder = 1..7
      /\ StateOrder[1] = "not_applied" /\ StateOrder[2] = "expand_applied"
      /\ StateOrder[3] = "backfill_running" /\ StateOrder[4] = "backfill_completed"
      /\ StateOrder[5] = "switch_applied" /\ StateOrder[6] = "contract_ready"
      /\ StateOrder[7] = "contract_completed"
  BY DEF StateOrder
<1>2. Tail(StateOrder) = later
  BY DEF StateOrder
<1>3. /\ DOMAIN later = 1..6
      /\ later[1] = "expand_applied" /\ later[2] = "backfill_running"
      /\ later[3] = "backfill_completed" /\ later[4] = "switch_applied"
      /\ later[5] = "contract_ready" /\ later[6] = "contract_completed"
  OBVIOUS
<1> HIDE DEF later
<1>4. Range(later) = {later[i] : i \in 1..6}
  BY <1>3 DEF Range
<1>5. Range(later) = {StateOrder[i] : i \in 2..7}
  BY <1>1, <1>3, <1>4
<1> QED
  BY <1>1, <1>2, <1>5

\* A phase that becomes applied loses no state that a gate may ask for.
LEMMA StateAdvances ==
  ASSUME NEW old, NEW new, NEW g, NEW ph \in Phases,
         PhaseStatus(new, g, ph) = "applied",
         \A q \in Phases \ {ph} : PhaseStatus(new, g, q) = PhaseStatus(old, g, q),
         NEW state \in Range(Tail(StateOrder)), MatchesState(DeriveGroupState(old, g), state)
  PROVE  MatchesState(DeriveGroupState(new, g), state)
<1> DEFINE x == DeriveGroupState(old, g)
           y == DeriveGroupState(new, g)
<1>1. PICK j \in 2..7 : state = StateOrder[j]
  BY OrderOfStates
<1>2. \/ x = state
      \/ \E i \in 1..7 : StateOrder[i] = x /\ j <= i
  <2>1. \A k \in Ranks(state) : k = j
    BY <1>1, OrderOfStates DEF Ranks
  <2> QED
    BY <2>1, OrderOfStates DEF MatchesState, Ranks
<1>3. PICK i \in 2..7 : x = StateOrder[i] /\ j <= i
  BY <1>1, <1>2
<1>4. \E k \in 2..7 : y = StateOrder[k] /\ i <= k
  <2> DEFINE was(q) == PhaseStatus(old, g, q)
             is(q) == PhaseStatus(new, g, q)
  <2>1. /\ is(ph) = "applied" /\ \A q \in Phases \ {ph} : is(q) = was(q)
        /\ ph \in {"expand", "backfill", "switch", "contract"}
    BY DEF Phases
  <2>2. \A q \in {"expand", "backfill", "switch", "contract"} :
          is(q) = "applied" \/ is(q) = was(q)
    BY <2>1 DEF Phases
  <2>3. /\ is("expand") # "applied" => y = "not_applied"
        /\ was("expand") # "applied" => x = "not_applied"
    BY DEF DeriveGroupState
  <2>4. was("expand") = "applied" /\ is("expand") = "applied"
    BY <1>3, <2>2, <2>3, OrderOfStates
  <2>5. y = IF is("contract") = "applied" THEN "contract_completed"
            ELSE IF is("switch") = "applied" THEN "contract_ready"
            ELSE IF is("backfill") = "running" THEN "backfill_running"
            ELSE IF is("backfill") = "failed" THEN "backfill_failed"
            ELSE IF is("backfill") = "applied" THEN "backfill_completed"
            ELSE "expand_applied"
    BY <2>4 DEF DeriveGroupState
  <2>6. x = IF was("contract") = "applied" THEN "contract_completed"
            ELSE IF was("switch") = "applied" THEN "contract_ready"
            ELSE IF was("backfill") = "running" THEN "backfill_running"
            ELSE IF was("backfill") = "failed" THEN "backfill_failed"
            ELSE IF was("backfill") = "applied" THEN "backfill_completed"
            ELSE "expand_applied"
    BY <2>4 DEF DeriveGroupState
  <2> HIDE DEF x, y, was, is
  <2>7. \A k \in 2..7 : k \in Nat /\ (k = 2 \/ k = 3 \/ k = 4 \/ k = 5 \/ k = 6 \/ k = 7)
    OBVIOUS
  <2>8. CASE x = "contract_completed"
    <3>1. i = 7
      BY <1>3, <2>7, <2>8, OrderOfStates
    <3>2. y \in {"contract_completed"}
      BY <2>2, <2>5, <2>6, <2>8
    <3> QED
      BY <3>1, <3>2, OrderOfStates
  <2>9. CASE x = "contract_ready"
    <3>1. i = 6
      BY <1>3, <2>7, <2>9, OrderOfStates
    <3>2. y \in {"contract_ready", "contract_completed"}
      BY <2>2, <2>5, <2>6, <2>9
    <3> QED
      BY <3>1, <3>2, OrderOfStates
  <2>10. CASE x = "backfill_completed"
    <3>1. i = 4
      BY <1>3, <2>7, <2>10, OrderOfStates
    <3>2. y \in {"backfill_completed", "contract_ready", "contract_completed"}
      BY <2>2, <2>5, <2>6, <2>10
    <3> QED
      BY <3>1, <3>2, OrderOfStates
  <2>11. CASE x = "backfill_running"
    <3>1. i = 3
      BY <1>3, <2>7, <2>11, OrderOfStates
    <3>2. y \in {"backfill_running", "backfill_completed", "contract_ready", "contract_completed"}
      BY <2>2, <2>5, <2>6, <2>11
    <3> QED
      BY <3>1, <3>2, OrderOfStates
  <2>12. CASE x = "expand_applied"
    <3>1. i = 2
      BY <1>3, <2>7, <2>12, OrderOfStates
    <3>2. y \in {"expand_applied", "backfill_completed", "contract_ready", "contract_completed"}
      BY <2>2, <2>5, <2>6, <2>12
    <3> QED
      BY <3>1, <3>2, OrderOfStates
  <2>13. x # "backfill_failed"
    BY <1>3, <2>7, OrderOfStates
  <2> QED
    BY <2>6, <2>8, <2>9, <2>10, <2>11, <2>12, <2>13
<1>5. PICK k \in 2..7 : y = StateOrder[k] /\ i <= k
  BY <1>4
<1>6. j <= k /\ k \in Ranks(y) /\ j \in Ranks(state)
  BY <1>1, <1>3, <1>5, OrderOfStates DEF Ranks
<1> QED
  BY <1>6 DEF MatchesState

\* A set of rows has one latest row.
LEMMA LatestIsUnique ==
  ASSUME NEW log, NEW rows \in SUBSET Nat, rows # {}, NEW t \in Nat,
         \A k \in rows : log[k].at \in 0..t,
         NEW k \in rows, IsLatest(log, rows, k)
  PROVE  LatestOf(log, rows) = k
<1>1. LatestOf(log, rows) \in rows /\ IsLatest(log, rows, LatestOf(log, rows))
  BY LatestIsRow
<1> DEFINE l == LatestOf(log, rows)
<1> HIDE DEF l
<1>2. l \in rows /\ IsLatest(log, rows, l)
  BY <1>1 DEF l
<1>3. l \in Nat /\ k \in Nat /\ log[l].at \in Nat /\ log[k].at \in Nat
  BY <1>2
<1>4. l <= k /\ k <= l
  BY <1>2, <1>3 DEF IsLatest
<1> QED
  BY <1>3, <1>4 DEF l

\* A new row that is not older than the others gives its phase its status, or
\* leaves it (as it does where the row before it has the same time).
LEMMA PhaseStatusGrows ==
  ASSUME TypeOK, ClockOK, NEW r, r.at \in NextTimes, records' = Append(records, r),
         NEW g, NEW ph
  PROVE  \/ PhaseStatus(records', g, ph) = PhaseStatus(records, g, ph)
         \/ r.group = g /\ r.phase = ph /\ PhaseStatus(records', g, ph) = r.status
<1> DEFINE old == PhaseRows(records, g, ph)
           new == PhaseRows(records', g, ph)
           l   == LatestOf(records, old)
<1>1. PICK m \in Nat : m = Len(records)
  BY TableOfRows
<1>2. /\ DOMAIN records = 1..m /\ DOMAIN records' = 1..(m + 1)
      /\ \A k \in 1..m : records'[k] = records[k]
      /\ records'[m + 1] = r
  BY <1>1, TableOfRows DEF TypeOK
<1>3. PICK t \in Nat : t = r.at /\ now <= t
  <2>1. now \in Nat
    BY DEF TypeOK
  <2>2. \A u \in NextTimes : u \in Nat /\ now <= u
    BY <2>1 DEF NextTimes
  <2> QED
    BY <2>2
<1>4. \A k \in 1..m : records[k].at \in 0..t
  <2>1. \A k \in 1..m : records[k].at \in Nat /\ records[k].at <= now
    BY <1>2, TableOfRows, RowFields DEF ClockOK
  <2>2. now \in Nat
    BY DEF TypeOK
  <2> QED
    BY <1>3, <2>1, <2>2
<1>5. \A k \in 1..(m + 1) : records'[k].at \in 0..t
  BY <1>2, <1>3, <1>4
<1>6. old \in SUBSET (1..m) /\ old \in SUBSET Nat /\ new \in SUBSET (1..(m + 1)) /\ new \in SUBSET Nat
  BY <1>2 DEF PhaseRows
<1>7. new = IF r.group = g /\ r.phase = ph THEN old \cup {m + 1} ELSE old
  BY <1>2 DEF PhaseRows
<1> HIDE DEF old, new
<1>8. CASE old # {}
  <2>1. l \in old /\ IsLatest(records, old, l)
    BY <1>4, <1>6, <1>8, LatestIsRow
  <2> HIDE DEF l
  <2>2. PhaseStatus(records, g, ph) = records[l].status
    BY <1>8 DEF PhaseStatus, old, l
  <2>3. new # {} /\ \A k \in new : records'[k].at \in 0..t
    BY <1>5, <1>6, <1>7, <1>8
  <2>4. PhaseStatus(records', g, ph) = records'[LatestOf(records', new)].status
    BY <2>3 DEF PhaseStatus, new
  <2>5. \A j \in old : records'[j] = records[j]
    BY <1>2, <1>6
  <2>6. l \in new /\ IsLatest(records', old, l)
    BY <1>7, <2>1, <2>5 DEF IsLatest
  <2>7. CASE new = old \/ records[l].at = t
    <3>1. IsLatest(records', new, l)
      <4>1. CASE new = old
        BY <2>6, <4>1
      <4>2. CASE records[l].at = t
        <5>1. l <= m + 1 /\ records'[m + 1].at = t /\ records'[l].at = t
          BY <1>2, <1>3, <1>6, <2>1, <2>5, <4>2
        <5> QED
          BY <1>7, <2>6, <5>1 DEF IsLatest
      <4> QED
        BY <2>7, <4>1, <4>2
    <3>2. LatestOf(records', new) = l
      BY <1>6, <2>3, <2>6, <3>1, LatestIsUnique
    <3> QED
      BY <2>1, <2>2, <2>4, <2>5, <3>2
  <2>8. CASE new # old /\ records[l].at # t
    <3>1. r.group = g /\ r.phase = ph /\ m + 1 \in new
      BY <1>7, <2>8
    <3>2. records[l].at < t /\ records[l].at \in Nat
      BY <1>4, <1>6, <2>1, <2>8
    <3>3. ASSUME NEW j \in old PROVE records'[j].at < t
      <4>1. j \in 1..m /\ records'[j].at = records[j].at
        BY <1>6, <2>5
      <4>2. records[j].at \in 0..t
        BY <1>4, <4>1
      <4>3. records[j].at < records[l].at \/ records[j].at = records[l].at
        BY <2>1 DEF IsLatest
      <4> QED
        BY <3>2, <4>1, <4>2, <4>3
    <3>4. PICK n \in new : n = m + 1 /\ records'[n] = r
      BY <1>2, <3>1
    <3>5. \A j \in new : j \in old \/ j = n
      BY <1>7, <3>4
    <3>6. n \in Nat /\ records'[n].at = t
      BY <1>3, <1>6, <3>4
    <3>7. IsLatest(records', new, n)
      <4> SUFFICES ASSUME NEW j \in new
                   PROVE  \/ records'[j].at < records'[n].at
                          \/ records'[j].at = records'[n].at /\ n <= j
        BY DEF IsLatest
      <4>1. CASE j \in old
        BY <3>3, <3>6, <4>1
      <4>2. CASE j = n
        <5>1. n <= j
          BY <3>6, <4>2
        <5> QED
          BY <4>2, <5>1
      <4> QED
        BY <3>5, <4>1, <4>2
    <3>8. LatestOf(records', new) = n
      BY <1>6, <2>3, <3>7, LatestIsUnique
    <3> QED
      BY <2>4, <3>1, <3>4, <3>8
  <2> QED
    BY <2>7, <2>8
<1>9. CASE old = {}
  <2>1. CASE new = {}
    BY <1>9, <2>1 DEF PhaseStatus, old, new
  <2>2. CASE new # {}
    <3>1. r.group = g /\ r.phase = ph /\ new = {m + 1}
      BY <1>7, <1>9, <2>2
    <3>2. LatestOf(records', new) \in new
      BY <1>5, <1>6, <2>2, LatestIsRow
    <3>3. PhaseStatus(records', g, ph) = records'[LatestOf(records', new)].status
      BY <2>2 DEF PhaseStatus, new
    <3> QED
      BY <1>2, <3>1, <3>2, <3>3
  <2> QED
    BY <2>1, <2>2
<1> QED
  BY <1>8, <1>9

\* What one row does to a gate that requires a state.
LEMMA RequirementAfterRow ==
  ASSUME TypeOK, ClockOK, NEW r, IsNote(r), r.at \in NextTimes, records' = Append(records, r),
         ~Fails(r.status), NEW name, NEW state \in Range(Tail(StateOrder)),
         EvaluateCondition(records, name, state)
  PROVE  EvaluateCondition(records', name, state)
<1>1. PICK g \in Groups : /\ MeansGroup(records, name, g)
                          /\ MatchesState(DeriveGroupState(records, g), state)
  BY DEF EvaluateCondition
<1>2. MeansGroup(records', name, g)
  BY <1>1, MeaningStays
<1>3. CASE \A q \in Phases : PhaseStatus(records', g, q) = PhaseStatus(records, g, q)
  <2>1. DeriveGroupState(records', g) = DeriveGroupState(records, g)
    BY <1>3 DEF DeriveGroupState, Phases
  <2> QED
    BY <1>1, <1>2, <2>1 DEF EvaluateCondition
<1>4. ASSUME NEW q \in Phases, PhaseStatus(records', g, q) # PhaseStatus(records, g, q)
      PROVE  EvaluateCondition(records', name, state)
  <2>1. r.group = g /\ r.phase = q /\ PhaseStatus(records', g, q) = r.status
    BY <1>4, PhaseStatusGrows
  <2>2. r.status = "applied"
    BY <2>1, NoneAssumption DEF IsNote, Fails
  <2>3. \A p \in Phases \ {q} : PhaseStatus(records', g, p) = PhaseStatus(records, g, p)
    BY <2>1, PhaseStatusGrows
  <2>4. MatchesState(DeriveGroupState(records', g), state)
    BY <1>1, <2>1, <2>2, <2>3, StateAdvances
  <2> QED
    BY <1>2, <2>4 DEF EvaluateCondition
<1> QED
  BY <1>3, <1>4

(***************************************************************************)
(* On every dialect a gate that requires a stage of a release keeps        *)
(* passing while the release goes on: whatever commands, resolutions and   *)
(* crashes interleave, with a lock or without one, only a row that says    *)
(* failed or running takes back what deriveGroupState has once reached.    *)
(***************************************************************************)
THEOREM RequirementsHold == Spec => RequirementsStay
<1> DEFINE A == Len(records) < Len(records') =>
                  \A name \in Names, state \in Range(Tail(StateOrder)) :
                    GatePasses(records, {<<name, state>>}, {})
                    /\ ~GatePasses(records', {<<name, state>>}, {})
                      => Fails(records'[Len(records')].status)
           RowInv == Typing /\ ClockOK /\ OutcomeOK
<1>1. Init => RowInv
  BY TypingInit, ClockInit, OutcomeInit
<1>2. RowInv /\ [Next]_vars => RowInv'
  BY TypingNext, ClockNext, OutcomeNext DEF Typing
<1>3. RowInv /\ [Next]_vars => [A]_vars
  <2> SUFFICES ASSUME RowInv, [Next]_vars, Len(records) < Len(records'),
                      NEW name \in Names, NEW state \in Range(Tail(StateOrder)),
                      GatePasses(records, {<<name, state>>}, {}),
                      ~Fails(records'[Len(records')].status)
               PROVE  GatePasses(records', {<<name, state>>}, {})
    OBVIOUS
  <2> USE DEF Typing
  <2>1. Len(records) \in Nat
    BY TableOfRows
  <2>2. PICK r : IsNote(r) /\ r.at \in NextTimes /\ records' = Append(records, r)
    BY <2>1, NextIsNote
  <2>3. Len(records') = Len(records) + 1 /\ records'[Len(records) + 1] = r
    BY <2>1, <2>2 DEF TypeOK
  <2>4. EvaluateCondition(records, name, state)
    BY DEF GatePasses
  <2>5. EvaluateCondition(records', name, state)
    BY <2>2, <2>3, <2>4, RequirementAfterRow
  <2> QED
    BY <2>5 DEF GatePasses
<1>4. Spec => [][A]_vars
  BY <1>1, <1>2, <1>3, PTL DEF Spec
<1> QED
  BY <1>4 DEF RequirementsStay

-----------------------------------------------------------------------------
(* Rows of phase files                                                     *)

\* A row about an execution names the group and phase of its file; one that
\* resolves names none, and there is a failed one that it resolves.
RowIsNote(k) ==
  \/ /\ records[k].status \in {"applied", "failed", "running"}
     /\ records[k].group = GroupOf[records[k].file]
     /\ records[k].phase = PhaseOf[records[k].file]
  \/ /\ records[k].status = "skipped"
     /\ records[k].group = None
     /\ records[k].phase = None
     /\ \E j \in DOMAIN records :
          records[j].file = records[k].file /\ records[j].status = "failed"

RowsAreNotes == \A k \in DOMAIN records : RowIsNote(k)

LEMMA NotesInit == Init => RowsAreNotes
BY DEF Init, RowsAreNotes

LEMMA NotesNext == Typing /\ OutcomeOK /\ RowsAreNotes /\ [Next]_vars => RowsAreNotes'
<1> SUFFICES ASSUME Typing, OutcomeOK, RowsAreNotes, [Next]_vars PROVE RowsAreNotes'
  OBVIOUS
<1> USE DEF Typing
<1>1. CASE UNCHANGED records
  BY <1>1 DEF RowsAreNotes, RowIsNote
<1>2. ASSUME NEW r, IsNote(r), records' = Append(records, r) PROVE RowsAreNotes'
  <2>1. PICK m \in Nat : m = Len(records)
    BY TableOfRows
  <2>2. /\ DOMAIN records = 1..m /\ DOMAIN records' = 1..(m + 1)
        /\ \A k \in 1..m : records'[k] = records[k]
        /\ records'[m + 1] = r
    BY <1>2, <2>1, TableOfRows DEF TypeOK
  <2>3. ASSUME NEW k \in 1..m PROVE RowIsNote(k)'
    <3>1. RowIsNote(k)
      BY <2>2 DEF RowsAreNotes
    <3> QED
      BY <2>1, <2>2, <3>1 DEF RowIsNote
  <2>4. RowIsNote(m + 1)'
    BY <1>2, <2>1, <2>2 DEF IsNote, RowIsNote
  <2> QED
    BY <2>1, <2>2, <2>3, <2>4 DEF RowsAreNotes
<1> QED
  BY <1>1, <1>2, NextIsNote

\* A phase file that has a row gives its phase one, and its group one.
LEMMA RowOfPhase ==
  ASSUME RowsAreNotes, NEW f \in Files, GroupOf[f] # None, RowsOf(records, f) # {}
  PROVE  /\ PhaseRows(records, GroupOf[f], PhaseOf[f]) # {}
         /\ IsGroupKnown(records, GroupOf[f])
<1>1. PICK k \in DOMAIN records : records[k].file = f
  BY DEF RowsOf
<1>2. PICK j \in DOMAIN records : records[j].file = f /\ records[j].status # "skipped"
  BY <1>1 DEF RowsAreNotes, RowIsNote
<1>3. records[j].group = GroupOf[f] /\ records[j].phase = PhaseOf[f]
  BY <1>2 DEF RowsAreNotes, RowIsNote
<1> QED
  BY <1>2, <1>3 DEF PhaseRows, IsGroupKnown

\* A phase that has a row is applied, failed or at work.
LEMMA PhaseHasOutcome ==
  ASSUME IsStrict(records), RowsAreNotes, NEW g \in Groups, NEW ph,
         PhaseRows(records, g, ph) # {}
  PROVE  PhaseStatus(records, g, ph) \in {"applied", "failed", "running"}
<1>1. PICK n \in DOMAIN records : IsLastOfPhase(records, g, ph, n)
  BY LastOfPhaseExists
<1>2. PhaseStatus(records, g, ph) = records[n].status
  BY <1>1, PhaseStatusAt
<1>3. records[n].group = g
  BY <1>1 DEF IsLastOfPhase, PhaseRows
<1> QED
  BY <1>2, <1>3, NoneAssumption DEF RowsAreNotes, RowIsNote

\* And one that has none, none.
LEMMA PhaseHasNone ==
  ASSUME NEW g, NEW ph, PhaseRows(records, g, ph) = {}
  PROVE  PhaseStatus(records, g, ph) = "none"
BY DEF PhaseStatus

-----------------------------------------------------------------------------
(* The phases in a pass                                                    *)

\* In the linear model what a pass has visited precedes what it has not, and the
\* file at hand is the first of those.
IsInOrder(c) ==
  IsMidPass(c) =>
    /\ \A e \in Scan(job[c].tree) \ left[c], f \in left[c] : Position(e) < Position(f)
    /\ pc[c] \in {"sql", "insert"} => IsFirstOf(work[c].file, left[c])

PassesAreInOrder == ~Dag => \A c \in Clients : IsInOrder(c)

\* A pass does not execute a backfill.
ExecutesNoBackfill(c) ==
  IsMidPass(c) /\ pc[c] \in {"sql", "insert"} => PhaseOf[work[c].file] # "backfill"

BackfillsAreLeft == \A c \in Clients : ExecutesNoBackfill(c)

\* A switch that a pass has behind it is blocked, and with it what depends on it,
\* or has a row, or may not be applied yet.
IsSwitchBehind(c, f) ==
  IsMidPass(c) /\ f \in Scan(job[c].tree) \ left[c] /\ PhaseOf[f] = "switch"

IsBarred(g) == IsGroupKnown(records, g) /\ ~CanAdvanceToPhase(records, g, "switch")

SwitchesAreSeen ==
  \A c \in Clients, f \in Files : IsSwitchBehind(c, f) =>
    \/ f \in blocked[c]
    \/ PhaseRows(records, GroupOf[f], "switch") # {}
    \/ IsBarred(GroupOf[f])

\* A contract whose SQL ran, or is at work, has the expand of its group behind
\* it; when it ran it has a row, unless that is still to come or was lost.
HasRun(f) == \E s \in Sums : <<f, s>> \in ran

IsAtWork(f) == \E e \in cli : e.file = f

ContractsAreNoted ==
  /\ \A f \in Files : PhaseOf[f] = "contract" /\ (HasRun(f) \/ IsAtWork(f)) =>
       PhaseRows(records, GroupOf[f], "expand") # {}
  /\ \A f \in Files : PhaseOf[f] = "contract" /\ HasRun(f) =>
       \/ PhaseRows(records, GroupOf[f], "contract") # {}
       \/ IsUnrecorded(f)
       \/ crashes > 0
  /\ \A e \in cli : e.owner = None => crashes > 0

LEMMA FirstPrecedes ==
  ASSUME NEW S \in SUBSET Files, NEW f, IsFirstOf(f, S), NEW g \in S, g # f
  PROVE  Position(f) < Position(g)
<1>1. f \in Files /\ g \in Files /\ Position(f) <= Position(g)
  BY DEF IsFirstOf
<1>2. \A h \in Files : Position(h) \in DOMAIN FileOrder /\ FileOrder[Position(h)] = h
  BY DEF Position, Files
<1>3. Position(f) \in Nat /\ Position(g) \in Nat
  BY <1>1, PositionOfFile
<1>4. Position(f) # Position(g)
  BY <1>1, <1>2
<1> QED
  BY <1>1, <1>3, <1>4

LEMMA OrderInit == Init => PassesAreInOrder
BY DEF Init, PassesAreInOrder, IsInOrder, IsMidPass

LEMMA OrderNext ==
  Typing /\ WorkOfTree /\ PassesAreInOrder /\ [Next]_vars => PassesAreInOrder'
<1> SUFFICES ASSUME Typing, WorkOfTree, PassesAreInOrder, ~Dag, [Next]_vars, NEW d \in Clients
             PROVE  IsInOrder(d)'
  BY DEF PassesAreInOrder
<1> USE DEF Typing
<1>1. ASSUME pc'[d] = pc[d], job'[d] = job[d], work'[d] = work[d], left'[d] = left[d]
      PROVE  IsInOrder(d)'
  BY <1>1 DEF PassesAreInOrder, IsInOrder, IsMidPass
<1>2. ASSUME ~IsMidPass(d)' PROVE IsInOrder(d)'
  BY <1>2 DEF IsInOrder
<1>3. ASSUME NEW c \in Clients,
             \/ \E j \in Jobs : Start(c, j)
             \/ Acquire(c) \/ WaitTimeout(c) \/ Close(c) \/ Crash(c) \/ Finish(c)
      PROVE  IsInOrder(d)'
  BY <1>1, <1>2, <1>3
     DEF Start, Acquire, WaitTimeout, Close, Crash, Finish, Exit, Goto, TypeOK, IsMidPass
<1>4. ASSUME NEW c \in Clients, OperatorStep(c) PROVE IsInOrder(d)'
  BY <1>1, <1>2, <1>4
     DEF OperatorStep, ResolveRead, ResolveInsert, AdvanceRead, ApplyPhaseRead, PhaseInsert,
         Running, Spawn, Goto, TypeOK, IsMidPass
<1>5. ASSUME NEW c \in Clients, LoadRecords(c) PROVE IsInOrder(d)'
  <2>1. CASE d # c
    BY <1>1, <1>5, <2>1 DEF LoadRecords, Goto, TypeOK
  <2>2. CASE d = c
    BY <1>2, <1>5, <2>2 DEF LoadRecords, Applying, Goto, TypeOK, IsMidPass, IsInOrder
  <2> QED
    BY <2>1, <2>2
<1>6. ASSUME NEW c \in Clients, NEW f \in left[c], IsFirstOf(f, left[c]), Visited(c, f),
             UNCHANGED job, IsMidPass(c), IsMidPass(d)' => IsMidPass(d),
             c = d => pc'[d] \notin {"sql", "insert"},
             c # d => pc'[d] = pc[d] /\ work'[d] = work[d]
      PROVE  IsInOrder(d)'
  <2>1. CASE d # c
    BY <1>1, <1>6, <2>1 DEF Visited, TypeOK
  <2>2. CASE d = c
    <3>1. left'[d] = left[d] \ {f} /\ left[d] \in SUBSET Files
      BY <1>6, <2>2 DEF Visited, TypeOK
    <3>2. \A g \in left'[d] : Position(f) < Position(g)
      BY <1>6, <2>2, <3>1, FirstPrecedes
    <3>3. \A e \in Scan(job[d].tree) \ left[d], g \in left[d] : Position(e) < Position(g)
      BY <1>6, <2>2 DEF PassesAreInOrder, IsInOrder
    <3>4. \A e \in Scan(job[d].tree) \ left'[d], g \in left'[d] : Position(e) < Position(g)
      BY <3>1, <3>2, <3>3
    <3> QED
      BY <1>6, <2>2, <3>4 DEF IsInOrder
  <2> QED
    BY <2>1, <2>2
<1>7. ASSUME NEW c \in Clients, PassOver(c) PROVE IsInOrder(d)'
  <2>1. PICK f \in left[c] : IsNext(c, f) /\ Visited(c, f)
    BY <1>7 DEF PassOver
  <2>2. IsFirstOf(f, left[c])
    BY <2>1 DEF IsNext
  <2> QED
    BY <1>6, <1>7, <2>1, <2>2 DEF PassOver, Applying, IsMidPass
<1>8. ASSUME NEW c \in Clients, Refuse(c) PROVE IsInOrder(d)'
  <2>1. PICK f \in left[c] : IsNext(c, f) /\ Visited(c, f)
    BY <1>8 DEF Refuse
  <2>2. IsFirstOf(f, left[c])
    BY <2>1 DEF IsNext
  <2>3. /\ IsMidPass(c) /\ UNCHANGED <<job, work>>
        /\ c # d => pc'[d] = pc[d]
        /\ c = d => pc'[d] = "close"
    BY <1>8 DEF Refuse, Applying, IsMidPass, AfterError, Goto, TypeOK
  <2> QED
    BY <1>6, <2>1, <2>2, <2>3 DEF IsMidPass
<1>9. ASSUME NEW c \in Clients, RecordResult(c) PROVE IsInOrder(d)'
  <2>1. IsMidPass(c) /\ pc[c] = "insert" /\ Visited(c, work[c].file)
    BY <1>9 DEF RecordResult, Applying, IsMidPass
  <2>2. work[c].file \in left[c] /\ IsFirstOf(work[c].file, left[c])
    BY <2>1 DEF PassesAreInOrder, IsInOrder, IsFirstOf
  <2>3. /\ UNCHANGED job
        /\ c # d => pc'[d] = pc[d] /\ work'[d] = work[d]
        /\ c = d => pc'[d] \in {"loop", "close"}
    BY <1>9 DEF RecordResult, AfterError, Goto, TypeOK
  <2> QED
    BY <1>6, <2>1, <2>2, <2>3 DEF IsMidPass
<1>10. ASSUME NEW c \in Clients, Execute(c) PROVE IsInOrder(d)'
  <2>1. CASE d # c
    BY <1>1, <1>10, <2>1 DEF Execute, Spawn, Goto, TypeOK
  <2>2. CASE d = c
    <3>1. PICK f \in left[c] : IsNext(c, f) /\ Spawn(c, f, job[c].tree[f])
      BY <1>10 DEF Execute
    <3>2. work'[c].file = f /\ IsFirstOf(f, left[c])
      BY <3>1 DEF Spawn, TypeOK, IsNext
    <3>3. job' = job /\ left' = left /\ IsMidPass(c)
      BY <1>10 DEF Execute, Applying, IsMidPass
    <3>4. IsInOrder(c)
      BY DEF PassesAreInOrder
    <3> QED
      BY <2>2, <3>2, <3>3, <3>4 DEF IsInOrder
  <2> QED
    BY <2>1, <2>2
<1>11. ASSUME NEW o \in Owners, SqlEndsOf(o) PROVE IsInOrder(d)'
  <2>1. PICK e \in cli : e.owner = o /\ SqlEnds(e)
    BY <1>11 DEF SqlEndsOf
  <2>2. CASE o # d
    BY <1>1, <2>1, <2>2 DEF SqlEnds, Goto, TypeOK, Owners
  <2>3. CASE o = d
    <3>1. o # None /\ pc[d] = "sql" /\ work[d] \in Work
      BY <2>1, <2>3, NoneAssumption DEF CliOK, LocalsOK
    <3>2. PICK status \in {"applied", "failed"} : work' = [work EXCEPT ![d].status = status]
      BY <2>1, <2>3, <3>1 DEF SqlEnds
    <3>3. work'[d].file = work[d].file /\ job' = job /\ left' = left
      BY <2>1, <3>1, <3>2 DEF SqlEnds, TypeOK, Work
    <3> QED
      BY <3>1, <3>3 DEF PassesAreInOrder, IsInOrder, IsMidPass
  <2> QED
    BY <2>2, <2>3
<1>12. CASE UNCHANGED vars
  BY <1>1, <1>12 DEF vars, clientVars
<1> QED
  BY <1>3, <1>4, <1>5, <1>7, <1>8, <1>9, <1>10, <1>11, <1>12
     DEF Next, Step, ApplyStep, Finished

LEMMA BackfillInit == Init => BackfillsAreLeft
BY DEF Init, BackfillsAreLeft, ExecutesNoBackfill, IsMidPass

LEMMA BackfillNext == Typing /\ BackfillsAreLeft /\ [Next]_vars => BackfillsAreLeft'
<1> SUFFICES ASSUME Typing, BackfillsAreLeft, [Next]_vars, NEW d \in Clients
             PROVE  ExecutesNoBackfill(d)'
  BY DEF BackfillsAreLeft
<1> USE DEF Typing
<1>1. ASSUME pc'[d] = pc[d], job'[d] = job[d], work'[d] = work[d] PROVE ExecutesNoBackfill(d)'
  BY <1>1 DEF BackfillsAreLeft, ExecutesNoBackfill, IsMidPass
<1>2. ASSUME pc'[d] \notin {"sql", "insert"} \/ job'[d].cmd # "apply"
      PROVE  ExecutesNoBackfill(d)'
  BY <1>2 DEF ExecutesNoBackfill, IsMidPass
<1>3. ASSUME NEW c \in Clients,
             \/ \E j \in Jobs : Start(c, j)
             \/ Acquire(c) \/ WaitTimeout(c) \/ Close(c) \/ Crash(c)
      PROVE  ExecutesNoBackfill(d)'
  BY <1>1, <1>2, <1>3 DEF Start, Acquire, WaitTimeout, Close, Crash, Exit, Goto, TypeOK
<1>4. ASSUME NEW c \in Clients,
             LoadRecords(c) \/ PassOver(c) \/ Refuse(c) \/ RecordResult(c) \/ Finish(c)
      PROVE  ExecutesNoBackfill(d)'
  BY <1>1, <1>2, <1>4
     DEF LoadRecords, PassOver, Refuse, RecordResult, Finish, Applying, AfterError, Goto, TypeOK
<1>5. ASSUME NEW c \in Clients, OperatorStep(c) PROVE ExecutesNoBackfill(d)'
  BY <1>1, <1>2, <1>5
     DEF OperatorStep, ResolveRead, ResolveInsert, AdvanceRead, ApplyPhaseRead, PhaseInsert,
         Running, Spawn, Goto, TypeOK
<1>6. ASSUME NEW c \in Clients, Execute(c) PROVE ExecutesNoBackfill(d)'
  <2>1. PICK f \in left[c] : ~IsPassedOver(c, f) /\ Spawn(c, f, job[c].tree[f])
    BY <1>6 DEF Execute
  <2>2. CASE d # c
    BY <1>1, <1>6, <2>2 DEF Execute, Spawn, Goto, TypeOK
  <2>3. CASE d = c
    <3>1. work'[c].file = f /\ PhaseOf[f] # "backfill"
      BY <2>1 DEF Spawn, TypeOK, IsPassedOver
    <3> QED
      BY <2>3, <3>1 DEF ExecutesNoBackfill
  <2> QED
    BY <2>2, <2>3
<1>7. ASSUME NEW o \in Owners, SqlEndsOf(o) PROVE ExecutesNoBackfill(d)'
  <2>1. PICK e \in cli : e.owner = o /\ SqlEnds(e)
    BY <1>7 DEF SqlEndsOf
  <2>2. CASE o # d
    BY <1>1, <2>1, <2>2 DEF SqlEnds, Goto, TypeOK, Owners
  <2>3. CASE o = d
    <3>1. o # None /\ pc[d] = "sql" /\ work[d] \in Work
      BY <2>1, <2>3, NoneAssumption DEF CliOK, LocalsOK
    <3>2. PICK status \in {"applied", "failed"} : work' = [work EXCEPT ![d].status = status]
      BY <2>1, <2>3, <3>1 DEF SqlEnds
    <3>3. work'[d].file = work[d].file /\ job' = job
      BY <2>1, <3>1, <3>2 DEF SqlEnds, TypeOK, Work
    <3> QED
      BY <3>1, <3>3 DEF BackfillsAreLeft, ExecutesNoBackfill, IsMidPass
  <2> QED
    BY <2>2, <2>3
<1>8. CASE UNCHANGED vars
  BY <1>1, <1>8 DEF vars, clientVars
<1> QED
  BY <1>3, <1>4, <1>5, <1>6, <1>7, <1>8 DEF Next, Step, ApplyStep, Finished

\* The tables before and after a step are strict.
LEMMA StrictStep ==
  ASSUME HasLock, Typing, ClockOK, [Next]_vars
  PROVE  IsStrict(records) /\ IsStrict(records)'
<1>1. Typing' /\ ClockOK'
  BY TypingNext, ClockNext DEF Typing
<1>2. IsStrict(records)
  BY RecordsAreStrict DEF Typing
<1>3. (HasLock /\ TypeOK /\ ClockOK => IsStrict(records))'
  BY RecordsAreStrict, PTL
<1> QED
  BY <1>1, <1>2, <1>3 DEF HasLock, Typing

\* A phase file belongs to a group.
LEMMA PhaseHasGroup ==
  ASSUME NEW f \in Files, PhaseOf[f] \in Phases
  PROVE  GroupOf[f] \in Groups /\ GroupOf[f] # None
BY FilesAssumption, NoneAssumption

\* A row that is about neither the expand nor the backfill of a group leaves
\* its switch barred.
LEMMA SwitchStaysSeen ==
  ASSUME TypeOK, IsStrict(records), IsStrict(records)', NEW r, records' = Append(records, r),
         NEW g, r.group # g \/ r.phase \notin {"expand", "backfill"},
         PhaseRows(records, g, "switch") # {} \/ IsBarred(g)
  PROVE  PhaseRows(records', g, "switch") # {} \/ IsBarred(g)'
<1>1. \A k \in DOMAIN records : k \in DOMAIN records' /\ records'[k] = records[k]
  BY TableOfRows DEF TypeOK
<1>2. CASE PhaseRows(records, g, "switch") # {}
  BY <1>1, <1>2 DEF PhaseRows
<1>3. CASE IsBarred(g)
  <2>1. IsGroupKnown(records', g)
    BY <1>1, <1>3 DEF IsBarred, IsGroupKnown
  <2>2. /\ PhaseStatus(records', g, "expand") = PhaseStatus(records, g, "expand")
        /\ PhaseStatus(records', g, "backfill") = PhaseStatus(records, g, "backfill")
    BY PhaseStatusAfter
  <2> QED
    BY <1>3, <2>1, <2>2 DEF IsBarred, CanAdvanceToPhase
<1> QED
  BY <1>2, <1>3

\* A phase is behind a pass that has the next one behind it, or comes to it.
LEMMA PhaseIsBehind ==
  ASSUME DependenciesAreAcyclic, PhasesAreInOrder, LocalsOK, PassesAreInOrder,
         VisitedAreClosed, NEW c \in Clients, IsMidPass(c),
         NEW f \in Scan(job[c].tree), f \notin left[c] \/ IsNext(c, f),
         NEW e \in Scan(job[c].tree), GroupOf[e] = GroupOf[f],
         <<PhaseOf[e], PhaseOf[f]>> \in {<<"expand", "switch">>, <<"switch", "contract">>}
  PROVE  e \notin left[c]
<1> SUFFICES ASSUME e \in left[c] PROVE FALSE
  OBVIOUS
<1> DEFINE G == GraphOf(job[c].tree)
           behind == (Scan(job[c].tree) \ left[c]) \cup {f}
<1>1. job[c] \in Jobs /\ job[c].cmd = "apply" /\ e \in Files /\ f \in Files
  BY DEF LocalsOK, IsMidPass, Scan
<1>2. CASE ~Dag
  <2>1. Position(e) < Position(f) /\ Position(f) <= Position(e)
    BY <1>1, <1>2, PositionOfFile DEF PhasesAreInOrder, PassesAreInOrder, IsInOrder, IsNext, IsFirstOf
  <2> QED
    BY <1>1, <2>1, PositionOfFile
<1>3. CASE Dag
  <2>1. e \in TransitiveDependencies(G, f) /\ IsAcyclic(G)
    BY <1>1, <1>3 DEF PhasesAreInOrder, DependenciesAreAcyclic
  <2>2. \A x \in Scan(job[c].tree) \ left[c] : Successors(G, x) \cap left[c] = {}
    BY <1>3, <2>1 DEF VisitedAreClosed, IsVisited, Scan
  <2>3. Successors(G, f) \cap left[c] = {}
    BY <1>3, <2>1, <2>2 DEF IsNext, IsFirstOf, Ready
  <2>4. \A x : Successors(G, x) \subseteq Scan(job[c].tree)
    BY GraphOfIsGraph DEF Successors
  <2>5. IsGraph(G) /\ f \in behind /\ \A x \in behind : Successors(G, x) \subseteq behind
    BY <2>2, <2>3, <2>4, GraphOfIsGraph
  <2>6. e \in behind
    BY <2>1, <2>5, DependenciesStayInside
  <2> QED
    BY <2>6
<1> QED
  BY <1>2, <1>3

LEMMA SwitchInit == Init => SwitchesAreSeen
BY DEF Init, SwitchesAreSeen, IsSwitchBehind, IsMidPass

LEMMA SwitchNext ==
  ASSUME HasLock, DependenciesAreAcyclic, PhasesAreInOrder, StepInv, OutcomeOK, RowsAreNotes,
         WorkOfTree, VisitedAreClosed, PassesAreInOrder, BackfillsAreLeft, SwitchesAreSeen,
         [Next]_vars
  PROVE  SwitchesAreSeen'
<1> DEFINE IsSeen(f) == PhaseRows(records, GroupOf[f], "switch") # {} \/ IsBarred(GroupOf[f])
<1> SUFFICES ASSUME NEW d \in Clients, NEW w \in Files, IsSwitchBehind(d, w)'
             PROVE  w \in blocked'[d] \/ IsSeen(w)'
  BY DEF SwitchesAreSeen
<1> DEFINE Goal == w \in blocked'[d] \/ IsSeen(w)'
<1> USE DEF StepInv, Typing
<1>s. IsStrict(records) /\ IsStrict(records)'
  BY StrictStep
<1>g. GroupOf[w] \in Groups /\ GroupOf[w] # None /\ PhaseOf[w] = "switch"
  <2>1. PhaseOf[w] = "switch"
    BY DEF IsSwitchBehind
  <2> QED
    BY <2>1, PhaseHasGroup DEF Phases
<1>1. ASSUME UNCHANGED records, blocked[d] \subseteq blocked'[d], IsSwitchBehind(d, w)
      PROVE  Goal
  BY <1>1 DEF SwitchesAreSeen, IsBarred
<1>2. ASSUME NEW r, records' = Append(records, r), IsSwitchBehind(d, w),
             blocked[d] \subseteq blocked'[d],
             r.group # GroupOf[w] \/ r.phase \notin {"expand", "backfill"}
      PROVE  Goal
  <2>1. w \in blocked[d] \/ IsSeen(w)
    BY <1>2 DEF SwitchesAreSeen
  <2> QED
    BY <1>2, <1>s, <2>1, SwitchStaysSeen
<1>3. ASSUME NEW c \in Clients,
             \/ \E j \in Jobs : Start(c, j)
             \/ Acquire(c) \/ WaitTimeout(c) \/ Close(c) \/ Crash(c) \/ Finish(c)
      PROVE  Goal
  BY <1>1, <1>3
     DEF Start, Acquire, WaitTimeout, Close, Crash, Finish, Exit, Goto, TypeOK, dbVars,
         IsSwitchBehind, IsMidPass
<1>4. ASSUME NEW c \in Clients, ResolveRead(c) \/ AdvanceRead(c) \/ ApplyPhaseRead(c)
      PROVE  Goal
  BY <1>1, <1>4
     DEF ResolveRead, AdvanceRead, ApplyPhaseRead, Running, Spawn, Goto, TypeOK, dbVars,
         IsSwitchBehind, IsMidPass
<1>5. ASSUME NEW c \in Clients, LoadRecords(c) PROVE Goal
  BY <1>1, <1>5 DEF LoadRecords, Applying, Goto, TypeOK, dbVars, IsSwitchBehind, IsMidPass
<1>6. ASSUME NEW c \in Clients, Execute(c) PROVE Goal
  BY <1>1, <1>6 DEF Execute, Applying, Spawn, Goto, TypeOK, dbVars, IsSwitchBehind, IsMidPass
<1>7. ASSUME NEW o \in Owners, SqlEndsOf(o) PROVE Goal
  BY <1>1, <1>7
     DEF SqlEndsOf, SqlEnds, CliOK, Goto, Owners, TypeOK, dbVars, IsSwitchBehind, IsMidPass
<1>8. ASSUME NEW c \in Clients, Refuse(c) PROVE Goal
  <2>1. PICK f \in left[c] : Verdict(c, f) = "refuse" /\ Visited(c, f)
    BY <1>8 DEF Refuse
  <2>2. /\ UNCHANGED records /\ UNCHANGED job /\ IsMidPass(c)
        /\ IsMidPass(d) /\ blocked[d] \subseteq blocked'[d]
    BY <1>8 DEF Refuse, Applying, AfterError, Goto, TypeOK, dbVars, IsSwitchBehind, IsMidPass
  <2>3. CASE c = d /\ f = w
    <3>1. RowsOf(Seen(c), f) # {}
      BY <2>1 DEF Verdict
    <3>2. RowsOf(records, f) # {}
      BY <2>2, <3>1, PassView, SeenLatestIsLast
    <3>3. PhaseRows(records, GroupOf[w], "switch") # {}
      BY <1>g, <2>3, <3>2, RowOfPhase
    <3> QED
      BY <2>2, <3>3
  <2>4. CASE ~(c = d /\ f = w)
    <3>1. IsSwitchBehind(d, w)
      BY <2>1, <2>2, <2>4 DEF Visited, TypeOK, IsSwitchBehind, IsMidPass
    <3> QED
      BY <1>1, <2>2, <3>1
  <2> QED
    BY <2>3, <2>4
<1>9. ASSUME NEW c \in Clients, PassOver(c) PROVE Goal
  <2>1. PICK f \in left[c] : /\ IsPassedOver(c, f) \/ Verdict(c, f) = "settled"
                             /\ Visited(c, f)
    BY <1>9 DEF PassOver
  <2>2. UNCHANGED records /\ UNCHANGED <<pc, job, blocked>> /\ IsMidPass(c)
    BY <1>9 DEF PassOver, Applying, IsMidPass, dbVars
  <2>3. CASE c = d /\ f = w
    <3>1. CASE IsPassedOver(c, f)
      <4>1. f \in blocked[c] \/ IsGated(f)
        BY <1>g, <2>3, <3>1 DEF IsPassedOver, IsHeldByOpenGroup
      <4>2. f \in blocked[c] \/ IsBarred(GroupOf[w])
        BY <1>g, <2>3, <4>1 DEF IsGated, IsBarred
      <4> QED
        BY <2>2, <2>3, <4>2 DEF IsBarred
    <3>2. CASE Verdict(c, f) = "settled"
      <4>1. RowsOf(Seen(c), f) # {}
        BY <3>2 DEF Verdict
      <4>2. RowsOf(records, f) # {}
        BY <4>1, PassView, SeenLatestIsLast
      <4>3. PhaseRows(records, GroupOf[w], "switch") # {}
        BY <1>g, <2>3, <4>2, RowOfPhase
      <4> QED
        BY <2>2, <4>3
    <3> QED
      BY <2>1, <3>1, <3>2
  <2>4. CASE ~(c = d /\ f = w)
    <3>1. IsSwitchBehind(d, w)
      BY <2>1, <2>2, <2>4 DEF Visited, TypeOK, IsSwitchBehind, IsMidPass
    <3> QED
      BY <1>1, <2>2, <3>1
  <2> QED
    BY <2>3, <2>4
<1>10. ASSUME NEW c \in Clients, RecordResult(c) PROVE Goal
  <2> DEFINE f == work[c].file
             row(t) == [file |-> f, sum |-> work[c].sum, status |-> work[c].status, at |-> t,
                        group |-> GroupOf[f], phase |-> PhaseOf[f]]
  <2>1. PICK t \in NextTimes : records' = Append(records, row(t))
    BY <1>10 DEF RecordResult, InsertRow
  <2>2. row(t).group = GroupOf[f] /\ row(t).phase = PhaseOf[f]
    OBVIOUS
  <2> HIDE DEF row
  <2>3. /\ IsMidPass(c) /\ IsMidPass(d) /\ pc[c] = "insert" /\ job[c].cmd = "apply"
        /\ blocked[d] \subseteq blocked'[d]
    BY <1>10 DEF RecordResult, Applying, AfterError, Goto, TypeOK, IsSwitchBehind, IsMidPass
  <2>4. c = d
    BY <2>3, PassHoldsLock
  <2>5. job' = job /\ left'[d] = left[d] \ {f}
    BY <1>10, <2>4 DEF RecordResult, Visited, TypeOK
  <2>6. CASE f = w
    <3>1. PICK m \in Nat : m = Len(records)
      BY TableOfRows
    <3>2. m + 1 \in DOMAIN records' /\ records'[m + 1] = row(t)
      BY <2>1, <3>1 DEF TypeOK
    <3>3. PhaseRows(records', GroupOf[w], "switch") # {}
      BY <1>g, <2>2, <2>6, <3>2 DEF PhaseRows
    <3> QED
      BY <3>3
  <2>7. CASE f # w
    <3>1. IsSwitchBehind(d, w)
      BY <2>3, <2>5, <2>7 DEF IsSwitchBehind
    <3>2. f \in left[d] /\ PhaseOf[f] # "backfill"
      BY <2>3, <2>4 DEF WorkOfTree, OfTree, BackfillsAreLeft, ExecutesNoBackfill
    <3>3. f \in Scan(job[d].tree) /\ w \in Scan(job[d].tree) \ left[d] /\ IsMidPass(d)
      BY <3>1, <3>2 DEF IsSwitchBehind, IsMidPass, LocalsOK
    <3>4. ~(GroupOf[f] = GroupOf[w] /\ PhaseOf[f] = "expand")
      BY <1>g, <3>2, <3>3, PhaseIsBehind
    <3> QED
      BY <1>2, <2>1, <2>2, <2>3, <3>1, <3>2, <3>4
  <2> QED
    BY <2>6, <2>7
<1>11. ASSUME NEW c \in Clients, ResolveInsert(c) PROVE Goal
  <2> DEFINE row(t) == [file |-> work[c].file, sum |-> work[c].sum, status |-> "skipped",
                        at |-> t, group |-> None, phase |-> None]
  <2>1. PICK t \in NextTimes : records' = Append(records, row(t))
    BY <1>11 DEF ResolveInsert, InsertRow
  <2>2. row(t).group # GroupOf[w]
    BY <1>g
  <2> HIDE DEF row
  <2>3. IsSwitchBehind(d, w) /\ blocked[d] \subseteq blocked'[d]
    BY <1>11 DEF ResolveInsert, Running, Goto, TypeOK, IsSwitchBehind, IsMidPass
  <2> QED
    BY <1>2, <2>1, <2>2, <2>3
<1>12. ASSUME NEW c \in Clients, PhaseInsert(c) PROVE Goal
  <2>1. IsMidPass(d) /\ IsInLock(c) /\ job[c].cmd # "apply"
    BY <1>12 DEF PhaseInsert, Running, Goto, TypeOK, IsInLock, Locks, IsSwitchBehind, IsMidPass
  <2>2. holder = d /\ holder = c
    BY <2>1, PassHoldsLock DEF LockHeld
  <2> QED
    BY <2>1, <2>2 DEF IsMidPass
<1>13. CASE UNCHANGED vars
  BY <1>1, <1>13 DEF vars, dbVars, clientVars, IsSwitchBehind, IsMidPass
<1> QED
  BY <1>3, <1>4, <1>5, <1>6, <1>7, <1>8, <1>9, <1>10, <1>11, <1>12, <1>13
     DEF Next, Step, ApplyStep, OperatorStep, Finished

-----------------------------------------------------------------------------
(* The order of the phases                                                 *)

GroupInv ==
  PassInv /\ RowsAreNotes /\ PassesAreInOrder /\ BackfillsAreLeft /\ SwitchesAreSeen

LEMMA GroupInvNext ==
  ASSUME HasLock, DependenciesAreAcyclic, PhasesAreInOrder, GroupInv, [Next]_vars
  PROVE  GroupInv'
<1>1. PassInv'
  BY PassInvNext DEF GroupInv
<1> QED
  BY <1>1, NotesNext, OrderNext, BackfillNext, SwitchNext DEF GroupInv, PassInv, StepInv

LEMMA GroupInvHolds ==
  HasLock /\ DependenciesAreAcyclic /\ PhasesAreInOrder => (Spec => []GroupInv)
<1> SUFFICES ASSUME HasLock, DependenciesAreAcyclic, PhasesAreInOrder PROVE Spec => []GroupInv
  OBVIOUS
<1>1. Init => GroupInv
  BY PassInvInit, NotesInit, OrderInit, BackfillInit, SwitchInit DEF GroupInv
<1>2. GroupInv /\ [Next]_vars => GroupInv'
  BY GroupInvNext
<1> QED
  BY <1>1, <1>2, PTL DEF Spec

LEMMA NotesHold == HasLock => (Spec => [](PassInv /\ RowsAreNotes))
<1> SUFFICES ASSUME HasLock PROVE Spec => [](PassInv /\ RowsAreNotes)
  OBVIOUS
<1>1. Init => PassInv /\ RowsAreNotes
  BY PassInvInit, NotesInit
<1>2. PassInv /\ RowsAreNotes /\ [Next]_vars => (PassInv /\ RowsAreNotes)'
  <2> SUFFICES ASSUME PassInv, RowsAreNotes, [Next]_vars PROVE PassInv' /\ RowsAreNotes'
    OBVIOUS
  <2> QED
    BY PassInvNext, NotesNext DEF PassInv, StepInv
<1> QED
  BY <1>1, <1>2, PTL DEF Spec

\* Only Execute and ApplyPhaseRead start the SQL of a file.
LEMMA StartedBy ==
  ASSUME Typing, [Next]_vars, NEW c \in Clients, AnyStarts(c)
  PROVE  Execute(c) \/ ApplyPhaseRead(c)
<1> USE DEF AnyStarts, Typing, TypeOK
<1>1. ASSUME NEW d \in Clients,
             \/ \E j \in Jobs : Start(d, j)
             \/ Acquire(d) \/ WaitTimeout(d) \/ Close(d) \/ Crash(d)
             \/ LoadRecords(d) \/ PassOver(d) \/ Refuse(d) \/ RecordResult(d) \/ Finish(d)
             \/ ResolveRead(d) \/ ResolveInsert(d) \/ AdvanceRead(d) \/ PhaseInsert(d)
      PROVE  FALSE
  BY <1>1 DEF Start, Acquire, WaitTimeout, Close, Crash, Exit, LoadRecords, PassOver, Refuse,
              RecordResult, Finish, AfterError, ResolveRead, ResolveInsert, AdvanceRead,
              PhaseInsert, Goto
<1>2. ASSUME NEW d \in Clients, Execute(d) \/ ApplyPhaseRead(d)
      PROVE  Execute(c) \/ ApplyPhaseRead(c)
  BY <1>2 DEF Execute, ApplyPhaseRead, Spawn, Goto
<1>3. ASSUME NEW o \in Owners, SqlEndsOf(o) PROVE FALSE
  BY <1>3 DEF SqlEndsOf, SqlEnds, CliOK, Goto, Owners
<1>4. CASE UNCHANGED vars
  BY <1>4 DEF vars, clientVars
<1> QED
  BY <1>1, <1>2, <1>3, <1>4 DEF Next, Step, ApplyStep, OperatorStep, Finished

\* In the linear model it takes groups with expands, and numbers in their order.
LEMMA NumbersPutExpandsFirst ==
  ~Dag /\ GroupsHaveExpand /\ PhasesAreNumbered =>
    ExpandsComeFirst /\ PhasesAreInOrder /\ DependenciesAreAcyclic
BY DEF GroupsHaveExpand, PhasesAreNumbered, Precede, ExpandsComeFirst, PhasesAreInOrder, Before,
       Scan, DependenciesAreAcyclic

\* A switch or contract starts only where the table lets its group advance.
LEMMA StartedMayAdvance ==
  ASSUME DependenciesAreAcyclic, ExpandsComeFirst, PassInv, RowsAreNotes, [Next]_vars,
         NEW c \in Clients, AnyStarts(c), PhaseOf[StartedFile(c)] \in {"switch", "contract"}
  PROVE  /\ StartedFile(c) \in Files
         /\ CanAdvanceToPhase(records, GroupOf[StartedFile(c)], PhaseOf[StartedFile(c)])
<1> USE DEF PassInv, StepInv, Typing
<1>1. CASE ApplyPhaseRead(c)
  <2> DEFINE f == job[c].file
  <2>1. CanAdvanceToPhase(records, GroupOf[f], PhaseOf[f]) /\ Spawn(c, f, job[c].tree[f])
    BY <1>1 DEF ApplyPhaseRead, AnyStarts, Goto, TypeOK
  <2>2. StartedFile(c) = f
    BY <2>1 DEF Spawn, StartedFile, TypeOK
  <2>3. f \in Files
    BY <1>1, JobFields DEF ApplyPhaseRead, Running, LocalsOK
  <2> QED
    BY <2>1, <2>2, <2>3
<1>2. CASE Execute(c)
  <2> DEFINE f == StartedFile(c)
  <2>1. ApplyStarts(c)
    BY <1>2 DEF AnyStarts, ApplyStarts, Execute, Applying
  <2>2. IsMidPass(c) /\ f \in left[c] /\ ~IsGated(f)
    BY <2>1, StartedByVerdict DEF IsPassedOver
  <2>3. f \in Scan(job[c].tree) /\ f \in Files /\ job[c] \in Jobs /\ job[c].cmd = "apply"
    BY <2>2 DEF LocalsOK, IsMidPass, Scan
  <2>4. PICK e \in Before(job[c].tree, f) : GroupOf[e] = GroupOf[f] /\ PhaseOf[e] = "expand"
    BY <2>3 DEF ExpandsComeFirst
  <2>5. e \in Files /\ GroupOf[e] # None
    BY <2>4, PhaseHasGroup DEF Before, Scan, Phases
  <2>6. RowsOf(records, e) # {}
    BY <2>1, <2>4, <2>5, BeforeIsSettled DEF IsSettled, IsHeldByOpenGroup
  <2>7. IsGroupKnown(records, GroupOf[f])
    BY <2>4, <2>5, <2>6, RowOfPhase
  <2> QED
    BY <2>2, <2>3, <2>7, NoneAssumption DEF IsGated, Phases
<1> QED
  BY <1>1, <1>2, StartedBy

(***************************************************************************)
(* Under an advisory lock, where the expand of a group comes before its    *)
(* other phases (by number, or by dependencies without cycles): however    *)
(* apply, apply-phase and the reports of an executor interleave, the SQL   *)
(* of a switch or contract starts only with the prerequisites of its phase *)
(* in the table.                                                           *)
(***************************************************************************)
THEOREM PrerequisitesAreMet ==
  HasLock /\ DependenciesAreAcyclic /\ ExpandsComeFirst => (Spec => PhasePrerequisites)
<1> SUFFICES ASSUME HasLock, DependenciesAreAcyclic, ExpandsComeFirst
             PROVE  Spec => PhasePrerequisites
  OBVIOUS
<1> DEFINE A == \A c \in Clients : AnyStarts(c) =>
                  LET g  == GroupOf[StartedFile(c)]
                      ph == PhaseOf[StartedFile(c)]
                  IN  ph \in {"switch", "contract"} =>
                        /\ NewestOfPhase(g, "expand") = "applied"
                        /\ NewestOfPhase(g, "backfill") \in Unneeded
                        /\ ph = "contract" => NewestOfPhase(g, "switch") \in Unneeded
<1>1. PassInv /\ RowsAreNotes /\ [Next]_vars => [A]_vars
  <2> SUFFICES ASSUME PassInv, RowsAreNotes, [Next]_vars, NEW c \in Clients, AnyStarts(c),
                      PhaseOf[StartedFile(c)] \in {"switch", "contract"}
               PROVE  /\ NewestOfPhase(GroupOf[StartedFile(c)], "expand") = "applied"
                      /\ NewestOfPhase(GroupOf[StartedFile(c)], "backfill") \in Unneeded
                      /\ PhaseOf[StartedFile(c)] = "contract" =>
                           NewestOfPhase(GroupOf[StartedFile(c)], "switch") \in Unneeded
    OBVIOUS
  <2>1. CanAdvanceToPhase(records, GroupOf[StartedFile(c)], PhaseOf[StartedFile(c)])
    BY StartedMayAdvance
  <2>2. IsStrict(records)
    BY StrictStep DEF PassInv, StepInv
  <2> QED
    BY <2>1, <2>2, PhaseStatusIsNewest DEF CanAdvanceToPhase
<1>2. Spec => [][A]_vars
  BY <1>1, NotesHold, PTL DEF Spec
<1> QED
  BY <1>2 DEF PhasePrerequisites

(***************************************************************************)
(* Under the same conditions, and where the other phases of a group are in *)
(* order, too, apply starts the SQL of a contract only with the switch of  *)
(* its group applied, if the checkout has one, though a pass goes on       *)
(* behind a switch that it has to leave alone, and in the DAG model behind *)
(* files in error.                                                         *)
(***************************************************************************)
THEOREM SwitchComesFirst ==
  HasLock /\ DependenciesAreAcyclic /\ ExpandsComeFirst /\ PhasesAreInOrder
    => (Spec => ContractAfterSwitch)
<1> SUFFICES ASSUME HasLock, DependenciesAreAcyclic, ExpandsComeFirst, PhasesAreInOrder
             PROVE  Spec => ContractAfterSwitch
  OBVIOUS
<1> DEFINE A == \A c \in Clients : ApplyStarts(c) /\ PhaseOf[StartedFile(c)] = "contract" =>
                  LET g == GroupOf[StartedFile(c)]
                  IN  (\E f \in Scan(job[c].tree) : GroupOf[f] = g /\ PhaseOf[f] = "switch")
                        => NewestOfPhase(g, "switch") = "applied"
<1>1. GroupInv /\ [Next]_vars => [A]_vars
  <2> SUFFICES ASSUME GroupInv, [Next]_vars, NEW c \in Clients, ApplyStarts(c),
                      PhaseOf[StartedFile(c)] = "contract",
                      NEW w \in Scan(job[c].tree),
                      GroupOf[w] = GroupOf[StartedFile(c)], PhaseOf[w] = "switch"
               PROVE  NewestOfPhase(GroupOf[w], "switch") = "applied"
    OBVIOUS
  <2> USE DEF GroupInv, PassInv, StepInv, Typing
  <2> DEFINE f == StartedFile(c)
  <2>1. /\ IsMidPass(c) /\ f \in left[c] /\ IsNext(c, f) /\ f \notin blocked[c]
        /\ f \in Scan(job[c].tree) /\ job[c] \in Jobs /\ job[c].cmd = "apply"
    BY StartedByVerdict DEF IsPassedOver, LocalsOK, IsMidPass
  <2>2. f \in Files /\ w \in Files /\ GroupOf[w] \in Groups
    BY <2>1, PhaseHasGroup DEF TypeOK, Scan, Phases
  <2>3. w \notin left[c]
    BY <2>1, PhaseIsBehind
  <2>4. w \notin blocked[c]
    <3>1. CASE ~Dag
      BY <3>1 DEF NothingBlocked
    <3>2. CASE Dag
      <4>1. f \in TransitiveDependents(GraphOf(job[c].tree), w)
        BY <2>1, <3>2 DEF PhasesAreInOrder, TransitiveDependencies
      <4> QED
        BY <2>1, <4>1 DEF BlockedIsJustified, IsMidPass
    <3> QED
      BY <3>1, <3>2
  <2>5. PhaseRows(records, GroupOf[w], "switch") # {} \/ IsBarred(GroupOf[w])
    BY <2>1, <2>2, <2>3, <2>4 DEF SwitchesAreSeen, IsSwitchBehind
  <2>6. CanAdvanceToPhase(records, GroupOf[w], "contract")
    BY StartedMayAdvance DEF ApplyStarts, AnyStarts
  <2>7. /\ PhaseRows(records, GroupOf[w], "switch") # {}
        /\ PhaseStatus(records, GroupOf[w], "switch") \in Unneeded
    BY <2>5, <2>6 DEF IsBarred, CanAdvanceToPhase
  <2>8. IsStrict(records)
    BY StrictStep
  <2>9. PhaseStatus(records, GroupOf[w], "switch") = "applied"
    BY <2>2, <2>7, <2>8, PhaseHasOutcome DEF Unneeded
  <2> QED
    BY <2>8, <2>9, PhaseStatusIsNewest
<1>2. Spec => [][A]_vars
  BY <1>1, GroupInvHolds, PTL DEF Spec
<1> QED
  BY <1>2 DEF ContractAfterSwitch

\* In the linear model the numbers that new gives to the files are enough.
COROLLARY NumberedSwitchComesFirst ==
  HasLock /\ ~Dag /\ GroupsHaveExpand /\ PhasesAreNumbered => (Spec => ContractAfterSwitch)
BY SwitchComesFirst, NumbersPutExpandsFirst

-----------------------------------------------------------------------------
(* What depends on a group                                                 *)

\* Since a pass began, no row but resolutions and its own has been inserted.
IsOfPass(c, k) ==
  \/ records[k].status = "skipped"
  \/ /\ records[k].status \in {"applied", "failed"}
     /\ records[k].file \in Scan(job[c].tree) \ left[c]

RowsAreOfPass ==
  \A c \in Clients : IsMidPass(c) =>
    \A k \in DOMAIN records : k > snap[c] => IsOfPass(c, k)

LEMMA OfPassInit == Init => RowsAreOfPass
BY DEF Init, RowsAreOfPass, IsMidPass

LEMMA OfPassNext ==
  ASSUME HasLock, StepInv, OutcomeOK, WorkOfTree, RowsAreOfPass, [Next]_vars
  PROVE  RowsAreOfPass'
<1> SUFFICES ASSUME NEW d \in Clients, IsMidPass(d)',
                    NEW k \in DOMAIN records', k > snap'[d]
             PROVE  IsOfPass(d, k)'
  BY DEF RowsAreOfPass
<1> USE DEF StepInv, Typing
<1> DEFINE Goal == IsOfPass(d, k)'
           goesOn == /\ IsMidPass(d) /\ job'[d] = job[d] /\ snap'[d] = snap[d]
                     /\ left'[d] \subseteq left[d]
<1>1. ASSUME UNCHANGED records, goesOn PROVE Goal
  BY <1>1 DEF RowsAreOfPass, IsOfPass
<1>2. ASSUME NEW r, records' = Append(records, r), goesOn,
             \/ r.status = "skipped"
             \/ /\ r.status \in {"applied", "failed"}
                /\ r.file \in Scan(job[d].tree) \ left'[d]
      PROVE  Goal
  <2>1. PICK m \in Nat : m = Len(records)
    BY TableOfRows
  <2>2. /\ DOMAIN records = 1..m /\ DOMAIN records' = 1..(m + 1)
        /\ \A j \in 1..m : records'[j] = records[j]
        /\ records'[m + 1] = r
    BY <1>2, <2>1 DEF TypeOK
  <2>3. CASE k = m + 1
    BY <1>2, <2>2, <2>3 DEF IsOfPass
  <2>4. CASE k # m + 1
    BY <1>2, <2>2, <2>4 DEF RowsAreOfPass, IsOfPass
  <2> QED
    BY <2>3, <2>4
<1>3. ASSUME NEW c \in Clients,
             \/ \E j \in Jobs : Start(c, j)
             \/ Acquire(c) \/ WaitTimeout(c) \/ Close(c) \/ Crash(c) \/ Finish(c)
      PROVE  Goal
  BY <1>1, <1>3
     DEF Start, Acquire, WaitTimeout, Close, Crash, Finish, Exit, Goto, TypeOK, dbVars, IsMidPass
<1>4. ASSUME NEW c \in Clients, ResolveRead(c) \/ AdvanceRead(c) \/ ApplyPhaseRead(c)
      PROVE  Goal
  BY <1>1, <1>4
     DEF ResolveRead, AdvanceRead, ApplyPhaseRead, Running, Spawn, Goto, TypeOK, dbVars, IsMidPass
<1>5. ASSUME NEW c \in Clients, LoadRecords(c) PROVE Goal
  <2>1. CASE c # d
    BY <1>1, <1>5, <2>1 DEF LoadRecords, Applying, Goto, TypeOK, dbVars, IsMidPass
  <2>2. CASE c = d
    <3>1. snap'[d] = Len(records) /\ records' = records
      BY <1>5, <2>2 DEF LoadRecords, Applying, Goto, TypeOK, dbVars, IsMidPass
    <3> QED
      BY <3>1 DEF TypeOK
  <2> QED
    BY <2>1, <2>2
<1>6. ASSUME NEW c \in Clients, Execute(c) PROVE Goal
  BY <1>1, <1>6 DEF Execute, Applying, Spawn, Goto, TypeOK, dbVars, IsMidPass
<1>7. ASSUME NEW o \in Owners, SqlEndsOf(o) PROVE Goal
  BY <1>1, <1>7 DEF SqlEndsOf, SqlEnds, CliOK, Goto, Owners, TypeOK, dbVars, IsMidPass
<1>8. ASSUME NEW c \in Clients, PassOver(c) \/ Refuse(c) PROVE Goal
  BY <1>1, <1>8
     DEF PassOver, Refuse, Applying, Visited, AfterError, Goto, TypeOK, dbVars, IsMidPass
<1>9. ASSUME NEW c \in Clients, RecordResult(c) PROVE Goal
  <2> DEFINE f == work[c].file
             row(t) == [file |-> f, sum |-> work[c].sum, status |-> work[c].status, at |-> t,
                        group |-> GroupOf[f], phase |-> PhaseOf[f]]
  <2>1. PICK t \in NextTimes : records' = Append(records, row(t))
    BY <1>9 DEF RecordResult, InsertRow
  <2>2. row(t).file = f /\ row(t).status = work[c].status
    OBVIOUS
  <2> HIDE DEF row
  <2>3. IsMidPass(c) /\ IsMidPass(d) /\ pc[c] = "insert" /\ job[c].cmd = "apply"
    BY <1>9 DEF RecordResult, Applying, AfterError, Goto, TypeOK, IsMidPass
  <2>4. c = d
    BY <2>3, PassHoldsLock
  <2>5. UNCHANGED <<job, snap>> /\ left'[d] = left[d] \ {f}
    BY <1>9, <2>4 DEF RecordResult, Visited, TypeOK
  <2>6. f \in left[d] /\ left[d] \subseteq Scan(job[d].tree)
    BY <2>3, <2>4 DEF WorkOfTree, OfTree, LocalsOK
  <2>7. work[c].status \in {"applied", "failed"}
    BY <2>3 DEF OutcomeOK, OutcomeOf
  <2> QED
    BY <1>2, <2>1, <2>2, <2>3, <2>5, <2>6, <2>7
<1>10. ASSUME NEW c \in Clients, ResolveInsert(c) PROVE Goal
  <2> DEFINE row(t) == [file |-> work[c].file, sum |-> work[c].sum, status |-> "skipped",
                        at |-> t, group |-> None, phase |-> None]
  <2>1. PICK t \in NextTimes : records' = Append(records, row(t))
    BY <1>10 DEF ResolveInsert, InsertRow
  <2>2. row(t).status = "skipped"
    OBVIOUS
  <2> HIDE DEF row
  <2>3. goesOn
    BY <1>10 DEF ResolveInsert, Running, Goto, TypeOK, IsMidPass
  <2> QED
    BY <1>2, <2>1, <2>2, <2>3
<1>11. ASSUME NEW c \in Clients, PhaseInsert(c) PROVE Goal
  <2>1. IsMidPass(d) /\ IsInLock(c) /\ job[c].cmd # "apply"
    BY <1>11 DEF PhaseInsert, Running, Goto, TypeOK, IsInLock, Locks, IsMidPass
  <2>2. holder = d /\ holder = c
    BY <2>1, PassHoldsLock DEF LockHeld
  <2> QED
    BY <2>1, <2>2 DEF IsMidPass
<1>12. CASE UNCHANGED vars
  BY <1>1, <1>12 DEF vars, dbVars, clientVars, IsMidPass
<1> QED
  BY <1>3, <1>4, <1>5, <1>6, <1>7, <1>8, <1>9, <1>10, <1>11, <1>12
     DEF Next, Step, ApplyStep, OperatorStep, Finished

\* What a pass has read is a part of a strict table.
LEMMA SeenIsStrict ==
  ASSUME records \in Seq(Row), IsStrict(records), NEW c, snap[c] \in 0..Len(records)
  PROVE  /\ IsStrict(Seen(c))
         /\ DOMAIN Seen(c) = 1..snap[c]
         /\ \A k \in 1..snap[c] : k \in DOMAIN records /\ Seen(c)[k] = records[k]
<1> DEFINE m == snap[c]
           log == Seen(c)
<1>1. /\ m \in Nat /\ m <= Len(records) /\ Len(records) \in Nat
      /\ DOMAIN records = 1..Len(records)
      /\ DOMAIN log = 1..m /\ Len(log) = m
      /\ \A k \in 1..m : log[k] = records[k]
  BY DEF Seen
<1> HIDE DEF m, log
<1>2. IsStrict(log)
  BY <1>1 DEF IsStrict
<1> QED
  BY <1>1, <1>2 DEF m, log

\* The last row of a phase is, if the pass has read it, the last that it has read.
LEMMA PhaseWhenRead ==
  ASSUME records \in Seq(Row), IsStrict(records), NEW c, snap[c] \in 0..Len(records),
         NEW g, NEW ph, NEW n, IsLastOfPhase(records, g, ph, n), n <= snap[c]
  PROVE  PhaseStatus(Seen(c), g, ph) = PhaseStatus(records, g, ph)
<1>1. n \in PhaseRows(records, g, ph) /\ n \in 1..snap[c]
  BY DEF IsLastOfPhase, PhaseRows, IsStrict
<1>2. IsLastOfPhase(Seen(c), g, ph, n) /\ Seen(c)[n] = records[n]
  BY <1>1, SeenIsStrict DEF IsLastOfPhase, PhaseRows
<1>3. PhaseStatus(Seen(c), g, ph) = records[n].status
  BY <1>2, SeenIsStrict, PhaseStatusAt
<1>4. PhaseStatus(records, g, ph) = records[n].status
  BY PhaseStatusAt
<1> QED
  BY <1>3, <1>4

\* A phase whose status has changed since the pass began has got a row of the pass.
LEMMA PhaseSinceRead ==
  ASSUME HasLock, StepInv, RowsAreNotes, RowsAreOfPass, NEW c \in Clients, IsMidPass(c),
         NEW g \in Groups, NEW ph, PhaseRows(records, g, ph) # {},
         PhaseStatus(Seen(c), g, ph) # PhaseStatus(records, g, ph)
  PROVE  \E n \in PhaseRows(records, g, ph) :
           /\ n \in snap[c] + 1 .. Len(records)
           /\ records[n].file \in Scan(job[c].tree) \ left[c]
           /\ records[n].status = PhaseStatus(records, g, ph)
           /\ records[n].status \in {"applied", "failed"}
<1> USE DEF StepInv, Typing
<1>1. records \in Seq(Row) /\ IsStrict(records) /\ snap[c] \in 0..Len(records)
  BY PassView
<1>2. PICK n \in DOMAIN records : IsLastOfPhase(records, g, ph, n)
  BY <1>1, LastOfPhaseExists
<1>3. n \in PhaseRows(records, g, ph) /\ records[n].status = PhaseStatus(records, g, ph)
  BY <1>1, <1>2, PhaseStatusAt DEF IsLastOfPhase
<1>4. DOMAIN records = 1..Len(records) /\ Len(records) \in Nat /\ snap[c] \in Nat
  BY <1>1
<1>5. n > snap[c]
  BY <1>1, <1>2, <1>4, PhaseWhenRead
<1>6. records[n].group = g /\ g # None
  BY <1>3, NoneAssumption DEF PhaseRows
<1>7. records[n].status # "skipped"
  BY <1>2, <1>6 DEF RowsAreNotes, RowIsNote
<1>8. IsOfPass(c, n)
  BY <1>2, <1>5 DEF RowsAreOfPass
<1> QED
  BY <1>3, <1>4, <1>5, <1>7, <1>8 DEF IsOfPass

LEMMA OfPassHolds == HasLock => (Spec => [](PassInv /\ RowsAreNotes /\ RowsAreOfPass))
<1> SUFFICES ASSUME HasLock PROVE Spec => [](PassInv /\ RowsAreNotes /\ RowsAreOfPass)
  OBVIOUS
<1>1. Init => PassInv /\ RowsAreNotes /\ RowsAreOfPass
  BY PassInvInit, NotesInit, OfPassInit
<1>2. PassInv /\ RowsAreNotes /\ RowsAreOfPass /\ [Next]_vars
        => (PassInv /\ RowsAreNotes /\ RowsAreOfPass)'
  <2> SUFFICES ASSUME PassInv, RowsAreNotes, RowsAreOfPass, [Next]_vars
               PROVE  PassInv' /\ RowsAreNotes' /\ RowsAreOfPass'
    OBVIOUS
  <2> QED
    BY PassInvNext, NotesNext, OfPassNext DEF PassInv, StepInv
<1> QED
  BY <1>1, <1>2, PTL DEF Spec

(***************************************************************************)
(* Under an advisory lock a safe file that depends directly on a phase of  *)
(* a group that is open waits, though apply decides on what it read at its *)
(* beginning: it starts only where the pass itself has opened the group.   *)
(***************************************************************************)
THEOREM DependentsWait == HasLock /\ Dag => (Spec => DependentsOfOpenGroupsWait)
<1> SUFFICES ASSUME HasLock, Dag PROVE Spec => DependentsOfOpenGroupsWait
  OBVIOUS
<1> DEFINE A == \A c \in Clients : ApplyStarts(c) /\ GroupOf[StartedFile(c)] = None =>
             \A g \in Successors(GraphOf(job[c].tree), StartedFile(c)) :
               GroupOf[g] # None /\ IsGroupOpen(records, GroupOf[g]) =>
                 \E k \in snap[c] + 1 .. Len(records) :
                   /\ records[k].file \in Scan(job[c].tree) \ left[c]
                   /\ \/ /\ k \in PhaseRows(records, GroupOf[g], "expand")
                         /\ records[k].status = "applied"
                      \/ /\ k \in PhaseRows(records, GroupOf[g], "contract")
                         /\ records[k].status = "failed"
                         /\ \E j \in PhaseRows(records, GroupOf[g], "contract") :
                              j <= snap[c] /\ records[j].status = "applied"
<1>1. PassInv /\ RowsAreNotes /\ RowsAreOfPass /\ [Next]_vars => [A]_vars
  <2> SUFFICES ASSUME PassInv, RowsAreNotes, RowsAreOfPass, [Next]_vars,
                      NEW c \in Clients, ApplyStarts(c), GroupOf[StartedFile(c)] = None,
                      NEW f \in Successors(GraphOf(job[c].tree), StartedFile(c)),
                      GroupOf[f] # None, IsGroupOpen(records, GroupOf[f])
               PROVE  \E k \in snap[c] + 1 .. Len(records) :
                        /\ records[k].file \in Scan(job[c].tree) \ left[c]
                        /\ \/ /\ k \in PhaseRows(records, GroupOf[f], "expand")
                              /\ records[k].status = "applied"
                           \/ /\ k \in PhaseRows(records, GroupOf[f], "contract")
                              /\ records[k].status = "failed"
                              /\ \E j \in PhaseRows(records, GroupOf[f], "contract") :
                                   j <= snap[c] /\ records[j].status = "applied"
    OBVIOUS
  <2> USE DEF PassInv, StepInv, Typing
  <2> DEFINE g == GroupOf[f]
             is(ph) == PhaseStatus(records, g, ph)
             was(ph) == PhaseStatus(Seen(c), g, ph)
  <2>1. IsMidPass(c) /\ ~IsHeldByOpenGroup(c, StartedFile(c))
    BY StartedByVerdict DEF IsPassedOver
  <2>2. ~IsGroupOpen(Seen(c), g)
    BY <2>1 DEF IsHeldByOpenGroup
  <2>3. f \in Files /\ g \in Groups
    BY FilesAssumption DEF Successors, GraphOf, Scan
  <2>4. is("expand") = "applied" /\ is("contract") # "applied"
    BY DEF IsGroupOpen, DeriveGroupState
  <2>5. was("expand") # "applied" \/ was("contract") = "applied"
    BY <2>2 DEF IsGroupOpen, DeriveGroupState
  <2>6. CASE was("expand") # "applied"
    <3>1. PhaseRows(records, g, "expand") # {}
      BY <2>4, PhaseHasNone
    <3> QED
      BY <2>1, <2>3, <2>4, <2>6, <3>1, PhaseSinceRead
  <2>7. CASE was("contract") = "applied"
    <3>1. records \in Seq(Row) /\ IsStrict(records) /\ snap[c] \in 0..Len(records)
      BY PassView
    <3>2. PhaseRows(Seen(c), g, "contract") # {}
      BY <2>7 DEF PhaseStatus
    <3>3. PICK j \in DOMAIN Seen(c) : IsLastOfPhase(Seen(c), g, "contract", j)
      BY <3>1, <3>2, SeenIsStrict, LastOfPhaseExists
    <3>4. Seen(c)[j].status = "applied" /\ j \in PhaseRows(Seen(c), g, "contract")
      BY <2>7, <3>1, <3>3, SeenIsStrict, PhaseStatusAt DEF IsLastOfPhase
    <3>5. /\ j \in PhaseRows(records, g, "contract") /\ j <= snap[c]
          /\ records[j].status = "applied"
      BY <3>1, <3>3, <3>4, SeenIsStrict DEF PhaseRows
    <3>6. PICK n \in PhaseRows(records, g, "contract") :
            /\ n \in snap[c] + 1 .. Len(records)
            /\ records[n].file \in Scan(job[c].tree) \ left[c]
            /\ records[n].status = is("contract")
            /\ records[n].status \in {"applied", "failed"}
      BY <2>1, <2>3, <2>4, <2>7, <3>5, PhaseSinceRead
    <3> QED
      BY <2>4, <3>5, <3>6
  <2> QED
    BY <2>5, <2>6, <2>7
<1>2. Spec => [][A]_vars
  BY <1>1, OfPassHolds, PTL DEF Spec
<1> QED
  BY <1>2 DEF DependentsOfOpenGroupsWait

-----------------------------------------------------------------------------
(* What a gate forbids                                                     *)

LEMMA PhaseRowsStay ==
  ASSUME TypeOK, [Next]_vars, NEW g, NEW ph, PhaseRows(records, g, ph) # {}
  PROVE  PhaseRows(records', g, ph) # {}
<1>1. UNCHANGED records \/ \E r : records' = Append(records, r)
  BY NextInserts DEF dbVars, InsertRow
<1>2. ASSUME NEW r, records' = Append(records, r)
      PROVE  \A k \in DOMAIN records : k \in DOMAIN records' /\ records'[k] = records[k]
  BY <1>2, TableOfRows DEF TypeOK
<1>3. \A k \in DOMAIN records : k \in DOMAIN records' /\ records'[k] = records[k]
  BY <1>1, <1>2
<1> QED
  BY <1>3 DEF PhaseRows

LEMMA CrashesCount == [Next]_vars => crashes' \in {crashes, crashes + 1}
BY DEF Next, Start, Acquire, WaitTimeout, Step, Close, Crash, ApplyStep, LoadRecords,
       PassOver, Refuse, Execute, RecordResult, Finish, OperatorStep, ResolveRead, ResolveInsert,
       AdvanceRead, ApplyPhaseRead, PhaseInsert, SqlEndsOf, SqlEnds, Finished, vars

\* A CLI process at work was so before, or is started; if it has lost its owner
\* it had before, or a client crashes.
LEMMA ProcessesCome ==
  ASSUME Typing, [Next]_vars, NEW e \in cli'
  PROVE  /\ \/ IsAtWork(e.file)
            \/ \E c \in Clients : AnyStarts(c) /\ StartedFile(c) = e.file
         /\ \/ e.owner # None
            \/ \E d \in cli : d.owner = None
            \/ crashes' > 0
<1> USE DEF Typing, TypeOK
<1>1. CASE cli' \subseteq cli
  BY <1>1 DEF IsAtWork
<1>2. ASSUME NEW c \in Clients, Crash(c)
      PROVE  IsAtWork(e.file) /\ crashes' > 0
  <2>1. PICK d \in cli : e = [d EXCEPT !.owner = IF @ = c THEN None ELSE @]
    BY <1>2 DEF Crash
  <2>2. e.file = d.file
    BY <2>1
  <2> QED
    BY <1>2, <2>2 DEF Crash, IsAtWork
<1>3. ASSUME NEW c \in Clients, NEW f, NEW s, Spawn(c, f, s), pc[c] # "sql"
      PROVE  /\ \/ IsAtWork(e.file)
                \/ AnyStarts(c) /\ StartedFile(c) = e.file
             /\ \/ e.owner # None
                \/ \E d \in cli : d.owner = None
  BY <1>3, NoneAssumption DEF Spawn, Goto, AnyStarts, StartedFile, IsAtWork
<1>4. \/ cli' \subseteq cli
      \/ \E c \in Clients : Crash(c)
      \/ \E c \in Clients : \E f, s : Spawn(c, f, s) /\ pc[c] # "sql"
  BY DEF Next, Start, Acquire, WaitTimeout, Step, Close, ApplyStep, LoadRecords, PassOver,
         Refuse, Execute, RecordResult, Finish, OperatorStep, ResolveRead, ResolveInsert,
         AdvanceRead, ApplyPhaseRead, PhaseInsert, SqlEndsOf, SqlEnds, Finished, vars,
         Applying, Running
<1> QED
  BY <1>1, <1>2, <1>3, <1>4

\* Content that has run had run before, or is that of a process which ends.
LEMMA RunsCome ==
  ASSUME [Next]_vars, NEW f, HasRun(f)'
  PROVE  HasRun(f) \/ \E e \in cli : e.file = f /\ SqlEnds(e)
<1>1. \/ UNCHANGED ran
      \/ \E e \in cli : SqlEnds(e) /\ (ran' = ran \/ ran' = ran \cup {<<e.file, e.sum>>})
  BY DEF Next, Start, Acquire, WaitTimeout, Step, Close, Crash, ApplyStep, LoadRecords, PassOver,
         Refuse, Execute, RecordResult, Finish, OperatorStep, ResolveRead, ResolveInsert,
         AdvanceRead, ApplyPhaseRead, PhaseInsert, SqlEndsOf, SqlEnds, Finished, vars
<1> QED
  BY <1>1 DEF HasRun

\* A row that a command is about to insert for a phase file stays to be
\* inserted, unless it is, was resolved, or is lost.
LEMMA InsertComes ==
  ASSUME Typing, OutcomeOK, RowsAreNotes, [Next]_vars, NEW f \in Files, GroupOf[f] # None,
         IsUnrecorded(f)
  PROVE  \/ IsUnrecorded(f)'
         \/ crashes' > 0
         \/ PhaseRows(records', GroupOf[f], PhaseOf[f]) # {}
<1> USE DEF Typing, TypeOK
<1>1. PICK c \in Clients : pc[c] = "insert" /\ work[c].file = f
  BY DEF IsUnrecorded
<1>2. CASE pc'[c] = pc[c] /\ work'[c] = work[c]
  BY <1>1, <1>2 DEF IsUnrecorded
<1>3. CASE Crash(c)
  BY <1>3 DEF Crash
<1>4. CASE ResolveInsert(c)
  <2>1. RowsOf(records, f) # {}
    BY <1>1, <1>4 DEF ResolveInsert, Running, OutcomeOK, OutcomeOf, WasFailed, RowsOf
  <2> QED
    BY <2>1, RowOfPhase, PhaseRowsStay
<1>5. ASSUME NEW s, NEW status, InsertRow(f, s, status, GroupOf[f], PhaseOf[f])
      PROVE  PhaseRows(records', GroupOf[f], PhaseOf[f]) # {}
  <2> DEFINE row(t) == [file |-> f, sum |-> s, status |-> status, at |-> t,
                        group |-> GroupOf[f], phase |-> PhaseOf[f]]
  <2>1. PICK t \in NextTimes : records' = Append(records, row(t))
    BY <1>5 DEF InsertRow
  <2>2. PICK m \in Nat : m = Len(records)
    BY TableOfRows
  <2>3. row(t).group = GroupOf[f] /\ row(t).phase = PhaseOf[f]
    OBVIOUS
  <2> HIDE DEF row
  <2>4. m + 1 \in DOMAIN records' /\ records'[m + 1] = row(t)
    BY <2>1, <2>2
  <2> QED
    BY <2>3, <2>4 DEF PhaseRows
<1>6. CASE RecordResult(c) \/ PhaseInsert(c)
  <2>1. InsertRow(f, work[c].sum, work[c].status, GroupOf[f], PhaseOf[f])
    BY <1>1, <1>6 DEF RecordResult, PhaseInsert
  <2> QED
    BY <1>5, <2>1
<1>7. ASSUME NEW d \in Clients, d # c,
             \/ \E j \in Jobs : Start(d, j)
             \/ Acquire(d) \/ WaitTimeout(d) \/ Close(d) \/ Crash(d)
             \/ ApplyStep(d) \/ OperatorStep(d)
      PROVE  pc'[c] = pc[c] /\ work'[c] = work[c]
  BY <1>7 DEF Start, Acquire, WaitTimeout, Close, Crash, Exit, ApplyStep, LoadRecords, PassOver,
              Refuse, Execute, RecordResult, Finish, AfterError, OperatorStep, ResolveRead,
              ResolveInsert, AdvanceRead, ApplyPhaseRead, PhaseInsert, Spawn, Goto
<1>8. ~\/ \E j \in Jobs : Start(c, j)
       \/ Acquire(c) \/ WaitTimeout(c) \/ Close(c)
       \/ LoadRecords(c) \/ PassOver(c) \/ Refuse(c) \/ Execute(c) \/ Finish(c)
       \/ ResolveRead(c) \/ AdvanceRead(c) \/ ApplyPhaseRead(c)
  BY <1>1 DEF Start, Acquire, WaitTimeout, Close, LoadRecords, PassOver, Refuse, Execute, Finish,
              ResolveRead, AdvanceRead, ApplyPhaseRead, Applying, Running
<1>9. ASSUME NEW o \in Owners, SqlEndsOf(o) PROVE pc'[c] = pc[c] /\ work'[c] = work[c]
  BY <1>1, <1>9, NoneAssumption DEF SqlEndsOf, SqlEnds, CliOK, Goto, Owners
<1>10. CASE UNCHANGED vars
  BY <1>2, <1>10 DEF vars, clientVars
<1> QED
  BY <1>2, <1>3, <1>4, <1>6, <1>7, <1>8, <1>9, <1>10
     DEF Next, Step, ApplyStep, OperatorStep, Finished

LEMMA ContractsInit == Init => ContractsAreNoted
BY DEF Init, ContractsAreNoted, HasRun, IsAtWork

LEMMA ContractsNext ==
  ASSUME HasLock, DependenciesAreAcyclic, ExpandsComeFirst, PassInv, RowsAreNotes, WorkIsRun,
         ContractsAreNoted, [Next]_vars
  PROVE  ContractsAreNoted'
<1> USE DEF PassInv, StepInv, Typing
<1>1. ASSUME NEW e \in cli', e.owner = None PROVE crashes' > 0
  <2>1. (\E d \in cli : d.owner = None) \/ crashes' > 0
    BY <1>1, ProcessesCome
  <2>2. crashes' \in {crashes, crashes + 1}
    BY CrashesCount
  <2> QED
    BY <2>1, <2>2 DEF ContractsAreNoted, TypeOK
<1>2. ASSUME NEW f \in Files, PhaseOf[f] = "contract", HasRun(f)' \/ IsAtWork(f)'
      PROVE  PhaseRows(records', GroupOf[f], "expand") # {}
  <2>1. CASE HasRun(f) \/ IsAtWork(f)
    BY <1>2, <2>1, PhaseRowsStay DEF ContractsAreNoted
  <2>2. ASSUME NEW c \in Clients, AnyStarts(c), StartedFile(c) = f
        PROVE  PhaseRows(records', GroupOf[f], "expand") # {}
    <3>1. CanAdvanceToPhase(records, GroupOf[f], "contract")
      BY <1>2, <2>2, StartedMayAdvance
    <3>2. PhaseRows(records, GroupOf[f], "expand") # {}
      BY <3>1 DEF CanAdvanceToPhase, PhaseStatus
    <3> QED
      BY <3>2, PhaseRowsStay
  <2>3. \/ HasRun(f) \/ IsAtWork(f)
        \/ \E c \in Clients : AnyStarts(c) /\ StartedFile(c) = f
    <3>1. CASE HasRun(f)'
      BY <3>1, RunsCome DEF IsAtWork
    <3>2. CASE IsAtWork(f)'
      BY <3>2, ProcessesCome DEF IsAtWork
    <3> QED
      BY <1>2, <3>1, <3>2
  <2> QED
    BY <2>1, <2>2, <2>3
<1>3. ASSUME NEW f \in Files, PhaseOf[f] = "contract", HasRun(f)'
      PROVE  \/ PhaseRows(records', GroupOf[f], "contract") # {}
             \/ IsUnrecorded(f)'
             \/ crashes' > 0
  <2>1. CASE HasRun(f)
    <3>1. CASE PhaseRows(records, GroupOf[f], "contract") # {}
      BY <3>1, PhaseRowsStay
    <3>2. CASE crashes > 0
      BY <3>2, CrashesCount DEF TypeOK
    <3>3. CASE IsUnrecorded(f)
      BY <1>3, <3>3, InsertComes, PhaseHasGroup DEF Phases
    <3> QED
      BY <1>3, <2>1, <3>1, <3>2, <3>3 DEF ContractsAreNoted
  <2>2. ASSUME NEW e \in cli, e.file = f, SqlEnds(e)
        PROVE  IsUnrecorded(f)' \/ crashes' > 0
    <3>1. CASE e.owner = None
      <4>1. crashes > 0
        BY <3>1 DEF ContractsAreNoted
      <4> QED
        BY <4>1, CrashesCount DEF TypeOK
    <3>2. CASE e.owner # None
      <4>1. /\ e.owner \in Clients /\ work[e.owner].file = f
            /\ pc[e.owner] = "sql" /\ work[e.owner] \in Work
        BY <2>2, <3>2 DEF TypeOK, Owners, WorkIsRun, CliOK, LocalsOK
      <4>2. PICK status \in {"applied", "failed"} :
              work' = [work EXCEPT ![e.owner].status = status] /\ Goto(e.owner, "insert")
        BY <2>2, <3>2 DEF SqlEnds
      <4>3. work'[e.owner].file = f /\ pc'[e.owner] = "insert"
        BY <4>1, <4>2 DEF Goto, TypeOK, Work
      <4> QED
        BY <4>1, <4>3 DEF IsUnrecorded
    <3> QED
      BY <3>1, <3>2
  <2> QED
    BY <1>3, <2>1, <2>2, RunsCome
<1> QED
  BY <1>1, <1>2, <1>3 DEF ContractsAreNoted

\* A condition on a group that has rows is on that group.
LEMMA NameMeansGroup ==
  ASSUME NamesAreUnique, IsStrict(records), NEW g \in Groups, IsGroupKnown(records, g),
         NEW name \in {g, ShortName[g]}
  PROVE  MeansGroup(records, name, g)
<1> DEFINE rows == {k \in DOMAIN records : records[k].group = g}
<1>1. rows # {} /\ rows \in SUBSET Nat
  BY DEF IsGroupKnown, IsStrict
<1>2. PICK k \in rows : \A j \in rows : k <= j
  BY <1>1, LeastNatural
<1>3. NamedGroups(records, name) = {g}
  BY DEF NamesAreUnique, NamedGroups
<1> QED
  BY <1>2, <1>3 DEF MeansGroup

ForbidInv == PassInv /\ RowsAreNotes /\ WorkIsRun /\ ContractsAreNoted

(***************************************************************************)
(* Under an advisory lock, where the expand of a group comes before its    *)
(* other phases (by number, or by dependencies without cycles) and groups  *)
(* have names of their own: once the SQL of a contract has run, a gate     *)
(* that forbids the completed contract fails, but while the row is to      *)
(* come, after a crash, or when expand or contract was attempted again     *)
(* since and is failed or at work.                                         *)
(***************************************************************************)
THEOREM ContractIsSeen ==
  HasLock /\ DependenciesAreAcyclic /\ ExpandsComeFirst /\ NamesAreUnique
    => (Spec => []ForbiddenIsSeen)
<1> SUFFICES ASSUME HasLock, DependenciesAreAcyclic, ExpandsComeFirst, NamesAreUnique
             PROVE  Spec => []ForbiddenIsSeen
  OBVIOUS
<1>1. Init => ForbidInv
  BY PassInvInit, NotesInit, WorkInit, ContractsInit DEF ForbidInv
<1>2. ForbidInv /\ [Next]_vars => ForbidInv'
  BY PassInvNext, NotesNext, WorkNext, ContractsNext DEF ForbidInv, PassInv, StepInv
<1>3. ForbidInv => ForbiddenIsSeen
  <2> SUFFICES ASSUME ForbidInv, NEW f \in Files, PhaseOf[f] = "contract", HasRun(f),
                      ~IsUnrecorded(f), ~(crashes > 0),
                      \A ph \in {"expand", "contract"} : ~Fails(NewestOfPhase(GroupOf[f], ph)),
                      NEW name \in {GroupOf[f], ShortName[GroupOf[f]]}
               PROVE  ~GatePasses(records, {}, {<<name, "contract_completed">>})
    BY DEF ForbiddenIsSeen, HasRun
  <2> USE DEF ForbidInv, PassInv, StepInv, Typing
  <2> DEFINE g == GroupOf[f]
  <2>1. /\ PhaseRows(records, g, "expand") # {}
        /\ PhaseRows(records, g, "contract") # {}
    BY DEF ContractsAreNoted
  <2>2. g \in Groups /\ IsStrict(records)
    BY PhaseHasGroup, RecordsAreStrict DEF Phases
  <2>3. /\ PhaseStatus(records, g, "expand") = "applied"
        /\ PhaseStatus(records, g, "contract") = "applied"
    BY <2>1, <2>2, PhaseHasOutcome, PhaseStatusIsNewest DEF Fails
  <2>4. DeriveGroupState(records, g) = "contract_completed"
    BY <2>3 DEF DeriveGroupState
  <2>5. IsGroupKnown(records, g)
    BY <2>1 DEF PhaseRows, IsGroupKnown
  <2>6. MeansGroup(records, name, g)
    BY <2>2, <2>5, NameMeansGroup
  <2>7. EvaluateCondition(records, name, "contract_completed")
    BY <2>2, <2>4, <2>6 DEF EvaluateCondition, MatchesState
  <2> QED
    BY <2>7 DEF GatePasses
<1> QED
  BY <1>1, <1>2, <1>3, PTL DEF Spec

-----------------------------------------------------------------------------
(* The commands beside verify                                              *)

\* A step of verify leaves the database alone, and what the SQL of a file
\* does is one of the outcomes the commands provide for.
LEMMA StepIsStep == TypeOK /\ [VerifyNext]_allVars => [Next]_vars
<1> SUFFICES ASSUME TypeOK, VerifyNext PROVE Next \/ UNCHANGED vars
  BY DEF allVars
<1>1. CASE VerifierStep /\ UNCHANGED <<vars, drifted>>
  BY <1>1
<1>2. CASE ClientStep /\ UNCHANGED verifyVars
  BY <1>2 DEF ClientStep, Next
<1>3. ASSUME NEW e \in cli, SqlDoesWhatItSays(e) PROVE Next
  <2>1. e.owner \in Owners
    BY DEF TypeOK
  <2> QED
    BY <1>3, <2>1 DEF SqlDoesWhatItSays, SqlEndsOf, Next
<1>4. CASE Finished
  BY <1>4 DEF Next
<1> QED
  BY <1>1, <1>2, <1>3, <1>4 DEF VerifyNext

LEMMA VerifyTypingHolds == VerifySpec => [](Typing /\ ClockOK)
<1>1. VerifyInit => Typing /\ ClockOK
  BY TypingInit, ClockInit DEF VerifyInit
<1>2. Typing /\ ClockOK /\ [VerifyNext]_allVars => (Typing /\ ClockOK)'
  BY StepIsStep, TypingNext, ClockNext DEF Typing
<1> QED
  BY <1>1, <1>2, PTL DEF VerifySpec

(***************************************************************************)
(* verify does not disturb the commands beside it, and the SQL of files    *)
(* that use one another is SQL that may fail: every behaviour of the two   *)
(* together is, to the commands, one of their own, so that every theorem   *)
(* about them holds beside verify, too.                                    *)
(***************************************************************************)
THEOREM VerifyIsHarmless == VerifySpec => Spec
<1>1. VerifyInit => Init
  BY DEF VerifyInit
<1>2. Typing /\ ClockOK /\ [VerifyNext]_allVars => [Next]_vars
  BY StepIsStep DEF Typing
<1> QED
  BY <1>1, <1>2, VerifyTypingHolds, PTL DEF VerifySpec, Spec

-----------------------------------------------------------------------------
(* What the second execution shows                                         *)

\* Only contents that are said to drift do, and verify passes none of them.
DriftIsSeen ==
  /\ report \in [Files -> Verdicts]
  /\ pending \subseteq Files
  /\ \A f \in Files : report[f] = "passed" => Again[checkout[f]] # "drift"
  /\ \A p \in drifted : Again[p[2]] = "drift"

LEMMA DriftInit == VerifyInit => DriftIsSeen
BY DEF VerifyInit, DriftIsSeen, Untried, Verdicts

LEMMA DriftNext == DriftIsSeen /\ [VerifyNext]_allVars => DriftIsSeen'
<1> SUFFICES ASSUME DriftIsSeen, [VerifyNext]_allVars PROVE DriftIsSeen'
  OBVIOUS
<1> USE DEF DriftIsSeen, Verdicts
<1>1. ASSUME UNCHANGED <<report, pending, checkout>>, UNCHANGED drifted
      PROVE  DriftIsSeen'
  BY <1>1
<1>2. ASSUME NEW tree \in VerifyTrees, NEW all \in BOOLEAN, StartVerify(tree, all),
             UNCHANGED drifted
      PROVE  DriftIsSeen'
  BY <1>2 DEF StartVerify, Untried, Verifiable, Scan
<1>3. ASSUME ReadApplied, UNCHANGED drifted PROVE DriftIsSeen'
  BY <1>3 DEF ReadApplied, Verifiable, Scan
<1>4. ASSUME FirstApply, UNCHANGED drifted PROVE DriftIsSeen'
  BY <1>4 DEF FirstApply, Says
<1>5. ASSUME SecondApply, UNCHANGED drifted PROVE DriftIsSeen'
  BY <1>5 DEF SecondApply, Says, SecondVerdict, ChangesSchema
<1>6. ASSUME GiveUp, UNCHANGED drifted PROVE DriftIsSeen'
  BY <1>6 DEF GiveUp, Untried
<1>7. ASSUME NEW e \in cli, SqlDoesWhatItSays(e), UNCHANGED verifyVars
      PROVE  DriftIsSeen'
  BY <1>7 DEF SqlDoesWhatItSays, verifyVars
<1> QED
  BY <1>1, <1>2, <1>3, <1>4, <1>5, <1>6, <1>7
     DEF VerifyNext, VerifierStep, CloneSource, DropShadow, ClientStep, allVars, verifyVars

(***************************************************************************)
(* A content that verify has passed does not change the schema when an     *)
(* apply executes it a second time.                                        *)
(***************************************************************************)
THEOREM PassedIsSafe == VerifySpec => []PassedNeverDrifts
<1>1. DriftIsSeen => PassedNeverDrifts
  BY DEF DriftIsSeen, PassedNeverDrifts
<1> QED
  BY <1>1, DriftInit, DriftNext, PTL DEF VerifySpec

-----------------------------------------------------------------------------
(* What is tried                                                           *)

\* Once verify has read the table, every file it answers for is still to be
\* tried, or was tried, or has a row that says why it need not be.
FilesAreTried ==
  /\ at = "drop" => checkout = None
  /\ at = "idle" /\ checkout # None => pending = {}
  /\ at \in {"first", "second"} \/ (at = "idle" /\ checkout # None) =>
       \A f \in Verifiable(checkout) :
         f \in pending \/ report[f] # "untried" \/ IsApplied(f)

LEMMA TriedInit == VerifyInit => FilesAreTried
BY DEF VerifyInit, FilesAreTried

\* A row that was inserted stays.
LEMMA RowsStay ==
  ASSUME TypeOK, [Next]_vars
  PROVE  /\ Len(records) \in Nat /\ Len(records') \in Nat /\ Len(records) <= Len(records')
         /\ DOMAIN records = 1..Len(records) /\ DOMAIN records' = 1..Len(records')
         /\ \A k \in 1..Len(records) : records'[k] = records[k]
<1>1. CASE UNCHANGED dbVars
  BY <1>1, TableOfRows DEF dbVars
<1>2. ASSUME NEW r, records' = Append(records, r)
      PROVE  /\ Len(records) \in Nat /\ Len(records') = Len(records) + 1
             /\ DOMAIN records = 1..Len(records) /\ DOMAIN records' = 1..Len(records')
             /\ \A k \in 1..Len(records) : records'[k] = records[k]
  BY <1>2 DEF TypeOK
<1>3. UNCHANGED dbVars \/ \E r : records' = Append(records, r)
  BY NextInserts DEF InsertRow
<1> QED
  BY <1>1, <1>2, <1>3

LEMMA AppliedStays ==
  ASSUME TypeOK, [Next]_vars, NEW f, IsApplied(f)
  PROVE  IsApplied(f)'
<1>1. PICK k \in RowsOf(records, f) : records[k].status \in {"applied", "skipped"}
  BY DEF IsApplied
<1>2. k \in RowsOf(records', f) /\ records'[k].status \in {"applied", "skipped"}
  BY <1>1, RowsStay DEF RowsOf
<1> QED
  BY <1>2 DEF IsApplied

LEMMA TriedNext ==
  TypeOK /\ DriftIsSeen /\ FilesAreTried /\ [VerifyNext]_allVars => FilesAreTried'
<1> SUFFICES ASSUME TypeOK, DriftIsSeen, FilesAreTried, [VerifyNext]_allVars
             PROVE  FilesAreTried'
  OBVIOUS
<1> USE DEF FilesAreTried
<1>1. \A f : IsApplied(f) => IsApplied(f)'
  BY StepIsStep, AppliedStays
<1>2. CASE UNCHANGED <<at, checkout, pending, report>>
  BY <1>1, <1>2 DEF Verifiable, Scan
<1>3. ASSUME NEW tree \in VerifyTrees, NEW all \in BOOLEAN, StartVerify(tree, all)
      PROVE  FilesAreTried'
  BY <1>3 DEF StartVerify, Verifiable, Scan
<1>4. CASE CloneSource
  BY <1>4 DEF CloneSource
<1>5. CASE ReadApplied
  BY <1>1, <1>5 DEF ReadApplied, Verifiable, Scan
<1>6. CASE FirstApply
  BY <1>1, <1>6 DEF FirstApply, Says, Verifiable, Scan, DriftIsSeen
<1>7. CASE SecondApply
  BY <1>1, <1>7 DEF SecondApply, Says, SecondVerdict, Verifiable, Scan, DriftIsSeen
<1>8. CASE GiveUp
  BY <1>8 DEF GiveUp
<1>9. CASE DropShadow
  BY <1>1, <1>9 DEF DropShadow, Verifiable, Scan
<1> QED
  BY <1>2, <1>3, <1>4, <1>5, <1>6, <1>7, <1>8, <1>9
     DEF VerifyNext, VerifierStep, allVars, verifyVars

(***************************************************************************)
(* apply executes nothing for the first time that a finished verify of its *)
(* checkout has not tried, whatever is recorded between the two: a file    *)
(* that verify left out had been applied or resolved.                      *)
(***************************************************************************)
THEOREM NothingIsUntried == VerifySpec => FirstRunsAreRehearsed
<1> DEFINE A == \A c \in Clients :
                  ApplyStarts(c) /\ at = "idle" /\ checkout # None /\ job[c].tree = checkout =>
                    LET f == StartedFile(c)
                    IN  \/ report[f] # "untried"
                        \/ \E k \in RowsOf(records, f) :
                             records[k].status \in {"applied", "skipped"}
           I == Typing /\ ClockOK /\ DriftIsSeen /\ FilesAreTried
<1>1. VerifyInit => I
  BY TypingInit, ClockInit, DriftInit, TriedInit DEF VerifyInit
<1>2. I /\ [VerifyNext]_allVars => I'
  BY StepIsStep, TypingNext, ClockNext, DriftNext, TriedNext DEF Typing
<1>3. I /\ [VerifyNext]_allVars => [A]_allVars
  <2> SUFFICES ASSUME I, [VerifyNext]_allVars, NEW c \in Clients, ApplyStarts(c),
                      at = "idle", checkout # None, job[c].tree = checkout
               PROVE  report[StartedFile(c)] # "untried" \/ IsApplied(StartedFile(c))
    BY DEF IsApplied
  <2>1. /\ IsMidPass(c)
        /\ StartedFile(c) \in left[c]
        /\ ~IsPassedOver(c, StartedFile(c))
    BY StepIsStep, StartedByVerdict DEF Typing
  <2>2. StartedFile(c) \in Verifiable(checkout)
    BY <2>1 DEF Verifiable, IsPassedOver, Typing, LocalsOK
  <2> QED
    BY <2>2 DEF FilesAreTried
<1>4. VerifySpec => [][A]_allVars
  BY <1>1, <1>2, <1>3, PTL DEF VerifySpec
<1> QED
  BY <1>4 DEF FirstRunsAreRehearsed

-----------------------------------------------------------------------------
(* What a rehearsal is worth                                               *)

\* What f may use: what the copy had, and the files before f.
UsesMet(f) ==
  \A p \in Uses[checkout[f]] :
    p \in cloned.ran \/ \E g \in Scan(checkout) :
                           p = <<g, checkout[g]>> /\ Position(g) < Position(f)

\* The shadow holds the copy and files before those that are still to be
\* tried, or the very one that is being tried; so what worked there had what
\* it uses from the copy or from before.
ShadowIsInOrder ==
  /\ cloned.ran \subseteq ran
  /\ pending \subseteq Scan(checkout)
  /\ at \in {"clone", "read"} => \A f \in Files : report[f] # "passed"
  /\ at = "read" => shadow \subseteq cloned.ran
  /\ at \in {"first", "second"} =>
       \A p \in shadow :
         p \in cloned.ran \/ \E g \in Scan(checkout) :
            /\ p = <<g, checkout[g]>>
            /\ \A h \in pending :
                 Position(g) < Position(h) \/ (at = "second" /\ Position(g) = Position(h))
  /\ at = "second" => \A f \in pending : IsFirstOf(f, pending) => UsesMet(f)
  /\ \A f \in Files : report[f] = "passed" => UsesMet(f) /\ Again[checkout[f]] # "error"

LEMMA OrderOfShadowInit == VerifyInit => ShadowIsInOrder
BY DEF VerifyInit, ShadowIsInOrder, Untried

\* No two files have the same place.
LEMMA PlaceOfFile ==
  ASSUME NEW f \in Files, NEW g \in Files, Position(f) = Position(g)
  PROVE  f = g
<1>1. \A h \in Files : \E i \in DOMAIN FileOrder : FileOrder[i] = h
  BY DEF Files
<1>2. FileOrder[Position(f)] = f /\ FileOrder[Position(g)] = g
  BY <1>1 DEF Position
<1> QED
  BY <1>2

LEMMA OrderOfShadowNext ==
  TypeOK /\ DriftIsSeen /\ ShadowIsInOrder /\ [VerifyNext]_allVars => ShadowIsInOrder'
<1> SUFFICES ASSUME TypeOK, DriftIsSeen, ShadowIsInOrder, [VerifyNext]_allVars
             PROVE  ShadowIsInOrder'
  OBVIOUS
<1> USE DEF ShadowIsInOrder
<1>1. ran \subseteq ran'
  BY StepIsStep, HistoryGrows
<1>2. CASE UNCHANGED <<at, checkout, shadow, pending, report, cloned>>
  BY <1>1, <1>2 DEF UsesMet, Scan
<1>3. ASSUME NEW tree \in VerifyTrees, NEW all \in BOOLEAN, StartVerify(tree, all)
      PROVE  ShadowIsInOrder'
  <2>1. \A f \in Files : report'[f] # "passed"
    BY <1>3 DEF StartVerify, Untried
  <2>2. at' \in {"first", "clone"} /\ shadow' = {} /\ cloned'.ran = {}
    BY <1>3 DEF StartVerify
  <2>3. pending' \subseteq Scan(checkout')
    BY <1>3 DEF StartVerify, Verifiable
  <2> QED
    BY <2>1, <2>2, <2>3 DEF Scan
<1>4. CASE CloneSource /\ UNCHANGED vars
  BY <1>4 DEF CloneSource, Scan, vars
<1>5. CASE ReadApplied /\ UNCHANGED vars
  <2>1. \A f \in Files : report'[f] # "passed"
    BY <1>5 DEF ReadApplied
  <2> QED
    BY <1>5, <2>1 DEF ReadApplied, Verifiable, Scan, vars
<1>6. CASE FirstApply /\ UNCHANGED vars
  <2>1. PICK f \in pending :
          /\ IsFirstOf(f, pending)
          /\ IF Works(shadow, f, checkout[f])
               THEN /\ shadow' = shadow \cup {<<f, checkout[f]>>}
                    /\ at' = "second"
                    /\ UNCHANGED <<pending, report>>
               ELSE Says(f, "first_error") /\ UNCHANGED <<shadow, at>>
    BY <1>6 DEF FirstApply
  <2>2. at = "first" /\ UNCHANGED <<checkout, cloned>> /\ UNCHANGED ran
    BY <1>6 DEF FirstApply, vars
  <2>3. f \in Scan(checkout) /\ f \in Files /\ Position(f) \in Nat
        /\ \A h \in pending : Position(h) \in Nat /\ Position(f) <= Position(h)
    BY <2>1, PositionOfFile DEF IsFirstOf, Scan
  <2>4. CASE Works(shadow, f, checkout[f])
    <3>1. UsesMet(f)
      BY <2>1, <2>2, <2>4 DEF Works, UsesMet
    <3>2. \A h \in pending : IsFirstOf(h, pending) => h = f
      BY <2>1, <2>3, PlaceOfFile DEF IsFirstOf, Scan
    <3>3. \A g \in Scan(checkout) : Position(g) \in Nat
      BY PositionOfFile DEF Scan
    <3>4. \A p \in shadow' :
            p \in cloned.ran \/ \E g \in Scan(checkout) :
               /\ p = <<g, checkout[g]>>
               /\ \A h \in pending : Position(g) < Position(h) \/ Position(g) = Position(h)
      BY <2>1, <2>2, <2>3, <2>4, <3>3
    <3> QED
      BY <2>1, <2>2, <2>4, <3>1, <3>2, <3>4 DEF UsesMet, Scan, IsFirstOf
  <2>5. CASE ~Works(shadow, f, checkout[f])
    <3>1. /\ pending' = pending \ {f} /\ at' = "first" /\ shadow' = shadow
          /\ \A g \in Files : report'[g] = "passed" => report[g] = "passed"
      BY <2>1, <2>2, <2>5 DEF Says, DriftIsSeen
    <3> QED
      BY <2>2, <3>1 DEF UsesMet, Scan
  <2> QED
    BY <2>4, <2>5
<1>7. CASE SecondApply /\ UNCHANGED vars
  <2>1. PICK f \in pending :
          IsFirstOf(f, pending) /\ Says(f, SecondVerdict(shadow, f, checkout[f]))
    BY <1>7 DEF SecondApply
  <2>2. /\ at = "second" /\ at' = "first"
        /\ UNCHANGED <<checkout, shadow, cloned>> /\ UNCHANGED ran
    BY <1>7 DEF SecondApply, vars
  <2>3. /\ pending' = pending \ {f}
        /\ \A g \in Files \ {f} : report'[g] = report[g]
        /\ report'[f] = "passed" => Again[checkout[f]] # "error"
    BY <2>1 DEF Says, DriftIsSeen, SecondVerdict, Works, ChangesSchema
  <2>4. \A h \in pending' : Position(f) < Position(h)
    <3> SUFFICES ASSUME NEW h \in pending' PROVE Position(f) < Position(h)
      OBVIOUS
    <3>1. f \in Files /\ h \in Files /\ h # f /\ Position(f) <= Position(h)
      BY <2>1, <2>3 DEF IsFirstOf, Scan
    <3> QED
      BY <3>1, PlaceOfFile, PositionOfFile
  <2>5. \A p \in shadow :
          p \in cloned.ran \/ \E g \in Scan(checkout) :
             p = <<g, checkout[g]>> /\ \A h \in pending' : Position(g) < Position(h)
    <3> SUFFICES ASSUME NEW p \in shadow, p \notin cloned.ran
                 PROVE  \E g \in Scan(checkout) :
                          p = <<g, checkout[g]>> /\ \A h \in pending' : Position(g) < Position(h)
      OBVIOUS
    <3>1. PICK g \in Scan(checkout) :
            /\ p = <<g, checkout[g]>>
            /\ Position(g) < Position(f) \/ Position(g) = Position(f)
      BY <2>1, <2>2
    <3>2. Position(g) \in Nat /\ Position(f) \in Nat /\ \A h \in pending' : Position(h) \in Nat
      BY <2>1, <2>3, PositionOfFile DEF Scan
    <3>3. \A h \in pending' : Position(g) < Position(h)
      BY <2>4, <3>1, <3>2
    <3> QED
      BY <3>1, <3>3
  <2>6. UsesMet(f)
    BY <2>1, <2>2
  <2> QED
    BY <2>2, <2>3, <2>5, <2>6 DEF UsesMet, Scan
<1>8. CASE GiveUp /\ UNCHANGED vars
  BY <1>8 DEF GiveUp, Untried, vars
<1>9. CASE DropShadow /\ UNCHANGED vars
  BY <1>9 DEF DropShadow, UsesMet, Scan, vars
<1> QED
  BY <1>2, <1>3, <1>4, <1>5, <1>6, <1>7, <1>8, <1>9
     DEF VerifyNext, VerifierStep, allVars, verifyVars

RehearsalInv ==
  PassInv /\ WorkIsRun /\ AppliedWasRun /\ DriftIsSeen /\ ShadowIsInOrder

LEMMA RehearsalInvHolds == HasLock => (VerifySpec => []RehearsalInv)
<1> SUFFICES ASSUME HasLock PROVE VerifySpec => []RehearsalInv
  OBVIOUS
<1>1. VerifyInit => RehearsalInv
  BY PassInvInit, WorkInit, DriftInit, OrderOfShadowInit DEF RehearsalInv, VerifyInit
<1>2. RehearsalInv /\ [VerifyNext]_allVars => RehearsalInv'
  BY StepIsStep, PassInvNext, WorkNext, AppliedNext, DriftNext, OrderOfShadowNext
     DEF RehearsalInv, PassInv, StepInv, Typing
<1> QED
  BY <1>1, <1>2, PTL DEF VerifySpec

\* A command learns how its SQL has ended from the CLI process; here it has
\* failed if something was missing or was there already.
LEMMA EndHasReason ==
  ASSUME Typing, WorkIsRun, [VerifyNext]_allVars, NEW c \in Clients,
         pc[c] = "sql", pc'[c] = "insert"
  PROVE  work'[c].status = "applied" <=> Works(ran, work[c].file, work[c].sum)
<1> USE DEF Typing, TypeOK
<1>1. CASE UNCHANGED vars
  BY <1>1 DEF vars, clientVars
<1>2. ASSUME NEW d \in Clients,
             \/ \E j \in Jobs : Start(d, j)
             \/ Acquire(d) \/ WaitTimeout(d) \/ Close(d) \/ Crash(d)
             \/ ApplyStep(d) \/ OperatorStep(d)
      PROVE  FALSE
  BY <1>2 DEF Start, Acquire, WaitTimeout, Close, Crash, Exit, ApplyStep, LoadRecords, PassOver,
              Refuse, Execute, Spawn, RecordResult, Finish, Applying, AfterError, OperatorStep,
              ResolveRead, ResolveInsert, AdvanceRead, ApplyPhaseRead, PhaseInsert, Running, Goto
<1>3. ASSUME NEW e \in cli, SqlDoesWhatItSays(e)
      PROVE  work'[c].status = "applied" <=> Works(ran, work[c].file, work[c].sum)
  <2>1. e.owner = c
    BY <1>3 DEF SqlDoesWhatItSays, SqlEnds, Goto, Owners
  <2>2. work'[c].status = "applied" <=> Works(ran, e.file, e.sum)
    BY <1>3, <2>1, NoneAssumption DEF SqlDoesWhatItSays
  <2>3. work[c].file = e.file /\ work[c].sum = e.sum
    BY <2>1, NoneAssumption DEF WorkIsRun
  <2> QED
    BY <2>2, <2>3
<1> QED
  BY <1>1, <1>2, <1>3 DEF VerifyNext, ClientStep, Step, Finished, allVars

(***************************************************************************)
(* In the linear model, for a repository without migration groups, under   *)
(* an advisory lock: where verify says that a file passed, no apply of the *)
(* same checkout fails at it, whatever other checkouts executed since the  *)
(* copy and whatever a crash left without a row, as long as no file before *)
(* it was resolved.                                                        *)
(***************************************************************************)
THEOREM GreenIsTrue ==
  HasLock /\ ~Dag /\ (\A f \in Files : GroupOf[f] = None) => (VerifySpec => GreenMeansGo)
<1> SUFFICES ASSUME HasLock, ~Dag, \A f \in Files : GroupOf[f] = None
             PROVE  VerifySpec => GreenMeansGo
  OBVIOUS
<1> DEFINE A == \A c \in Clients : FailsNow(c) /\ IsRehearsed(c) =>
                  LET f == work[c].file
                  IN  (\A g \in Before(checkout, f) : ~IsNewest(g, "skipped"))
                        => report[f] # "passed"
<1>1. RehearsalInv /\ [VerifyNext]_allVars => [A]_allVars
  <2> SUFFICES ASSUME RehearsalInv, [VerifyNext]_allVars, NEW c \in Clients,
                      FailsNow(c), IsRehearsed(c),
                      \A g \in Before(checkout, work[c].file) : ~IsNewest(g, "skipped"),
                      report[work[c].file] = "passed"
               PROVE  FALSE
    OBVIOUS
  <2> DEFINE f == work[c].file
             tree == job[c].tree
  <2> USE DEF RehearsalInv, PassInv, StepInv, Typing
  <2>1. /\ pc[c] = "sql" /\ job[c].cmd = "apply" /\ tree = checkout
        /\ IsMidPass(c)
    BY DEF FailsNow, IsRehearsed, IsMidPass
  <2>2. /\ f \in left[c] /\ f \in Files
        /\ work[c].sum = tree[f]
        /\ \A g \in left[c] : Position(f) <= Position(g)
    BY <2>1 DEF WorkOfTree, OfTree, IsNext, IsFirstOf, TypeOK
  <2>3. UsesMet(f) /\ Again[tree[f]] # "error"
    BY <2>1, <2>2 DEF ShadowIsInOrder
  <2>4. ASSUME NEW g \in Scan(tree), Position(g) < Position(f)
        PROVE  <<g, tree[g]>> \in ran
    <3>1. g \in Files /\ PhaseOf[g] = None
      BY FilesAssumption DEF Scan
    <3>2. g \notin left[c]
      BY <2>2, <2>4, <3>1, PositionOfFile
    <3>3. IsSettled(records, tree, g)
      BY <2>1, <3>1, <3>2 DEF IsBehind, IsVisited, PassedAreSettled
    <3>4. g \in Before(checkout, f)
      BY <2>1, <2>4, <3>1 DEF Before
    <3>5. /\ RowsOf(records, g) # {}
          /\ NewestRow(records, g).status = "applied"
          /\ NewestRow(records, g).sum = tree[g]
      BY <3>3, <3>4 DEF IsSettled, IsNewest, HasRow
    <3>6. PICK n \in DOMAIN records : IsNewestAt(records, g, n)
      BY <3>5, TableOfRows, NewestExists
    <3>7. NewestRow(records, g) = records[n] /\ records[n].file = g
      BY <3>6, TableOfRows, NewestAt DEF IsNewestAt
    <3>8. tree[g] \in Sums /\ tree[g] # NoSum
      <4>1. job[c] \in Jobs
        BY <2>1 DEF LocalsOK
      <4> QED
        BY <2>1, <2>4, <4>1, JobFields, NoneAssumption DEF Scan, Trees
    <3> QED
      BY <3>5, <3>7, <3>8 DEF AppliedWasRun
  <2>5. Uses[tree[f]] \subseteq ran
    BY <2>1, <2>3, <2>4 DEF UsesMet, ShadowIsInOrder
  <2>6. Works(ran, f, work[c].sum)
    BY <2>2, <2>3, <2>5 DEF Works
  <2> QED
    BY <2>6, EndHasReason DEF FailsNow
<1>2. VerifySpec => [][A]_allVars
  BY <1>1, RehearsalInvHolds, PTL DEF VerifySpec
<1> QED
  BY <1>2 DEF GreenMeansGo
-----------------------------------------------------------------------------
(* What an alarm is worth                                                  *)

\* No file of a verified checkout uses what a later one makes.
UsesComeFirst ==
  \A tree \in VerifyTrees : \A f \in Scan(tree) : \A p \in Uses[tree[f]] :
    Position(p[1]) < Position(f)

\* What has run had what it uses.
UsesWereThere == \A p \in ran : Uses[p[2]] \subseteq ran

\* The copy has what its rows say was applied, and the rows stay.
CopyIsOfTable ==
  /\ cloned.rows \in 0..Len(records)
  /\ read \in 0..Len(records)
  /\ \A k \in 1..cloned.rows :
       records[k].status = "applied" /\ records[k].sum # NoSum =>
         <<records[k].file, records[k].sum>> \in cloned.ran

Worked == {"passed", "second_error", "drift"}

IsTried(f) == report[f] # "untried"

WasApplied(f) ==
  \E k \in RowsOf(records, f) : k <= read /\ records[k].status \in {"applied", "skipped"}

\* A file that fails at once would do twice what cannot be done twice, or uses
\* what neither the copy had nor a file before it has made.
HasReason(f) ==
  \/ <<f, checkout[f]>> \in cloned.ran /\ Again[checkout[f]] = "error"
  \/ \E p \in Uses[checkout[f]] \ cloned.ran :
       \A g \in Scan(checkout) :
         p = <<g, checkout[g]>> /\ Position(g) < Position(f) => report[g] \notin Worked

\* The shadow has the copy and what worked; tried is what comes before what is
\* still to be tried; left out is what the table had applied when it was read.
TrialsAreKept ==
  /\ at \in {"clone", "read", "drop"} => \A f \in Files : ~IsTried(f)
  /\ at \in {"read", "first", "second"} => cloned.ran \subseteq shadow
  /\ at \in {"first", "second"} =>
       \A f \in Files : report[f] \in Worked => <<f, checkout[f]>> \in shadow
  /\ at = "second" => \A f \in pending : IsFirstOf(f, pending) => <<f, checkout[f]>> \in shadow
  /\ at \in {"clone", "read", "first", "second"} => checkout \in VerifyTrees
  /\ at \in {"first", "second"} \/ (\E f \in Files : IsTried(f)) =>
       /\ checkout \in VerifyTrees
       /\ \A f \in Verifiable(checkout) : f \in pending \/ IsTried(f) \/ WasApplied(f)
  /\ \A f \in Files : IsTried(f) =>
       f \in Scan(checkout) /\ \A h \in pending : Position(f) < Position(h)
  /\ \A f \in Files : report[f] = "first_error" => HasReason(f)

\* What a linear pass executes is its last file, or has no row that it has read;
\* and it executes the version of its checkout.
IsNewOrLast(c, f) == RowsOf(Seen(c), f) = {} \/ f \in Editable(c)

WorkIsNew ==
  ~Dag => \A c \in Clients :
            IsMidPass(c) /\ pc[c] \in {"sql", "insert"} => IsNewOrLast(c, work[c].file)

ExecutedIsNew ==
  ~Dag => \A c \in Clients, f \in Files : IsVisited(c, f) =>
            \A k \in RowsOf(records, f) :
              k > snap[c] /\ records[k].status # "skipped" =>
                IsNewOrLast(c, f) /\ records[k].sum = job[c].tree[f]

\* What succeeds in an undisturbed pass has raised no alarm, unless the copy has
\* it already.
SucceededIn(c, f) ==
  \E k \in RowsOf(records, f) : k > snap[c] /\ records[k].status = "applied"

NoneIsSkipped(f) == \A g \in Before(checkout, f) : ~IsNewest(g, "skipped")

IsCompared(c) == IsMidPass(c) /\ IsRehearsed(c) /\ IsUndisturbed(c)

SuccessIsNoAlarm ==
  \A c \in Clients, f \in Files :
    IsCompared(c) /\ IsVisited(c, f) /\ SucceededIn(c, f) /\ NoneIsSkipped(f) =>
      report[f] # "first_error" \/ <<f, checkout[f]>> \in cloned.ran

LEMMA UsesInit == VerifyInit => UsesWereThere
BY DEF VerifyInit, Init, UsesWereThere

LEMMA UsesNext == UsesWereThere /\ [VerifyNext]_allVars => UsesWereThere'
<1> SUFFICES ASSUME UsesWereThere, [VerifyNext]_allVars PROVE UsesWereThere'
  OBVIOUS
<1>1. CASE UNCHANGED ran
  BY <1>1 DEF UsesWereThere
<1>2. ASSUME NEW e \in cli, SqlDoesWhatItSays(e) PROVE UsesWereThere'
  <2>1. \/ ran' = ran
        \/ ran' = ran \cup {<<e.file, e.sum>>} /\ Uses[e.sum] \subseteq ran
    BY <1>2 DEF SqlDoesWhatItSays, Works
  <2> QED
    BY <2>1 DEF UsesWereThere
<1>3. ASSUME ClientStep PROVE UNCHANGED ran
  BY <1>3 DEF ClientStep, Start, Acquire, WaitTimeout, Step, Close, Crash, ApplyStep, LoadRecords,
              PassOver, Refuse, Execute, RecordResult, Finish, OperatorStep, ResolveRead,
              ResolveInsert, AdvanceRead, ApplyPhaseRead, PhaseInsert
<1> QED
  BY <1>1, <1>2, <1>3 DEF VerifyNext, Finished, allVars, vars

LEMMA CopyInit == VerifyInit => CopyIsOfTable
BY DEF VerifyInit, Init, CopyIsOfTable

LEMMA CopyNext ==
  TypeOK /\ AppliedWasRun /\ CopyIsOfTable /\ [VerifyNext]_allVars => CopyIsOfTable'
<1> SUFFICES ASSUME TypeOK, AppliedWasRun, CopyIsOfTable, [VerifyNext]_allVars
             PROVE  CopyIsOfTable'
  OBVIOUS
<1>1. /\ Len(records) \in Nat /\ Len(records') \in Nat /\ Len(records) <= Len(records')
      /\ DOMAIN records = 1..Len(records)
      /\ \A k \in 1..Len(records) : records'[k] = records[k]
  BY StepIsStep, RowsStay
<1>2. CASE UNCHANGED <<cloned, read>>
  <2>1. cloned.rows \in 0..Len(records') /\ read \in 0..Len(records')
    BY <1>1 DEF CopyIsOfTable
  <2>2. \A k \in 1..cloned.rows : records'[k] = records[k]
    BY <1>1 DEF CopyIsOfTable
  <2> QED
    BY <1>2, <2>1, <2>2 DEF CopyIsOfTable
<1>3. ASSUME NEW tree \in VerifyTrees, NEW all \in BOOLEAN, StartVerify(tree, all)
      PROVE  CopyIsOfTable'
  BY <1>1, <1>3 DEF StartVerify, CopyIsOfTable
<1>4. CASE CloneSource /\ UNCHANGED vars
  <2>1. /\ cloned'.rows = Len(records) /\ cloned'.ran = ran /\ read' = read /\ records' = records
    BY <1>4 DEF CloneSource, vars, dbVars
  <2> QED
    BY <1>1, <2>1 DEF CopyIsOfTable, AppliedWasRun
<1>5. CASE ReadApplied /\ UNCHANGED vars
  BY <1>1, <1>5 DEF ReadApplied, CopyIsOfTable, vars, dbVars
<1> QED
  BY <1>2, <1>3, <1>4, <1>5
     DEF VerifyNext, VerifierStep, FirstApply, SecondApply, GiveUp, DropShadow, allVars, verifyVars

LEMMA TrialsInit == VerifyInit => TrialsAreKept
BY DEF VerifyInit, Untried, TrialsAreKept, IsTried

LEMMA TrialsNext ==
  ASSUME TypeOK, DriftIsSeen, ShadowIsInOrder, CopyIsOfTable, TrialsAreKept,
         [VerifyNext]_allVars
  PROVE  TrialsAreKept'
<1> USE DEF TrialsAreKept
<1>1. \A f : WasApplied(f) /\ read' = read => WasApplied(f)'
  <2> SUFFICES ASSUME NEW f, WasApplied(f), read' = read PROVE WasApplied(f)'
    OBVIOUS
  <2>1. PICK k \in RowsOf(records, f) : k <= read /\ records[k].status \in {"applied", "skipped"}
    BY DEF WasApplied
  <2>2. k \in RowsOf(records', f) /\ records'[k] = records[k]
    BY <2>1, StepIsStep, RowsStay DEF RowsOf
  <2> QED
    BY <2>1, <2>2 DEF WasApplied
<1>2. CASE UNCHANGED <<at, checkout, shadow, pending, report, cloned, read>>
  BY <1>1, <1>2 DEF IsTried, HasReason, Verifiable, Scan
<1>3. ASSUME NEW tree \in VerifyTrees, NEW all \in BOOLEAN, StartVerify(tree, all)
      PROVE  TrialsAreKept'
  <2>1. \A f \in Files : report'[f] = "untried"
    BY <1>3 DEF StartVerify, Untried
  <2>2. /\ at' \in {"first", "clone"} /\ shadow' = {} /\ cloned'.ran = {}
        /\ checkout' = tree
        /\ at' = "first" => pending' = Verifiable(checkout')
    BY <1>3 DEF StartVerify, Verifiable, Scan
  <2> QED
    BY <2>1, <2>2 DEF IsTried, Worked, Verifiable, Scan
<1>4. CASE CloneSource
  BY <1>4 DEF CloneSource, IsTried, HasReason, Worked
<1>5. CASE ReadApplied /\ UNCHANGED vars
  <2>1. /\ at = "read" /\ at' = "first" /\ read' = Len(records)
        /\ UNCHANGED <<checkout, shadow, report, cloned, records>>
        /\ pending' \subseteq Verifiable(checkout)
        /\ \A f \in Verifiable(checkout) : f \in pending' \/ IsApplied(f)
    BY <1>5 DEF ReadApplied, vars, dbVars
  <2>2. \A f : IsApplied(f) => WasApplied(f)'
    BY <2>1, TableOfRows DEF IsApplied, WasApplied, RowsOf
  <2> QED
    BY <2>1, <2>2 DEF IsTried, Worked, Verifiable, Scan
<1>6. CASE FirstApply /\ UNCHANGED vars
  <2>1. PICK f \in pending :
          /\ IsFirstOf(f, pending)
          /\ IF Works(shadow, f, checkout[f])
               THEN /\ shadow' = shadow \cup {<<f, checkout[f]>>}
                    /\ at' = "second"
                    /\ UNCHANGED <<pending, report>>
               ELSE Says(f, "first_error") /\ UNCHANGED <<shadow, at>>
    BY <1>6 DEF FirstApply
  <2>2. at = "first" /\ UNCHANGED <<checkout, cloned, read>> /\ UNCHANGED records
    BY <1>6 DEF FirstApply, vars, dbVars
  <2>3. /\ f \in Scan(checkout) /\ f \in Files /\ Position(f) \in Nat
        /\ \A h \in pending : h \in Files /\ Position(h) \in Nat /\ Position(f) <= Position(h)
    BY <2>1, PositionOfFile DEF IsFirstOf, Scan, ShadowIsInOrder, DriftIsSeen
  <2>4. CASE Works(shadow, f, checkout[f])
    <3>1. \A h \in pending : IsFirstOf(h, pending) => h = f
      BY <2>1, <2>3, PlaceOfFile DEF IsFirstOf
    <3> QED
      BY <1>1, <2>1, <2>2, <2>4, <3>1 DEF IsTried, HasReason, Verifiable, Scan, IsFirstOf
  <2>5. CASE ~Works(shadow, f, checkout[f])
    <3>1. /\ pending' = pending \ {f} /\ at' = "first" /\ shadow' = shadow
          /\ report'[f] = "first_error"
          /\ \A g \in Files \ {f} : report'[g] = report[g]
      BY <2>1, <2>2, <2>3, <2>5 DEF Says, DriftIsSeen
    <3>2. \A h \in pending' : Position(f) < Position(h)
      BY <2>3, <3>1, PlaceOfFile
    <3>3. HasReason(f)'
      <4>1. CASE <<f, checkout[f]>> \in shadow /\ Again[checkout[f]] = "error"
        <5>1. <<f, checkout[f]>> \in cloned.ran
          BY <2>1, <2>2, <2>3, <4>1 DEF ShadowIsInOrder
        <5> QED
          BY <2>2, <4>1, <5>1 DEF HasReason
      <4>2. ASSUME NEW p \in Uses[checkout[f]], p \notin shadow PROVE HasReason(f)'
        <5>1. p \notin cloned.ran
          BY <2>2, <4>2
        <5>2. ASSUME NEW g \in Scan(checkout), p = <<g, checkout[g]>>, Position(g) < Position(f)
              PROVE  report'[g] \notin Worked
          <6>1. g \in Files /\ g # f
            BY <2>3, <5>2 DEF Scan
          <6> QED
            BY <2>2, <3>1, <4>2, <5>2, <6>1
        <5> QED
          BY <2>2, <5>1, <5>2 DEF HasReason, Scan
      <4> QED
        BY <2>5, <4>1, <4>2 DEF Works
    <3>4. ASSUME NEW h \in Files, h # f, report[h] = "first_error" PROVE HasReason(h)'
      <4>1. HasReason(h) /\ Position(h) < Position(f)
        BY <2>1, <3>4 DEF IsTried
      <4>2. \A g \in Scan(checkout) : Position(g) < Position(h) => report'[g] = report[g]
        BY <2>3, <3>1, <4>1, PositionOfFile, <3>4 DEF Scan
      <4> QED
        BY <2>2, <4>1, <4>2 DEF HasReason, Scan
    <3>5. \A h \in Files : IsTried(h)' <=> IsTried(h) \/ h = f
      BY <3>1 DEF IsTried
    <3>6. \A h \in Files : report'[h] \in Worked => report[h] \in Worked
      BY <3>1 DEF Worked
    <3>7. \A h \in Files : IsTried(h)' =>
            h \in Scan(checkout') /\ \A i \in pending' : Position(h) < Position(i)
      BY <2>2, <2>3, <3>1, <3>2, <3>5 DEF Scan
    <3>8. \A h \in Files : report'[h] = "first_error" => HasReason(h)'
      BY <3>1, <3>3, <3>4
    <3>9. /\ checkout' \in VerifyTrees
          /\ \A h \in Verifiable(checkout') : h \in pending' \/ IsTried(h)' \/ WasApplied(h)'
      BY <1>1, <2>2, <3>1, <3>5 DEF Verifiable, Scan
    <3> QED
      BY <2>2, <3>1, <3>6, <3>7, <3>8, <3>9
  <2> QED
    BY <2>4, <2>5
<1>7. CASE SecondApply /\ UNCHANGED vars
  <2>1. PICK f \in pending :
          IsFirstOf(f, pending) /\ Says(f, SecondVerdict(shadow, f, checkout[f]))
    BY <1>7 DEF SecondApply
  <2>2. /\ at = "second" /\ at' = "first"
        /\ UNCHANGED <<checkout, shadow, cloned, read>> /\ UNCHANGED records
    BY <1>7 DEF SecondApply, vars, dbVars
  <2>3. /\ f \in Scan(checkout) /\ f \in Files /\ Position(f) \in Nat
        /\ \A h \in pending : h \in Files /\ Position(h) \in Nat /\ Position(f) <= Position(h)
    BY <2>1, PositionOfFile DEF IsFirstOf, Scan, ShadowIsInOrder, DriftIsSeen
  <2>4. /\ pending' = pending \ {f}
        /\ report'[f] \in Worked
        /\ \A g \in Files \ {f} : report'[g] = report[g]
    BY <2>1, <2>3 DEF Says, DriftIsSeen, SecondVerdict, Worked
  <2>5. \A h \in pending' : Position(f) < Position(h)
    BY <2>3, <2>4, PlaceOfFile
  <2>6. <<f, checkout[f]>> \in shadow
    BY <2>1, <2>2
  <2>7. \A h \in Files : IsTried(h)' <=> IsTried(h) \/ h = f
    BY <2>4 DEF IsTried, Worked
  <2>8. ASSUME NEW h \in Files, report'[h] = "first_error" PROVE HasReason(h)'
    <3>1. h # f /\ report[h] = "first_error"
      BY <2>4, <2>8 DEF Worked
    <3>2. HasReason(h) /\ Position(h) < Position(f)
      BY <2>1, <3>1 DEF IsTried
    <3>3. \A g \in Scan(checkout) : Position(g) < Position(h) => report'[g] = report[g]
      BY <2>3, <2>4, <2>8, <3>2, PositionOfFile DEF Scan
    <3> QED
      BY <2>2, <3>2, <3>3 DEF HasReason, Scan
  <2>9. \A h \in Files : IsTried(h)' =>
          h \in Scan(checkout') /\ \A i \in pending' : Position(h) < Position(i)
    BY <2>2, <2>3, <2>4, <2>5, <2>7 DEF Scan
  <2>10. /\ checkout' \in VerifyTrees
         /\ \A h \in Verifiable(checkout') : h \in pending' \/ IsTried(h)' \/ WasApplied(h)'
    BY <1>1, <2>2, <2>4, <2>7 DEF Verifiable, Scan
  <2>11. \A h \in Files : report'[h] \in Worked => <<h, checkout'[h]>> \in shadow'
    BY <2>2, <2>4, <2>6
  <2> QED
    BY <2>2, <2>8, <2>9, <2>10, <2>11
<1>8. CASE GiveUp
  BY <1>8 DEF GiveUp, Untried, IsTried, Worked
<1>9. CASE DropShadow
  BY <1>1, <1>9 DEF DropShadow, IsTried, HasReason, Verifiable, Scan
<1> QED
  BY <1>2, <1>3, <1>4, <1>5, <1>6, <1>7, <1>8, <1>9
     DEF VerifyNext, VerifierStep, allVars, verifyVars

LEMMA WorkIsNewInit == Init => WorkIsNew
BY DEF Init, WorkIsNew, IsMidPass

LEMMA WorkIsNewNext ==
  ASSUME Typing, SeenOK, WorkOfTree, WorkIsNew, [Next]_vars
  PROVE  WorkIsNew'
<1> SUFFICES ASSUME ~Dag, NEW d \in Clients, IsMidPass(d)', pc'[d] \in {"sql", "insert"}
             PROVE  IsNewOrLast(d, work[d].file)'
  BY DEF WorkIsNew
<1> USE DEF Typing
<1>1. ASSUME snap'[d] = snap[d], job'[d] = job[d], NEW f, IsNewOrLast(d, f)
      PROVE  IsNewOrLast(d, f)'
  <2>1. Seen(d)' = Seen(d)
    BY <1>1, SeenStays
  <2> QED
    BY <1>1, <2>1 DEF IsNewOrLast, Editable
<1>2. ASSUME pc'[d] = pc[d], job'[d] = job[d], work'[d] = work[d], snap'[d] = snap[d]
      PROVE  IsNewOrLast(d, work[d].file)'
  BY <1>1, <1>2 DEF WorkIsNew, IsMidPass
<1>3. ASSUME NEW c \in Clients,
             \/ \E j \in Jobs : Start(c, j)
             \/ Acquire(c) \/ WaitTimeout(c) \/ Close(c) \/ Crash(c)
      PROVE  IsNewOrLast(d, work[d].file)'
  BY <1>2, <1>3 DEF Start, Acquire, WaitTimeout, Close, Crash, Exit, Goto, TypeOK
<1>4. ASSUME NEW c \in Clients,
             LoadRecords(c) \/ PassOver(c) \/ Refuse(c) \/ RecordResult(c) \/ Finish(c)
      PROVE  IsNewOrLast(d, work[d].file)'
  BY <1>2, <1>4
     DEF LoadRecords, PassOver, Refuse, RecordResult, Finish, Applying, Visited, AfterError,
         Goto, TypeOK
<1>5. ASSUME NEW c \in Clients, OperatorStep(c) PROVE IsNewOrLast(d, work[d].file)'
  BY <1>2, <1>5
     DEF OperatorStep, ResolveRead, ResolveInsert, AdvanceRead, ApplyPhaseRead, PhaseInsert,
         Running, Spawn, Goto, TypeOK, IsMidPass
<1>6. ASSUME NEW c \in Clients, Execute(c) PROVE IsNewOrLast(d, work[d].file)'
  <2>1. CASE d # c
    BY <1>2, <1>6, <2>1 DEF Execute, Spawn, Goto, TypeOK
  <2>2. CASE d = c
    <3>1. PICK f \in left[c] : Verdict(c, f) = "execute" /\ Spawn(c, f, job[c].tree[f])
      BY <1>6 DEF Execute
    <3>2. work'[c].file = f /\ UNCHANGED <<job, snap>>
      BY <1>6, <3>1 DEF Execute, Spawn, TypeOK
    <3>3. IsNewOrLast(c, f)
      BY <3>1 DEF Verdict, IsNewOrLast
    <3> QED
      BY <1>1, <2>2, <3>2, <3>3
  <2> QED
    BY <2>1, <2>2
<1>7. ASSUME NEW o \in Owners, SqlEndsOf(o) PROVE IsNewOrLast(d, work[d].file)'
  <2>1. PICK e \in cli : e.owner = o /\ SqlEnds(e)
    BY <1>7 DEF SqlEndsOf
  <2>2. CASE o # d
    BY <1>2, <2>1, <2>2 DEF SqlEnds, Goto, TypeOK, Owners
  <2>3. CASE o = d
    <3>1. o # None /\ pc[d] = "sql" /\ work[d] \in Work
      BY <2>1, <2>3, NoneAssumption DEF CliOK, LocalsOK
    <3>2. PICK status \in {"applied", "failed"} : work' = [work EXCEPT ![d].status = status]
      BY <2>1, <2>3, <3>1 DEF SqlEnds
    <3>3. work'[d].file = work[d].file /\ UNCHANGED <<job, snap>>
      BY <2>1, <3>1, <3>2 DEF SqlEnds, TypeOK, Work
    <3> QED
      BY <1>1, <3>1, <3>3 DEF WorkIsNew, IsMidPass
  <2> QED
    BY <2>2, <2>3
<1>8. CASE UNCHANGED vars
  BY <1>2, <1>8 DEF vars, clientVars
<1> QED
  BY <1>3, <1>4, <1>5, <1>6, <1>7, <1>8 DEF Next, Step, ApplyStep, Finished

LEMMA ExecutedInit == Init => ExecutedIsNew
BY DEF Init, ExecutedIsNew, IsVisited, IsMidPass

\* What a pass records was at hand, and is new to it, or its last.
LEMMA AnsweredIsWork ==
  ASSUME HasLock, StepInv, WorkIsNew, ~Dag, [Next]_vars,
         NEW d \in Clients, IsMidPass(d), NEW f \in Files, NEW sum, NEW status,
         status # "skipped", Answers(f, sum, status)
  PROVE  /\ IsNewOrLast(d, f)
         /\ pc[d] = "insert" /\ work[d].file = f /\ work[d].status = status
<1> USE DEF StepInv, Typing
<1>1. PICK r : records' = Append(records, r) /\ r.file = f /\ r.status = status
  BY DEF Answers
<1>2. Len(records) \in Nat /\ records'[Len(records) + 1] = r
  BY <1>1 DEF TypeOK
<1>3. ~UNCHANGED dbVars
  BY <1>1 DEF dbVars, TypeOK
<1>4. PICK c \in Clients :
        /\ pc[c] = "insert"
        /\ \/ /\ job[c].cmd # "resolve"
              /\ InsertRow(work[c].file, work[c].sum, work[c].status,
                           GroupOf[work[c].file], PhaseOf[work[c].file])
           \/ /\ job[c].cmd = "resolve"
              /\ InsertRow(work[c].file, work[c].sum, "skipped", None, None)
  BY <1>3, NextNotes
<1>5. CASE InsertRow(work[c].file, work[c].sum, "skipped", None, None)
  <2> DEFINE row(t) == [file |-> work[c].file, sum |-> work[c].sum, status |-> "skipped",
                        at |-> t, group |-> None, phase |-> None]
  <2>1. PICK t \in NextTimes : records' = Append(records, row(t))
    BY <1>5 DEF InsertRow
  <2>2. row(t).status = "skipped"
    OBVIOUS
  <2> HIDE DEF row
  <2>3. records'[Len(records) + 1] = row(t)
    BY <1>2, <2>1 DEF TypeOK
  <2> QED
    BY <1>1, <1>2, <2>2, <2>3
<1>6. CASE /\ job[c].cmd # "resolve"
           /\ InsertRow(work[c].file, work[c].sum, work[c].status,
                        GroupOf[work[c].file], PhaseOf[work[c].file])
  <2> DEFINE row(t) == [file |-> work[c].file, sum |-> work[c].sum, status |-> work[c].status,
                        at |-> t, group |-> GroupOf[work[c].file],
                        phase |-> PhaseOf[work[c].file]]
  <2>1. PICK t \in NextTimes : records' = Append(records, row(t))
    BY <1>6 DEF InsertRow
  <2>2. row(t).file = work[c].file /\ row(t).status = work[c].status
    OBVIOUS
  <2> HIDE DEF row
  <2>3. records'[Len(records) + 1] = row(t)
    BY <1>2, <2>1 DEF TypeOK
  <2>4. IsInLock(c)
    BY <1>4, <1>6 DEF IsInLock, Locks
  <2>5. c = d
    BY <2>4, PassHoldsLock DEF LockHeld
  <2> QED
    BY <1>1, <1>2, <1>4, <2>2, <2>3, <2>5 DEF WorkIsNew
<1> QED
  BY <1>4, <1>5, <1>6

LEMMA ExecutedNext ==
  ASSUME HasLock, StepInv, OutcomeOK, WorkOfTree, WorkIsNew, ExecutedIsNew, [Next]_vars
  PROVE  ExecutedIsNew'
<1> SUFFICES ASSUME ~Dag, NEW d \in Clients, NEW f \in Files, IsVisited(d, f)',
                    NEW k \in RowsOf(records', f), k > snap'[d], records'[k].status # "skipped"
             PROVE  IsNewOrLast(d, f)' /\ records'[k].sum = job'[d].tree[f]
  BY DEF ExecutedIsNew
<1> USE DEF StepInv, Typing
<1>1. /\ IsMidPass(d) /\ job'[d] = job[d] /\ snap'[d] = snap[d]
      /\ StaysBehind(d, f) \/ LeavesBehind(d, f)
  BY VisitStep
<1>2. Seen(d)' = Seen(d)
  BY <1>1, SeenStays
<1>3. ASSUME IsNewOrLast(d, f) PROVE IsNewOrLast(d, f)'
  BY <1>1, <1>2, <1>3 DEF IsNewOrLast, Editable
<1>4. CASE k \in RowsOf(records, f)
  <2>1. records'[k] = records[k]
    BY <1>4, RowsStay DEF RowsOf
  <2>2. f \notin left[d]
    BY <1>1, <1>4, <2>1 DEF FreshView, RowsOf
  <2>3. IsVisited(d, f)
    BY <1>1, <2>2 DEF StaysBehind, LeavesBehind
  <2> QED
    BY <1>1, <1>3, <1>4, <2>1, <2>3 DEF ExecutedIsNew
<1>5. CASE k \notin RowsOf(records, f)
  <2>1. ASSUME NEW r, records' = Append(records, r)
        PROVE  r.file = f /\ records'[k] = r
    <3>1. /\ Len(records) \in Nat /\ DOMAIN records = 1..Len(records)
          /\ DOMAIN records' = 1..(Len(records) + 1)
          /\ \A i \in 1..Len(records) : records'[i] = records[i]
          /\ records'[Len(records) + 1] = r
      BY <2>1 DEF TypeOK
    <3> QED
      BY <1>5, <3>1 DEF RowsOf
  <2>2. records' # records
    BY <1>5
  <2>3. ~StaysBehind(d, f)
    BY <2>1, <2>2 DEF StaysBehind
  <2>4. PICK status \in {"applied", "failed"} : Answers(f, job[d].tree[f], status)
    BY <1>1, <2>2, <2>3 DEF LeavesBehind
  <2>5. records'[k].sum = job[d].tree[f]
    BY <2>1, <2>4 DEF Answers
  <2> QED
    BY <1>1, <1>3, <2>4, <2>5, AnsweredIsWork
<1> QED
  BY <1>4, <1>5

\* A tail is last.
LEMMA TailIsLast ==
  ASSUME NEW tree, NEW f \in Scan(tree)
  PROVE  TailOf(Scan(tree)) \in Scan(tree) /\ Position(f) <= Position(TailOf(Scan(tree)))
<1> DEFINE S == {Position(g) : g \in Scan(tree)}
<1>1. Len(FileOrder) \in Nat /\ DOMAIN FileOrder = 1..Len(FileOrder)
  BY FilesAssumption
<1>2. \A g \in Files : Position(g) \in DOMAIN FileOrder
  BY DEF Position, Files
<1>3. S \in SUBSET (0..Len(FileOrder)) /\ S # {}
  BY <1>1, <1>2 DEF Scan
<1>4. PICK m \in S : \A k \in S : k <= m
  BY <1>1, <1>3, GreatestNatural
<1>5. \E t \in Scan(tree) : \A g \in Scan(tree) : Position(g) <= Position(t)
  BY <1>4
<1> QED
  BY <1>5 DEF TailOf

AlarmInv ==
  /\ RehearsalInv /\ PassesAreInOrder
  /\ UsesWereThere /\ CopyIsOfTable /\ TrialsAreKept
  /\ WorkIsNew /\ ExecutedIsNew /\ SuccessIsNoAlarm

\* The linear model, for a repository without migration groups.
IsLinearAndSafe == ~Dag /\ \A f \in Files : GroupOf[f] = None

\* What has run since the copy, and comes before a file that an undisturbed pass
\* has come to, was tried in the shadow before that file, and worked.
LEMMA NeedWasTried ==
  ASSUME IsLinearAndSafe, AlarmInv,
         NEW c \in Clients, IsCompared(c), NEW f \in Scan(checkout),
         \A g \in Scan(checkout) : Position(g) < Position(f) => g \notin left[c],
         NoneIsSkipped(f),
         at = "first" \/ IsTried(f), \A h \in pending : Position(f) <= Position(h),
         NEW p \in ran \ cloned.ran, Position(p[1]) < Position(f)
  PROVE  \E g \in Scan(checkout) :
           p = <<g, checkout[g]>> /\ Position(g) < Position(f) /\ report[g] \in Worked
<1> USE DEF AlarmInv, RehearsalInv, PassInv, StepInv, Typing, IsLinearAndSafe
<1>1. /\ IsMidPass(c) /\ job[c].cmd = "apply" /\ job[c].tree = checkout
      /\ cloned.rows = read /\ read = snap[c]
  BY DEF IsCompared, IsRehearsed, IsUndisturbed
<1>2. PICK g \in Scan(checkout) : p = <<g, checkout[g]>>
  BY DEF IsCompared, IsUndisturbed, ContentsOf
<1>3. /\ g \in Files /\ f \in Files /\ Position(g) < Position(f)
      /\ Position(g) \in Nat /\ Position(f) \in Nat
      /\ PhaseOf[g] = None /\ PhaseOf[f] = None
  BY <1>2, PositionOfFile, FilesAssumption DEF Scan
<1>4. IsVisited(c, g)
  BY <1>1, <1>2, <1>3 DEF IsVisited
<1>5. /\ RowsOf(records, g) # {}
      /\ NewestRow(records, g).status = "applied"
      /\ NewestRow(records, g).sum = checkout[g]
  <2>1. IsSettled(records, checkout, g)
    BY <1>1, <1>3, <1>4 DEF PassedAreSettled, IsBehind
  <2>2. g \in Before(checkout, f)
    BY <1>2, <1>3 DEF Before
  <2> QED
    BY <2>1, <2>2 DEF IsSettled, NoneIsSkipped, IsNewest, HasRow
<1>6. PICK n \in RowsOf(records, g) : records[n].status = "applied" /\ records[n].sum = checkout[g]
  <2>1. PICK n \in DOMAIN records : IsNewestAt(records, g, n)
    BY <1>5, TableOfRows, NewestExists
  <2>2. NewestRow(records, g) = records[n] /\ records[n].file = g
    BY <2>1, TableOfRows, NewestAt DEF IsNewestAt
  <2> QED
    BY <1>5, <2>2 DEF RowsOf
<1>7. checkout[g] # NoSum
  <2>1. job[c] \in Jobs
    BY <1>1 DEF LocalsOK, IsMidPass
  <2>2. checkout \in Trees
    BY <1>1, <2>1, JobFields
  <2> QED
    BY <1>2, <1>3, <2>2, NoneAssumption DEF Scan, Trees
<1>8. n > snap[c]
  <2> SUFFICES ASSUME n \in 1..cloned.rows PROVE FALSE
    BY <1>1, <1>6, TableOfRows DEF RowsOf, TypeOK
  <2>1. <<g, checkout[g]>> \in cloned.ran
    BY <1>6, <1>7 DEF CopyIsOfTable, RowsOf
  <2> QED
    BY <1>2, <2>1
<1>9. RowsOf(Seen(c), g) = {}
  <2>1. IsNewOrLast(c, g)
    BY <1>3, <1>4, <1>6, <1>8 DEF ExecutedIsNew
  <2>2. g \notin Editable(c)
    BY <1>1, <1>3, TailIsLast DEF Editable
  <2> QED
    BY <2>1, <2>2 DEF IsNewOrLast
<1>10. ~WasApplied(g)
  <2>1. DOMAIN Seen(c) = 1..snap[c] /\ \A k \in 1..snap[c] : Seen(c)[k] = records[k]
    BY TableOfRows DEF Seen, SeenOK, TypeOK
  <2>2. \A k \in DOMAIN records : k <= read => k \in 1..snap[c]
    BY <1>1, TableOfRows DEF TypeOK
  <2>3. \A k \in 1..snap[c] : records[k].file # g
    BY <1>9, <2>1 DEF RowsOf
  <2> QED
    BY <2>2, <2>3 DEF WasApplied, RowsOf
<1>11. g \notin pending
  BY <1>3
<1>12. IsTried(g)
  <2>1. g \in Verifiable(checkout)
    BY <1>2, <1>3, NoneAssumption DEF Verifiable, Phases
  <2> QED
    BY <1>3, <1>10, <1>11, <2>1 DEF TrialsAreKept
<1>13. report[g] # "first_error"
  <2>1. SucceededIn(c, g)
    BY <1>6, <1>8 DEF SucceededIn
  <2>2. NoneIsSkipped(g)
    <3>1. \A h \in Before(checkout, g) : h \in Before(checkout, f)
      BY <1>3, PositionOfFile DEF Before, Scan
    <3> QED
      BY <3>1 DEF NoneIsSkipped
  <2> QED
    BY <1>2, <1>3, <1>4, <2>1, <2>2 DEF SuccessIsNoAlarm
<1>14. report[g] \in Worked
  BY <1>3, <1>12, <1>13 DEF DriftIsSeen, Verdicts, Worked, IsTried
<1> QED
  BY <1>2, <1>3, <1>14

\* So an alarm about a file that has what it uses is refuted.
LEMMA AlarmIsRefuted ==
  ASSUME IsLinearAndSafe, UsesComeFirst, AlarmInv,
         NEW c \in Clients, IsCompared(c), NEW f \in Scan(checkout),
         \A g \in Scan(checkout) : Position(g) < Position(f) => g \notin left[c],
         NoneIsSkipped(f), report[f] = "first_error",
         Uses[checkout[f]] \subseteq ran,
         <<f, checkout[f]>> \in cloned.ran => Again[checkout[f]] # "error"
  PROVE  FALSE
<1> USE DEF AlarmInv
<1>1. f \in Files /\ IsTried(f)
  BY DEF IsTried, Scan
<1>2. /\ HasReason(f) /\ checkout \in VerifyTrees
      /\ \A h \in pending : Position(f) < Position(h)
  BY <1>1 DEF TrialsAreKept
<1>3. PICK p \in Uses[checkout[f]] \ cloned.ran :
        \A g \in Scan(checkout) :
          p = <<g, checkout[g]>> /\ Position(g) < Position(f) => report[g] \notin Worked
  BY <1>2 DEF HasReason
<1>4. Position(p[1]) < Position(f)
  BY <1>2, <1>3 DEF UsesComeFirst
<1>5. \A h \in pending : Position(f) <= Position(h)
  BY <1>1, <1>2, PositionOfFile DEF RehearsalInv, DriftIsSeen
<1> QED
  BY <1>1, <1>3, <1>4, <1>5, NeedWasTried

LEMMA SuccessInit == VerifyInit => SuccessIsNoAlarm
BY DEF VerifyInit, Untried, SuccessIsNoAlarm

\* What stays behind with a row of its own, and nothing before it resolved, was so.
LEMMA ComparedBefore ==
  ASSUME HasLock, IsLinearAndSafe, AlarmInv, [Next]_vars,
         UNCHANGED <<checkout, cloned, read>>,
         NEW c \in Clients, NEW f \in Files, IsMidPass(c), job'[c] = job[c], snap'[c] = snap[c],
         IsVisited(c, f)', IsCompared(c)', NoneIsSkipped(f)'
  PROVE  IsCompared(c) /\ NoneIsSkipped(f)
<1> USE DEF AlarmInv, RehearsalInv, PassInv, StepInv, Typing, IsLinearAndSafe
<1>1. IsCompared(c)
  BY HistoryGrows DEF IsCompared, IsRehearsed, IsUndisturbed, ContentsOf, Scan
<1>2. job[c].tree = checkout
  BY <1>1 DEF IsCompared, IsRehearsed
<1>3. ASSUME NEW g \in Before(checkout, f), IsNewest(g, "skipped") PROVE FALSE
  <2>1. g \in Files /\ Position(g) < Position(f) /\ g \in Scan(checkout)
    BY <1>3 DEF Before, Scan
  <2>2. PassesAreInOrder'
    BY OrderNext
  <2>3. IsVisited(c, g)'
    <3>1. IsInOrder(c)'
      BY <2>2 DEF PassesAreInOrder
    <3>2. g \notin left'[c]
      BY <1>2, <2>1, <3>1, PositionOfFile DEF IsInOrder, IsVisited
    <3> QED
      BY <1>2, <2>1, <3>2 DEF IsVisited, Scan
  <2>4. g \notin left[c]
    <3> SUFFICES ASSUME g \in left[c] PROVE FALSE
      OBVIOUS
    <3>1. left'[c] = left[c] \ {g}
      BY <2>1, <2>3, VisitStep DEF StaysBehind, IsVisited, LeavesBehind
    <3>2. f \in Scan(job[c].tree) \ left[c]
      BY <2>1, <3>1, PositionOfFile DEF IsVisited
    <3>3. Position(f) < Position(g)
      BY <3>2 DEF PassesAreInOrder, IsInOrder
    <3> QED
      BY <2>1, <3>3, PositionOfFile
  <2>5. StaysBehind(c, g)
    BY <2>1, <2>3, <2>4, VisitStep DEF LeavesBehind
  <2>6. IsNewest(g, "skipped")'
    <3>1. CASE UNCHANGED records
      BY <1>3, <3>1 DEF IsNewest, HasRow
    <3>2. ASSUME NEW r, records' = Append(records, r), r.status = "skipped" \/ r.file # g
          PROVE  IsNewest(g, "skipped")'
      BY <1>3, <3>2, NewestAfter DEF IsNewest, HasRow, TypeOK
    <3> QED
      BY <2>5, <3>1, <3>2 DEF StaysBehind
  <2>7. g \in Before(checkout', f)
    BY <1>3
  <2> QED
    BY <2>6, <2>7 DEF NoneIsSkipped
<1> QED
  BY <1>1, <1>3 DEF NoneIsSkipped

\* A step of a command raises no alarm about what it records as a success.
LEMMA SuccessByCommand ==
  ASSUME HasLock, IsLinearAndSafe, UsesComeFirst, AlarmInv, [Next]_vars, UNCHANGED verifyVars
  PROVE  SuccessIsNoAlarm'
<1> SUFFICES ASSUME NEW c \in Clients, NEW f \in Files,
                    IsCompared(c)', IsVisited(c, f)', SucceededIn(c, f)', NoneIsSkipped(f)',
                    report[f] = "first_error", <<f, checkout[f]>> \notin cloned.ran
             PROVE  FALSE
  BY DEF SuccessIsNoAlarm, verifyVars
<1> USE DEF AlarmInv, RehearsalInv, PassInv, StepInv, Typing, IsLinearAndSafe
<1>1. /\ IsMidPass(c) /\ job'[c] = job[c] /\ snap'[c] = snap[c]
      /\ StaysBehind(c, f) \/ LeavesBehind(c, f)
  BY VisitStep
<1>2. IsCompared(c) /\ NoneIsSkipped(f)
  BY <1>1, ComparedBefore DEF verifyVars
<1>3. PICK k \in RowsOf(records', f) : k > snap[c] /\ records'[k].status = "applied"
  BY <1>1 DEF SucceededIn
<1>4. CASE k \in RowsOf(records, f)
  <2>1. records'[k] = records[k]
    BY <1>4, RowsStay DEF RowsOf
  <2>2. f \notin left[c]
    BY <1>1, <1>3, <1>4, <2>1 DEF FreshView, RowsOf
  <2>3. IsVisited(c, f) /\ SucceededIn(c, f)
    BY <1>1, <1>3, <1>4, <2>1, <2>2 DEF StaysBehind, LeavesBehind, SucceededIn
  <2> QED
    BY <1>2, <2>3 DEF SuccessIsNoAlarm
<1>5. CASE k \notin RowsOf(records, f)
  <2>1. ASSUME NEW r, records' = Append(records, r)
        PROVE  r.file = f /\ records'[k] = r
    <3>1. /\ Len(records) \in Nat /\ DOMAIN records = 1..Len(records)
          /\ DOMAIN records' = 1..(Len(records) + 1)
          /\ \A i \in 1..Len(records) : records'[i] = records[i]
          /\ records'[Len(records) + 1] = r
      BY <2>1 DEF TypeOK
    <3> QED
      BY <1>3, <1>5, <3>1 DEF RowsOf
  <2>2. records' # records
    BY <1>3, <1>5
  <2>3. LeavesBehind(c, f)
    BY <1>1, <1>3, <2>1, <2>2 DEF StaysBehind
  <2>4. Answers(f, job[c].tree[f], "applied") /\ IsNext(c, f)
    BY <1>3, <2>1, <2>2, <2>3 DEF LeavesBehind, Answers
  <2>5. pc[c] = "insert" /\ work[c].file = f /\ work[c].status = "applied"
    BY <1>1, <2>4, AnsweredIsWork
  <2>6. job[c] \in Jobs /\ job[c].cmd = "apply" /\ job[c].tree = checkout /\ f \in Scan(checkout)
    BY <1>2, <2>3 DEF IsCompared, IsRehearsed, IsMidPass, LocalsOK, LeavesBehind
  <2>7. work[c].sum = checkout[f] /\ checkout[f] # NoSum
    <3>1. checkout \in Trees
      BY <2>6, JobFields
    <3> QED
      BY <2>5, <2>6, <3>1, NoneAssumption DEF WorkOfTree, OfTree, Scan, Trees
  <2>8. Uses[checkout[f]] \subseteq ran
    BY <2>5, <2>7 DEF WorkIsRun, UsesWereThere
  <2>9. \A g \in Scan(checkout) : Position(g) < Position(f) => g \notin left[c]
    BY <2>4, <2>6, PositionOfFile DEF IsNext, IsFirstOf, Scan
  <2> QED
    BY <1>2, <2>6, <2>8, <2>9, AlarmIsRefuted
<1> QED
  BY <1>4, <1>5

\* Nor does verify raise one about what has succeeded.
LEMMA SuccessByVerify ==
  ASSUME HasLock, IsLinearAndSafe, UsesComeFirst, AlarmInv, VerifierStep, UNCHANGED vars
  PROVE  SuccessIsNoAlarm'
<1> SUFFICES ASSUME NEW c \in Clients, NEW f \in Files,
                    IsCompared(c)', IsVisited(c, f)', SucceededIn(c, f)', NoneIsSkipped(f)',
                    report'[f] = "first_error", <<f, checkout'[f]>> \notin cloned'.ran
             PROVE  FALSE
  BY DEF SuccessIsNoAlarm
<1> USE DEF AlarmInv, RehearsalInv, PassInv, StepInv, Typing, IsLinearAndSafe
<1>1. UNCHANGED <<records, pc, job, snap, left, work, ran>>
  BY DEF vars, dbVars, clientVars
<1>2. ASSUME UNCHANGED <<checkout, cloned, read>>
      PROVE  IsCompared(c) /\ IsVisited(c, f) /\ SucceededIn(c, f) /\ NoneIsSkipped(f)
  BY <1>1, <1>2
     DEF IsCompared, IsMidPass, IsRehearsed, IsUndisturbed, IsVisited, SucceededIn, NoneIsSkipped,
         IsNewest, HasRow
<1>3. ASSUME UNCHANGED <<checkout, cloned, read>>, report[f] = "first_error" PROVE FALSE
  BY <1>2, <1>3 DEF SuccessIsNoAlarm
<1>4. ASSUME NEW tree \in VerifyTrees, NEW all \in BOOLEAN, StartVerify(tree, all) PROVE FALSE
  BY <1>4 DEF StartVerify, Untried
<1>5. ASSUME CloneSource \/ ReadApplied PROVE FALSE
  BY <1>5 DEF CloneSource, ReadApplied, TrialsAreKept, IsTried
<1>6. ASSUME GiveUp PROVE FALSE
  BY <1>6 DEF GiveUp, Untried
<1>7. ASSUME DropShadow PROVE FALSE
  BY <1>3, <1>7 DEF DropShadow
<1>8. ASSUME SecondApply PROVE FALSE
  <2>1. report[f] = "first_error"
    BY <1>8 DEF SecondApply, Says, SecondVerdict, DriftIsSeen
  <2> QED
    BY <1>3, <1>8, <2>1 DEF SecondApply
<1>9. ASSUME FirstApply PROVE FALSE
  <2>1. UNCHANGED <<checkout, cloned, read>> /\ at = "first"
    BY <1>9 DEF FirstApply
  <2>2. /\ f \in pending /\ IsFirstOf(f, pending)
        /\ ~Works(shadow, f, checkout[f])
    BY <1>3, <1>9, <2>1 DEF FirstApply, Says, DriftIsSeen
  <2>3. IsCompared(c) /\ IsVisited(c, f) /\ SucceededIn(c, f) /\ NoneIsSkipped(f)
    BY <1>2, <2>1
  <2>4. /\ job[c] \in Jobs /\ job[c].cmd = "apply" /\ job[c].tree = checkout
        /\ f \in Scan(checkout)
    BY <2>3 DEF IsCompared, IsRehearsed, IsMidPass, LocalsOK, IsVisited
  <2>5. PICK k \in RowsOf(records, f) : k > snap[c] /\ records[k].status = "applied"
    BY <2>3 DEF SucceededIn
  <2>6. records[k].sum = checkout[f] /\ checkout[f] # NoSum
    <3>1. checkout \in Trees
      BY <2>4, JobFields
    <3> QED
      BY <2>3, <2>4, <2>5, <3>1, NoneAssumption DEF ExecutedIsNew, Scan, Trees
  <2>7. <<f, checkout[f]>> \in ran
    BY <2>5, <2>6 DEF AppliedWasRun, RowsOf
  <2>8. Uses[checkout[f]] \subseteq ran
    BY <2>7 DEF UsesWereThere
  <2>9. \A g \in Scan(checkout) : Position(g) < Position(f) => g \notin left[c]
    BY <2>3, <2>4, PositionOfFile DEF PassesAreInOrder, IsInOrder, IsVisited, Scan
  <2>10. \A h \in pending : Position(f) <= Position(h)
    BY <2>2 DEF IsFirstOf
  <2>11. ASSUME NEW p \in Uses[checkout[f]], p \notin shadow PROVE FALSE
    <3>1. p \in ran \ cloned.ran
      BY <2>1, <2>8, <2>11 DEF TrialsAreKept
    <3>2. Position(p[1]) < Position(f)
      BY <2>1, <2>4, <2>11 DEF TrialsAreKept, UsesComeFirst
    <3>3. PICK g \in Scan(checkout) : p = <<g, checkout[g]>> /\ report[g] \in Worked
      BY <2>1, <2>3, <2>4, <2>9, <2>10, <3>1, <3>2, NeedWasTried
    <3> QED
      BY <2>1, <2>11, <3>3 DEF TrialsAreKept, Scan
  <2>12. CASE <<f, checkout[f]>> \in shadow
    <3>1. PICK g \in Scan(checkout) : /\ <<f, checkout[f]>> = <<g, checkout[g]>>
                                      /\ Position(g) < Position(f)
      BY <2>1, <2>2, <2>12 DEF ShadowIsInOrder
    <3> QED
      BY <3>1, PositionOfFile
  <2> QED
    BY <2>2, <2>11, <2>12 DEF Works
<1> QED
  BY <1>4, <1>5, <1>6, <1>7, <1>8, <1>9 DEF VerifierStep

LEMMA AlarmInvHolds ==
  HasLock /\ IsLinearAndSafe /\ UsesComeFirst => (VerifySpec => []AlarmInv)
<1> SUFFICES ASSUME HasLock, IsLinearAndSafe, UsesComeFirst PROVE VerifySpec => []AlarmInv
  OBVIOUS
<1>1. VerifyInit => AlarmInv
  BY PassInvInit, WorkInit, DriftInit, OrderOfShadowInit, OrderInit, UsesInit, CopyInit,
     TrialsInit, WorkIsNewInit, ExecutedInit, SuccessInit
     DEF AlarmInv, RehearsalInv, VerifyInit
<1>2. AlarmInv /\ [VerifyNext]_allVars => AlarmInv'
  <2> SUFFICES ASSUME AlarmInv, [VerifyNext]_allVars PROVE AlarmInv'
    OBVIOUS
  <2> USE DEF AlarmInv, RehearsalInv, PassInv, StepInv, Typing
  <2>1. [Next]_vars
    BY StepIsStep
  <2>2. RehearsalInv'
    BY <2>1, PassInvNext, WorkNext, AppliedNext, DriftNext, OrderOfShadowNext
  <2>3. PassesAreInOrder' /\ UsesWereThere' /\ CopyIsOfTable' /\ TrialsAreKept'
    BY <2>1, OrderNext, UsesNext, CopyNext, TrialsNext
  <2>4. WorkIsNew' /\ ExecutedIsNew'
    BY <2>1, WorkIsNewNext, ExecutedNext
  <2>5. SuccessIsNoAlarm'
    <3>1. \/ VerifierStep /\ UNCHANGED vars
          \/ UNCHANGED verifyVars
      BY DEF VerifyNext, allVars
    <3> QED
      BY <2>1, <3>1, SuccessByCommand, SuccessByVerify
  <2> QED
    BY <2>2, <2>3, <2>4, <2>5
<1> QED
  BY <1>1, <1>2, PTL DEF VerifySpec

(***************************************************************************)
(* In the linear model, for a repository without migration groups where no *)
(* file uses what a later one makes, under an advisory lock: where verify  *)
(* says that a file fails at once, no apply of the same checkout executes  *)
(* it without an error, whatever crashes have left at work, unless other   *)
(* contents or rows came between the two or a file before it was resolved. *)
(***************************************************************************)
THEOREM AlarmsHold ==
  HasLock /\ IsLinearAndSafe /\ UsesComeFirst => (VerifySpec => AlarmsAreTrue)
<1> SUFFICES ASSUME HasLock, IsLinearAndSafe, UsesComeFirst PROVE VerifySpec => AlarmsAreTrue
  OBVIOUS
<1> DEFINE A == \A c \in Clients : SucceedsNow(c) /\ IsRehearsed(c) /\ IsUndisturbed(c) =>
                  LET f == work[c].file
                  IN  (\A g \in Before(checkout, f) : ~IsNewest(g, "skipped"))
                        => report[f] # "first_error"
<1>1. AlarmInv /\ [VerifyNext]_allVars => [A]_allVars
  <2> SUFFICES ASSUME AlarmInv, [VerifyNext]_allVars, NEW c \in Clients,
                      SucceedsNow(c), IsRehearsed(c), IsUndisturbed(c),
                      \A g \in Before(checkout, work[c].file) : ~IsNewest(g, "skipped"),
                      report[work[c].file] = "first_error"
               PROVE  FALSE
    OBVIOUS
  <2> DEFINE f == work[c].file
  <2> USE DEF AlarmInv, RehearsalInv, PassInv, StepInv, Typing, IsLinearAndSafe
  <2>1. pc[c] = "sql" /\ IsCompared(c) /\ NoneIsSkipped(f) /\ job[c].tree = checkout
    BY DEF SucceedsNow, IsRehearsed, IsMidPass, IsCompared, NoneIsSkipped
  <2>2. /\ f \in left[c] /\ f \in Files /\ f \in Scan(checkout)
        /\ work[c].sum = checkout[f]
        /\ \A g \in left[c] : Position(f) <= Position(g)
    BY <2>1 DEF IsCompared, IsRehearsed, IsMidPass, WorkOfTree, OfTree, IsNext, IsFirstOf, TypeOK,
                LocalsOK
  <2>3. \A g \in Scan(checkout) : Position(g) < Position(f) => g \notin left[c]
    BY <2>2, PositionOfFile DEF Scan
  <2>4. Works(ran, f, checkout[f])
    BY <2>2, EndHasReason DEF SucceedsNow
  <2>5. Uses[checkout[f]] \subseteq ran
    BY <2>4 DEF Works
  <2>6. <<f, checkout[f]>> \in cloned.ran => Again[checkout[f]] # "error"
    BY <2>4 DEF Works, ShadowIsInOrder
  <2> QED
    BY <2>1, <2>2, <2>3, <2>5, <2>6, AlarmIsRefuted
<1>2. VerifySpec => [][A]_allVars
  BY <1>1, AlarmInvHolds, PTL DEF VerifySpec
<1> QED
  BY <1>2 DEF AlarmsAreTrue
=============================================================================
