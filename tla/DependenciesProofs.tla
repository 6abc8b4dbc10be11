------------------------- MODULE DependenciesProofs -------------------------
(***************************************************************************)
(* Proofs, for any number of files with any texts: topologicalSort has in  *)
(* its queue just the files that are ready, and is right about order and   *)
(* cycles; so is detectCycles; the tree that deps draws is in order; files *)
(* that work in the order of their names keep it; and apply executes no    *)
(* file before what it needs is there.                                     *)
(***************************************************************************)
EXTENDS Dependencies, GraphProofs, SequenceTheorems

\* The dependencies of a file that have not been emitted.
Missing(f) == Successors(Graph, f) \ Emitted

IsSorting == stage \in {"apply", "again"}

(***************************************************************************)
(* The queue is right because the degrees are, which count what is         *)
(* missing, and because nothing is emitted that misses anything: a file    *)
(* whose degree comes down to zero has not been emitted before.            *)
(***************************************************************************)
SortInv ==
  IsSorting =>
    /\ sorted \in Seq(Node)
    /\ inDegree = [f \in Node |-> Cardinality(Missing(f))]
    /\ queue = Ready(Graph, Node \ Emitted)
    /\ \A f \in Emitted : Missing(f) = {}

\* There are finitely many files.
LEMMA NodeIsFinite == IsFiniteSet(Node)
BY FS_Interval, NAssumption DEF Node

\* What a file misses can be counted, and is nothing when the count is 0.
LEMMA MissingIsFinite ==
  \A f : /\ IsFiniteSet(Missing(f))
         /\ Cardinality(Missing(f)) \in Nat
         /\ Cardinality(Missing(f)) = 0 <=> Missing(f) = {}
<1> TAKE f
<1>1. Missing(f) \subseteq Node
  BY DEF Missing, Successors, Graph
<1>2. IsFiniteSet(Missing(f))
  BY <1>1, NodeIsFinite, FS_Subset
<1> QED
  BY <1>2, FS_CardinalityType, FS_EmptySet

\* Emitting a file adds it to those emitted, and to no others.
LEMMA EmitOne ==
  ASSUME sorted \in Seq(Node), NEW f \in Node, sorted' = Append(sorted, f)
  PROVE  sorted' \in Seq(Node) /\ Emitted' = Emitted \cup {f}
<1>1. sorted' \in Seq(Node) /\ Len(sorted') = Len(sorted) + 1 /\ sorted'[Len(sorted) + 1] = f
  OBVIOUS
<1>2. \A i \in 1..Len(sorted) : sorted'[i] = sorted[i]
  OBVIOUS
<1>3. DOMAIN sorted' = DOMAIN sorted \cup {Len(sorted) + 1}
  BY <1>1
<1> QED
  BY <1>1, <1>2, <1>3 DEF Emitted

\* As many edges leave a file as it has dependencies.
LEMMA EdgesOfFile ==
  ASSUME NEW edges \in SUBSET (Node \X Node), NEW f \in Node
  PROVE  Cardinality({e \in edges : e[1] = f}) = Cardinality({g \in Node : <<f, g>> \in edges})
<1> DEFINE targets == {g \in Node : <<f, g>> \in edges}
           leaving == {e \in edges : e[1] = f}
           to == [g \in targets |-> <<f, g>>]
<1>1. IsFiniteSet(targets)
  BY NodeIsFinite, FS_Subset
<1>2. to \in Bijection(targets, leaving)
  <2>1. to \in [targets -> leaving]
    OBVIOUS
  <2>2. \A g, h \in targets : to[g] = to[h] => g = h
    OBVIOUS
  <2>3. \A e \in leaving : \E g \in targets : to[g] = e
    <3> TAKE e \in leaving
    <3>1. e = <<f, e[2]>> /\ e[2] \in targets
      OBVIOUS
    <3> QED
      BY <3>1
  <2> QED
    BY <2>1, <2>2, <2>3 DEF Bijection, Injection, Surjection, IsInjective
<1>3. ExistsBijection(targets, leaving)
  BY <1>2 DEF ExistsBijection
<1> QED
  BY <1>1, <1>3, FS_Bijection

-----------------------------------------------------------------------------
\* As topologicalSort starts, the files without a dependency are the ready ones.
LEMMA SortStarts ==
  ASSUME NEW edges \in SUBSET (Node \X Node), StartSort(edges)
  PROVE  SortInv'
<1>1. Emitted' = {} /\ sorted' \in Seq(Node)
  BY DEF StartSort, Emitted
<1>2. \A f \in Node : Missing(f)' = {g \in Node : <<f, g>> \in edges}
  BY <1>1 DEF StartSort, Missing, Successors, Graph
<1>3. inDegree' = [f \in Node |-> Cardinality(Missing(f)')]
  <2>1. \A f \in Node : Cardinality({e \in edges : e[1] = f}) = Cardinality(Missing(f)')
    BY <1>2, EdgesOfFile
  <2> QED
    BY <2>1 DEF StartSort
<1>4. \A f \in Node : inDegree'[f] = 0 <=> Missing(f)' = {}
  <2>1. \A f \in Node : IsFiniteSet(Missing(f)')
    BY <1>2, NodeIsFinite, FS_Subset
  <2> QED
    BY <1>3, <2>1, FS_EmptySet
<1>5. queue' = Ready(Graph, Node \ Emitted)'
  <2>1. queue' = {f \in Node : inDegree'[f] = 0}
    BY DEF StartSort
  <2>2. Ready(Graph, Node \ Emitted)' = {f \in Node : Successors(Graph, f)' \cap Node = {}}
    BY <1>1 DEF Ready
  <2>3. \A f \in Node : Missing(f)' = Successors(Graph, f)' \cap Node
    BY <1>1 DEF Missing, Successors, Graph
  <2> QED
    BY <1>4, <2>1, <2>2, <2>3
<1> QED
  BY <1>1, <1>3, <1>5 DEF SortInv

\* The file that comes out of the sorted queue is one of it.
LEMMA LeastInQueue ==
  ASSUME queue \subseteq Node, queue # {}
  PROVE  Least \in queue
<1>1. queue \in SUBSET Nat
  BY NAssumption DEF Node
<1> QED
  BY <1>1, LeastNatural DEF Least

\* Emitting a file takes it from what its dependents miss, and from no others.
LEMMA ShiftKeepsSortInv ==
  ASSUME SortInv, IsSorting, Shift, UNCHANGED stage
  PROVE  SortInv'
<1> USE DEF Graph
<1>0. /\ sorted \in Seq(Node)
      /\ inDegree = [f \in Node |-> Cardinality(Missing(f))]
      /\ queue = Ready(Graph, Node \ Emitted)
      /\ \A f \in Emitted : Missing(f) = {}
      /\ edge' = edge
  BY DEF SortInv, Shift
<1> DEFINE dependents == Predecessors(Graph, Least)
<1>1. queue = {f \in Node \ Emitted : Missing(f) = {}}
  BY <1>0 DEF Ready, Missing, Successors
<1>2. Least \in Node \ Emitted /\ Missing(Least) = {}
  BY <1>1, LeastInQueue DEF Shift
<1>3. sorted' \in Seq(Node) /\ Emitted' = Emitted \cup {Least}
  BY <1>0, <1>2, EmitOne DEF Shift
<1>4. \A f \in Node : f \in dependents <=> Least \in Missing(f)
  BY <1>2 DEF Predecessors, Missing, Successors
<1>5. \A f : Missing(f)' = Missing(f) \ {Least}
  BY <1>0, <1>3 DEF Missing, Successors
<1>6. inDegree' = [f \in Node |-> Cardinality(Missing(f)')]
  <2>1. \A f \in Node : Cardinality(Missing(f) \ {Least})
                          = IF f \in dependents THEN inDegree[f] - 1 ELSE inDegree[f]
    BY <1>0, <1>4, MissingIsFinite, FS_RemoveElement
  <2> HIDE DEF dependents
  <2>2. inDegree' = [f \in Node |-> IF f \in dependents THEN inDegree[f] - 1 ELSE inDegree[f]]
    BY DEF Shift, dependents
  <2> QED
    BY <1>5, <2>1, <2>2
<1>7. \A f \in Node : inDegree'[f] = 0 <=> Missing(f)' = {}
  <2>1. \A f \in Node : IsFiniteSet(Missing(f)')
    BY <1>5, MissingIsFinite, FS_RemoveElement
  <2> QED
    BY <1>6, <2>1, FS_EmptySet
<1>8. queue' = Ready(Graph, Node \ Emitted)'
  <2>1. Ready(Graph, Node \ Emitted)' = {f \in Node \ Emitted' : Missing(f)' = {}}
    BY DEF Ready, Missing, Successors
  <2>2. queue' = (queue \ {Least}) \cup {f \in dependents : Missing(f)' = {}}
    <3>1. dependents \subseteq Node
      BY DEF Predecessors
    <3>2. queue' = (queue \ {Least}) \cup {f \in dependents : inDegree'[f] = 0}
      BY DEF Shift
    <3> QED
      BY <1>7, <3>1, <3>2
  <2>3. \A f \in dependents : f \in Node \ Emitted'
    BY <1>0, <1>2, <1>3, <1>4 DEF Predecessors
  <2>4. ASSUME NEW f \in queue'
        PROVE  f \in Node \ Emitted' /\ Missing(f)' = {}
    <3>1. CASE f \in queue \ {Least}
      BY <1>1, <1>3, <1>5, <3>1
    <3>2. CASE f \in dependents /\ Missing(f)' = {}
      BY <2>3, <3>2
    <3> QED
      BY <2>2, <2>4, <3>1, <3>2
  <2>5. ASSUME NEW f \in Node \ Emitted', Missing(f)' = {}
        PROVE  f \in queue'
    <3>1. CASE f \in dependents
      BY <2>2, <2>5, <3>1
    <3>2. CASE f \notin dependents
      <4>1. Missing(f) = {}
        BY <1>4, <1>5, <2>5, <3>2
      <4> QED
        BY <1>1, <1>3, <2>2, <4>1
    <3> QED
      BY <3>1, <3>2
  <2> QED
    BY <2>1, <2>4, <2>5
<1>9. \A f \in Emitted' : Missing(f)' = {}
  BY <1>0, <1>2, <1>3, <1>5
<1> QED
  BY <1>3, <1>6, <1>8, <1>9 DEF SortInv

\* What leaves the sort alone leaves the invariant alone.
LEMMA StutterKeepsSortInv ==
  ASSUME SortInv, UNCHANGED sortVars, IsSorting' => IsSorting
  PROVE  SortInv'
<1>1. Emitted' = Emitted /\ Graph' = Graph
  BY DEF sortVars, Emitted, Graph
<1>2. \A f : Missing(f)' = Missing(f)
  BY <1>1 DEF Missing, Successors
<1>3. Ready(Graph, Node \ Emitted)' = Ready(Graph, Node \ Emitted)
  BY <1>1 DEF Ready, Successors
<1> QED
  BY <1>1, <1>2, <1>3 DEF sortVars, SortInv

\* Of the steps, those that start the graph, the sort, a shift or a pass matter.
LEMMA SortInvIsInductive ==
  ASSUME SortInv, [DependenciesNext]_dependencyVars
  PROVE  SortInv'
<1>1. CASE UNCHANGED <<stage, sortVars>>
  BY <1>1, StutterKeepsSortInv DEF IsSorting
<1>2. CASE StartApply
  <2>1. BuildDependencyGraph \in SUBSET (Node \X Node)
    BY DEF BuildDependencyGraph, BuildEdges
  <2> QED
    BY <1>2, <2>1, SortStarts DEF StartApply
<1>3. CASE StartDeps
  BY <1>3 DEF StartDeps, SortInv, IsSorting
<1>4. CASE Sort
  BY <1>4, ShiftKeepsSortInv DEF Sort, repositoryVars, IsSorting
<1>5. CASE ApplyAgain
  <2>1. UNCHANGED sortVars /\ IsSorting
    BY <1>5 DEF ApplyAgain, IsSorting
  <2> QED
    BY <2>1, StutterKeepsSortInv
<1>6. ASSUME DependenciesNext
      PROVE  \/ UNCHANGED <<stage, sortVars>>
             \/ StartApply \/ StartDeps \/ Sort \/ ApplyAgain
  BY <1>6 DEF DependenciesNext, WriteFile, Search, Succeed, FailForWant, FailOfItsOwn, PassOver,
              repositoryVars
<1>7. CASE UNCHANGED dependencyVars
  BY <1>1, <1>7 DEF dependencyVars, repositoryVars
<1> QED
  BY <1>1, <1>2, <1>3, <1>4, <1>5, <1>6, <1>7

(***************************************************************************)
(* topologicalSort never loses a ready file and never queues one too soon  *)
(* or twice, whatever the files say and however many they are: counting    *)
(* the dependencies that are left down to zero is the same as looking      *)
(* which files are ready.                                                  *)
(***************************************************************************)
THEOREM QueueIsAlwaysReady == DependenciesSpec => []QueueIsReady
<1>1. DependenciesInit => SortInv
  BY DEF DependenciesInit, SortInv, IsSorting
<1>2. SortInv /\ [DependenciesNext]_dependencyVars => SortInv'
  BY SortInvIsInductive
<1>3. SortInv => QueueIsReady
  BY DEF SortInv, IsSorting, QueueIsReady
<1> QED
  BY <1>1, <1>2, <1>3, PTL DEF DependenciesSpec

-----------------------------------------------------------------------------
(***************************************************************************)
(* Each emitted file follows those it depends on directly, and none is     *)
(* emitted twice.                                                          *)
(***************************************************************************)
OrderInv ==
  /\ edge \in SUBSET (Node \X Node)
  /\ sorted \in Seq(Node)
  /\ Cardinality(Emitted) = Len(sorted)
  /\ \A i \in DOMAIN sorted : Successors(Graph, sorted[i]) \subseteq {sorted[j] : j \in 1..(i - 1)}

LEMMA NodesAreGraph == OrderInv => IsGraph(Graph)
BY NodeIsFinite DEF OrderInv, IsGraph, Graph

LEMMA OrderStarts ==
  ASSUME edge' \in SUBSET (Node \X Node), sorted' = << >> PROVE OrderInv'
<1>1. Emitted' = {} /\ sorted' \in Seq(Node) /\ DOMAIN sorted' = {}
  BY DEF Emitted
<1> QED
  BY <1>1, FS_EmptySet DEF OrderInv

LEMMA ShiftKeepsOrder ==
  ASSUME OrderInv, SortInv, IsSorting, Shift PROVE OrderInv'
<1>1. /\ Least \in Node \ Emitted
      /\ Successors(Graph, Least) \subseteq Emitted
      /\ edge' = edge /\ Graph' = Graph
  <2>1. queue = Ready(Graph, Node \ Emitted) /\ queue # {}
    BY DEF SortInv, Shift
  <2>2. Least \in queue
    BY <2>1, LeastInQueue DEF Ready
  <2> QED
    BY <2>1, <2>2 DEF Ready, Successors, Graph, Shift
<1>2. sorted' \in Seq(Node) /\ Emitted' = Emitted \cup {Least} /\ Len(sorted') = Len(sorted) + 1
  BY <1>1, EmitOne DEF Shift, OrderInv
<1>3. Cardinality(Emitted') = Len(sorted')
  <2>1. IsFiniteSet(Emitted)
    <3>1. Emitted \in SUBSET Node
      BY DEF Emitted, OrderInv
    <3> QED
      BY <3>1, NodeIsFinite, FS_Subset
  <2> QED
    BY <1>1, <1>2, <2>1, FS_AddElement DEF OrderInv
<1>4. ASSUME NEW i \in DOMAIN sorted'
      PROVE  Successors(Graph, sorted'[i]) \subseteq {sorted'[j] : j \in 1..(i - 1)}
  <2>1. /\ i \in 1..(Len(sorted) + 1) /\ Len(sorted) \in Nat
        /\ sorted'[Len(sorted) + 1] = Least
        /\ \A j \in 1..Len(sorted) : sorted'[j] = sorted[j]
    BY <1>2 DEF Shift, OrderInv
  <2>2. {sorted'[j] : j \in 1..(i - 1)} = {sorted[j] : j \in 1..(i - 1)}
    BY <2>1
  <2>3. CASE i = Len(sorted) + 1
    <3>1. Emitted = {sorted[j] : j \in 1..(i - 1)}
      BY <2>1, <2>3 DEF Emitted, OrderInv
    <3> QED
      BY <1>1, <2>1, <2>2, <2>3, <3>1
  <2>4. CASE i # Len(sorted) + 1
    <3>1. i \in DOMAIN sorted /\ sorted'[i] = sorted[i]
      BY <2>1, <2>4 DEF OrderInv
    <3> QED
      BY <2>2, <3>1 DEF OrderInv
  <2> QED
    BY <2>3, <2>4
<1> QED
  BY <1>1, <1>2, <1>3, <1>4 DEF OrderInv

LEMMA OrderInvIsInductive ==
  ASSUME OrderInv, SortInv, stage = "writing" => sorted = << >>,
         [DependenciesNext]_dependencyVars
  PROVE  OrderInv'
<1>1. CASE UNCHANGED sortVars
  BY <1>1 DEF sortVars, OrderInv, Emitted, Graph, Successors
<1>2. BuildDependencyGraph \in SUBSET (Node \X Node)
  BY DEF BuildDependencyGraph, BuildEdges
<1>3. CASE StartApply
  BY <1>2, <1>3, OrderStarts DEF StartApply, StartSort
<1>4. CASE StartDeps
  BY <1>2, <1>4, OrderStarts DEF StartDeps
<1>5. CASE Sort
  BY <1>5, ShiftKeepsOrder DEF Sort, IsSorting
<1>6. ASSUME DependenciesNext PROVE UNCHANGED sortVars \/ StartApply \/ StartDeps \/ Sort
  BY <1>6 DEF DependenciesNext, WriteFile, Search, Succeed, FailForWant, FailOfItsOwn, PassOver,
              ApplyAgain
<1>7. CASE UNCHANGED dependencyVars
  BY <1>1, <1>7 DEF dependencyVars
<1> QED
  BY <1>1, <1>3, <1>4, <1>5, <1>6, <1>7

LEMMA OrderInit == DependenciesInit => OrderInv
<1> SUFFICES ASSUME SortInit PROVE OrderInv
  BY DEF DependenciesInit
<1>1. Emitted = {} /\ sorted \in Seq(Node) /\ DOMAIN sorted = {} /\ edge = {}
  BY DEF SortInit, Emitted
<1> QED
  BY <1>1, FS_EmptySet DEF OrderInv, SortInit

\* A file's dependencies, direct or not, precede it.
LEMMA OrderedIsTransitive == OrderInv => DependenciesFirst
<1> SUFFICES ASSUME OrderInv, NEW i \in DOMAIN sorted
             PROVE  TransitiveDependencies(Graph, sorted[i]) \subseteq {sorted[j] : j \in 1..(i - 1)}
  BY DEF DependenciesFirst
<1> DEFINE S == {sorted[j] : j \in 1..(i - 1)}
<1>1. ASSUME NEW x \in S PROVE Successors(Graph, x) \subseteq S
  <2>1. PICK k \in 1..(i - 1) : x = sorted[k]
    OBVIOUS
  <2>2. k \in DOMAIN sorted /\ 1..(k - 1) \subseteq 1..(i - 1)
    BY DEF OrderInv
  <2> QED
    BY <2>1, <2>2 DEF OrderInv
<1>2. Successors(Graph, sorted[i]) \subseteq S
  BY DEF OrderInv
<1> HIDE DEF S
<1>3. TransitiveDependencies(Graph, sorted[i]) \subseteq S
  BY <1>1, <1>2, NodesAreGraph, DependenciesAreLeast
<1> QED
  BY <1>3 DEF S

\* All files are emitted when the length is theirs.
LEMMA LengthTells == OrderInv => (Len(sorted) = N <=> Emitted = Node)
<1> SUFFICES ASSUME OrderInv PROVE Len(sorted) = N <=> Emitted = Node
  OBVIOUS
<1>1. Cardinality(Node) = N
  BY FS_Interval, NAssumption DEF Node
<1>2. Emitted \in SUBSET Node
  BY DEF Emitted, OrderInv
<1> QED
  BY <1>1, <1>2, NodeIsFinite, FS_Subset DEF OrderInv

LEMMA EndTellsOfCycle ==
  ASSUME OrderInv, SortInv, SortIsDone
  PROVE  Emitted = Node <=> IsAcyclic(Graph)
<1>1. ASSUME Emitted = Node PROVE IsAcyclic(Graph)
  <2> DEFINE bad == {i \in DOMAIN sorted : sorted[i] \in TransitiveDependents(Graph, sorted[i])}
  <2>1. bad \in SUBSET Nat
    BY DEF OrderInv
  <2>2. CASE bad # {}
    <3>1. PICK i \in bad : \A k \in bad : i <= k
      BY <2>1, <2>2, LeastNatural
    <3>2. sorted[i] \in TransitiveDependencies(Graph, sorted[i])
      BY DEF TransitiveDependencies, Graph, OrderInv
    <3>3. PICK j \in 1..(i - 1) : sorted[i] = sorted[j]
      BY <3>2, OrderedIsTransitive DEF DependenciesFirst
    <3>4. j \in bad /\ j < i
      BY <3>3 DEF OrderInv
    <3> QED
      BY <2>1, <3>1, <3>4
  <2>3. CASE bad = {}
    BY <1>1, <2>3 DEF IsAcyclic, Emitted, Graph
  <2> QED
    BY <2>2, <2>3
<1>2. ASSUME Emitted # Node PROVE ~IsAcyclic(Graph)
  <2> DEFINE S == Node \ Emitted
  <2>1. S # {} /\ S \in SUBSET Graph.node
    BY <1>2 DEF Emitted, OrderInv, Graph
  <2>2. Ready(Graph, S) = {}
    BY DEF SortInv, SortIsDone, IsSorting
  <2> HIDE DEF S
  <2>3. \A x \in S : Successors(Graph, x) \cap S # {}
    BY <2>2 DEF Ready
  <2> QED
    BY <2>1, <2>3, NodesAreGraph, StuckHasCycle
<1> QED
  BY <1>1, <1>2

LEMMA NothingIsSorted ==
  ASSUME stage = "writing" => sorted = << >>, [DependenciesNext]_dependencyVars
  PROVE  (stage = "writing" => sorted = << >>)'
BY DEF DependenciesNext, WriteFile, StartDeps, Search, StartApply, Sort, Succeed, FailForWant,
       FailOfItsOwn, PassOver, ApplyAgain, repositoryVars, sortVars, dependencyVars

(***************************************************************************)
(* Whatever the files say: in what topologicalSort has emitted, a file     *)
(* comes after all it depends on, directly or not, and when its queue is   *)
(* empty it has emitted every file if and only if there is no cycle, so    *)
(* that apply falls back to the order of the names on a cycle only.        *)
(***************************************************************************)
THEOREM SortIsAlwaysRight == DependenciesSpec => []SortIsRight
<1> DEFINE Inv == SortInv /\ OrderInv /\ (stage = "writing" => sorted = << >>)
<1>1. DependenciesInit => Inv
  BY OrderInit DEF DependenciesInit, SortInit, SortInv, IsSorting
<1>2. Inv /\ [DependenciesNext]_dependencyVars => Inv'
  BY SortInvIsInductive, OrderInvIsInductive, NothingIsSorted
<1>3. Inv => SortIsRight
  BY OrderedIsTransitive, LengthTells, EndTellsOfCycle DEF SortIsRight
<1> QED
  BY <1>1, <1>2, <1>3, PTL DEF DependenciesSpec

-----------------------------------------------------------------------------
(* The search for cycles *)

Frames == [file : Node, left : SUBSET Node]

(***************************************************************************)
(* The gray files are those on the path, each once; each is a dependency   *)
(* of the one before, so that all before it depend on it.                  *)
(***************************************************************************)
PathInv ==
  /\ colour \in [Node -> {"white", "gray", "black"}]
  /\ path \in Seq(Frames)
  /\ \A f \in Node : (colour[f] = "gray" <=> \E i \in DOMAIN path : path[i].file = f)
  /\ \A i, j \in DOMAIN path : path[i].file = path[j].file => i = j
  /\ \A i \in DOMAIN path : path[i].left \subseteq Successors(Graph, path[i].file)
  /\ \A i \in DOMAIN path : i > 1 => path[i].file \in Successors(Graph, path[i - 1].file)
  /\ \A i, j \in DOMAIN path : j < i => path[j].file \in TransitiveDependents(Graph, path[i].file)

\* While no cycle is found, what a black file depends on is black, and what a
\* gray file depends on is still to be looked at, black, or next on the path.
BlackInv ==
  cycles = {} =>
    /\ \A f \in Node : colour[f] = "black" =>
         /\ f \notin TransitiveDependents(Graph, f)
         /\ \A g \in Successors(Graph, f) : colour[g] = "black"
    /\ \A i \in DOMAIN path : \A g \in Successors(Graph, path[i].file) \ path[i].left :
         colour[g] = "black" \/ (i < Len(path) /\ g = path[i + 1].file)

IsCycle(c) ==
  /\ c \in Seq(Node) /\ c # << >>
  /\ c[1] = c[Len(c)]
  /\ \A i \in 1..(Len(c) - 1) : <<c[i], c[i + 1]>> \in edge

CyclesInv == (\A c \in cycles : IsCycle(c)) /\ (cycles # {} => ~IsAcyclic(Graph))

LEMMA PathIsOfNodes ==
  ASSUME PathInv
  PROVE  /\ Len(path) \in Nat /\ DOMAIN path = 1..Len(path)
         /\ \A i \in DOMAIN path : path[i] \in Frames /\ path[i].file \in Node
<1>1. Len(path) \in Nat /\ DOMAIN path = 1..Len(path) /\ \A i \in DOMAIN path : path[i] \in Frames
  BY DEF PathInv
<1> QED
  BY <1>1 DEF Frames

\* The path after a neighbour of its last file has been looked at.
LEMMA WithoutKeepsFiles ==
  ASSUME PathInv, path # << >>, NEW n \in Node
  PROVE  /\ Without(n) \in Seq(Frames) /\ Len(Without(n)) = Len(path)
         /\ \A i \in DOMAIN path :
              /\ Without(n)[i].file = path[i].file
              /\ Without(n)[i].left = IF i = Len(path) THEN path[i].left \ {n} ELSE path[i].left
<1>1. /\ path \in Seq(Frames) /\ Len(path) \in Nat \ {0} /\ DOMAIN path = 1..Len(path)
      /\ \A i \in DOMAIN path : path[i] \in Frames
  BY DEF PathInv
<1> DEFINE last == [path[Len(path)] EXCEPT !.left = @ \ {n}]
<1>2. /\ last \in Frames /\ last.file = path[Len(path)].file
      /\ last.left = path[Len(path)].left \ {n}
  BY <1>1 DEF Frames
<1>3. Without(n) = [path EXCEPT ![Len(path)] = last]
  BY DEF Without
<1> HIDE DEF last
<1>4. /\ Without(n) \in Seq(Frames) /\ Len(Without(n)) = Len(path)
      /\ \A i \in DOMAIN path : Without(n)[i] = IF i = Len(path) THEN last ELSE path[i]
  BY <1>1, <1>2, <1>3, ExceptSeq
<1> QED
  BY <1>2, <1>4

\* A dependency of the last file closes a cycle if it is on the path.
LEMMA BackEdgeIsCycle ==
  ASSUME OrderInv, PathInv, NEW k \in DOMAIN path,
         path[k].file \in Successors(Graph, path[Len(path)].file)
  PROVE  ~IsAcyclic(Graph)
<1> DEFINE f == path[k].file
           last == path[Len(path)].file
<1>1. Len(path) \in DOMAIN path /\ k <= Len(path) /\ f \in Graph.node /\ last \in Graph.node
  BY PathIsOfNodes DEF Graph
<1>2. last \in TransitiveDependents(Graph, f)
  <2>1. last \in Predecessors(Graph, f)
    BY <1>1 DEF Predecessors, Successors
  <2> QED
    BY <2>1, NodesAreGraph, DependentsAreClosed
<1>3. CASE k = Len(path)
  BY <1>1, <1>2, <1>3 DEF IsAcyclic
<1>4. CASE k # Len(path)
  <2>1. f \in TransitiveDependents(Graph, last)
    BY <1>1, <1>4 DEF PathInv
  <2>2. f \in TransitiveDependents(Graph, f)
    BY <1>2, <2>1, NodesAreGraph, DependentsOfDependents
  <2> QED
    BY <1>1, <2>2 DEF IsAcyclic
<1> QED
  BY <1>3, <1>4

LEMMA LookKeepsPath ==
  ASSUME PathInv, path # << >>, NEW n \in Node, path' = Without(n), UNCHANGED <<colour, edge>>
  PROVE  PathInv'
<1>1. Graph' = Graph
  BY DEF Graph
<1>2. path' \in Seq(Frames) /\ DOMAIN path' = DOMAIN path
  BY WithoutKeepsFiles, PathIsOfNodes, LenProperties
<1>3. \A i \in DOMAIN path : path'[i].file = path[i].file /\ path'[i].left \subseteq path[i].left
  BY WithoutKeepsFiles
<1>4. \A i \in DOMAIN path : i > 1 => i - 1 \in DOMAIN path
  BY PathIsOfNodes
<1>5. \A f \in Node : (colour'[f] = "gray" <=> \E i \in DOMAIN path' : path'[i].file = f)
  BY <1>2, <1>3 DEF PathInv
<1>6. \A i, j \in DOMAIN path' : path'[i].file = path'[j].file => i = j
  BY <1>2, <1>3 DEF PathInv
<1>7. \A i \in DOMAIN path' : path'[i].left \subseteq Successors(Graph', path'[i].file)
  BY <1>1, <1>2, <1>3 DEF PathInv
<1>8. \A i \in DOMAIN path' :
        i > 1 => path'[i].file \in Successors(Graph', path'[i - 1].file)
  BY <1>1, <1>2, <1>3, <1>4 DEF PathInv
<1>9. \A i, j \in DOMAIN path' :
        j < i => path'[j].file \in TransitiveDependents(Graph', path'[i].file)
  BY <1>1, <1>2, <1>3 DEF PathInv
<1> QED
  BY <1>1, <1>2, <1>5, <1>6, <1>7, <1>8, <1>9 DEF PathInv

\* A way from some place on, and back to that place.
LEMMA WayAndBack ==
  ASSUME NEW p \in Seq(Node), NEW k \in 1..Len(p)
  PROVE  LET c == SubSeq(p, k, Len(p)) \o <<p[k]>>
         IN  /\ c \in Seq(Node) /\ Len(c) = Len(p) - k + 2
             /\ \A i \in 1..(Len(p) - k + 1) : c[i] = p[k + i - 1]
             /\ c[Len(p) - k + 2] = p[k]
<1> DEFINE way == SubSeq(p, k, Len(p))
           back == <<p[k]>>
<1>1. Len(p) \in Nat /\ k \in Nat /\ 1 <= k /\ k <= Len(p) /\ p[k] \in Node
  OBVIOUS
<1>2. /\ way \in Seq(Node) /\ Len(way) = Len(p) - k + 1
      /\ \A i \in 1..(Len(p) - k + 1) : way[i] = p[k + i - 1]
  BY <1>1, SubSeqProperties
<1>3. back \in Seq(Node) /\ Len(back) = 1 /\ back[1] = p[k]
  BY <1>1
<1> HIDE DEF way, back
<1>4. /\ way \o back \in Seq(Node) /\ Len(way \o back) = Len(way) + Len(back)
      /\ \A i \in 1..(Len(way) + Len(back)) :
           (way \o back)[i] = IF i <= Len(way) THEN way[i] ELSE back[i - Len(way)]
  BY <1>2, <1>3, ConcatProperties
<1>5. /\ Len(way \o back) = Len(p) - k + 2
      /\ \A i \in 1..(Len(p) - k + 1) : (way \o back)[i] = way[i]
  BY <1>1, <1>2, <1>3, <1>4
<1>6. (way \o back)[Len(p) - k + 2] = p[k]
  <2> DEFINE m == Len(p) - k + 2
  <2>1. m \in 1..(Len(way) + Len(back)) /\ ~(m <= Len(way)) /\ m - Len(way) = 1
    BY <1>1, <1>2, <1>3
  <2> HIDE DEF m
  <2>2. (way \o back)[m] = back[1]
    BY <1>4, <2>1
  <2> QED
    BY <1>3, <2>2 DEF m
<1> QED
  BY <1>2, <1>4, <1>5, <1>6 DEF way, back

LEMMA CloseCycleWorks ==
  ASSUME OrderInv, PathInv, BlackInv, CyclesInv, path # << >>, NEW n \in Last(path).left,
         CloseCycle(n), UNCHANGED edge
  PROVE  PathInv' /\ BlackInv' /\ CyclesInv'
<1> DEFINE last == Len(path)
           k == SelectInSeq(OnPath, LAMBDA f : f = n)
           c == SubSeq(OnPath, k, last) \o <<n>>
<1>1. /\ last \in DOMAIN path /\ Last(path) = path[last]
      /\ n \in Successors(Graph, path[last].file) /\ n \in Node
  <2>1. last \in DOMAIN path
    BY PathIsOfNodes DEF PathInv
  <2> QED
    BY <2>1 DEF PathInv, Last, Successors, Graph
<1>2. PathInv'
  BY <1>1, LookKeepsPath DEF CloseCycle
<1>3. /\ OnPath \in Seq(Node) /\ Len(OnPath) = last
      /\ \A i \in DOMAIN path : OnPath[i] = path[i].file
  BY PathIsOfNodes DEF OnPath
<1>4. k \in DOMAIN path /\ path[k].file = n
  <2> DEFINE I == {i \in 1..Len(OnPath) : OnPath[i] = n}
  <2>1. I # {} /\ I \subseteq DOMAIN path
    BY <1>1, <1>3, PathIsOfNodes DEF CloseCycle, PathInv
  <2>2. k = Min(I)
    BY <2>1 DEF SelectInSeq
  <2>3. Min(I) \in I
    <3>1. I \in SUBSET Nat
      BY <2>1, PathIsOfNodes
    <3> HIDE DEF I
    <3> QED
      BY <2>1, <3>1, LeastNatural DEF Min
  <2> HIDE DEF k
  <2> QED
    BY <1>3, <2>1, <2>2, <2>3
<1>5. cycles' = cycles \cup {c}
  BY DEF CloseCycle
<1>6. IsCycle(c)
  <2> HIDE DEF k
  <2>1. k \in 1..Len(OnPath) /\ OnPath[k] = n
    BY <1>3, <1>4, PathIsOfNodes
  <2>2. /\ c \in Seq(Node) /\ Len(c) = last - k + 2
        /\ \A i \in 1..(last - k + 1) : c[i] = OnPath[k + i - 1]
        /\ c[last - k + 2] = n
    BY <1>3, <2>1, WayAndBack
  <2> HIDE DEF c
  <2>3. k \in Nat /\ last \in Nat /\ k > 0 /\ k <= last
    BY <1>4, PathIsOfNodes
  <2>4. c # << >> /\ c[1] = n /\ c[Len(c)] = n
    <3>1. 1 \in 1..(last - k + 1) /\ k + 1 - 1 = k
      BY <2>3
    <3>2. c[1] = OnPath[k]
      BY <2>2, <3>1
    <3> QED
      BY <2>1, <2>2, <2>3, <3>2
  <2>5. ASSUME NEW i \in 1..(last - k + 1) PROVE <<c[i], c[i + 1]>> \in edge
    <3>1. k + i - 1 \in DOMAIN path /\ c[i] = path[k + i - 1].file
      <4>1. k + i - 1 \in 1..last
        BY <2>3, <2>5
      <4> QED
        BY <1>3, <2>2, <2>5, <4>1, PathIsOfNodes
    <3>2. c[i + 1] \in Successors(Graph, path[k + i - 1].file)
      <4>1. CASE i = last - k + 1
        <5>1. k + i - 1 = last /\ i + 1 = last - k + 2
          BY <2>3, <4>1
        <5> QED
          BY <1>1, <2>2, <5>1
      <4>2. CASE i # last - k + 1
        <5>1. /\ i + 1 \in 1..(last - k + 1) /\ k + (i + 1) - 1 = k + i
              /\ k + i \in 1..last /\ k + i > 1
          BY <2>3, <2>5, <4>2
        <5>2. k + i \in DOMAIN path /\ c[i + 1] = path[k + i].file
          BY <1>3, <2>2, <5>1, PathIsOfNodes
        <5>3. k + i - 1 = (k + i) - 1
          BY <2>3
        <5> QED
          BY <5>1, <5>2, <5>3 DEF PathInv
      <4> QED
        BY <4>1, <4>2
    <3> QED
      BY <3>1, <3>2 DEF Successors, Graph
  <2>6. Len(c) - 1 = last - k + 1
    BY <2>2, <2>3
  <2> QED
    BY <2>2, <2>4, <2>5, <2>6 DEF IsCycle
<1>7. ~IsAcyclic(Graph) /\ Graph' = Graph
  BY <1>1, <1>4, BackEdgeIsCycle DEF Graph
<1>8. \A x \in cycles' : IsCycle(x)'
  <2> HIDE DEF c
  <2>1. \A x : IsCycle(x)' = IsCycle(x)
    BY DEF IsCycle
  <2> QED
    BY <1>5, <1>6, <2>1 DEF CyclesInv
<1>9. cycles' # {}
  BY <1>5
<1> QED
  BY <1>2, <1>7, <1>8, <1>9 DEF CyclesInv, BlackInv

LEMMA LastIsOnPath ==
  ASSUME PathInv, path # << >>
  PROVE  /\ Len(path) \in DOMAIN path /\ Last(path) = path[Len(path)]
         /\ Last(path).file \in Node /\ Last(path).left \subseteq Successors(Graph, Last(path).file)
<1>1. Len(path) \in DOMAIN path
  BY PathIsOfNodes DEF PathInv
<1> QED
  BY <1>1, PathIsOfNodes DEF Last, PathInv

LEMMA PassByWorks ==
  ASSUME PathInv, BlackInv, CyclesInv, path # << >>, NEW n \in Last(path).left,
         PassBy(n), UNCHANGED edge
  PROVE  PathInv' /\ BlackInv' /\ CyclesInv'
<1>1. n \in Node
  BY LastIsOnPath DEF Successors, Graph
<1>2. PathInv'
  BY <1>1, LookKeepsPath DEF PassBy
<1>3. Graph' = Graph /\ colour' = colour /\ cycles' = cycles
  BY DEF PassBy, Graph
<1>4. CyclesInv'
  BY <1>3 DEF CyclesInv, IsCycle
<1>5. /\ Len(path') = Len(path) /\ DOMAIN path' = DOMAIN path
      /\ \A i \in DOMAIN path :
           /\ path'[i].file = path[i].file
           /\ path'[i].left = IF i = Len(path) THEN path[i].left \ {n} ELSE path[i].left
  BY <1>1, WithoutKeepsFiles, PathIsOfNodes, LenProperties DEF PassBy
<1>6. ASSUME cycles = {}, NEW i \in DOMAIN path,
             NEW g \in Successors(Graph, path[i].file) \ path'[i].left
      PROVE  colour[g] = "black" \/ (i < Len(path) /\ g = path[i + 1].file)
  <2>1. CASE g \in path[i].left
    BY <1>5, <1>6, <2>1 DEF PassBy
  <2>2. CASE g \notin path[i].left
    BY <1>6, <2>2 DEF BlackInv
  <2> QED
    BY <2>1, <2>2
<1>7. \A i \in DOMAIN path : i < Len(path) => i + 1 \in DOMAIN path
  BY PathIsOfNodes
<1>8. BlackInv'
  <2> SUFFICES ASSUME cycles = {}
               PROVE  /\ \A f \in Node : colour[f] = "black" =>
                           /\ f \notin TransitiveDependents(Graph, f)
                           /\ \A g \in Successors(Graph, f) : colour[g] = "black"
                      /\ \A i \in DOMAIN path' :
                           \A g \in Successors(Graph, path'[i].file) \ path'[i].left :
                             colour[g] = "black" \/ (i < Len(path') /\ g = path'[i + 1].file)
    BY <1>3 DEF BlackInv
  <2>1. \A i \in DOMAIN path' :
          \A g \in Successors(Graph, path'[i].file) \ path'[i].left :
            colour[g] = "black" \/ (i < Len(path') /\ g = path'[i + 1].file)
    BY <1>5, <1>6, <1>7
  <2> QED
    BY <2>1 DEF BlackInv
<1> QED
  BY <1>2, <1>4, <1>8

\* The neighbour is put on the path, below all that depend on it.
LEMMA GoOnWorks ==
  ASSUME OrderInv, PathInv, BlackInv, CyclesInv, path # << >>, NEW n \in Last(path).left,
         GoOn(n), UNCHANGED edge
  PROVE  PathInv' /\ BlackInv' /\ CyclesInv'
<1> DEFINE last == Len(path)
<1>1. /\ n \in Node /\ colour[n] = "white" /\ n \in Successors(Graph, path[last].file)
      /\ last = Len(path) /\ last \in Nat /\ last > 0 /\ DOMAIN path = 1..last
  BY LastIsOnPath, PathIsOfNodes DEF Successors, Graph, GoOn
<1>2. Graph' = Graph /\ cycles' = cycles
  BY DEF GoOn, Graph
<1>3. Frame(n) \in Frames /\ Frame(n).file = n /\ Frame(n).left = Successors(Graph, n)
  BY <1>1 DEF Frame, Frames, Successors, Graph
<1>4. /\ path' \in Seq(Frames) /\ Len(path') = last + 1 /\ DOMAIN path' = 1..(last + 1)
      /\ path'[last + 1].file = n /\ path'[last + 1].left = Successors(Graph, n)
      /\ \A i \in 1..last :
           /\ path'[i].file = path[i].file
           /\ path'[i].left = IF i = last THEN path[i].left \ {n} ELSE path[i].left
  <2>1. /\ Without(n) \in Seq(Frames) /\ Len(Without(n)) = last
        /\ \A i \in DOMAIN path :
             /\ Without(n)[i].file = path[i].file
             /\ Without(n)[i].left = IF i = last THEN path[i].left \ {n} ELSE path[i].left
    BY <1>1, WithoutKeepsFiles
  <2>2. path' = Append(Without(n), Frame(n))
    BY DEF GoOn
  <2>3. /\ path' \in Seq(Frames) /\ Len(path') = last + 1
        /\ path'[last + 1] = Frame(n) /\ \A i \in 1..last : path'[i] = Without(n)[i]
    BY <1>3, <2>1, <2>2, AppendProperties
  <2> QED
    BY <1>1, <1>3, <2>1, <2>3, LenProperties
<1>5. colour' = [colour EXCEPT ![n] = "gray"]
  BY DEF GoOn
<1>6. \A i \in 1..last : path[i].file # n /\ path[i].file \in Node
  BY <1>1, PathIsOfNodes DEF PathInv
<1> HIDE DEF last
<1>7. \A i \in 1..last : path[i].file \in TransitiveDependents(Graph, n)
  <2> DEFINE f == path[last].file
  <2>1. f \in TransitiveDependents(Graph, n)
    <3>1. f \in Predecessors(Graph, n)
      BY <1>1, PathIsOfNodes DEF Predecessors, Successors, Graph
    <3> QED
      BY <3>1, NodesAreGraph, DependentsAreClosed
  <2>2. TransitiveDependents(Graph, f) \subseteq TransitiveDependents(Graph, n)
    BY <2>1, NodesAreGraph, DependentsOfDependents
  <2>3. \A i \in 1..last : i # last => path[i].file \in TransitiveDependents(Graph, f)
    <3>1. \A i \in 1..last : i # last => i < last
      BY <1>1
    <3> QED
      BY <1>1, <3>1 DEF PathInv
  <2> QED
    BY <2>1, <2>2, <2>3
<1>8. PathInv'
  <2>0. /\ DOMAIN path' = 1..(last + 1) /\ path'[last + 1].file = n
        /\ \A i \in 1..last : path'[i].file = path[i].file
    BY <1>4
  <2>1. \A i \in 1..(last + 1) : i \in 1..last \/ i = last + 1
    BY <1>1
  <2>2. colour' \in [Node -> {"white", "gray", "black"}]
    BY <1>1, <1>5 DEF PathInv
  <2>3. \A f \in Node : (colour'[f] = "gray" <=> \E i \in DOMAIN path' : path'[i].file = f)
    <3>1. \A f \in Node : (colour[f] = "gray" <=> \E i \in 1..last : path[i].file = f)
      BY <1>1 DEF PathInv
    <3>2. \A f \in Node : colour'[f] = IF f = n THEN "gray" ELSE colour[f]
      BY <1>1, <1>5 DEF PathInv
    <3>3. 1..last \subseteq DOMAIN path' /\ last + 1 \in DOMAIN path'
      BY <1>1, <2>0
    <3> QED
      BY <2>0, <2>1, <3>1, <3>2, <3>3
  <2>4. \A i, j \in DOMAIN path' : path'[i].file = path'[j].file => i = j
    <3>1. \A i, j \in 1..last : path[i].file = path[j].file => i = j
      BY <1>1 DEF PathInv
    <3> QED
      BY <1>6, <2>0, <2>1, <3>1
  <2>5. \A i \in DOMAIN path' : path'[i].left \subseteq Successors(Graph, path'[i].file)
    <3>1. \A i \in 1..last : path[i].left \subseteq Successors(Graph, path[i].file)
      BY <1>1 DEF PathInv
    <3> QED
      BY <1>4, <2>1, <3>1
  <2>6. \A i \in DOMAIN path' : i > 1 => path'[i].file \in Successors(Graph, path'[i - 1].file)
    <3>1. \A i \in 1..last :
            i > 1 => i - 1 \in 1..last /\ path[i].file \in Successors(Graph, path[i - 1].file)
      BY <1>1 DEF PathInv
    <3>2. (last + 1) - 1 = last /\ last \in 1..last
      BY <1>1
    <3>3. ASSUME NEW i \in 1..last, i > 1
          PROVE  path'[i].file \in Successors(Graph, path'[i - 1].file)
      BY <2>0, <3>1, <3>3
    <3>4. path'[last + 1].file \in Successors(Graph, path'[(last + 1) - 1].file)
      BY <1>1, <2>0, <3>2
    <3> QED
      BY <2>0, <2>1, <3>3, <3>4
  <2>7. \A i, j \in DOMAIN path' :
          j < i => path'[j].file \in TransitiveDependents(Graph, path'[i].file)
    <3>1. \A i, j \in 1..last : j < i => path[j].file \in TransitiveDependents(Graph, path[i].file)
      BY <1>1 DEF PathInv
    <3>2. \A i \in 1..(last + 1) : ~(last + 1 < i)
      BY <1>1
    <3> QED
      BY <1>7, <2>0, <2>1, <3>1, <3>2
  <2> QED
    BY <1>2, <1>4, <2>2, <2>3, <2>4, <2>5, <2>6, <2>7 DEF PathInv
<1>9. CyclesInv'
  BY <1>2 DEF CyclesInv, IsCycle
<1>10. BlackInv'
  <2> SUFFICES ASSUME cycles = {}
               PROVE  /\ \A f \in Node : colour'[f] = "black" =>
                           /\ f \notin TransitiveDependents(Graph, f)
                           /\ \A g \in Successors(Graph, f) : colour'[g] = "black"
                      /\ \A i \in DOMAIN path' :
                           \A g \in Successors(Graph, path'[i].file) \ path'[i].left :
                             colour'[g] = "black" \/ (i < Len(path') /\ g = path'[i + 1].file)
    BY <1>2 DEF BlackInv
  <2>1. \A f \in Node : colour'[f] = "black" <=> colour[f] = "black"
    BY <1>1, <1>5 DEF PathInv
  <2>2. \A f : Successors(Graph, f) \subseteq Node
    BY DEF Successors, Graph
  <2>3. ASSUME NEW f \in Node, colour'[f] = "black"
        PROVE  /\ f \notin TransitiveDependents(Graph, f)
               /\ \A g \in Successors(Graph, f) : colour'[g] = "black"
    BY <2>1, <2>2, <2>3 DEF BlackInv
  <2>4. ASSUME NEW i \in DOMAIN path',
               NEW g \in Successors(Graph, path'[i].file) \ path'[i].left
        PROVE  colour'[g] = "black" \/ (i < Len(path') /\ g = path'[i + 1].file)
    <3>1. CASE i = last + 1
      BY <1>4, <2>4, <3>1
    <3>2. CASE i \in 1..last /\ g \notin path[i].left
      <4>1. g \in Node /\ path'[i].file = path[i].file
        BY <1>4, <2>2, <2>4, <3>2
      <4>2. i \in Nat /\ i < last + 1 /\ (i < last => i + 1 \in 1..last)
        BY <1>1, <3>2
      <4>3. colour[g] = "black" \/ (i < last /\ g = path[i + 1].file)
        BY <1>1, <2>4, <3>2, <4>1 DEF BlackInv
      <4>4. CASE colour[g] = "black"
        BY <2>1, <4>1, <4>4
      <4>5. CASE i < last /\ g = path[i + 1].file
        <5>1. g = path'[i + 1].file
          BY <1>4, <4>2, <4>5
        <5> QED
          BY <1>4, <4>2, <5>1
      <4> QED
        BY <4>3, <4>4, <4>5
    <3>3. CASE i \in 1..last /\ g \in path[i].left
      <4>1. i = last /\ g = n
        BY <1>4, <2>4, <3>3
      <4> QED
        BY <1>1, <1>4, <4>1
    <3> QED
      BY <1>1, <1>4, <2>4, <3>1, <3>2, <3>3
  <2> QED
    BY <2>3, <2>4
<1> QED
  BY <1>8, <1>9, <1>10

\* The last file of the path has nothing left to look at, and becomes black.
LEMMA ReturnWorks ==
  ASSUME OrderInv, PathInv, BlackInv, CyclesInv, Return, UNCHANGED edge
  PROVE  PathInv' /\ BlackInv' /\ CyclesInv'
<1> DEFINE last == Len(path)
           f == path[last].file
<1>1. /\ f \in Node /\ colour[f] = "gray" /\ path[last].left = {}
      /\ last = Len(path) /\ last \in Nat /\ last > 0 /\ DOMAIN path = 1..last
  BY LastIsOnPath, PathIsOfNodes DEF Return, PathInv
<1>2. Graph' = Graph /\ cycles' = cycles
  BY DEF Return, Graph
<1>3. /\ path' \in Seq(Frames) /\ Len(path') = last - 1 /\ DOMAIN path' = 1..(last - 1)
      /\ \A i \in 1..(last - 1) : path'[i] = path[i]
  <2>1. path' = SubSeq(path, 1, last - 1)
    BY DEF Return, Front
  <2>2. \A i \in 1..(last - 1) : path[i] \in Frames
    BY <1>1, PathIsOfNodes
  <2>3. 1 \in Int /\ last - 1 \in Int /\ (IF 1 <= last - 1 THEN last - 1 - 1 + 1 ELSE 0) = last - 1
    BY <1>1
  <2>4. /\ path' \in Seq(Frames) /\ Len(path') = last - 1
        /\ \A i \in 1..(last - 1) : path'[i] = path[i]
    BY <1>1, <2>1, <2>2, <2>3, SubSeqProperties
  <2> QED
    BY <2>4, LenProperties
<1>4. colour' = [colour EXCEPT ![f] = "black"]
  BY DEF Return, Last
<1>5. \A g \in Node : colour'[g] = IF g = f THEN "black" ELSE colour[g]
  BY <1>1, <1>4 DEF PathInv
<1> HIDE DEF last, f
<1>6. 1..(last - 1) \subseteq 1..last /\ last \notin 1..(last - 1)
  BY <1>1
<1>7. PathInv'
  <2>1. colour' \in [Node -> {"white", "gray", "black"}]
    BY <1>1, <1>4 DEF PathInv
  <2>2. \A g \in Node : (colour'[g] = "gray" <=> \E i \in DOMAIN path' : path'[i].file = g)
    <3>1. \A i \in 1..(last - 1) : path[i].file # f
      BY <1>1, <1>6 DEF PathInv, f
    <3>2. \A i \in 1..last : i \in 1..(last - 1) \/ path[i].file = f
      BY <1>1 DEF f
    <3>3. \A g \in Node : (colour[g] = "gray" <=> \E i \in 1..last : path[i].file = g)
      BY <1>1 DEF PathInv
    <3> QED
      BY <1>3, <1>5, <1>6, <3>1, <3>2, <3>3
  <2>3. \A i, j \in DOMAIN path' : path'[i].file = path'[j].file => i = j
    BY <1>1, <1>3, <1>6 DEF PathInv
  <2>4. \A i \in DOMAIN path' : path'[i].left \subseteq Successors(Graph, path'[i].file)
    BY <1>1, <1>3, <1>6 DEF PathInv
  <2>5. \A i \in DOMAIN path' : i > 1 => path'[i].file \in Successors(Graph, path'[i - 1].file)
    <3>1. \A i \in 1..(last - 1) : i > 1 => i - 1 \in 1..(last - 1)
      BY <1>1
    <3> QED
      BY <1>1, <1>3, <1>6, <3>1 DEF PathInv
  <2>6. \A i, j \in DOMAIN path' :
          j < i => path'[j].file \in TransitiveDependents(Graph, path'[i].file)
    BY <1>1, <1>3, <1>6 DEF PathInv
  <2> QED
    BY <1>2, <1>3, <2>1, <2>2, <2>3, <2>4, <2>5, <2>6 DEF PathInv
<1>8. CyclesInv'
  BY <1>2 DEF CyclesInv, IsCycle
<1>9. BlackInv'
  <2> SUFFICES ASSUME cycles = {}
               PROVE  /\ \A h \in Node : colour'[h] = "black" =>
                           /\ h \notin TransitiveDependents(Graph, h)
                           /\ \A g \in Successors(Graph, h) : colour'[g] = "black"
                      /\ \A i \in DOMAIN path' :
                           \A g \in Successors(Graph, path'[i].file) \ path'[i].left :
                             colour'[g] = "black" \/ (i < Len(path') /\ g = path'[i + 1].file)
    BY <1>2 DEF BlackInv
  <2>1. \A h : Successors(Graph, h) \subseteq Node
    BY DEF Successors, Graph
  <2>2. \A g \in Successors(Graph, f) : colour[g] = "black"
    BY <1>1, <1>6 DEF BlackInv, f
  <2>3. f \notin TransitiveDependents(Graph, f)
    <3> DEFINE black == {g \in Node : colour[g] = "black"}
    <3>1. /\ \A x \in black : Successors(Graph, x) \subseteq black
          /\ Successors(Graph, f) \subseteq black /\ f \notin black
      BY <1>1, <2>1, <2>2 DEF BlackInv
    <3> HIDE DEF black
    <3>2. f \notin TransitiveDependencies(Graph, f)
      BY <3>1, NodesAreGraph, DependenciesAreLeast
    <3> QED
      BY <1>1, <3>2 DEF TransitiveDependencies, Graph
  <2>4. ASSUME NEW h \in Node, colour'[h] = "black"
        PROVE  /\ h \notin TransitiveDependents(Graph, h)
               /\ \A g \in Successors(Graph, h) : colour'[g] = "black"
    BY <1>5, <2>1, <2>2, <2>3, <2>4 DEF BlackInv
  <2>5. ASSUME NEW i \in DOMAIN path',
               NEW g \in Successors(Graph, path'[i].file) \ path'[i].left
        PROVE  colour'[g] = "black" \/ (i < Len(path') /\ g = path'[i + 1].file)
    <3>1. i \in 1..last /\ i < last /\ path'[i] = path[i]
      BY <1>1, <1>3, <2>5
    <3>2. g \in Node /\ (colour[g] = "black" \/ g = path[i + 1].file)
      BY <1>1, <2>1, <2>5, <3>1 DEF BlackInv
    <3>3. i + 1 = last \/ (i + 1 \in 1..(last - 1) /\ i < last - 1)
      BY <1>1, <3>1
    <3>4. CASE i + 1 = last
      BY <1>5, <3>2, <3>4 DEF f
    <3>5. CASE i + 1 \in 1..(last - 1) /\ i < last - 1
      BY <1>3, <1>5, <3>2, <3>5
    <3> QED
      BY <3>3, <3>4, <3>5
  <2> QED
    BY <2>4, <2>5
<1> QED
  BY <1>7, <1>8, <1>9

LEMMA SearchFromWorks ==
  ASSUME PathInv, BlackInv, CyclesInv, NEW f \in Node, SearchFrom(f), UNCHANGED edge
  PROVE  PathInv' /\ BlackInv' /\ CyclesInv'
<1>1. Graph' = Graph /\ cycles' = cycles
  BY DEF SearchFrom, Graph
<1>2. Frame(f) \in Frames /\ Frame(f).file = f /\ Frame(f).left = Successors(Graph, f)
  BY DEF Frame, Frames, Successors, Graph
<1>3. /\ path' \in Seq(Frames) /\ Len(path') = 1 /\ DOMAIN path' = {1}
      /\ path'[1].file = f /\ path'[1].left = Successors(Graph, f)
  <2>1. path' = <<Frame(f)>>
    BY DEF SearchFrom
  <2> QED
    BY <1>2, <2>1
<1>4. /\ colour' \in [Node -> {"white", "gray", "black"}]
      /\ \A g \in Node : colour'[g] = IF g = f THEN "gray" ELSE colour[g]
  BY DEF SearchFrom, PathInv
<1>5. \A g \in Node : colour[g] # "gray"
  BY DEF SearchFrom, PathInv
<1>6. PathInv'
  BY <1>1, <1>3, <1>4, <1>5 DEF PathInv
<1>7. CyclesInv'
  BY <1>1 DEF CyclesInv, IsCycle
<1>8. \A g \in Node : colour'[g] = "black" <=> colour[g] = "black"
  BY <1>4 DEF SearchFrom
<1>9. \A g : Successors(Graph, g) \subseteq Node
  BY DEF Successors, Graph
<1>10. BlackInv'
  BY <1>1, <1>3, <1>8, <1>9 DEF BlackInv
<1> QED
  BY <1>6, <1>7, <1>10

LEMMA SearchStarts ==
  ASSUME SearchInit, UNCHANGED searchVars
  PROVE  PathInv' /\ BlackInv' /\ CyclesInv'
<1>1. /\ colour' = [f \in Node |-> "white"] /\ path' = << >> /\ cycles' = {}
      /\ path' \in Seq(Frames) /\ DOMAIN path' = {}
  BY DEF SearchInit, searchVars
<1> QED
  BY <1>1 DEF PathInv, BlackInv, CyclesInv

SearchInv ==
  /\ PathInv /\ BlackInv /\ CyclesInv
  /\ stage # "deps" => SearchInit

LEMMA SearchBegins == DependenciesInit => SearchInv
<1> SUFFICES ASSUME SearchInit, stage # "deps" PROVE SearchInv
  BY DEF DependenciesInit
<1>1. /\ colour = [f \in Node |-> "white"] /\ path = << >> /\ cycles = {}
      /\ path \in Seq(Frames) /\ DOMAIN path = {}
  BY DEF SearchInit
<1> QED
  BY <1>1 DEF SearchInv, PathInv, BlackInv, CyclesInv

LEMMA SearchInvIsInductive ==
  ASSUME OrderInv, SearchInv, [DependenciesNext]_dependencyVars
  PROVE  SearchInv'
<1> USE DEF SearchInv
<1>1. CASE Search
  <2>1. UNCHANGED <<edge, stage>> /\ stage = "deps" /\ SearchNext
    BY <1>1 DEF Search, repositoryVars, sortVars
  <2>2. ASSUME NEW f \in Node, SearchFrom(f) PROVE PathInv' /\ BlackInv' /\ CyclesInv'
    BY <2>1, <2>2, SearchFromWorks
  <2>3. ASSUME path # << >>, NEW n \in Last(path).left, CloseCycle(n) \/ GoOn(n) \/ PassBy(n)
        PROVE  PathInv' /\ BlackInv' /\ CyclesInv'
    BY <2>1, <2>3, CloseCycleWorks, GoOnWorks, PassByWorks
  <2>4. CASE Return
    BY <2>1, <2>4, ReturnWorks
  <2> QED
    BY <2>1, <2>2, <2>3, <2>4 DEF SearchNext
<1>2. CASE stage # "deps" /\ UNCHANGED searchVars
  BY <1>2, SearchStarts DEF SearchInit, searchVars
<1>3. CASE UNCHANGED <<edge, stage, searchVars>>
  <2>1. Graph' = Graph /\ colour' = colour /\ path' = path /\ cycles' = cycles /\ stage' = stage
    BY <1>3 DEF Graph, searchVars
  <2>2. PathInv' /\ BlackInv' /\ CyclesInv'
    BY <1>3, <2>1 DEF PathInv, BlackInv, CyclesInv, IsCycle
  <2> QED
    BY <2>1, <2>2 DEF SearchInit
<1>4. ASSUME DependenciesNext
      PROVE  \/ Search
             \/ stage # "deps" /\ UNCHANGED searchVars
             \/ UNCHANGED <<edge, stage, searchVars>>
  BY <1>4 DEF DependenciesNext, WriteFile, StartDeps, StartApply, Sort, Succeed, FailForWant,
              FailOfItsOwn, PassOver, ApplyAgain, SortIsDone, IsDue, repositoryVars, sortVars
<1>5. CASE UNCHANGED dependencyVars
  BY <1>3, <1>5 DEF dependencyVars, repositoryVars, sortVars
<1> QED
  BY <1>1, <1>2, <1>3, <1>4, <1>5

\* At the end of the search every file is black.
LEMMA SearchTellsOfCycle ==
  ASSUME SearchInv, IsSearched
  PROVE  cycles = {} <=> IsAcyclic(Graph)
<1>1. \A f \in Node : colour[f] = "black"
  BY DEF SearchInv, PathInv, IsSearched
<1> QED
  BY <1>1 DEF SearchInv, BlackInv, CyclesInv, IsAcyclic, Graph

(***************************************************************************)
(* Whatever the files say, and in whatever order detectCycles looks at     *)
(* the references of a file: each cycle it reports is one, from its first  *)
(* file back to it, and at its end it has reported none if and only if no  *)
(* file depends on itself, which is just when topologicalSort succeeds.    *)
(***************************************************************************)
THEOREM CyclesAreAlwaysFound == DependenciesSpec => []CyclesAreFound
<1> DEFINE Inv == SortInv /\ OrderInv /\ SearchInv /\ (stage = "writing" => sorted = << >>)
<1>1. DependenciesInit => Inv
  BY OrderInit, SearchBegins DEF DependenciesInit, SortInit, SortInv, IsSorting
<1>2. Inv /\ [DependenciesNext]_dependencyVars => Inv'
  BY SortInvIsInductive, OrderInvIsInductive, SearchInvIsInductive, NothingIsSorted
<1>3. Inv => CyclesAreFound
  <2> SUFFICES ASSUME Inv PROVE CyclesAreFound
    OBVIOUS
  <2>1. ASSUME NEW c \in cycles
        PROVE  /\ Head(c) = Last(c)
               /\ \A i \in 1..(Len(c) - 1) : <<c[i], c[i + 1]>> \in edge
    BY <2>1 DEF SearchInv, CyclesInv, IsCycle, Last
  <2> QED
    BY <2>1, SearchTellsOfCycle DEF CyclesAreFound
<1> QED
  BY <1>1, <1>2, <1>3, PTL DEF DependenciesSpec

-----------------------------------------------------------------------------
(* What RunStatements returns                                              *)

Begin(d) == [objects |-> d, failed |-> FALSE]

\* The recursive function by which the library folds.
IsFold(C, d, st, n) ==
  C = [S \in SUBSET (1..n) |->
         IF S = {} THEN Begin(d) ELSE ExecuteStatement(C[S \ {Max(S)}], st[Max(S)])]

LEMMA FoldExists ==
  ASSUME NEW d, NEW st, NEW n \in Nat
  PROVE  \E C : IsFold(C, d, st, n)
<1> DEFINE bad == {k \in Nat : ~ \E C : IsFold(C, d, st, k)}
<1> SUFFICES ASSUME bad # {} PROVE FALSE
  OBVIOUS
<1>1. PICK k \in bad : \A j \in bad : k <= j
  BY LeastNatural
<1>2. CASE k = 0
  <2> DEFINE C == [S \in SUBSET (1..0) |-> Begin(d)]
  <2>1. \A S \in SUBSET (1..0) : S = {}
    OBVIOUS
  <2>2. C = [S \in SUBSET (1..0) |->
               IF S = {} THEN Begin(d) ELSE ExecuteStatement(C[S \ {Max(S)}], st[Max(S)])]
    BY <2>1
  <2> QED
    BY <1>2, <2>2 DEF IsFold
<1>3. CASE k # 0
  <2>1. k - 1 \in Nat /\ k - 1 \notin bad /\ 1..k = (1..(k - 1)) \cup {k} /\ k \notin 1..(k - 1)
    BY <1>1, <1>3
  <2>2. PICK C : IsFold(C, d, st, k - 1)
    BY <2>1
  <2> DEFINE D == [S \in SUBSET (1..k) |->
                     IF k \notin S THEN C[S] ELSE ExecuteStatement(C[S \ {k}], st[k])]
  <2>3. ASSUME NEW S \in SUBSET (1..k)
        PROVE  D[S] = IF S = {} THEN Begin(d)
                      ELSE ExecuteStatement(D[S \ {Max(S)}], st[Max(S)])
    <3>1. CASE S = {}
      BY <2>2, <3>1 DEF IsFold
    <3>2. CASE S # {} /\ k \notin S
      <4>1. S \in SUBSET (1..(k - 1)) /\ S \in SUBSET (0..k)
        BY <2>1, <3>2
      <4>2. Max(S) \in S
        BY <3>2, <4>1, MaxOfNumbers
      <4>3. D[S \ {Max(S)}] = C[S \ {Max(S)}] /\ D[S] = C[S]
        BY <3>2
      <4>4. C[S] = ExecuteStatement(C[S \ {Max(S)}], st[Max(S)])
        BY <2>2, <3>2, <4>1 DEF IsFold
      <4> QED
        BY <3>2, <4>3, <4>4
    <3>3. CASE k \in S
      <4>1. Max(S) = k
        <5>1. S \in SUBSET (0..k) /\ S # {}
          BY <3>3
        <5>2. Max(S) \in S /\ k <= Max(S)
          BY <3>3, <5>1, MaxOfNumbers
        <5>3. Max(S) \in 1..k
          BY <5>2
        <5> QED
          BY <5>2, <5>3
      <4>2. D[S \ {k}] = C[S \ {k}]
        OBVIOUS
      <4> QED
        BY <3>3, <4>1, <4>2
    <3> QED
      BY <3>1, <3>2, <3>3
  <2>4. D = [S \in SUBSET (1..k) |->
               IF S = {} THEN Begin(d) ELSE ExecuteStatement(D[S \ {Max(S)}], st[Max(S)])]
    <3>1. D = [S \in SUBSET (1..k) |-> D[S]]
      OBVIOUS
    <3> HIDE DEF D
    <3> QED
      BY <2>3, <3>1
  <2> QED
    BY <2>4 DEF IsFold
<1> QED
  BY <1>2, <1>3

\* What there is after 0, 1, ... statements.
IsRun(x, d, st, n) ==
  x[0] = Begin(d) /\ \A i \in 1..n : x[i] = ExecuteStatement(x[i - 1], st[i])

LEMMA RunIsStepwise ==
  ASSUME NEW d, NEW n \in Nat, NEW st, DOMAIN st = 1..n
  PROVE  \E x : IsRun(x, d, st, n) /\ RunStatements(d, st) = x[n]
<1> DEFINE C == CHOOSE C : IsFold(C, d, st, n)
           x == [k \in 0..n |-> C[1..k]]
<1>1. IsFold(C, d, st, n)
  BY FoldExists
<1>2. RunStatements(d, st) = C[1..n]
  BY DEF RunStatements, FoldLeft, MapThenFoldSet, IsFold, Begin
<1> HIDE DEF C
<1>3. x[0] = Begin(d)
  BY <1>1 DEF IsFold
<1>4. ASSUME NEW i \in 1..n PROVE x[i] = ExecuteStatement(x[i - 1], st[i])
  <2> DEFINE S == 1..i
  <2>1. /\ S \in SUBSET (1..n) /\ S \in SUBSET (0..n) /\ i \in S
        /\ i - 1 \in 0..n
    OBVIOUS
  <2>2. S \ {i} = 1..(i - 1)
    OBVIOUS
  <2>3. Max(S) = i
    <3>1. Max(S) \in S /\ i <= Max(S)
      BY <2>1, MaxOfNumbers
    <3>2. Max(S) \in 1..i
      BY <3>1
    <3> QED
      BY <3>1, <3>2
  <2>4. C[S] = ExecuteStatement(C[S \ {i}], st[i])
    BY <1>1, <2>1, <2>3 DEF IsFold
  <2>5. x[i] = C[S] /\ x[i - 1] = C[1..(i - 1)]
    BY <2>1
  <2> QED
    BY <2>2, <2>4, <2>5
<1>5. IsRun(x, d, st, n)
  BY <1>3, <1>4 DEF IsRun
<1>6. RunStatements(d, st) = x[n]
  BY <1>2
<1> QED
  BY <1>5, <1>6

MadeUpTo(st, k) == UNION {Makes(st[i]) : i \in 1..k}

\* Each of the first k statements finds what it needs.
IsServed(d, st, k) == \A i \in 1..k : Needs(st[i]) \subseteq d \cup MadeUpTo(st, i - 1)

\* Where nothing is removed, a run succeeds if each statement finds what it needs.
LEMMA RunFacts ==
  ASSUME NEW d, NEW n \in Nat, NEW st, DOMAIN st = 1..n, \A i \in 1..n : Removes(st[i]) = {}
  PROVE  /\ d \subseteq RunStatements(d, st).objects
         /\ RunStatements(d, st).failed <=> ~IsServed(d, st, n)
         /\ ~RunStatements(d, st).failed
              => RunStatements(d, st).objects = d \cup MadeUpTo(st, n)
<1>1. PICK x : IsRun(x, d, st, n) /\ RunStatements(d, st) = x[n]
  BY RunIsStepwise
<1> DEFINE Holds(k) ==
             /\ d \subseteq x[k].objects
             /\ x[k].failed = FALSE <=> IsServed(d, st, k)
             /\ x[k].failed # FALSE => x[k].failed = TRUE
             /\ x[k].failed = FALSE => x[k].objects = d \cup MadeUpTo(st, k)
           bad == {k \in 0..n : ~Holds(k)}
<1> HIDE DEF Holds
<1>2. bad = {}
  <2> SUFFICES ASSUME bad # {} PROVE FALSE
    OBVIOUS
  <2>1. PICK k \in bad : \A j \in bad : k <= j
    <3>1. bad \in SUBSET Nat
      OBVIOUS
    <3> HIDE DEF bad
    <3> QED
      BY <3>1, LeastNatural
  <2>2. ASSUME k = 0 PROVE Holds(k)
    <3>1. MadeUpTo(st, 0) = {} /\ IsServed(d, st, 0)
      BY DEF MadeUpTo, IsServed
    <3>2. x[0] = Begin(d)
      BY <1>1 DEF IsRun
    <3>3. x[0].objects = d /\ x[0].failed = FALSE
      BY <3>2 DEF Begin
    <3> QED
      BY <2>2, <3>1, <3>3 DEF Holds
  <2>3. ASSUME k # 0 PROVE Holds(k)
    <3> DEFINE j == k - 1
    <3>1. j \in 0..n /\ j \notin bad /\ k \in 1..n /\ 1..k = (1..j) \cup {k} /\ k \notin 1..j
      BY <2>1, <2>3
    <3>2. Holds(j)
      BY <3>1
    <3>3. x[k] = ExecuteStatement(x[j], st[k]) /\ Removes(st[k]) = {}
      BY <1>1, <3>1 DEF IsRun
    <3> HIDE DEF j
    <3>4. MadeUpTo(st, k) = MadeUpTo(st, j) \cup Makes(st[k])
      BY <3>1 DEF MadeUpTo
    <3>5. IsServed(d, st, k) <=> IsServed(d, st, j) /\ Needs(st[k]) \subseteq d \cup MadeUpTo(st, j)
      <4>1. j = k - 1
        BY DEF j
      <4> QED
        BY <3>1, <4>1 DEF IsServed
    <3>6. ASSUME x[j].failed # FALSE \/ ~(Needs(st[k]) \subseteq x[j].objects)
          PROVE  Holds(k)
      <4>1. x[j].failed = TRUE \/ ~(Needs(st[k]) \subseteq x[j].objects)
        BY <3>2, <3>6 DEF Holds
      <4>2. x[k] = [objects |-> x[j].objects, failed |-> TRUE]
        BY <3>3, <4>1 DEF ExecuteStatement
      <4>3. x[k].objects = x[j].objects /\ x[k].failed = TRUE
        BY <4>2
      <4>4. ~IsServed(d, st, k)
        BY <3>2, <3>5, <3>6 DEF Holds
      <4> QED
        BY <3>2, <4>3, <4>4 DEF Holds
    <3>7. ASSUME x[j].failed = FALSE, Needs(st[k]) \subseteq x[j].objects
          PROVE  Holds(k)
      <4>1. x[k] = [objects |-> (x[j].objects \cup Makes(st[k])) \ {}, failed |-> FALSE]
        BY <3>3, <3>7 DEF ExecuteStatement
      <4>2. x[k].objects = x[j].objects \cup Makes(st[k]) /\ x[k].failed = FALSE
        BY <4>1
      <4>3. IsServed(d, st, k) /\ x[j].objects = d \cup MadeUpTo(st, j)
        BY <3>2, <3>5, <3>7 DEF Holds
      <4>4. x[k].objects = d \cup MadeUpTo(st, k)
        BY <3>4, <4>2, <4>3
      <4> QED
        BY <4>2, <4>3, <4>4 DEF Holds
    <3> QED
      BY <3>6, <3>7
  <2> QED
    BY <2>2, <2>3
<1>3. Holds(n)
  BY <1>2
<1> QED
  BY <1>1, <1>3 DEF Holds

-----------------------------------------------------------------------------
(* What deps draws                                                         *)

\* The depths of the files of a set, by the depths of those they depend on.
AreDepths(D, T) ==
  D = [f \in T |-> IF Successors(Graph, f) = {} THEN 0
                   ELSE 1 + Max({D[g] : g \in Successors(Graph, f)})]

LEMMA DepthsExist ==
  ASSUME OrderInv, IsAcyclic(Graph)
  PROVE  AreDepths(Depth, Node)
<1> DEFINE Holds(T) == /\ \A f \in T : Successors(Graph, f) \subseteq T
                       /\ \E D : AreDepths(D, T)
           Ok == {T \in SUBSET Node : Holds(T)}
<1>1. {} \in Ok
  <2> DEFINE D == [f \in {} |-> 0]
  <2>1. AreDepths(D, {})
    BY DEF AreDepths
  <2> QED
    BY <2>1
<1>2. ASSUME NEW T \in Ok, NEW x \in Node \ T, Successors(Graph, x) \subseteq T
      PROVE  T \cup {x} \in Ok
  <2>1. PICK D : AreDepths(D, T)
    BY <1>2
  <2> DEFINE value(C, f) == IF Successors(Graph, f) = {} THEN 0
                            ELSE 1 + Max({C[g] : g \in Successors(Graph, f)})
             E == [f \in T \cup {x} |-> IF f \in T THEN D[f] ELSE value(D, f)]
  <2>2. ASSUME NEW f \in T \cup {x} PROVE E[f] = value(E, f)
    <3>1. Successors(Graph, f) \subseteq T
      BY <1>2
    <3>2. {E[g] : g \in Successors(Graph, f)} = {D[g] : g \in Successors(Graph, f)}
      BY <3>1
    <3>3. E[f] = value(D, f)
      BY <2>1 DEF AreDepths
    <3> HIDE DEF E
    <3> QED
      BY <3>2, <3>3
  <2>3. E = [f \in T \cup {x} |-> value(E, f)]
    <3>1. E = [f \in T \cup {x} |-> E[f]]
      OBVIOUS
    <3> HIDE DEF E, value
    <3> QED
      BY <2>2, <3>1
  <2>4. AreDepths(E, T \cup {x})
    BY <2>3 DEF AreDepths
  <2>5. \A f \in T \cup {x} : Successors(Graph, f) \subseteq T \cup {x}
    BY <1>2
  <2> HIDE DEF E
  <2> QED
    BY <1>2, <2>4, <2>5
<1>3. Node \in Ok
  <2>1. IsGraph(Graph) /\ Graph.node = Node /\ Ok \in SUBSET (SUBSET Node)
    BY NodesAreGraph DEF Graph
  <2> HIDE DEF Ok
  <2> QED
    BY <1>1, <1>2, <2>1, GrowsToAllFiles
<1>4. \E D : AreDepths(D, Node)
  BY <1>3
<1> QED
  BY <1>4 DEF Depth, AreDepths

\* A file is one deeper than the deepest of those it depends on.
LEMMA DepthsAreRight ==
  ASSUME OrderInv, IsAcyclic(Graph)
  PROVE  \A f \in Node :
           /\ Depth[f] \in 0..N
           /\ Successors(Graph, f) = {} => Depth[f] = 0
           /\ \A g \in Successors(Graph, f) : Depth[g] < Depth[f]
           /\ Successors(Graph, f) # {} =>
                \E g \in Successors(Graph, f) : Depth[f] = Depth[g] + 1
<1> DEFINE IsRight(f) ==
             /\ Successors(Graph, f) = {} => Depth[f] = 0
             /\ \A g \in Successors(Graph, f) : Depth[g] < Depth[f]
             /\ Successors(Graph, f) # {} =>
                  \E g \in Successors(Graph, f) : Depth[f] = Depth[g] + 1
           Holds(T) == /\ \A f \in T : Successors(Graph, f) \subseteq T
                       /\ \A f \in T : Depth[f] \in 0..Cardinality(T) /\ IsRight(f)
           Ok == {T \in SUBSET Node : Holds(T)}
<1>1. {} \in Ok
  OBVIOUS
<1>2. ASSUME NEW T \in Ok, NEW x \in Node \ T, Successors(Graph, x) \subseteq T
      PROVE  T \cup {x} \in Ok
  <2>1. Cardinality(T) \in Nat /\ Cardinality(T \cup {x}) = Cardinality(T) + 1
    <3>1. IsFiniteSet(T)
      BY NodeIsFinite, FS_Subset
    <3> QED
      BY <1>2, <3>1, FS_CardinalityType, FS_AddElement
  <2>2. Depth[x] \in 0..(Cardinality(T) + 1) /\ IsRight(x)
    <3>1. CASE Successors(Graph, x) = {}
      <4>1. Depth[x] = 0
        BY <3>1, DepthsExist DEF AreDepths
      <4> QED
        BY <2>1, <3>1, <4>1
    <3>2. CASE Successors(Graph, x) # {}
      <4> DEFINE below == {Depth[g] : g \in Successors(Graph, x)}
                 c == Cardinality(T)
      <4>1. below \in SUBSET (0..c) /\ below # {}
        BY <1>2, <3>2
      <4>2. Depth[x] = 1 + Max(below)
        BY <3>2, DepthsExist DEF AreDepths
      <4>3. Max(below) \in below /\ \A i \in below : i <= Max(below)
        <5> HIDE DEF below, c
        <5> QED
          BY <2>1, <4>1, MaxOfNumbers DEF c
      <4>4. PICK g \in Successors(Graph, x) : Max(below) = Depth[g]
        BY <4>3
      <4>5. \A h \in Successors(Graph, x) : Depth[h] \in 0..c /\ Depth[h] <= Max(below)
        BY <4>1, <4>3
      <4>6. Max(below) \in 0..c
        BY <4>1, <4>3
      <4> HIDE DEF below, c
      <4>7. /\ Depth[x] \in 0..(c + 1)
            /\ Depth[x] = Depth[g] + 1
            /\ \A h \in Successors(Graph, x) : Depth[h] < Depth[x]
        BY <2>1, <4>2, <4>4, <4>5, <4>6 DEF c
      <4> QED
        BY <3>2, <4>4, <4>7 DEF c
    <3> QED
      BY <3>1, <3>2
  <2>3. \A f \in T : Depth[f] \in 0..(Cardinality(T) + 1) /\ IsRight(f)
    <3>1. \A f \in T : Depth[f] \in 0..Cardinality(T) /\ IsRight(f)
      BY <1>2
    <3> HIDE DEF IsRight
    <3> QED
      BY <2>1, <3>1
  <2>4. \A f \in T \cup {x} : Successors(Graph, f) \subseteq T \cup {x}
    BY <1>2
  <2> HIDE DEF IsRight
  <2> QED
    BY <1>2, <2>1, <2>2, <2>3, <2>4
<1>3. Node \in Ok
  <2>1. IsGraph(Graph) /\ Graph.node = Node /\ Ok \in SUBSET (SUBSET Node)
    BY NodesAreGraph DEF Graph
  <2> HIDE DEF Ok
  <2> QED
    BY <1>1, <1>2, <2>1, GrowsToAllFiles
<1>4. Cardinality(Node) = N
  BY FS_Interval, NAssumption DEF Node
<1> QED
  BY <1>3, <1>4

\* A file is drawn below one that it depends on, one level deeper.
LEMMA ParentIsDeepest ==
  ASSUME OrderInv, IsAcyclic(Graph), NEW f \in Node, Successors(Graph, f) # {}
  PROVE  PrimaryParent(f) \in Successors(Graph, f) /\ Depth[f] = Depth[PrimaryParent(f)] + 1
<1> DEFINE parents == Successors(Graph, f)
           deepest == {g \in parents : \A h \in parents : Depth[h] <= Depth[g]}
<1>1. parents \subseteq Node
  BY DEF Successors, Graph
<1>2. /\ \A g \in parents : Depth[g] \in Nat /\ Depth[g] < Depth[f]
      /\ Depth[f] \in Nat
      /\ \E g \in parents : Depth[f] = Depth[g] + 1
  BY <1>1, DepthsAreRight
<1>3. deepest # {}
  BY <1>2
<1>4. \A g \in deepest : Depth[f] = Depth[g] + 1
  BY <1>2
<1>5. deepest \in SUBSET Nat
  BY <1>1 DEF Node
<1>6. Min(deepest) \in deepest
  <2> HIDE DEF deepest
  <2> QED
    BY <1>3, <1>5, LeastNatural DEF Min
<1>7. PrimaryParent(f) = Min(deepest)
  BY DEF PrimaryParent
<1> QED
  BY <1>4, <1>6, <1>7

\* The levels down to the n-th, by the recursion of TreeLevel.
AreLevels(L, n) ==
  L = [i \in 0..n |->
         IF i = 0 THEN {f \in Node : Successors(Graph, f) = {}}
         ELSE {f \in Node : Successors(Graph, f) # {} /\ PrimaryParent(f) \in L[i - 1]}]

LEMMA LevelsExist == AreLevels(TreeLevel, N)
<1> DEFINE roots == {f \in Node : Successors(Graph, f) = {}}
           under(S) == {f \in Node : Successors(Graph, f) # {} /\ PrimaryParent(f) \in S}
           bad == {k \in Nat : ~ \E L : AreLevels(L, k)}
<1>1. bad = {}
  <2> SUFFICES ASSUME bad # {} PROVE FALSE
    OBVIOUS
  <2>1. PICK k \in bad : \A j \in bad : k <= j
    BY LeastNatural
  <2>2. CASE k = 0
    <3> DEFINE L == [i \in 0..0 |-> roots]
    <3>1. AreLevels(L, 0)
      BY DEF AreLevels
    <3> QED
      BY <2>1, <2>2, <3>1
  <2>3. CASE k # 0
    <3>1. k \in Nat /\ k - 1 \in Nat /\ k - 1 \notin bad
      BY <2>1, <2>3
    <3>2. PICK L : AreLevels(L, k - 1)
      BY <3>1
    <3> HIDE DEF roots, under, bad
    <3> DEFINE M == [i \in 0..k |-> IF i < k THEN L[i] ELSE under(L[i - 1])]
    <3>3. ASSUME NEW i \in 0..k
          PROVE  M[i] = IF i = 0 THEN roots ELSE under(M[i - 1])
      <4>1. CASE i < k
        <5>1. i \in 0..(k - 1) /\ M[i] = L[i] /\ (i # 0 => M[i - 1] = L[i - 1])
          BY <2>3, <3>1, <4>1
        <5>2. L[i] = IF i = 0 THEN roots ELSE under(L[i - 1])
          BY <3>2, <5>1 DEF AreLevels, roots, under
        <5> QED
          BY <5>1, <5>2
      <4>2. CASE i = k
        <5>1. M[i] = under(L[i - 1]) /\ M[i - 1] = L[i - 1] /\ i # 0
          BY <2>3, <3>1, <4>2
        <5> QED
          BY <5>1
      <4> HIDE DEF M
      <4> QED
        BY <3>1, <4>1, <4>2
    <3>4. M = [i \in 0..k |-> IF i = 0 THEN roots ELSE under(M[i - 1])]
      <4>1. M = [i \in 0..k |-> M[i]]
        OBVIOUS
      <4> HIDE DEF M
      <4> QED
        BY <3>3, <4>1
    <3>5. AreLevels(M, k)
      BY <3>4 DEF AreLevels, roots, under
    <3> QED
      BY <2>1, <3>5 DEF bad
  <2> QED
    BY <2>2, <2>3
<1>2. \E L : AreLevels(L, N)
  BY <1>1, NAssumption
<1> QED
  BY <1>2 DEF TreeLevel, AreLevels

\* Every file is drawn, on the level of its depth.
LEMMA FilesAreOnTheirLevel ==
  ASSUME OrderInv, IsAcyclic(Graph)
  PROVE  \A f \in Node : f \in TreeLevel[Depth[f]]
<1> DEFINE bad == {k \in 0..N : \E f \in Node : Depth[f] = k /\ f \notin TreeLevel[k]}
<1> SUFFICES ASSUME bad # {} PROVE FALSE
  BY DepthsAreRight
<1>1. PICK k \in bad : \A j \in bad : k <= j
  <2>1. bad \in SUBSET Nat
    OBVIOUS
  <2> QED
    BY <2>1, LeastNatural
<1>2. PICK f \in Node : Depth[f] = k /\ f \notin TreeLevel[k]
  BY <1>1
<1>3. CASE Successors(Graph, f) = {}
  <2>1. k = 0
    BY <1>2, <1>3, DepthsAreRight
  <2> QED
    BY <1>2, <1>3, <2>1, LevelsExist, NAssumption DEF AreLevels
<1>4. CASE Successors(Graph, f) # {}
  <2> DEFINE g == PrimaryParent(f)
  <2>1. g \in Node /\ Depth[f] = Depth[g] + 1
    BY <1>4, ParentIsDeepest DEF Successors, Graph
  <2>2. Depth[g] \in 0..N /\ Depth[g] = k - 1 /\ k # 0
    BY <1>2, <2>1, DepthsAreRight
  <2>3. g \in TreeLevel[k - 1]
    BY <1>1, <2>1, <2>2
  <2>4. f \in TreeLevel[k]
    BY <1>4, <2>2, <2>3, LevelsExist DEF AreLevels
  <2> QED
    BY <1>2, <2>4
<1> QED
  BY <1>3, <1>4

(***************************************************************************)
(* In a repository without a cycle, whatever the files say and however     *)
(* many they are, deps draws every file, and lower than all the files that *)
(* it depends on.                                                          *)
(***************************************************************************)
THEOREM TreeIsAlwaysInOrder == DependenciesSpec => []TreeIsInOrder
<1> DEFINE Inv == SortInv /\ OrderInv /\ (stage = "writing" => sorted = << >>)
<1>1. DependenciesInit => Inv
  BY OrderInit DEF DependenciesInit, SortInit, SortInv, IsSorting
<1>2. Inv /\ [DependenciesNext]_dependencyVars => Inv'
  BY SortInvIsInductive, OrderInvIsInductive, NothingIsSorted
<1>3. Inv => TreeIsInOrder
  <2> SUFFICES ASSUME OrderInv, IsAcyclic(Graph), NEW f \in Node
               PROVE  \E n \in 0..N :
                        /\ f \in TreeLevel[n]
                        /\ \A g \in Successors(Graph, f) :
                             \E m \in 0..N : m < n /\ g \in TreeLevel[m]
    BY DEF TreeIsInOrder
  <2>1. Depth[f] \in 0..N /\ f \in TreeLevel[Depth[f]]
    BY DepthsAreRight, FilesAreOnTheirLevel
  <2>2. \A g \in Successors(Graph, f) :
          Depth[g] \in 0..N /\ Depth[g] < Depth[f] /\ g \in TreeLevel[Depth[g]]
    BY DepthsAreRight, FilesAreOnTheirLevel DEF Successors, Graph
  <2> QED
    BY <2>1, <2>2
<1> QED
  BY <1>1, <1>2, <1>3, PTL DEF DependenciesSpec

-----------------------------------------------------------------------------
(***************************************************************************)
(* A written file is one of the texts of its place, and once the files are *)
(* analyzed the graph is that of their texts: both stay as they are.       *)
(***************************************************************************)
TextInv ==
  /\ vocabulary \in DOMAIN Texts
  /\ Len(text) \in 0..N /\ text \in Seq(ToSet(text))
  /\ \A f \in 1..Len(text) : text[f] \in Texts[vocabulary][f]
  /\ stage # "writing" => IsWritten /\ edge = BuildDependencyGraph

LEMMA TextInvIsInductive ==
  ASSUME TextInv, [DependenciesNext]_dependencyVars
  PROVE  TextInv'
<1>1. CASE WriteFile
  <2>1. PICK t \in Texts[vocabulary][Len(text) + 1] : text' = Append(text, t)
    BY <1>1 DEF WriteFile
  <2>2. text \in Seq(ToSet(text) \cup {t})
    <3>1. ToSet(text) \subseteq ToSet(text) \cup {t}
      OBVIOUS
    <3> QED
      BY <3>1, SeqOfSubset DEF TextInv
  <2>3. /\ Len(text') = Len(text) + 1
        /\ \A f \in 1..Len(text) : text'[f] = text[f]
        /\ text'[Len(text) + 1] = t
        /\ DOMAIN text' = 1..(Len(text) + 1)
    BY <2>1, <2>2
  <2>4. text' \in Seq(ToSet(text'))
    <3>1. Append(text, t) \in Seq(ToSet(text) \cup {t})
      BY <2>2
    <3> QED
      BY <2>1, <3>1, SeqOfItsOwn
  <2>5. \A f \in 1..Len(text') : text'[f] \in Texts[vocabulary][f]
    BY <2>1, <2>3 DEF TextInv
  <2>6. vocabulary' = vocabulary /\ stage' = "writing" /\ Len(text') \in 0..N
    BY <1>1, <2>3, NAssumption DEF WriteFile, TextInv
  <2> QED
    BY <2>4, <2>5, <2>6 DEF TextInv
<1>2. CASE StartDeps \/ StartApply
  <2>1. UNCHANGED <<vocabulary, text>> /\ IsWritten /\ edge' = BuildDependencyGraph
    BY <1>2 DEF StartDeps, StartApply, StartSort, IsWritten
  <2>2. BuildDependencyGraph' = BuildDependencyGraph
    BY <2>1 DEF BuildDependencyGraph, AnalyzeFile
  <2> QED
    BY <2>1, <2>2 DEF TextInv, IsWritten
<1>3. CASE UNCHANGED <<vocabulary, text, edge>> /\ (stage' # "writing" => stage # "writing")
  <2>1. BuildDependencyGraph' = BuildDependencyGraph
    BY <1>3 DEF BuildDependencyGraph, AnalyzeFile
  <2> QED
    BY <1>3, <2>1 DEF TextInv, IsWritten
<1>4. ASSUME DependenciesNext
      PROVE  \/ UNCHANGED <<vocabulary, text, edge>> /\ (stage' # "writing" => stage # "writing")
             \/ WriteFile \/ StartDeps \/ StartApply
  BY <1>4 DEF DependenciesNext, Search, Sort, Shift, Succeed, FailForWant, FailOfItsOwn, PassOver,
              ApplyAgain, repositoryVars, sortVars
<1>5. CASE UNCHANGED dependencyVars
  BY <1>3, <1>5 DEF dependencyVars, repositoryVars, sortVars
<1> QED
  BY <1>1, <1>2, <1>3, <1>4, <1>5

LEMMA TextInit == DependenciesInit => TextInv
<1> SUFFICES ASSUME DependenciesInit PROVE TextInv
  OBVIOUS
<1>1. text = << >> /\ Len(text) = 0 /\ text \in Seq(ToSet(text))
  BY DEF DependenciesInit
<1> QED
  BY <1>1, NAssumption DEF DependenciesInit, TextInv

-----------------------------------------------------------------------------
(* The statements of a file, and what the analysis finds in them           *)

Stmts(f) == Statements(text[f].sql)

\* The statements that a statement at the top of a file stands for.
Parts(s) == IF s.node = "DoStmt" THEN ToSet(s.body) ELSE {s}

IsFileText(sql, dialect) ==
  /\ sql \in Seq(ToSet(sql))
  /\ \A s \in ToSet(sql) :
       /\ IsStatement(s, dialect)
       /\ s.body \in Seq(ToSet(s.body))
       /\ \A i \in ToSet(s.body) : IsStatement(i, dialect)

LEMMA FilesAreTexts ==
  ASSUME TextInv, IsWritten
  PROVE  \A f \in Node : IsFileText(text[f].sql, DialectOf[vocabulary])
BY TextsAssumption DEF TextInv, IsWritten, IsFileText, Node

\* What is executed are the statements of the text, with those in DO blocks.
LEMMA StatementsOfText ==
  ASSUME NEW sql, NEW dialect, IsFileText(sql, dialect)
  PROVE  /\ Statements(sql) \in Seq(ToSet(Statements(sql)))
         /\ ToSet(Statements(sql)) = UNION {Parts(s) : s \in ToSet(sql)}
         /\ \A i \in ToSet(Statements(sql)) : IsStatement(i, dialect)
<1> DEFINE S == UNION {Parts(s) : s \in ToSet(sql)}
           seqs == [i \in DOMAIN sql |-> IF sql[i].node = "DoStmt" THEN sql[i].body ELSE <<sql[i]>>]
           n == Len(sql)
<1>1. sql \in Seq(ToSet(sql)) /\ n \in Nat /\ DOMAIN sql = 1..n
  BY DEF IsFileText
<1>2. ASSUME NEW i \in 1..n
      PROVE  seqs[i] \in Seq(S) /\ ToSet(seqs[i]) = Parts(sql[i])
  <2>1. sql[i] \in ToSet(sql)
    BY <1>1 DEF ToSet
  <2>2. seqs[i] = IF sql[i].node = "DoStmt" THEN sql[i].body ELSE <<sql[i]>>
    BY <1>1
  <2>3. Parts(sql[i]) \subseteq S
    BY <2>1
  <2>4. CASE sql[i].node = "DoStmt"
    <3>1. sql[i].body \in Seq(ToSet(sql[i].body))
      BY <2>1 DEF IsFileText
    <3>2. seqs[i] = sql[i].body /\ Parts(sql[i]) = ToSet(sql[i].body)
      BY <2>2, <2>4 DEF Parts
    <3> HIDE DEF S, seqs
    <3> QED
      BY <2>3, <3>1, <3>2, SeqOfSubset
  <2>5. CASE sql[i].node # "DoStmt"
    <3>1. seqs[i] = <<sql[i]>> /\ Parts(sql[i]) = {sql[i]}
      BY <2>2, <2>5 DEF Parts
    <3> HIDE DEF S, seqs
    <3>2. <<sql[i]>> \in Seq(S) /\ ToSet(<<sql[i]>>) = {sql[i]}
      BY <2>3, <3>1 DEF ToSet
    <3> QED
      BY <3>1, <3>2
  <2> QED
    BY <2>4, <2>5
<1>3. seqs \in Seq(Seq(S)) /\ Len(seqs) = n
  <2>1. seqs = [i \in 1..n |-> seqs[i]]
    BY <1>1
  <2> HIDE DEF seqs, S
  <2> QED
    BY <1>1, <1>2, <2>1
<1>4. IsConcatenation(Statements(sql), seqs, n, S)
  <2>1. Statements(sql) = FlattenSeq(seqs)
    BY DEF Statements
  <2> HIDE DEF seqs, S
  <2> QED
    BY <1>1, <1>3, <2>1, FlattenIsConcatenation
<1>5. ToSet(Statements(sql)) = UNION {ToSet(seqs[i]) : i \in 1..n}
  BY <1>4 DEF IsConcatenation
<1>6. UNION {ToSet(seqs[i]) : i \in 1..n} = S
  <2>1. ToSet(sql) = {sql[i] : i \in 1..n}
    BY <1>1 DEF ToSet
  <2> HIDE DEF seqs
  <2> QED
    BY <1>2, <2>1
<1>7. ASSUME NEW i \in S PROVE IsStatement(i, dialect)
  BY <1>7 DEF Parts, IsFileText
<1> HIDE DEF S, seqs
<1> QED
  BY <1>4, <1>5, <1>6, <1>7 DEF IsConcatenation, S

\* The name of an object in the database.
Name(o) == IF o.type \in Relations THEN [o EXCEPT !.type = "relation"] ELSE o

IsObject(o) == o = [type |-> o.type, name |-> o.name]

\* The analysis takes two objects for the same just if the database does.
LEMMA KeysAreNames ==
  ASSUME NEW o, NEW p, IsObject(o), IsObject(p)
  PROVE  ObjectKey(o) = ObjectKey(p) <=> Name(o) = Name(p)
<1> DEFINE type(x) == IF x.type \in Relations THEN "relation" ELSE x.type
<1>1. ASSUME NEW x, IsObject(x) PROVE Name(x) = [type |-> type(x), name |-> x.name]
  BY <1>1 DEF Name, IsObject
<1>2. Name(o) = [type |-> type(o), name |-> o.name] /\ Name(p) = [type |-> type(p), name |-> p.name]
  BY <1>1
<1>3. /\ ObjectKey(o) = [namespace |-> type(o), name |-> o.name]
      /\ ObjectKey(p) = [namespace |-> type(p), name |-> p.name]
  BY DEF ObjectKey
<1> HIDE DEF type
<1>4. ObjectKey(o) = ObjectKey(p) <=> type(o) = type(p) /\ o.name = p.name
  BY <1>3
<1>5. Name(o) = Name(p) <=> type(o) = type(p) /\ o.name = p.name
  BY <1>2
<1> QED
  BY <1>4, <1>5

LEMMA NamedAreNames == \A S : Named(S) = {Name(o) : o \in S}
BY DEF Named, Name

\* What is found in a statement is what it makes and needs in the database.
LEMMA StatementFacts ==
  ASSUME NEW s, NEW dialect, IsStatement(s, dialect)
  PROVE  /\ AnalyzeStatement(s).creates = IF s.node \in Creating THEN {s.obj} ELSE {}
         /\ Makes(s) = Named(AnalyzeStatement(s).creates \cup s.makes)
         /\ AnalyzeStatement(s).references \subseteq {s.obj} \cup s.refs
         /\ Removes(s) = {} => Named(AnalyzeStatement(s).references) \subseteq Needs(s)
         /\ s.node \in AnalyzedNodes /\ s.needs = {} =>
              Needs(s) \subseteq Named(AnalyzeStatement(s).references)
<1> DEFINE a == AnalyzeStatement(s)
           needed == (IF s.node \in Creating \cup {"DropStmt", "DropRoleStmt"} THEN {} ELSE {s.obj})
                       \cup (IF s.node = "CreateFunctionStmt" /\ "sql" \notin s.marks
                               THEN {} ELSE s.refs)
<1>1. a.creates = IF s.node \in Creating THEN {s.obj} ELSE {}
  BY DEF AnalyzeStatement, CreateTable, CreateIndex, AlterTable, CreateView, Drop, CreateFunction,
         CreateSchemaOrRole, Grant, OnRoles, Nothing, Creating
<1>2. a.references \subseteq {s.obj} \cup s.refs
  BY DEF AnalyzeStatement, CreateTable, CreateIndex, AlterTable, CreateView, Drop, CreateFunction,
         CreateSchemaOrRole, Grant, OnRoles, Nothing, Tables, Roles
<1>3. ASSUME s.node \notin {"DropStmt", "DropRoleStmt"} PROVE a.references \subseteq needed
  BY <1>3 DEF AnalyzeStatement, CreateTable, CreateIndex, AlterTable, CreateView, Drop,
              CreateFunction, CreateSchemaOrRole, Grant, OnRoles, Nothing, Tables, Roles, Creating
<1>4. ASSUME s.node \in AnalyzedNodes PROVE needed \subseteq a.references
  BY <1>4 DEF IsStatement, AnalyzedNodes, AnalyzeStatement, CreateTable, CreateIndex, AlterTable,
              CreateView, Drop, CreateFunction, CreateSchemaOrRole, Grant, OnRoles, Nothing,
              Tables, Roles, Creating
<1> HIDE DEF a
<1>5. Needs(s) = Named(needed \cup s.needs)
  BY DEF Needs
<1>6. Makes(s) = Named(a.creates \cup s.makes)
  BY <1>1 DEF Makes
<1>7. Removes(s) = {} => s.node \notin {"DropStmt", "DropRoleStmt"}
  BY DEF Removes, Named
<1> HIDE DEF needed
<1>8. Removes(s) = {} => Named(a.references) \subseteq Needs(s)
  BY <1>3, <1>5, <1>7, NamedAreNames
<1>9. s.node \in AnalyzedNodes /\ s.needs = {} => Needs(s) \subseteq Named(a.references)
  BY <1>4, <1>5, NamedAreNames
<1> QED
  BY <1>1, <1>2, <1>6, <1>8, <1>9 DEF a

\* The analysis of a text finds nothing but what is in its statements, ...
IsOfStatements(a, statements) ==
  /\ \A c \in a.creates : \E i \in statements : c \in AnalyzeStatement(i).creates
  /\ \A r \in a.references : \E i \in statements : r \in AnalyzeStatement(i).references

\* ... and all of it, except for references to what the text creates.
IsAllOf(a, statements) ==
  \A i \in statements :
    /\ AnalyzeStatement(i).creates \subseteq a.creates
    /\ \A r \in AnalyzeStatement(i).references :
         r \in a.references \/ ObjectKey(r) \in Keys(a.creates)

LEMMA CollectFacts ==
  ASSUME NEW found
  PROVE  /\ Collect(found).creates = UNION {a.creates : a \in found}
         /\ \A r \in Collect(found).references : \E a \in found : r \in a.references
         /\ \A a \in found : \A r \in a.references :
              r \in Collect(found).references \/ ObjectKey(r) \in Keys(Collect(found).creates)
<1> DEFINE creates == UNION {a.creates : a \in found}
           references == {r \in UNION {a.references : a \in found} :
                            ObjectKey(r) \notin Keys(creates)}
<1>1. Collect(found) = [creates |-> creates, references |-> references]
  BY DEF Collect
<1>2. Collect(found).creates = creates /\ Collect(found).references = references
  BY <1>1
<1> QED
  BY <1>2

\* What is found in a statement at the top of a file.
LEMMA PartFacts ==
  ASSUME NEW s, NEW a, a = IF s.node = "DoStmt" THEN AnalyzeDo(s) ELSE AnalyzeStatement(s)
  PROVE  IsOfStatements(a, Parts(s)) /\ IsAllOf(a, Parts(s))
<1>1. CASE s.node # "DoStmt"
  BY <1>1 DEF Parts, IsOfStatements, IsAllOf
<1>2. CASE s.node = "DoStmt"
  <2> DEFINE one(i) == Collect({AnalyzeStatement(i)})
             creates == UNION {AnalyzeStatement(i).creates : i \in ToSet(s.body)}
             references == UNION {one(i).references : i \in ToSet(s.body)}
  <2>1. a = [creates |-> creates, references |-> references] /\ Parts(s) = ToSet(s.body)
    BY <1>2 DEF AnalyzeDo, Parts
  <2>2. a.creates = creates /\ a.references = references
    <3> HIDE DEF creates, references
    <3> QED
      BY <2>1
  <2>3. ASSUME NEW i \in Parts(s)
        PROVE  /\ one(i).creates = AnalyzeStatement(i).creates
               /\ \A r \in one(i).references : r \in AnalyzeStatement(i).references
               /\ \A r \in AnalyzeStatement(i).references :
                    r \in one(i).references \/ ObjectKey(r) \in Keys(one(i).creates)
    <3> DEFINE found == {AnalyzeStatement(i)}
    <3>1. /\ Collect(found).creates = UNION {b.creates : b \in found}
          /\ \A r \in Collect(found).references : \E b \in found : r \in b.references
          /\ \A b \in found : \A r \in b.references :
               r \in Collect(found).references \/ ObjectKey(r) \in Keys(Collect(found).creates)
      <4> HIDE DEF found
      <4> QED
        BY CollectFacts
    <3> QED
      BY <3>1
  <2> HIDE DEF one
  <2>4. IsOfStatements(a, Parts(s))
    BY <2>1, <2>2, <2>3 DEF IsOfStatements
  <2>5. \A i \in Parts(s) : one(i).creates \subseteq a.creates
    BY <2>1, <2>2, <2>3
  <2>6. IsAllOf(a, Parts(s))
    BY <2>1, <2>2, <2>3, <2>5 DEF IsAllOf, Keys
  <2> QED
    BY <2>4, <2>6
<1> QED
  BY <1>1, <1>2

\* In a text that parses everything is found.
LEMMA AnalyzeSqlFacts ==
  ASSUME NEW sql, NEW S, S = UNION {Parts(s) : s \in ToSet(sql)}
  PROVE  /\ IsOfStatements(AnalyzeSql(sql), S)
         /\ (\A s \in ToSet(sql) : "psql_variable" \notin s.marks) =>
              IsAllOf(AnalyzeSql(sql), S)
<1>1. CASE \E s \in ToSet(sql) : "psql_variable" \in s.marks
  BY <1>1 DEF AnalyzeSql, Nothing, IsOfStatements
<1>2. CASE ~ \E s \in ToSet(sql) : "psql_variable" \in s.marks
  <2> DEFINE in(s) == IF s.node = "DoStmt" THEN AnalyzeDo(s) ELSE AnalyzeStatement(s)
             found == {in(s) : s \in ToSet(sql)}
             a == Collect(found)
  <2>1. AnalyzeSql(sql) = a
    BY <1>2 DEF AnalyzeSql
  <2>2. \A s \in ToSet(sql) : IsOfStatements(in(s), Parts(s)) /\ IsAllOf(in(s), Parts(s))
    BY PartFacts
  <2> HIDE DEF in
  <2>3. /\ a.creates = UNION {b.creates : b \in found}
        /\ \A r \in a.references : \E b \in found : r \in b.references
        /\ \A b \in found : \A r \in b.references :
             r \in a.references \/ ObjectKey(r) \in Keys(a.creates)
    <3> HIDE DEF found
    <3> QED
      BY CollectFacts
  <2>4. \A s \in ToSet(sql) : in(s).creates \subseteq a.creates
    BY <2>3
  <2>5. \A s \in ToSet(sql) : \A r \in in(s).references :
          r \in a.references \/ ObjectKey(r) \in Keys(a.creates)
    BY <2>3
  <2>6. IsOfStatements(a, S)
    BY <2>2, <2>3 DEF IsOfStatements
  <2> HIDE DEF a
  <2>7. \A s \in ToSet(sql) : Keys(in(s).creates) \subseteq Keys(a.creates)
    BY <2>4 DEF Keys
  <2>8. IsAllOf(a, S)
    BY <2>2, <2>4, <2>5, <2>7 DEF IsAllOf
  <2> QED
    BY <2>1, <2>6, <2>8
<1> QED
  BY <1>1, <1>2

\* So it is for MySQL and SQLite, where all statements are of the kinds looked at.
LEMMA AnalyzeGenericSqlFacts ==
  ASSUME NEW sql, NEW dialect, IsFileText(sql, dialect), dialect # "postgresql",
         NEW S, S = UNION {Parts(s) : s \in ToSet(sql)}
  PROVE  /\ IsOfStatements(AnalyzeGenericSql(sql), S)
         /\ (\A s \in ToSet(sql) : s.node \in GenericNodes) => IsAllOf(AnalyzeGenericSql(sql), S)
<1> DEFINE some == {s \in ToSet(sql) : s.node \in GenericNodes}
           found == {AnalyzeStatement(s) : s \in some}
           creates == UNION {b.creates : b \in found}
           references == {r \in UNION {b.references : b \in found} :
                            r.name \notin {t.name : t \in Tables(creates)}}
           a == AnalyzeGenericSql(sql)
<1>1. a = [creates |-> creates, references |-> references]
  BY DEF AnalyzeGenericSql
<1>2. a.creates = creates /\ a.references = references
  BY <1>1
<1> HIDE DEF a
<1>3. \A s \in some : Parts(s) = {s} /\ s \in S
  BY DEF Parts, GenericNodes
<1>4. IsOfStatements(a, S)
  BY <1>2, <1>3 DEF IsOfStatements
<1>5. ASSUME \A s \in ToSet(sql) : s.node \in GenericNodes,
             NEW i \in S, NEW r \in AnalyzeStatement(i).references
      PROVE  r \in a.references \/ ObjectKey(r) \in Keys(a.creates)
  <2>1. i \in some
    BY <1>3, <1>5
  <2>2. r.type \in Relations
    <3>1. IsStatement(i, dialect)
      BY <2>1 DEF IsFileText
    <3>2. r \in {i.obj} \cup i.refs
      BY <3>1, StatementFacts
    <3>3. i.obj.type \in Relations /\ i.refs = Tables(i.refs)
      BY <2>1, <3>1 DEF IsStatement
    <3>4. \A x \in Tables(i.refs) : x.type \in Relations
      BY DEF Tables, Relations
    <3> QED
      BY <3>2, <3>3, <3>4
  <2>3. SUFFICES ASSUME r \notin a.references PROVE ObjectKey(r) \in Keys(a.creates)
    OBVIOUS
  <2>4. r \in UNION {b.references : b \in found}
    BY <2>1
  <2>5. PICK t \in Tables(creates) : r.name = t.name
    BY <1>2, <2>3, <2>4
  <2>6. t \in creates /\ t.type \in Relations
    BY <2>5 DEF Tables, Relations
  <2>7. ObjectKey(t) = ObjectKey(r)
    BY <2>2, <2>5, <2>6 DEF ObjectKey
  <2> QED
    BY <1>2, <2>6, <2>7 DEF Keys
<1>6. ASSUME \A s \in ToSet(sql) : s.node \in GenericNodes, NEW i \in S
      PROVE  AnalyzeStatement(i).creates \subseteq a.creates
  BY <1>2, <1>3, <1>6
<1> QED
  BY <1>4, <1>5, <1>6 DEF IsAllOf, a

Found(f) == AnalyzeFile(text[f].sql)

LEMMA FileFacts ==
  ASSUME TextInv, IsWritten, NEW f \in Node
  PROVE  /\ Stmts(f) \in Seq(ToSet(Stmts(f)))
         /\ \A i \in ToSet(Stmts(f)) : IsStatement(i, DialectOf[vocabulary])
         /\ IsOfStatements(Found(f), ToSet(Stmts(f)))
         /\ IsSeen(f) => IsAllOf(Found(f), ToSet(Stmts(f)))
<1> DEFINE sql == text[f].sql
           dialect == DialectOf[vocabulary]
           S == ToSet(Statements(sql))
<1>1. IsFileText(sql, dialect)
  BY FilesAreTexts
<1>2. /\ Statements(sql) \in Seq(S) /\ S = UNION {Parts(s) : s \in ToSet(sql)}
      /\ \A i \in S : IsStatement(i, dialect)
  <2> HIDE DEF sql, dialect
  <2> QED
    BY <1>1, StatementsOfText
<1>3. Found(f) = IF dialect = "postgresql" THEN AnalyzeSql(sql) ELSE AnalyzeGenericSql(sql)
  BY DEF Found, AnalyzeFile
<1>4. IsSeen(f) => /\ \A s \in ToSet(sql) : "psql_variable" \notin s.marks
                   /\ dialect # "postgresql" => \A s \in ToSet(sql) : s.node \in GenericNodes
  BY DEF IsSeen
<1>5. Stmts(f) = Statements(sql)
  BY DEF Stmts
<1> HIDE DEF sql, dialect, S
<1>6. IsOfStatements(Found(f), S) /\ (IsSeen(f) => IsAllOf(Found(f), S))
  <2>1. CASE dialect = "postgresql"
    BY <1>2, <1>3, <1>4, <2>1, AnalyzeSqlFacts
  <2>2. CASE dialect # "postgresql"
    BY <1>1, <1>2, <1>3, <1>4, <2>2, AnalyzeGenericSqlFacts
  <2> QED
    BY <2>1, <2>2
<1> QED
  BY <1>2, <1>5, <1>6 DEF S, dialect

\* The files that create the object of a key.
Creators(key) == {f \in Node : key \in Keys(Found(f).creates)}

LEMMA CreatorIsOne ==
  ASSUME NEW key
  PROVE  CreatorOf([f \in Node |-> Found(f)], key) \subseteq Creators(key)
         /\ (Creators(key) # {} => CreatorOf([f \in Node |-> Found(f)], key) # {})
<1> DEFINE analyses == [f \in Node |-> Found(f)]
           creators == {f \in DOMAIN analyses : key \in Keys(analyses[f].creates)}
<1>1. creators = Creators(key)
  BY DEF Creators
<1>2. CreatorOf(analyses, key) = IF creators = {} THEN {} ELSE {Max(creators)}
  BY DEF CreatorOf
<1>3. Creators(key) \in SUBSET (0..N)
  BY NAssumption DEF Creators, Node
<1>4. Creators(key) # {} => Max(Creators(key)) \in Creators(key)
  BY <1>3, NAssumption, MaxOfNumbers
<1> HIDE DEF analyses, creators
<1>5. /\ CreatorOf(analyses, key) \subseteq Creators(key)
      /\ Creators(key) # {} => CreatorOf(analyses, key) # {}
  BY <1>1, <1>2, <1>4
<1> QED
  BY <1>5 DEF analyses

IsReference(f, g) ==
  \E r \in Found(f).references : g \in CreatorOf([h \in Node |-> Found(h)], ObjectKey(r))

\* The edges of the graph are the references and the dependencies that are declared.
LEMMA EdgesAre ==
  ASSUME NEW f \in Node, NEW g \in Node
  PROVE  <<f, g>> \in BuildDependencyGraph <=>
           f # g /\ ( \/ IsReference(f, g)
                      \/ g \in DeclaredTargets(Node, text[f], ExpandOf)
                      \/ <<f, g>> \in Configured )
<1> DEFINE analyses == [h \in Node |-> Found(h)]
           found == [h \in Node |-> UNION {CreatorOf(analyses, ObjectKey(r)) : r \in analyses[h].references}]
           IsEdge(e) == e[1] # e[2] /\ ( \/ e[2] \in found[e[1]]
                                         \/ e[2] \in DeclaredTargets(Node, text[e[1]], ExpandOf)
                                         \/ e \in Configured )
<1>1. DOMAIN analyses = Node
  OBVIOUS
<1>2. BuildDependencyGraph = {e \in Node \X Node : IsEdge(e)}
  BY DEF BuildDependencyGraph, BuildEdges, Found
<1>3. <<f, g>> \in BuildDependencyGraph <=> IsEdge(<<f, g>>)
  <2> HIDE DEF IsEdge
  <2> QED
    BY <1>2
<1>4. g \in found[f] <=> IsReference(f, g)
  BY DEF IsReference
<1> HIDE DEF found
<1> QED
  BY <1>3, <1>4

LEMMA CreatesAreMade ==
  ASSUME TextInv, IsWritten, NEW h \in Node, NEW r, IsObject(r), h \in Creators(ObjectKey(r))
  PROVE  Name(r) \in MadeBy(h)
<1>1. PICK c \in Found(h).creates : ObjectKey(c) = ObjectKey(r)
  BY DEF Creators, Keys
<1>2. PICK i \in ToSet(Stmts(h)) : c \in AnalyzeStatement(i).creates
  BY FileFacts DEF IsOfStatements
<1>3. IsStatement(i, DialectOf[vocabulary])
  BY <1>2, FileFacts
<1>4. c = i.obj /\ Name(c) \in Makes(i)
  BY <1>2, <1>3, StatementFacts, NamedAreNames
<1>5. IsObject(c)
  BY <1>3, <1>4 DEF IsStatement, IsObject
<1>6. Name(c) = Name(r)
  BY <1>1, <1>5, KeysAreNames
<1> QED
  BY <1>2, <1>4, <1>6 DEF MadeBy, Stmts

LEMMA ReferencesAreNeeded ==
  ASSUME TextInv, IsWritten, NothingIsDropped, NEW f \in Node, NEW r \in Found(f).references
  PROVE  IsObject(r) /\ \E s \in ToSet(Stmts(f)) : Name(r) \in Needs(s)
<1>1. PICK s \in ToSet(Stmts(f)) : r \in AnalyzeStatement(s).references
  BY FileFacts DEF IsOfStatements
<1>2. IsStatement(s, DialectOf[vocabulary])
  BY <1>1, FileFacts
<1>3. Removes(s) = {}
  BY <1>1 DEF NothingIsDropped, Stmts
<1>4. Name(r) \in Needs(s)
  BY <1>1, <1>2, <1>3, StatementFacts, NamedAreNames
<1>5. IsObject(r)
  BY <1>1, <1>2, StatementFacts DEF IsStatement, IsObject
<1> QED
  BY <1>1, <1>4, <1>5

\* Files that can be executed one after the other need nothing of later ones.
LEMMA EarlierFilesServe ==
  ASSUME TextInv, IsWritten, NothingIsDropped, WorksInOrder,
         NEW f \in Node, NEW s \in ToSet(Stmts(f))
  PROVE  Needs(s) \subseteq UNION {MadeBy(h) : h \in 1..f}
<1> DEFINE seqs == [h \in Node |-> Stmts(h)]
           S == UNION {ToSet(Stmts(h)) : h \in Node}
           all == FlattenSeq(seqs)
           n == Len(all)
<1>0. 1..f \subseteq Node
  BY NAssumption DEF Node
<1>1. seqs \in Seq(Seq(S)) /\ Len(seqs) = N /\ f \in 1..N
  <2>1. ASSUME NEW h \in Node PROVE Stmts(h) \in Seq(S)
    <3>1. Stmts(h) \in Seq(ToSet(Stmts(h))) /\ ToSet(Stmts(h)) \subseteq S
      BY FileFacts
    <3> HIDE DEF S
    <3> QED
      BY <3>1, SeqOfSubset
  <2> HIDE DEF S
  <2> QED
    BY <2>1, NAssumption DEF Node
<1>2. IsConcatenation(all, seqs, N, S)
  <2> HIDE DEF seqs, S
  <2> QED
    BY <1>1, NAssumption, FlattenIsConcatenation
<1>3. all \in Seq(S) /\ n \in Nat /\ DOMAIN all = 1..n
  <2>1. all \in Seq(S)
    BY <1>2 DEF IsConcatenation
  <2> HIDE DEF all, S
  <2> QED
    BY <2>1
<1>4. \A i \in 1..n : Removes(all[i]) = {}
  <2>1. \A i \in 1..n : all[i] \in S
    <3> HIDE DEF all, S
    <3> QED
      BY <1>3
  <2> QED
    BY <2>1 DEF NothingIsDropped, Stmts
<1>5. IsServed({}, all, n)
  <2>1. ~RunStatements({}, all).failed
    BY DEF WorksInOrder, Stmts
  <2> HIDE DEF all
  <2> QED
    BY <1>3, <1>4, <2>1, RunFacts
<1>6. PICK j \in 1..Len(seqs[f]) : seqs[f][j] = s
  <2>1. seqs[f] = Stmts(f) /\ Stmts(f) \in Seq(ToSet(Stmts(f)))
    BY FileFacts
  <2> HIDE DEF seqs
  <2> QED
    BY <2>1 DEF ToSet
<1>7. PICK p \in 1..n : IsPlace(all, seqs, f, j, p)
  BY <1>1, <1>2 DEF IsConcatenation
<1>8. all[p] = s
  BY <1>6, <1>7 DEF IsPlace
<1>9. Needs(s) \subseteq {} \cup MadeUpTo(all, p - 1)
  <2> HIDE DEF all
  <2> QED
    BY <1>5, <1>8 DEF IsServed
<1>10. ASSUME NEW q \in 1..(p - 1)
       PROVE  Makes(all[q]) \subseteq UNION {MadeBy(h) : h \in 1..f}
  <2>1. PICK h \in 1..f : \E l \in 1..Len(seqs[h]) : all[q] = seqs[h][l]
    BY <1>7 DEF IsPlace
  <2>2. h \in Node /\ seqs[h] = Stmts(h) /\ Stmts(h) \in Seq(ToSet(Stmts(h)))
    <3>1. h \in Node
      BY <1>0
    <3> QED
      BY <3>1, FileFacts
  <2> HIDE DEF seqs, all
  <2>3. all[q] \in ToSet(Stmts(h))
    BY <2>1, <2>2 DEF ToSet
  <2> QED
    BY <2>1, <2>3 DEF MadeBy, Stmts
<1> HIDE DEF all
<1> QED
  BY <1>9, <1>10 DEF MadeUpTo

IsInOrder ==
  IsWritten /\ WorksInOrder /\ IsMadeOnce /\ NothingIsDropped
    /\ (\A f \in Node : DeclaredTargets(Node, text[f], ExpandOf) \subseteq 1..f)
    /\ Configured = {}

\* Then files depend on earlier ones only.
LEMMA EdgesLeadBack ==
  ASSUME TextInv, IsInOrder, NEW f \in Node, NEW g \in Node, <<f, g>> \in BuildDependencyGraph
  PROVE  g < f
<1>1. f # g /\ f \in Nat /\ g \in Nat
  BY EdgesAre DEF Node
<1>2. CASE g \in DeclaredTargets(Node, text[f], ExpandOf)
  BY <1>1, <1>2 DEF IsInOrder
<1>3. CASE IsReference(f, g)
  <2>1. PICK r \in Found(f).references :
          g \in CreatorOf([h \in Node |-> Found(h)], ObjectKey(r))
    BY <1>3 DEF IsReference
  <2>2. g \in Creators(ObjectKey(r))
    BY <2>1, CreatorIsOne
  <2>3. PICK s \in ToSet(Stmts(f)) : IsObject(r) /\ Name(r) \in Needs(s)
    BY <2>1, ReferencesAreNeeded DEF IsInOrder
  <2>4. Name(r) \in MadeBy(g)
    BY <2>2, <2>3, CreatesAreMade DEF IsInOrder
  <2>5. PICK h \in 1..f : Name(r) \in MadeBy(h)
    BY <2>3, EarlierFilesServe DEF IsInOrder
  <2>6. h \in Node
    BY NAssumption DEF Node
  <2>7. h = g
    BY <2>4, <2>5, <2>6 DEF IsInOrder, IsMadeOnce
  <2> QED
    BY <1>1, <2>5, <2>7
<1> QED
  BY <1>2, <1>3, EdgesAre DEF IsInOrder

LEMMA HistoryStep ==
  ASSUME SortInv, OrderInv, TextInv, ~IsSorting => sorted = << >>, HistoryKeepsItsOrder,
         [DependenciesNext]_dependencyVars
  PROVE  HistoryKeepsItsOrder' /\ (~IsSorting => sorted = << >>)'
<1>1. CASE sorted' = << >>
  BY <1>1 DEF HistoryKeepsItsOrder
<1>2. CASE Sort
  <2>1. SUFFICES ASSUME IsInOrder, NEW i \in DOMAIN sorted' PROVE sorted'[i] = i
    <3>1. UNCHANGED <<vocabulary, text>> /\ IsSorting'
      BY <1>2 DEF Sort, repositoryVars, IsSorting
    <3>2. IsWritten' = IsWritten /\ WorksInOrder' = WorksInOrder /\ IsMadeOnce' = IsMadeOnce
          /\ NothingIsDropped' = NothingIsDropped
      BY <3>1 DEF IsWritten, WorksInOrder, IsMadeOnce, MadeBy, NothingIsDropped
    <3> QED
      BY <3>1, <3>2 DEF HistoryKeepsItsOrder, IsInOrder
  <2> DEFINE k == Len(sorted)
  <2>2. IsSorting /\ Shift /\ k \in Nat /\ DOMAIN sorted = 1..k /\ \A j \in 1..k : sorted[j] = j
    BY <1>2, <2>1 DEF Sort, IsSorting, OrderInv, HistoryKeepsItsOrder, IsInOrder
  <2>3. Emitted = 1..k /\ queue = Ready(Graph, Node \ Emitted) /\ Least \in queue
    <3>1. queue = Ready(Graph, Node \ Emitted) /\ queue # {}
      BY <2>2 DEF SortInv, Shift
    <3> QED
      BY <2>2, <3>1, LeastInQueue DEF Emitted, Ready
  <2>4. Least \in Node \ 1..k /\ k + 1 \in Node \ 1..k
    BY <2>2, <2>3, NAssumption DEF Ready, Node
  <2>5. k + 1 \in queue
    <3>1. edge = BuildDependencyGraph
      BY <2>2 DEF TextInv, IsSorting
    <3>2. \A g \in Successors(Graph, k + 1) : g \in Node /\ g < k + 1
      BY <2>1, <2>4, <3>1, EdgesLeadBack DEF Successors, Graph
    <3>3. Successors(Graph, k + 1) \cap (Node \ 1..k) = {}
      BY <2>2, <3>2 DEF Node
    <3> QED
      BY <2>3, <2>4, <3>3 DEF Ready
  <2>6. Least <= k + 1
    <3>1. queue \in SUBSET Nat
      BY <2>3, NAssumption DEF Ready, Node
    <3> QED
      BY <2>5, <3>1, LeastNatural DEF Least
  <2>7. Least = k + 1
    BY <2>2, <2>4, <2>6 DEF Node
  <2>8. /\ i \in 1..(k + 1) /\ sorted'[k + 1] = Least
        /\ \A j \in 1..k : sorted'[j] = sorted[j]
    BY <2>1, <2>2 DEF Shift, OrderInv
  <2> QED
    BY <2>2, <2>7, <2>8
<1>3. CASE UNCHANGED <<vocabulary, text, sorted>> /\ IsSorting' = IsSorting
  <2>1. IsWritten' = IsWritten /\ WorksInOrder' = WorksInOrder /\ IsMadeOnce' = IsMadeOnce
        /\ NothingIsDropped' = NothingIsDropped
    BY <1>3 DEF IsWritten, WorksInOrder, IsMadeOnce, MadeBy, NothingIsDropped
  <2> QED
    BY <1>3, <2>1 DEF HistoryKeepsItsOrder
<1>4. ASSUME DependenciesNext
      PROVE  sorted' = << >> \/ Sort
             \/ (UNCHANGED <<vocabulary, text, sorted>> /\ IsSorting' = IsSorting)
  BY <1>4 DEF DependenciesNext, WriteFile, StartDeps, Search, StartApply, StartSort, Succeed,
              FailForWant, FailOfItsOwn, PassOver, ApplyAgain, IsSorting, repositoryVars,
              databaseVars, sortVars, SortIsDone, IsDue
<1>5. CASE UNCHANGED dependencyVars
  BY <1>3, <1>5 DEF dependencyVars, repositoryVars, sortVars, IsSorting
<1>6. IsSorting' \/ sorted' = << >>
  <2>1. CASE Sort
    BY <2>1 DEF Sort, repositoryVars, IsSorting
  <2> QED
    BY <1>3, <1>4, <1>5, <2>1 DEF dependencyVars, repositoryVars, sortVars, IsSorting
<1> QED
  BY <1>1, <1>2, <1>3, <1>4, <1>5, <1>6

(***************************************************************************)
(* Whatever number of files and whatever they say: if the authors could    *)
(* execute them in the order of their names, each object is made in one    *)
(* file, nothing is dropped and nothing later is declared, all references  *)
(* that the analysis finds lead back, so that topologicalSort, which takes *)
(* the first ready file by name, returns the order of the names.           *)
(***************************************************************************)
THEOREM HistoryAlwaysKeepsItsOrder == DependenciesSpec => []HistoryKeepsItsOrder
<1> DEFINE Inv == /\ SortInv /\ OrderInv /\ TextInv
                  /\ (stage = "writing" => sorted = << >>)
                  /\ (~IsSorting => sorted = << >>)
                  /\ HistoryKeepsItsOrder
<1>1. DependenciesInit => Inv
  <2>1. DependenciesInit => sorted = << >> /\ HistoryKeepsItsOrder
    BY DEF DependenciesInit, SortInit, HistoryKeepsItsOrder
  <2> QED
    BY <2>1, OrderInit, TextInit DEF DependenciesInit, SortInv, IsSorting
<1>2. Inv /\ [DependenciesNext]_dependencyVars => Inv'
  BY SortInvIsInductive, OrderInvIsInductive, NothingIsSorted, TextInvIsInductive, HistoryStep
<1> QED
  BY <1>1, <1>2, PTL DEF DependenciesSpec

-----------------------------------------------------------------------------
(* The passes of apply *)

IsSound ==
  /\ IsWritten /\ (\A f \in Node : IsSeen(f)) /\ IsMadeOnce /\ NothingIsDropped /\ IsComplete
  /\ IsAcyclic(Graph)

\* The statements of a file, as RunFacts takes them.
LEMMA StatementsRun ==
  ASSUME TextInv, IsWritten, NothingIsDropped, NEW f \in Node
  PROVE  /\ Len(Stmts(f)) \in Nat /\ DOMAIN Stmts(f) = 1..Len(Stmts(f))
         /\ \A i \in 1..Len(Stmts(f)) : Stmts(f)[i] \in ToSet(Stmts(f)) /\ Removes(Stmts(f)[i]) = {}
         /\ MadeUpTo(Stmts(f), Len(Stmts(f))) = MadeBy(f)
<1> DEFINE st == Stmts(f)
           n == Len(st)
<1>1. st \in Seq(ToSet(st))
  BY FileFacts
<1> HIDE DEF st
<1>2. n \in Nat /\ DOMAIN st = 1..n /\ ToSet(st) = {st[i] : i \in 1..n}
  BY <1>1 DEF ToSet
<1>3. \A s \in ToSet(st) : Removes(s) = {}
  BY DEF NothingIsDropped, st, Stmts
<1>4. MadeBy(f) = UNION {Makes(s) : s \in ToSet(st)}
  BY DEF MadeBy, st, Stmts
<1> QED
  BY <1>2, <1>3, <1>4 DEF MadeUpTo, st

\* What a file needs and does not make comes from files that it depends on.
LEMMA NeedsAreEdges ==
  ASSUME TextInv, IsSound, edge = BuildDependencyGraph, NEW f \in Node,
         NEW s \in ToSet(Stmts(f)), NEW x \in Needs(s), NEW g \in Node \ {f}, x \in MadeBy(g)
  PROVE  g \in Successors(Graph, f)
<1>1. PICK r \in AnalyzeStatement(s).references : x = Name(r) /\ IsObject(r)
  <2>1. IsStatement(s, DialectOf[vocabulary])
    BY FileFacts DEF IsSound
  <2>2. s.node \in AnalyzedNodes /\ s.needs = {}
    BY DEF IsSound, IsSeen, Stmts
  <2>3. PICK r \in AnalyzeStatement(s).references : x = Name(r)
    <3>1. Needs(s) \subseteq Named(AnalyzeStatement(s).references)
      BY <2>1, <2>2, StatementFacts
    <3> QED
      BY <3>1, NamedAreNames
  <2>4. IsObject(r)
    BY <2>1, StatementFacts DEF IsStatement, IsObject
  <2> QED
    BY <2>3, <2>4
<1> DEFINE key == ObjectKey(r)
<1>2. g \in Creators(key)
  <2>1. PICK i \in ToSet(Stmts(g)) : x \in Makes(i)
    BY DEF MadeBy, Stmts
  <2>2. IsStatement(i, DialectOf[vocabulary])
    BY <2>1, FileFacts DEF IsSound
  <2>3. Needs(s) \cap Named(i.makes) = {}
    BY <2>1 DEF IsSound, IsSeen, Stmts
  <2>4. PICK c \in AnalyzeStatement(i).creates : x = Name(c)
    <3>1. Makes(i) = Named(AnalyzeStatement(i).creates \cup i.makes)
      BY <2>2, StatementFacts
    <3>2. x \notin Named(i.makes)
      BY <2>3
    <3> QED
      BY <2>1, <3>1, <3>2, NamedAreNames
  <2>5. IsObject(c)
    BY <2>2, <2>4, StatementFacts DEF IsStatement, IsObject
  <2>6. ObjectKey(c) = key
    BY <1>1, <2>4, <2>5, KeysAreNames
  <2>7. c \in Found(g).creates
    BY <2>1, <2>4, FileFacts DEF IsSound, IsAllOf
  <2> QED
    BY <2>6, <2>7 DEF Creators, Keys
<1>3. ASSUME NEW h \in Creators(key) PROVE h = g
  <2>1. h \in Node /\ Name(r) \in MadeBy(h)
    BY <1>1, <1>3, CreatesAreMade DEF IsSound, Creators
  <2> QED
    BY <1>1, <2>1 DEF IsSound, IsMadeOnce
<1>4. r \in Found(f).references
  <2>1. r \in Found(f).references \/ key \in Keys(Found(f).creates)
    BY <1>1, FileFacts DEF IsSound, IsAllOf
  <2>2. key \notin Keys(Found(f).creates)
    BY <1>3 DEF Creators
  <2> QED
    BY <2>1, <2>2
<1>5. g \in CreatorOf([h \in Node |-> Found(h)], key)
  BY <1>2, <1>3, CreatorIsOne
<1>6. IsReference(f, g)
  BY <1>4, <1>5 DEF IsReference
<1>7. <<f, g>> \in edge
  BY <1>6, EdgesAre
<1> QED
  BY <1>7 DEF Successors, Graph

\* So a file does not fail when those it depends on are executed.
LEMMA FileIsServed ==
  ASSUME TextInv, IsSound, edge = BuildDependencyGraph, NEW f \in Node,
         NEW d, \A g \in Successors(Graph, f) : MadeBy(g) \subseteq d
  PROVE  ~RunStatements(d, Stmts(f)).failed
<1> DEFINE st == Stmts(f)
           n == Len(st)
           others == UNION {MadeBy(g) : g \in Node \ {f}}
<1>1. /\ n \in Nat /\ DOMAIN st = 1..n
      /\ \A i \in 1..n : st[i] \in ToSet(st) /\ Removes(st[i]) = {}
  BY StatementsRun DEF IsSound
<1>2. ~RunStatements(others, st).failed
  BY DEF IsSound, IsComplete, Stmts
<1>3. ASSUME NEW i \in 1..n, NEW x \in Needs(st[i]), x \in others
      PROVE  x \in d
  <2>1. PICK g \in Node \ {f} : x \in MadeBy(g)
    BY <1>3
  <2>2. g \in Successors(Graph, f)
    BY <1>1, <1>3, <2>1, NeedsAreEdges
  <2> QED
    BY <2>1, <2>2
<1> HIDE DEF st, others
<1>4. IsServed(others, st, n)
  BY <1>1, <1>2, RunFacts
<1>5. IsServed(d, st, n)
  BY <1>3, <1>4 DEF IsServed
<1> QED
  BY <1>1, <1>5, RunFacts DEF st

(***************************************************************************)
(* Behind each file that a pass has been through, either the file is       *)
(* executed, and what it makes is there, or all files that depend on it    *)
(* are held back.                                                          *)
(***************************************************************************)
PassInv ==
  /\ position \in 0..N
  /\ ~SortIsDone => position = 0 /\ executed = {} /\ blocked = {} /\ lacking = {}
  /\ SortIsDone /\ IsSound =>
       /\ lacking = {}
       /\ \A f \in executed \cap Node : MadeBy(f) \subseteq objects
       /\ \A f \in blocked : TransitiveDependents(Graph, f) \subseteq blocked
       /\ \A i \in 1..position :
            Order[i] \in executed \/ TransitiveDependents(Graph, Order[i]) \subseteq blocked

\* In a graph without a cycle the order is that of the sort.
LEMMA OrderOfSound ==
  ASSUME SortInv, OrderInv, SortIsDone, IsSound, NEW i \in 1..N
  PROVE  /\ Order[i] \in Node
         /\ \A g \in Successors(Graph, Order[i]) : \E j \in 1..(i - 1) : g = Order[j]
<1>1. Len(sorted) = N
  BY LengthTells, EndTellsOfCycle DEF IsSound
<1>2. Order = sorted /\ i \in DOMAIN sorted /\ sorted \in Seq(Node)
  BY <1>1, NAssumption DEF Order, OrderInv
<1>3. sorted[i] \in Node
  BY <1>2
<1>4. Successors(Graph, sorted[i]) \subseteq {sorted[j] : j \in 1..(i - 1)}
  BY <1>2 DEF OrderInv
<1> HIDE DEF Order
<1> QED
  BY <1>2, <1>3, <1>4

\* What a file that is due depends on is there, so that it does not fail for want.
LEMMA DueIsServed ==
  ASSUME SortInv, OrderInv, TextInv, PassInv, IsSound, IsDue
  PROVE  File \in Node /\ ~Outcome.failed
<1> DEFINE i == position + 1
<1>1. i \in 1..N /\ SortIsDone /\ File = Order[i] /\ i - 1 = position
  <2>1. position \in 0..N /\ position < N /\ SortIsDone
    BY DEF PassInv, IsDue
  <2>2. i \in 1..N /\ i - 1 = position
    BY <2>1, NAssumption
  <2> QED
    BY <2>1, <2>2 DEF File
<1>2. File \in Node
  BY <1>1, OrderOfSound
<1>3. edge = BuildDependencyGraph
  BY <1>1 DEF TextInv, SortIsDone
<1>4. ASSUME NEW g \in Successors(Graph, File) PROVE MadeBy(g) \subseteq objects
  <2>1. PICK j \in 1..position : g = Order[j]
    BY <1>1, OrderOfSound
  <2>2. g \in Node /\ File \in Predecessors(Graph, g)
    BY <1>2 DEF Successors, Predecessors, Graph
  <2>3. File \in TransitiveDependents(Graph, g)
    BY <2>2, NodesAreGraph, DependentsAreClosed
  <2>4. File \notin blocked
    BY DEF IsDue
  <2>5. g \in executed
    BY <1>1, <2>1, <2>3, <2>4 DEF PassInv
  <2> QED
    BY <1>1, <2>2, <2>5 DEF PassInv
<1>5. ~RunStatements(objects, Stmts(File)).failed
  BY <1>2, <1>3, <1>4, FileIsServed
<1> QED
  BY <1>2, <1>5 DEF Outcome, Stmts

\* A failure holds back what depends on the file, and what depends on that.
LEMMA BlockingCloses ==
  ASSUME IsGraph(Graph), NEW f, \A h \in blocked : TransitiveDependents(Graph, h) \subseteq blocked,
         NEW h \in blocked \cup TransitiveDependents(Graph, f)
  PROVE  TransitiveDependents(Graph, h) \subseteq blocked \cup TransitiveDependents(Graph, f)
BY DependentsOfDependents

\* Nothing is removed, neither by a file nor by the first statements of one.
LEMMA ObjectsStay ==
  ASSUME TextInv, IsWritten, NothingIsDropped, NEW f \in Node, NEW d,
         NEW k \in 0..Len(Stmts(f))
  PROVE  /\ d \subseteq RunStatements(d, SubSeq(Stmts(f), 1, k)).objects
         /\ d \subseteq RunStatements(d, Stmts(f)).objects
         /\ ~RunStatements(d, Stmts(f)).failed =>
              MadeBy(f) \subseteq RunStatements(d, Stmts(f)).objects
<1> DEFINE st == Stmts(f)
           n == Len(st)
           part == SubSeq(st, 1, k)
<1>1. /\ n \in Nat /\ DOMAIN st = 1..n
      /\ \A i \in 1..n : Removes(st[i]) = {}
      /\ MadeUpTo(st, n) = MadeBy(f)
  BY StatementsRun
<1>2. st \in Seq(ToSet(st))
  BY FileFacts
<1> HIDE DEF st
<1>3. DOMAIN part = 1..k /\ k \in Nat /\ \A i \in 1..k : part[i] = st[i] /\ i \in 1..n
  BY <1>1, <1>2 DEF st
<1>4. \A i \in 1..k : Removes(part[i]) = {}
  BY <1>1, <1>3
<1> HIDE DEF part
<1>5. d \subseteq RunStatements(d, part).objects
  BY <1>3, <1>4, RunFacts
<1>6. /\ d \subseteq RunStatements(d, st).objects
      /\ ~RunStatements(d, st).failed => RunStatements(d, st).objects = d \cup MadeUpTo(st, n)
  BY <1>1, RunFacts
<1> QED
  BY <1>1, <1>5, <1>6 DEF part, st

LEMMA PassInvIsInductive ==
  ASSUME SortInv, OrderInv, TextInv, PassInv, [DependenciesNext]_dependencyVars
  PROVE  PassInv'
<1> DEFINE unchanged == UNCHANGED <<vocabulary, text, sortVars>>
           rest == UNCHANGED <<position, objects, executed, blocked, lacking>>
<1>1. ASSUME ~SortIsDone, UNCHANGED databaseVars PROVE PassInv'
  <2>1. position = 0 /\ executed = {} /\ blocked = {} /\ lacking = {}
    BY <1>1 DEF PassInv
  <2>2. position' = 0 /\ executed' = {} /\ blocked' = {} /\ lacking' = {}
    BY <1>1, <2>1 DEF databaseVars
  <2> QED
    BY <2>2, NAssumption DEF PassInv
<1>2. ASSUME unchanged
      PROVE  /\ IsSound' = IsSound /\ Order' = Order
             /\ \A f : MadeBy(f)' = MadeBy(f)
             /\ \A f : TransitiveDependents(Graph, f)' = TransitiveDependents(Graph, f)
  <2>1. Order' = Order /\ Graph' = Graph
    BY <1>2 DEF Order, Graph, sortVars
  <2>2. \A f : MadeBy(f)' = MadeBy(f)
    BY <1>2 DEF MadeBy
  <2>3. \A f : TransitiveDependents(Graph, f)' = TransitiveDependents(Graph, f)
    BY <2>1
  <2>4. IsSound' = IsSound
    BY <1>2, <2>1 DEF IsSound, IsWritten, IsSeen, IsMadeOnce, MadeBy, NothingIsDropped, IsComplete
  <2> QED
    BY <2>1, <2>2, <2>3, <2>4
<1>3. CASE Succeed
  <2>1. SortIsDone /\ IsDue /\ unchanged /\ SortIsDone'
    BY <1>3 DEF Succeed, IsDue, SortIsDone, repositoryVars, sortVars
  <2>2. position' = position + 1 /\ position' \in 0..N
    BY <1>3, NAssumption DEF Succeed, IsDue, PassInv
  <2>3. ASSUME IsSound
        PROVE  /\ lacking' = {}
               /\ \A f \in executed' \cap Node : MadeBy(f) \subseteq objects'
               /\ \A f \in blocked' : TransitiveDependents(Graph, f) \subseteq blocked'
               /\ \A i \in 1..position' :
                    Order[i] \in executed' \/ TransitiveDependents(Graph, Order[i]) \subseteq blocked'
    <3>1. /\ lacking = {}
          /\ \A f \in executed \cap Node : MadeBy(f) \subseteq objects
          /\ \A f \in blocked : TransitiveDependents(Graph, f) \subseteq blocked
          /\ \A i \in 1..position :
               Order[i] \in executed \/ TransitiveDependents(Graph, Order[i]) \subseteq blocked
      BY <2>1, <2>3 DEF PassInv
    <3>2. File \in Node /\ ~Outcome.failed
      BY <2>1, <2>3, DueIsServed
    <3>3. objects \subseteq objects' /\ MadeBy(File) \subseteq objects'
      <4>1. IsWritten /\ NothingIsDropped /\ 0 \in 0..Len(Stmts(File))
        BY <2>3, <3>2, StatementsRun DEF IsSound
      <4>2. Outcome = RunStatements(objects, Stmts(File)) /\ objects' = Outcome.objects
        BY <1>3 DEF Outcome, Stmts, Succeed
      <4> QED
        BY <3>2, <4>1, <4>2, ObjectsStay
    <3>4. executed' = executed \cup {File} /\ blocked' = blocked /\ lacking' = lacking
      BY <1>3 DEF Succeed
    <3>5. Order[position + 1] = File
      BY DEF File
    <3>6. ASSUME NEW i \in 1..position', i # position + 1 PROVE i \in 1..position
      BY <2>2, <3>6 DEF PassInv
    <3> QED
      BY <2>2, <3>1, <3>3, <3>4, <3>5, <3>6
  <2> QED
    BY <1>2, <2>1, <2>2, <2>3 DEF PassInv
<1>4. CASE FailForWant
  <2>1. SortIsDone /\ IsDue /\ unchanged /\ SortIsDone'
    BY <1>4 DEF FailForWant, IsDue, SortIsDone, repositoryVars, sortVars
  <2>2. position' \in 0..N
    BY <1>4, NAssumption DEF FailForWant, IsDue, PassInv
  <2>3. ~IsSound
    BY <1>4, <2>1, DueIsServed DEF FailForWant
  <2> QED
    BY <1>2, <2>1, <2>2, <2>3 DEF PassInv
<1>5. CASE FailOfItsOwn
  <2>1. SortIsDone /\ IsDue /\ unchanged /\ SortIsDone'
    BY <1>5 DEF FailOfItsOwn, IsDue, SortIsDone, repositoryVars, sortVars
  <2>2. position' = position + 1 /\ position' \in 0..N
    BY <1>5, NAssumption DEF FailOfItsOwn, IsDue, PassInv
  <2>3. ASSUME IsSound
        PROVE  /\ lacking' = {}
               /\ \A f \in executed' \cap Node : MadeBy(f) \subseteq objects'
               /\ \A f \in blocked' : TransitiveDependents(Graph, f) \subseteq blocked'
               /\ \A i \in 1..position' :
                    Order[i] \in executed' \/ TransitiveDependents(Graph, Order[i]) \subseteq blocked'
    <3>1. /\ lacking = {}
          /\ \A f \in executed \cap Node : MadeBy(f) \subseteq objects
          /\ \A f \in blocked : TransitiveDependents(Graph, f) \subseteq blocked
          /\ \A i \in 1..position :
               Order[i] \in executed \/ TransitiveDependents(Graph, Order[i]) \subseteq blocked
      BY <2>1, <2>3 DEF PassInv
    <3>2. File \in Node
      BY <2>1, <2>3, DueIsServed
    <3>3. objects \subseteq objects'
      <4>1. IsWritten /\ NothingIsDropped /\ Len(Stmts(File)) \in Nat
        BY <2>3, <3>2, StatementsRun DEF IsSound
      <4>2. PICK n \in 0..(Len(Stmts(File)) - 1) :
              objects' = RunStatements(objects, SubSeq(Stmts(File), 1, n)).objects
        BY <1>5 DEF FailOfItsOwn, Stmts
      <4>3. n \in 0..Len(Stmts(File))
        BY <4>1, <4>2
      <4> QED
        BY <3>2, <4>1, <4>2, <4>3, ObjectsStay
    <3>4. /\ executed' = executed /\ lacking' = lacking
          /\ blocked' = blocked \cup TransitiveDependents(Graph, File)
      BY <1>5 DEF FailOfItsOwn, BlockDependents
    <3>5. \A f \in blocked' : TransitiveDependents(Graph, f) \subseteq blocked'
      BY <3>1, <3>4, NodesAreGraph, BlockingCloses
    <3>6. Order[position + 1] = File
      BY DEF File
    <3>7. ASSUME NEW i \in 1..position', i # position + 1 PROVE i \in 1..position
      BY <2>2, <3>7 DEF PassInv
    <3> QED
      BY <2>2, <3>1, <3>3, <3>4, <3>5, <3>6, <3>7
  <2> QED
    BY <1>2, <2>1, <2>2, <2>3 DEF PassInv
<1>6. CASE PassOver
  <2>1. SortIsDone /\ unchanged /\ SortIsDone' /\ UNCHANGED <<objects, executed, blocked, lacking>>
    BY <1>6 DEF PassOver, SortIsDone, repositoryVars, sortVars
  <2>2. position' = position + 1 /\ position' \in 0..N
    BY <1>6, NAssumption DEF PassOver, PassInv
  <2>3. ASSUME IsSound, NEW i \in 1..position'
        PROVE  Order[i] \in executed \/ TransitiveDependents(Graph, Order[i]) \subseteq blocked
    <3>1. CASE i = position + 1
      <4>1. Order[i] \in executed \cup blocked
        BY <1>6, <3>1 DEF PassOver, File
      <4> QED
        BY <2>1, <2>3, <4>1 DEF PassInv
    <3>2. CASE i # position + 1
      <4>1. i \in 1..position
        BY <2>2, <3>2 DEF PassInv
      <4> QED
        BY <2>1, <2>3, <4>1 DEF PassInv
    <3> QED
      BY <3>1, <3>2
  <2> QED
    BY <1>2, <2>1, <2>2, <2>3 DEF PassInv
<1>7. CASE ApplyAgain
  <2>1. /\ SortIsDone /\ unchanged /\ SortIsDone' /\ UNCHANGED <<objects, executed, lacking>>
        /\ position' = 0 /\ blocked' = {}
    BY <1>7 DEF ApplyAgain, SortIsDone, sortVars
  <2> QED
    BY <1>2, <2>1, NAssumption DEF PassInv
<1>8. CASE UNCHANGED dependencyVars
  <2>1. unchanged /\ rest /\ SortIsDone' = SortIsDone
    BY <1>8 DEF dependencyVars, repositoryVars, databaseVars, sortVars, SortIsDone
  <2>2. CASE ~SortIsDone
    BY <1>1, <1>8, <2>2 DEF dependencyVars
  <2>3. CASE SortIsDone
    BY <1>2, <2>1, <2>3 DEF PassInv
  <2> QED
    BY <2>2, <2>3
<1>9. ASSUME DependenciesNext
      PROVE  \/ Succeed \/ FailForWant \/ FailOfItsOwn \/ PassOver \/ ApplyAgain
             \/ (~SortIsDone /\ UNCHANGED databaseVars)
  BY <1>9 DEF DependenciesNext, WriteFile, StartDeps, Search, StartApply, Sort, Shift, SortIsDone
<1> QED
  BY <1>1, <1>3, <1>4, <1>5, <1>6, <1>7, <1>8, <1>9

(***************************************************************************)
(* However many files there are, whatever they say as far as the analysis  *)
(* sees it, in whatever order, and whichever of them fail of their own: if *)
(* no file depends on itself, each object is made in one file and none is  *)
(* dropped, then no file is ever executed before what it needs is there.   *)
(***************************************************************************)
THEOREM NothingIsEverLacking == DependenciesSpec => []NothingIsLacking
<1> DEFINE Inv == /\ SortInv /\ OrderInv /\ TextInv /\ PassInv
                  /\ (stage = "writing" => sorted = << >>)
<1>1. DependenciesInit => Inv
  <2>1. DependenciesInit => PassInv
    BY NAssumption DEF DependenciesInit, PassInv
  <2> QED
    BY <2>1, OrderInit, TextInit DEF DependenciesInit, SortInit, SortInv, IsSorting
<1>2. Inv /\ [DependenciesNext]_dependencyVars => Inv'
  BY SortInvIsInductive, OrderInvIsInductive, NothingIsSorted, TextInvIsInductive,
     PassInvIsInductive
<1>3. Inv => NothingIsLacking
  BY DEF PassInv, IsSound, NothingIsLacking
<1> QED
  BY <1>1, <1>2, <1>3, PTL DEF DependenciesSpec
=============================================================================
