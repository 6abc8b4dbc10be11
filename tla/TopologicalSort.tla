--------------------------- MODULE TopologicalSort ---------------------------
(***************************************************************************)
(* topologicalSort of deps.ts, one dequeued file per step: Kahn's          *)
(* algorithm with a queue that is sorted before each shift, so that the    *)
(* first ready file in name order comes out.  Files are numbered in name   *)
(* order.                                                                  *)
(***************************************************************************)
EXTENDS DepGraph

CONSTANT N  \* how many files there are

ASSUME NAssumption == N \in Nat

Node == 1..N

VARIABLES
  edge,      \* the dependencies: <<f, g>> when f depends on g
  inDegree,  \* how many dependencies of each file are not in sorted yet
  queue,     \* the files waiting to be emitted
  sorted     \* the files emitted so far

sortVars == <<edge, inDegree, queue, sorted>>

Graph == [node |-> Node, edge |-> edge]

SortInit == edge = {} /\ inDegree = [f \in Node |-> 0] /\ queue = {} /\ sorted = << >>

\* The graph is built, and every file counts its dependencies.
StartSort(edges) ==
  /\ edge' = edges
  /\ inDegree' = [f \in Node |-> Cardinality({e \in edges : e[1] = f})]
  /\ queue' = {f \in Node : inDegree'[f] = 0}
  /\ sorted' = << >>

Least == CHOOSE m \in queue : \A q \in queue : m <= q

\* Fault: a dependent is queued with its first dependency.
ShiftTooEager ==
  /\ queue # {}
  /\ LET dependents == Predecessors(Graph, Least)
     IN  /\ sorted' = Append(sorted, Least)
         /\ inDegree' = [d \in Node |-> IF d \in dependents THEN inDegree[d] - 1
                                                            ELSE inDegree[d]]
         /\ queue' = (queue \ {Least}) \cup dependents
  /\ UNCHANGED edge

\* Fault: the degree is looked at before it is counted down.
ShiftTooLate ==
  /\ queue # {}
  /\ LET dependents == Predecessors(Graph, Least)
     IN  /\ sorted' = Append(sorted, Least)
         /\ inDegree' = [d \in Node |-> IF d \in dependents THEN inDegree[d] - 1
                                                            ELSE inDegree[d]]
         /\ queue' = (queue \ {Least}) \cup {d \in dependents : inDegree[d] = 0}
  /\ UNCHANGED edge

Shift ==
  /\ queue # {}
  /\ LET dependents == Predecessors(Graph, Least)
     IN  /\ sorted' = Append(sorted, Least)
         /\ inDegree' = [d \in Node |-> IF d \in dependents THEN inDegree[d] - 1
                                                            ELSE inDegree[d]]
         /\ queue' = (queue \ {Least}) \cup {d \in dependents : inDegree'[d] = 0}
  /\ UNCHANGED edge

Emitted == {sorted[i] : i \in DOMAIN sorted}

-----------------------------------------------------------------------------
\* A file comes out after everything it depends on, directly or not.
DependenciesFirst ==
  \A i \in DOMAIN sorted :
    TransitiveDependencies(Graph, sorted[i]) \subseteq {sorted[j] : j \in 1..(i - 1)}
=============================================================================
