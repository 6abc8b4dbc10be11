------------------------------ MODULE DepGraph ------------------------------
(***************************************************************************)
(* The dependency graph of the migration files.  A graph is a record of    *)
(* its nodes (the files on disk) and its edges: <<f, g>> when f depends on *)
(* g.  Both ends of an edge are always files on disk.                      *)
(***************************************************************************)
EXTENDS Graphs

\* findLeafNodes: the files no other file depends on.
LeafNodes(G) == {f \in G.node : Predecessors(G, f) = {}}

\* findTransitiveDependents: the files that depend on f, directly or not.
TransitiveDependents(G, f) ==
  LET reached[S \in SUBSET G.node] ==
        IF AllPredecessors(G, S) \subseteq S THEN S ELSE reached[S \cup AllPredecessors(G, S)]
  IN  reached[Predecessors(G, f)]

\* The files f depends on, directly or not.
TransitiveDependencies(G, f) == {d \in G.node : f \in TransitiveDependents(G, d)}

\* No file depends on itself.
IsAcyclic(G) == \A f \in G.node : f \notin TransitiveDependents(G, f)

\* The files of S none of whose dependencies is in S.
Ready(G, S) == {f \in S : Successors(G, f) \cap S = {}}
=============================================================================
