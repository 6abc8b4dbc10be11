---------------------------- MODULE DetectCycles ----------------------------
(***************************************************************************)
(* detectCycles: a depth-first search that colours files white, gray and   *)
(* black, one step per neighbour.  The order of a file's neighbours is     *)
(* that of its references in the SQL, which may be any.                    *)
(***************************************************************************)
EXTENDS TopologicalSort, SequencesExt

VARIABLES
  colour,  \* of each file
  path,    \* the calls of dfs: a file and its neighbours that are left
  cycles   \* the cycles found

searchVars == <<colour, path, cycles>>

SearchInit == colour = [f \in Node |-> "white"] /\ path = << >> /\ cycles = {}

OnPath == [i \in DOMAIN path |-> path[i].file]

Frame(file) == [file |-> file, left |-> Successors(Graph, file)]

\* The outer loop: the first file that is still white.
SearchFrom(file) ==
  /\ path = << >>
  /\ colour[file] = "white" /\ \A g \in 1..(file - 1) : colour[g] # "white"
  /\ colour' = [colour EXCEPT ![file] = "gray"]
  /\ path' = <<Frame(file)>>
  /\ UNCHANGED cycles

Without(neighbour) ==
  [path EXCEPT ![Len(path)].left = @ \ {neighbour}]

\* Fault: the way to the cycle is taken for a part of it.
CloseCycleWithWay(neighbour) ==
  /\ colour[neighbour] = "gray"
  /\ cycles' = cycles \cup {OnPath \o <<neighbour>>}
  /\ path' = Without(neighbour)
  /\ UNCHANGED colour

\* A neighbour on the path closes a cycle, from its place on the path.
CloseCycle(neighbour) ==
  /\ colour[neighbour] = "gray"
  /\ cycles' = cycles \cup
       {SubSeq(OnPath, SelectInSeq(OnPath, LAMBDA f : f = neighbour), Len(path)) \o <<neighbour>>}
  /\ path' = Without(neighbour)
  /\ UNCHANGED colour

GoOn(neighbour) ==
  /\ colour[neighbour] = "white"
  /\ colour' = [colour EXCEPT ![neighbour] = "gray"]
  /\ path' = Append(Without(neighbour), Frame(neighbour))
  /\ UNCHANGED cycles

PassBy(neighbour) ==
  /\ colour[neighbour] = "black"
  /\ path' = Without(neighbour)
  /\ UNCHANGED <<colour, cycles>>

Return ==
  /\ path # << >> /\ Last(path).left = {}
  /\ colour' = [colour EXCEPT ![Last(path).file] = "black"]
  /\ path' = Front(path)
  /\ UNCHANGED cycles

SearchNext ==
  \/ \E f \in Node : SearchFrom(f)
  \/ path # << >> /\ \E n \in Last(path).left : CloseCycle(n) \/ GoOn(n) \/ PassBy(n)
  \/ Return

IsSearched == path = << >> /\ \A f \in Node : colour[f] # "white"

-----------------------------------------------------------------------------
(***************************************************************************)
(* Each cycle that deps reports is one, and it reports none only if there  *)
(* is none: this is the one command that tells of a cycle, where apply     *)
(* silently goes back to the order of the files.                           *)
(***************************************************************************)
CyclesAreFound ==
  /\ \A c \in cycles : Head(c) = Last(c) /\ \A i \in 1..(Len(c) - 1) : <<c[i], c[i + 1]>> \in edge
  /\ IsSearched => (cycles = {} <=> IsAcyclic(Graph))
=============================================================================
