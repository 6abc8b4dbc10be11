---------------------------- MODULE GraphProofs ----------------------------
(***************************************************************************)
(* What findTransitiveDependents returns, for any finite graph: the least  *)
(* set of files that holds the direct dependents and, with a file, those   *)
(* that depend on it.  Beside that, induction along the dependencies, and  *)
(* what the library's FlattenSeq and Max return.                           *)
(***************************************************************************)
EXTENDS DepGraph, SequencesExt, FiniteSetTheorems, SequenceTheorems, TLAPS

Less == {p \in Nat \X Nat : p[1] < p[2]}

\* A nonempty set of naturals has a least element.
LEMMA LeastNatural ==
  ASSUME NEW S \in SUBSET Nat, S # {}
  PROVE  \E m \in S : \A n \in S : m <= n
<1>1. IsWellFoundedOn(Less, Nat)
  BY NatLessThanWellFounded DEF OpToRel, Less
<1>2. PICK m \in S : \A n \in S : ~(<<n, m>> \in Less)
  BY <1>1, WFMin
<1>3. \A k \in S : ~(k < m)
  BY <1>2 DEF Less
<1> QED
  BY <1>3

IsGraph(G) == IsFiniteSet(G.node) /\ G.edge \subseteq G.node \X G.node

\* A set of files that, with a file, holds those that depend on it.
IsUpward(G, S) == AllPredecessors(G, S) \subseteq S

\* The files in every such set that holds the files of S.
Upward(G, S) == {x \in G.node : \A T \in SUBSET G.node : S \subseteq T /\ IsUpward(G, T) => x \in T}

LEMMA PredecessorsAreNodes ==
  ASSUME NEW G, NEW S
  PROVE  /\ \A n : Predecessors(G, n) \in SUBSET G.node
         /\ AllPredecessors(G, S) \in SUBSET G.node
BY DEF Predecessors, AllPredecessors

LEMMA UpwardIsUpward ==
  ASSUME NEW G, NEW S \in SUBSET G.node
  PROVE  S \subseteq Upward(G, S) /\ Upward(G, S) \in SUBSET G.node /\ IsUpward(G, Upward(G, S))
BY DEF Upward, IsUpward, AllPredecessors, Predecessors

LEMMA UpwardOfUpward ==
  ASSUME NEW G, NEW S \in SUBSET G.node, IsUpward(G, S)
  PROVE  Upward(G, S) = S
BY DEF Upward

LEMMA UpwardOfMore ==
  ASSUME NEW G, NEW S \in SUBSET G.node
  PROVE  Upward(G, S) = Upward(G, S \cup AllPredecessors(G, S))
<1> DEFINE more == S \cup AllPredecessors(G, S)
<1>1. ASSUME NEW T, IsUpward(G, T) PROVE S \subseteq T <=> more \subseteq T
  BY <1>1 DEF IsUpward, AllPredecessors
<1> HIDE DEF more
<1>2. Upward(G, S) = Upward(G, more)
  BY <1>1 DEF Upward
<1> QED
  BY <1>2 DEF more

\* The search and the least upward set agree where the search has less to go.
SearchStep(G, C, S) ==
  IF AllPredecessors(G, S) \subseteq S THEN S ELSE C[S \cup AllPredecessors(G, S)]

LEMMA SearchEnds ==
  ASSUME NEW G, IsGraph(G), NEW C,
         C = [S \in SUBSET G.node |-> SearchStep(G, C, S)],
         NEW S \in SUBSET G.node
  PROVE  C[S] = Upward(G, S)
<1> DEFINE rest(T) == Cardinality(G.node \ T)
           bad == {T \in SUBSET G.node : C[T] # Upward(G, T)}
           sizes == {n \in Nat : \E T \in bad : n = rest(T)}
<1>1. ASSUME NEW T \in SUBSET G.node
      PROVE  IsFiniteSet(G.node \ T) /\ rest(T) \in Nat
  <2>1. IsFiniteSet(G.node \ T)
    BY FS_Difference DEF IsGraph
  <2> QED
    BY <2>1, FS_CardinalityType
<1>2. CASE sizes # {}
  <2>1. PICK n \in sizes : \A m \in sizes : n <= m
    BY <1>2, LeastNatural
  <2>2. PICK T \in bad : n = rest(T)
    OBVIOUS
  <2> DEFINE more == T \cup AllPredecessors(G, T)
  <2>3. T \in SUBSET G.node /\ more \in SUBSET G.node
    BY PredecessorsAreNodes
  <2>4. CASE IsUpward(G, T)
    BY <2>2, <2>3, <2>4, UpwardOfUpward DEF IsUpward, SearchStep
  <2>5. CASE ~IsUpward(G, T)
    <3>1. C[T] = C[more]
      BY <2>3, <2>5 DEF IsUpward, SearchStep
    <3>2. rest(more) < rest(T)
      <4>1. G.node \ more \in SUBSET (G.node \ T) /\ G.node \ more # G.node \ T
        BY <2>3, <2>5 DEF IsUpward
      <4>2. IsFiniteSet(G.node \ T) /\ rest(T) \in Nat /\ rest(more) \in Nat
        BY <1>1, <2>3
      <4>3. rest(more) <= rest(T) /\ rest(more) # rest(T)
        BY <4>1, <4>2, FS_Subset
      <4> QED
        BY <4>2, <4>3
    <3>3. more \in bad
      BY <2>2, <2>3, <3>1, UpwardOfMore
    <3>4. rest(more) \in sizes /\ rest(more) \in Nat /\ n \in Nat
      BY <1>1, <2>3, <3>3
    <3> HIDE DEF rest, sizes
    <3>5. n <= rest(more)
      BY <2>1, <3>4
    <3> QED
      BY <2>2, <3>2, <3>4, <3>5
  <2> QED
    BY <2>4, <2>5
<1>3. CASE sizes = {}
  BY <1>1, <1>3
<1> QED
  BY <1>2, <1>3

LEMMA DependentsAreUpward ==
  ASSUME NEW G, IsGraph(G), NEW f
  PROVE  TransitiveDependents(G, f) = Upward(G, Predecessors(G, f))
<1> DEFINE D == [S \in SUBSET G.node |-> Upward(G, S)]
           step(C) == [S \in SUBSET G.node |-> SearchStep(G, C, S)]
           reached == CHOOSE C : C = step(C)
<1>1. D = step(D)
  <2>1. ASSUME NEW S \in SUBSET G.node PROVE D[S] = SearchStep(G, D, S)
    BY PredecessorsAreNodes, UpwardOfUpward, UpwardOfMore DEF SearchStep, IsUpward
  <2> QED
    BY <2>1
<1>2. reached = step(reached)
  BY <1>1
<1>3. reached[Predecessors(G, f)] = Upward(G, Predecessors(G, f))
  BY <1>2, PredecessorsAreNodes, SearchEnds
<1>4. TransitiveDependents(G, f) = reached[Predecessors(G, f)]
  BY DEF TransitiveDependents, SearchStep
<1> QED
  BY <1>3, <1>4

LEMMA DependentsAreNodes ==
  ASSUME NEW G, IsGraph(G), NEW f
  PROVE  TransitiveDependents(G, f) \in SUBSET G.node
BY DependentsAreUpward DEF Upward

\* The dependents of f are those that depend on f directly, and theirs.
LEMMA DependentsAreClosed ==
  ASSUME NEW G, IsGraph(G), NEW f
  PROVE  /\ Predecessors(G, f) \subseteq TransitiveDependents(G, f)
         /\ \A x \in TransitiveDependents(G, f) :
              Predecessors(G, x) \subseteq TransitiveDependents(G, f)
<1>1. TransitiveDependents(G, f) = Upward(G, Predecessors(G, f))
  BY DependentsAreUpward
<1>2. /\ Predecessors(G, f) \subseteq Upward(G, Predecessors(G, f))
      /\ IsUpward(G, Upward(G, Predecessors(G, f)))
  BY PredecessorsAreNodes, UpwardIsUpward
<1> QED
  BY <1>1, <1>2 DEF IsUpward, AllPredecessors

LEMMA DependentsAreLeast ==
  ASSUME NEW G, IsGraph(G), NEW f, NEW S \in SUBSET G.node,
         Predecessors(G, f) \subseteq S, \A x \in S : Predecessors(G, x) \subseteq S
  PROVE  TransitiveDependents(G, f) \subseteq S
<1>1. IsUpward(G, S)
  BY DEF IsUpward, AllPredecessors
<1> QED
  BY <1>1, DependentsAreUpward DEF Upward

LEMMA DependentsOfDependents ==
  ASSUME NEW G, IsGraph(G), NEW f, NEW x \in TransitiveDependents(G, f)
  PROVE  TransitiveDependents(G, x) \subseteq TransitiveDependents(G, f)
BY DependentsAreNodes, DependentsAreClosed, DependentsAreLeast

\* What f depends on are the files it depends on directly and what those depend on.
LEMMA DependenciesAreLeast ==
  ASSUME NEW G, IsGraph(G), NEW S, \A x \in S : Successors(G, x) \subseteq S,
         NEW f, Successors(G, f) \subseteq S
  PROVE  TransitiveDependencies(G, f) \subseteq S
<1> SUFFICES ASSUME NEW g \in G.node, f \in TransitiveDependents(G, g), g \notin S PROVE FALSE
  BY DEF TransitiveDependencies
<1> DEFINE T == G.node \ (S \cup {f})
<1>1. T \in SUBSET G.node
  OBVIOUS
<1>2. \A x \in T \cup {g} : Predecessors(G, x) \subseteq T
  BY DEF Predecessors, Successors
<1>3. f \notin T
  OBVIOUS
<1> HIDE DEF T
<1>4. TransitiveDependents(G, g) \subseteq T
  BY <1>1, <1>2, DependentsAreLeast
<1> QED
  BY <1>3, <1>4

LEMMA DependenciesStayInside ==
  ASSUME NEW G, IsGraph(G), NEW S, \A x \in S : Successors(G, x) \subseteq S,
         NEW f \in S, NEW g \in TransitiveDependencies(G, f)
  PROVE  g \in S
BY DependenciesAreLeast

\* Where every file of some depends on one of them, some file depends on itself.
LEMMA StuckHasCycle ==
  ASSUME NEW G, IsGraph(G), NEW S \in SUBSET G.node, S # {},
         \A x \in S : Successors(G, x) \cap S # {}
  PROVE  ~IsAcyclic(G)
<1> DEFINE count(x) == Cardinality(TransitiveDependencies(G, x))
           counts == {n \in Nat : \E x \in S : n = count(x)}
<1>1. ASSUME NEW x PROVE IsFiniteSet(TransitiveDependencies(G, x)) /\ count(x) \in Nat
  <2>1. TransitiveDependencies(G, x) \in SUBSET G.node
    BY DEF TransitiveDependencies
  <2>2. IsFiniteSet(TransitiveDependencies(G, x))
    BY <2>1, FS_Subset DEF IsGraph
  <2> QED
    BY <2>2, FS_CardinalityType
<1>2. counts \in SUBSET Nat /\ counts # {}
  BY <1>1
<1>3. PICK n \in counts : \A m \in counts : n <= m
  BY <1>2, LeastNatural
<1>4. PICK x \in S : n = count(x)
  OBVIOUS
<1>5. PICK y \in Successors(G, x) : y \in S
  OBVIOUS
<1>6. x \in Predecessors(G, y) /\ y \in G.node
  BY <1>5 DEF Predecessors, Successors
<1>7. y \in TransitiveDependencies(G, x)
  BY <1>6, DependentsAreClosed DEF TransitiveDependencies
<1>8. TransitiveDependencies(G, y) \in SUBSET TransitiveDependencies(G, x)
  BY <1>6, DependentsAreClosed DEF TransitiveDependencies
<1>9. count(x) <= count(y)
  BY <1>1, <1>3, <1>4, <1>5
<1>10. count(y) <= count(x) /\ (count(x) = count(y) =>
                                  TransitiveDependencies(G, x) = TransitiveDependencies(G, y))
  BY <1>1, <1>8, FS_Subset
<1>11. TransitiveDependencies(G, x) = TransitiveDependencies(G, y)
  BY <1>1, <1>9, <1>10
<1> QED
  BY <1>6, <1>7, <1>11 DEF IsAcyclic, TransitiveDependencies

\* A graph has no cycle where some file of any set depends on none of them.
LEMMA NeverStuckIsAcyclic ==
  ASSUME NEW G, IsGraph(G),
         \A S \in SUBSET G.node : S # {} => \E x \in S : Successors(G, x) \cap S = {}
  PROVE  IsAcyclic(G)
<1> SUFFICES ASSUME NEW f \in G.node, f \in TransitiveDependents(G, f) PROVE FALSE
  BY DEF IsAcyclic
<1> DEFINE T == TransitiveDependents(G, f)
           U == {x \in T : Successors(G, x) \cap T # {}}
<1>1. T \in SUBSET G.node /\ T # {} /\ f \in T
  BY DependentsAreNodes
<1>2. \A x \in T : Predecessors(G, x) \subseteq U
  <2> SUFFICES ASSUME NEW x \in T, NEW y \in Predecessors(G, x) PROVE y \in U
    OBVIOUS
  <2>1. y \in T
    BY DependentsAreClosed
  <2>2. x \in Successors(G, y)
    BY <1>1 DEF Predecessors, Successors
  <2> QED
    BY <2>1, <2>2
<1>3. /\ U \in SUBSET G.node /\ Predecessors(G, f) \subseteq U
      /\ \A x \in U : Predecessors(G, x) \subseteq U
  BY <1>1, <1>2
<1> HIDE DEF U
<1>4. T \subseteq U
  BY <1>3, DependentsAreLeast
<1> QED
  BY <1>1, <1>4 DEF U

\* Induction along the dependencies: sets of files that grow by any file whose
\* dependencies they hold grow to be all files, in a graph without a cycle.
LEMMA GrowsToAllFiles ==
  ASSUME NEW G, IsGraph(G), IsAcyclic(G), NEW Ok \in SUBSET (SUBSET G.node), {} \in Ok,
         \A T \in Ok : \A x \in G.node \ T : Successors(G, x) \subseteq T => T \cup {x} \in Ok
  PROVE  G.node \in Ok
<1> DEFINE rest(T) == Cardinality(G.node \ T)
           sizes == {n \in Nat : \E T \in Ok : n = rest(T)}
<1>1. ASSUME NEW T PROVE IsFiniteSet(G.node \ T) /\ rest(T) \in Nat
  <2>1. IsFiniteSet(G.node \ T)
    BY FS_Subset DEF IsGraph
  <2> QED
    BY <2>1, FS_CardinalityType
<1>2. sizes \in SUBSET Nat /\ sizes # {}
  BY <1>1
<1>3. PICK n \in sizes : \A m \in sizes : n <= m
  BY <1>2, LeastNatural
<1>4. PICK T \in Ok : n = rest(T)
  OBVIOUS
<1>5. SUFFICES ASSUME T # G.node PROVE FALSE
  BY <1>4
<1>6. PICK x \in G.node \ T : Successors(G, x) \cap (G.node \ T) = {}
  <2> DEFINE S == G.node \ T
  <2>1. S \in SUBSET G.node /\ S # {}
    BY <1>4, <1>5
  <2> HIDE DEF S
  <2>2. \E x \in S : Successors(G, x) \cap S = {}
    BY <2>1, StuckHasCycle
  <2> QED
    BY <2>2 DEF S
<1>7. Successors(G, x) \subseteq T
  BY <1>6 DEF Successors
<1>8. T \cup {x} \in Ok /\ G.node \ (T \cup {x}) = (G.node \ T) \ {x}
  BY <1>4, <1>6, <1>7
<1>9. rest(T \cup {x}) = rest(T) - 1
  <2> DEFINE R == G.node \ T
  <2>1. IsFiniteSet(R) /\ x \in R
    BY <1>1, <1>6
  <2>2. Cardinality(R \ {x}) = Cardinality(R) - 1
    <3> HIDE DEF R
    <3> QED
      BY <2>1, FS_RemoveElement
  <2> QED
    BY <1>8, <2>2
<1>10. rest(T \cup {x}) \in sizes
  BY <1>1, <1>8
<1>11. n <= rest(T \cup {x})
  BY <1>3, <1>10
<1>12. rest(T) \in Nat
  BY <1>1
<1> HIDE DEF rest, sizes
<1> QED
  BY <1>4, <1>9, <1>11, <1>12

-----------------------------------------------------------------------------
(* Concatenation and folding, as the library defines them                  *)

LEMMA SeqOfItsOwn ==
  ASSUME NEW S, NEW s \in Seq(S)
  PROVE  s \in Seq(ToSet(s))
<1>1. s = [i \in 1..Len(s) |-> s[i]] /\ Len(s) \in Nat /\ DOMAIN s = 1..Len(s)
  OBVIOUS
<1>2. \A i \in 1..Len(s) : s[i] \in ToSet(s)
  BY <1>1 DEF ToSet
<1> QED
  BY <1>1, <1>2

LEMMA SeqOfSubset ==
  ASSUME NEW S, NEW T, S \subseteq T, NEW s \in Seq(S)
  PROVE  s \in Seq(T)
<1>1. s = [i \in 1..Len(s) |-> s[i]] /\ Len(s) \in Nat /\ \A i \in 1..Len(s) : s[i] \in T
  OBVIOUS
<1> QED
  BY <1>1

\* The recursive function by which FlattenSeq is defined.
IsFlattening(fl, seqs, n) ==
  fl = [i \in 1..n |-> IF i = 1 THEN seqs[i] ELSE fl[i - 1] \o seqs[i]]

LEMMA FlatteningExists ==
  ASSUME NEW seqs, NEW n \in Nat
  PROVE  \E fl : IsFlattening(fl, seqs, n)
<1> DEFINE bad == {k \in Nat : ~ \E fl : IsFlattening(fl, seqs, k)}
<1> SUFFICES ASSUME bad # {} PROVE FALSE
  OBVIOUS
<1>1. PICK k \in bad : \A j \in bad : k <= j
  BY LeastNatural
<1>2. CASE k = 0
  <2>1. IsFlattening([i \in 1..0 |-> i], seqs, 0)
    BY DEF IsFlattening
  <2> QED
    BY <1>2, <2>1
<1>3. CASE k # 0
  <2>1. k - 1 \in Nat /\ k - 1 \notin bad
    BY <1>1, <1>3
  <2>2. PICK fl : IsFlattening(fl, seqs, k - 1)
    BY <2>1
  <2> DEFINE new == [i \in 1..k |-> IF i < k THEN fl[i]
                                    ELSE IF i = 1 THEN seqs[i] ELSE fl[i - 1] \o seqs[i]]
  <2>3. ASSUME NEW i \in 1..k
        PROVE  new[i] = IF i = 1 THEN seqs[i] ELSE new[i - 1] \o seqs[i]
    <3>1. CASE i < k
      <4>1. i \in 1..(k - 1)
        BY <1>3, <3>1
      <4>2. new[i] = fl[i] /\ (i # 1 => new[i - 1] = fl[i - 1])
        BY <1>3, <3>1
      <4>3. fl[i] = IF i = 1 THEN seqs[i] ELSE fl[i - 1] \o seqs[i]
        BY <2>2, <4>1 DEF IsFlattening
      <4> QED
        BY <4>2, <4>3
    <3>2. CASE i = k
      BY <1>3, <3>2
    <3> QED
      BY <3>1, <3>2
  <2>4. new = [i \in 1..k |-> IF i = 1 THEN seqs[i] ELSE new[i - 1] \o seqs[i]]
    <3>1. new = [i \in 1..k |-> new[i]]
      OBVIOUS
    <3> QED
      BY <2>3, <3>1
  <2> QED
    BY <2>4 DEF IsFlattening
<1> QED
  BY <1>2, <1>3


\* At place p of s is element j of sequence i, behind such as are in front of that.
IsPlace(s, seqs, i, j, p) ==
  /\ s[p] = seqs[i][j]
  /\ \A q \in 1..(p - 1) :
       \E h \in 1..i : \E l \in 1..Len(seqs[h]) : s[q] = seqs[h][l] /\ (h = i => l < j)

IsConcatenation(s, seqs, k, S) ==
  /\ s \in Seq(S)
  /\ ToSet(s) = UNION {ToSet(seqs[i]) : i \in 1..k}
  /\ \A i \in 1..k : \A j \in 1..Len(seqs[i]) : \E p \in 1..Len(s) : IsPlace(s, seqs, i, j, p)

LEMMA ConcatenateOne ==
  ASSUME NEW S, NEW k \in Nat, NEW seqs, \A i \in 1..(k + 1) : seqs[i] \in Seq(S),
         NEW s, IsConcatenation(s, seqs, k, S)
  PROVE  IsConcatenation(s \o seqs[k + 1], seqs, k + 1, S)
<1> DEFINE t == seqs[k + 1]
           m == Len(s)
           n == Len(t)
           c == s \o t
<1>1. s \in Seq(S) /\ t \in Seq(S) /\ m \in Nat /\ n \in Nat /\ DOMAIN s = 1..m /\ DOMAIN t = 1..n
  <2>1. s \in Seq(S) /\ t \in Seq(S)
    BY DEF IsConcatenation
  <2> QED
    BY <2>1, LenProperties
<1>2. /\ c \in Seq(S) /\ Len(c) = m + n /\ DOMAIN c = 1..(m + n)
      /\ \A i \in 1..(m + n) : c[i] = IF i <= m THEN s[i] ELSE t[i - m]
  <2>1. c \in Seq(S)
    BY <1>1, ConcatProperties
  <2> QED
    BY <1>1, <2>1, ConcatProperties, LenProperties
<1> HIDE DEF m, n, c, t
<1>3. /\ \A i \in 1..m : i \in 1..(m + n) /\ c[i] = s[i]
      /\ \A i \in 1..n : m + i \in 1..(m + n) /\ c[m + i] = t[i]
      /\ \A i \in 1..(m + n) : \/ i \in 1..m
                               \/ (i - m \in 1..n /\ c[i] = t[i - m])
  <2>1. \A i \in 1..n : m + i \in 1..(m + n) /\ ~(m + i <= m) /\ (m + i) - m = i
    BY <1>1
  <2>2. \A i \in 1..m : i \in 1..(m + n) /\ i <= m
    BY <1>1
  <2>3. \A i \in 1..(m + n) : \/ i \in 1..m
                              \/ (i - m \in 1..n /\ ~(i <= m))
    BY <1>1
  <2> QED
    BY <1>2, <2>1, <2>2, <2>3
<1>4. 1..(k + 1) = (1..k) \cup {k + 1}
  OBVIOUS
<1>5. ToSet(c) = ToSet(s) \cup ToSet(t)
  <2>1. ToSet(c) = {c[i] : i \in 1..(m + n)} /\ ToSet(s) = {s[i] : i \in 1..m}
        /\ ToSet(t) = {t[i] : i \in 1..n}
    BY <1>1, <1>2 DEF ToSet
  <2> QED
    BY <1>3, <2>1
<1>6. ToSet(c) = UNION {ToSet(seqs[i]) : i \in 1..(k + 1)}
  <2>1. ToSet(s) = UNION {ToSet(seqs[i]) : i \in 1..k}
    BY DEF IsConcatenation
  <2> QED
    BY <1>4, <1>5, <2>1 DEF t
<1>7. ASSUME NEW i \in 1..k, NEW j \in 1..Len(seqs[i])
      PROVE  \E p \in 1..(m + n) : IsPlace(c, seqs, i, j, p)
  <2>1. PICK p \in 1..m : IsPlace(s, seqs, i, j, p)
    BY DEF IsConcatenation, m
  <2>2. \A q \in 1..(p - 1) : q \in 1..m
    BY <1>1
  <2>3. IsPlace(c, seqs, i, j, p)
    BY <1>3, <2>1, <2>2 DEF IsPlace
  <2> QED
    BY <1>3, <2>3
<1>8. ASSUME NEW j \in 1..n
      PROVE  IsPlace(c, seqs, k + 1, j, m + j)
  <2>1. c[m + j] = t[j]
    BY <1>3
  <2>2. ASSUME NEW q \in 1..((m + j) - 1)
        PROVE  \E h \in 1..(k + 1) : \E l \in 1..Len(seqs[h]) :
                 c[q] = seqs[h][l] /\ (h = k + 1 => l < j)
    <3>1. CASE q \in 1..m
      <4>1. c[q] \in ToSet(s)
        BY <1>1, <1>3, <3>1 DEF ToSet
      <4>2. PICK h \in 1..k : c[q] \in ToSet(seqs[h])
        BY <4>1 DEF IsConcatenation
      <4>3. seqs[h] \in Seq(S) /\ h \in 1..(k + 1) /\ h # k + 1
        BY <1>4
      <4>4. \E l \in 1..Len(seqs[h]) : c[q] = seqs[h][l]
        BY <4>2, <4>3, LenProperties DEF ToSet
      <4> QED
        BY <4>3, <4>4
    <3>2. CASE q \notin 1..m
      <4>1. q \in 1..(m + n) /\ q - m \in 1..n /\ q - m < j
        BY <1>1, <3>2
      <4>2. c[q] = t[q - m]
        BY <1>3, <3>2, <4>1
      <4>3. k + 1 \in 1..(k + 1)
        BY <1>4
      <4>4. q - m \in 1..Len(seqs[k + 1]) /\ c[q] = seqs[k + 1][q - m]
        BY <4>1, <4>2 DEF n, t
      <4> QED
        BY <4>1, <4>3, <4>4
    <3> QED
      BY <3>1, <3>2
  <2> QED
    BY <2>1, <2>2 DEF IsPlace, t
<1>9. ASSUME NEW i \in 1..(k + 1), NEW j \in 1..Len(seqs[i])
      PROVE  \E p \in 1..(m + n) : IsPlace(c, seqs, i, j, p)
  <2>1. CASE i \in 1..k
    BY <1>7, <2>1
  <2>2. CASE i = k + 1
    <3>1. j \in 1..n /\ m + j \in 1..(m + n)
      BY <1>3, <2>2 DEF n, t
    <3> QED
      BY <1>8, <2>2, <3>1
  <2> QED
    BY <1>4, <2>1, <2>2
<1> QED
  BY <1>2, <1>6, <1>9 DEF IsConcatenation, c, t

LEMMA FlatteningPlaces ==
  ASSUME NEW S, NEW n \in Nat, NEW seqs, \A i \in 1..n : seqs[i] \in Seq(S),
         NEW fl, IsFlattening(fl, seqs, n), NEW k \in 1..n
  PROVE  IsConcatenation(fl[k], seqs, k, S)
<1> DEFINE bad == {j \in 1..n : ~IsConcatenation(fl[j], seqs, j, S)}
<1> SUFFICES ASSUME bad # {} PROVE FALSE
  OBVIOUS
<1>1. PICK j \in bad : \A i \in bad : j <= i
  <2>1. bad \in SUBSET Nat
    OBVIOUS
  <2> QED
    BY <2>1, LeastNatural
<1>2. fl[j] = IF j = 1 THEN seqs[j] ELSE fl[j - 1] \o seqs[j]
  BY <1>1 DEF IsFlattening
<1>3. CASE j = 1
  <2>1. << >> \in Seq(S) /\ ToSet(<< >>) = {}
    BY EmptySeq DEF ToSet
  <2>2. IsConcatenation(<< >>, seqs, 0, S)
    BY <2>1 DEF IsConcatenation
  <2>3. \A i \in 1..(0 + 1) : seqs[i] \in Seq(S)
    BY <1>1, <1>3
  <2>4. IsConcatenation(<< >> \o seqs[0 + 1], seqs, 0 + 1, S)
    BY <2>2, <2>3, ConcatenateOne
  <2>5. << >> \o seqs[1] = seqs[1]
    BY <2>3, ConcatEmptySeq
  <2> QED
    BY <1>2, <1>3, <2>4, <2>5
<1>4. CASE j # 1
  <2> DEFINE i == j - 1
  <2>1. i \in Nat /\ i \in 1..n /\ i \notin bad /\ i + 1 = j
    BY <1>1, <1>4
  <2>2. \A h \in 1..(i + 1) : seqs[h] \in Seq(S)
    BY <1>1, <2>1
  <2>3. IsConcatenation(fl[i], seqs, i, S)
    BY <2>1
  <2>4. fl[j] = fl[i] \o seqs[j]
    BY <1>2, <1>4
  <2> HIDE DEF i
  <2>5. IsConcatenation(fl[i] \o seqs[i + 1], seqs, i + 1, S)
    BY <2>1, <2>2, <2>3, ConcatenateOne
  <2> QED
    BY <2>1, <2>4, <2>5
<1> QED
  BY <1>3, <1>4

\* FlattenSeq puts sequences one behind the other.
LEMMA FlattenIsConcatenation ==
  ASSUME NEW S, NEW n \in Nat, NEW seqs, seqs \in Seq(Seq(S)), Len(seqs) = n
  PROVE  IsConcatenation(FlattenSeq(seqs), seqs, n, S)
<1> DEFINE fl == CHOOSE fl : IsFlattening(fl, seqs, n)
<1>1. IsFlattening(fl, seqs, n)
  BY FlatteningExists
<1> HIDE DEF fl
<1>2. \A i \in 1..n : seqs[i] \in Seq(S)
  BY ElementOfSeq
<1>3. CASE n = 0
  <2>1. FlattenSeq(seqs) = << >>
    BY <1>3, EmptySeq DEF FlattenSeq
  <2>2. << >> \in Seq(S) /\ ToSet(<< >>) = {}
    BY EmptySeq DEF ToSet
  <2> QED
    BY <1>3, <2>1, <2>2 DEF IsConcatenation
<1>4. CASE n # 0
  <2>1. IsConcatenation(fl[n], seqs, n, S)
    BY <1>1, <1>2, <1>4, FlatteningPlaces
  <2>2. FlattenSeq(seqs) = fl[n]
    BY <1>4 DEF FlattenSeq, IsFlattening, fl
  <2> QED
    BY <2>1, <2>2
<1> QED
  BY <1>3, <1>4

LEMMA MaxOfNumbers ==
  ASSUME NEW k \in Nat, NEW S \in SUBSET (0..k), S # {}
  PROVE  Max(S) \in S /\ \A i \in S : i <= Max(S)
<1> DEFINE T == {k - i : i \in S}
<1>1. T \in SUBSET Nat /\ T # {}
  OBVIOUS
<1>2. PICK m \in T : \A n \in T : m <= n
  BY <1>1, LeastNatural
<1>3. k - m \in S /\ \A i \in S : k - m >= i
  BY <1>2
<1>4. \E x \in S : \A y \in S : x >= y
  BY <1>3
<1>5. Max(S) \in S /\ \A y \in S : Max(S) >= y
  BY <1>4 DEF Max
<1> QED
  BY <1>5
=============================================================================
