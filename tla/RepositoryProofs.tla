-------------------------- MODULE RepositoryProofs --------------------------
(***************************************************************************)
(* Proofs about new, squash and the developer's edits in one checkout: in  *)
(* both models, wherever squash is interrupted and however often, nothing  *)
(* is lost, and metadata.json lists what is there; and where it never is,  *)
(* the files of the checkout can be applied in their order.                *)
(***************************************************************************)
EXTENDS Repository, GraphProofs, SequenceTheorems

-----------------------------------------------------------------------------
(* Names of files                                                          *)

IsName(s) == s \in Seq(Statements) /\ s # << >>

LEMMA StatementsAreNumbers == Statements \subseteq Nat
BY RepositoryAssumption DEF Statements

LEMMA NameFacts ==
  ASSUME NEW s, IsName(s)
  PROVE  /\ Len(s) \in Nat \ {0} /\ DOMAIN s = 1..Len(s)
         /\ Last(s) \in Statements /\ Last(s) \in Nat /\ Contains(s, Last(s))
         /\ \A v : Contains(s, v) => v \in Statements
<1>1. Len(s) \in Nat \ {0}
  BY EmptySeq DEF IsName
<1>2. DOMAIN s = 1..Len(s) /\ \A i \in 1..Len(s) : s[i] \in Statements
  BY ElementOfSeq, LenProperties DEF IsName
<1>3. Len(s) \in 1..Len(s)
  BY <1>1
<1> QED
  BY <1>1, <1>2, <1>3, StatementsAreNumbers DEF Last, Contains

LEMMA SingleFacts ==
  ASSUME NEW v \in Statements
  PROVE  /\ IsName(<<v>>) /\ Len(<<v>>) = 1 /\ Last(<<v>>) = v
         /\ \A w : Contains(<<v>>, w) <=> w = v
<1>1. <<v>> \in Seq(Statements) /\ Len(<<v>>) = 1 /\ <<v>>[1] = v /\ <<v>> # << >>
  OBVIOUS
<1>2. 1..1 = {1}
  OBVIOUS
<1> QED
  BY <1>1, <1>2 DEF IsName, Last, Contains

LEMMA SingleNames ==
  ASSUME NEW s, IsName(s), NEW v, Contains(s, v), Len(s) = 1
  PROVE  s = <<v>>
<1>1. s[1] = v /\ v \in Statements
  <2>1. 1..Len(s) = {1}
    OBVIOUS
  <2> QED
    BY <2>1, NameFacts DEF Contains
<1>2. <<v>> \in Seq(Statements) /\ Len(<<v>>) = 1 /\ <<v>>[1] = v
  BY <1>1
<1> QED
  BY <1>1, <1>2, SeqEqual DEF IsName

LEMMA ShortNames ==
  ASSUME NEW s, IsName(s), ~(Len(s) > 1), NEW v, Contains(s, v)
  PROVE  s = <<v>>
<1> DEFINE n == Len(s)
<1>1. n \in Nat \ {0} /\ ~(n > 1)
  BY NameFacts
<1> HIDE DEF n
<1>2. n = 1
  BY <1>1
<1> QED
  BY <1>2, SingleNames DEF n

-----------------------------------------------------------------------------
(* Concatenation                                                           *)

LEMMA ConcatenationFacts ==
  ASSUME NEW s, IsName(s), NEW t, IsName(t)
  PROVE  /\ IsName(s \o t) /\ Len(s \o t) = Len(s) + Len(t)
         /\ Last(s \o t) = Last(t)
         /\ \A v : Contains(s \o t, v) <=> Contains(s, v) \/ Contains(t, v)
<1> DEFINE m == Len(s)
           n == Len(t)
           c == s \o t
<1>1. m \in Nat \ {0} /\ n \in Nat \ {0}
  BY NameFacts
<1>2. /\ c \in Seq(Statements) /\ Len(c) = m + n
      /\ \A i \in 1..(m + n) : c[i] = IF i <= m THEN s[i] ELSE t[i - m]
  BY ConcatProperties DEF IsName
<1> HIDE DEF m, n, c
<1>3. \A i \in 1..m : i \in 1..(m + n) /\ c[i] = s[i]
  BY <1>1, <1>2
<1>4. \A i \in 1..n : m + i \in 1..(m + n) /\ c[m + i] = t[i]
  <2> TAKE i \in 1..n
  <2>1. m + i \in 1..(m + n) /\ ~(m + i <= m) /\ (m + i) - m = i
    BY <1>1
  <2> QED
    BY <1>2, <2>1
<1>5. \A i \in 1..(m + n) : i \in 1..m \/ (i - m \in 1..n /\ c[i] = t[i - m])
  BY <1>1, <1>2
<1>6. c # << >>
  BY <1>1, <1>2
<1>7. c[m + n] = t[n]
  BY <1>1, <1>4
<1>8. ASSUME NEW v
      PROVE  (\E i \in 1..(m + n) : c[i] = v)
               <=> (\E i \in 1..m : s[i] = v) \/ (\E i \in 1..n : t[i] = v)
  BY <1>3, <1>4, <1>5
<1> QED
  BY <1>2, <1>6, <1>7, <1>8 DEF IsName, Last, Contains, m, n, c

\* What the function has at k: the first k names.
IsFlattened(s, seqs, k) ==
  /\ IsName(s)
  /\ Last(s) = Last(seqs[k])
  /\ \A v : Contains(s, v) <=> \E i \in 1..k : Contains(seqs[i], v)
  /\ \A i \in 1..k : Len(seqs[i]) <= Len(s) /\ (k > 1 => Len(seqs[i]) < Len(s))

LEMMA FlatteningFacts ==
  ASSUME NEW n \in Nat, NEW seqs, \A i \in 1..n : IsName(seqs[i]),
         NEW fl, IsFlattening(fl, seqs, n), NEW k \in 1..n
  PROVE  IsFlattened(fl[k], seqs, k)
<1> DEFINE bad == {j \in 1..n : ~IsFlattened(fl[j], seqs, j)}
<1> SUFFICES ASSUME bad # {} PROVE FALSE
  OBVIOUS
<1>1. PICK j \in bad : \A i \in bad : j <= i
  <2>1. bad \in SUBSET Nat
    OBVIOUS
  <2> QED
    BY <2>1, LeastNatural
<1>2. fl[j] = IF j = 1 THEN seqs[j] ELSE fl[j - 1] \o seqs[j]
  BY <1>1 DEF IsFlattening
<1>3. IsName(seqs[j]) /\ Len(seqs[j]) \in Nat \ {0}
  BY <1>1, NameFacts
<1>4. CASE j = 1
  <2>1. 1..1 = {1}
    OBVIOUS
  <2>2. IsFlattened(seqs[1], seqs, 1)
    BY <1>3, <1>4, <2>1 DEF IsFlattened
  <2> QED
    BY <1>2, <1>4, <2>2
<1>5. CASE j # 1
  <2> DEFINE i == j - 1
  <2>1. i \in 1..n /\ i \notin bad /\ j = i + 1 /\ i >= 1
    BY <1>1, <1>5
  <2>2. IsFlattened(fl[i], seqs, i) /\ fl[j] = fl[i] \o seqs[j]
    BY <1>2, <1>5, <2>1
  <2> HIDE DEF i
  <2>3. /\ IsName(fl[j]) /\ Len(fl[j]) = Len(fl[i]) + Len(seqs[j])
        /\ Last(fl[j]) = Last(seqs[j])
        /\ \A v : Contains(fl[j], v) <=> Contains(fl[i], v) \/ Contains(seqs[j], v)
    BY <1>3, <2>2, ConcatenationFacts DEF IsFlattened
  <2>4. Len(fl[i]) \in Nat \ {0}
    BY <2>2, NameFacts DEF IsFlattened
  <2>5. 1..j = (1..i) \cup {j}
    BY <2>1
  <2>6. \A v : Contains(fl[j], v) <=> \E h \in 1..j : Contains(seqs[h], v)
    BY <2>2, <2>3, <2>5 DEF IsFlattened
  <2>7. \A h \in 1..j : Len(seqs[h]) < Len(fl[j]) /\ Len(seqs[h]) <= Len(fl[j])
    <3> TAKE h \in 1..j
    <3> DEFINE a == Len(fl[i])
               b == Len(seqs[j])
               c == Len(seqs[h])
               d == Len(fl[j])
    <3>1. h \in 1..n /\ IsName(seqs[h])
      BY <2>1
    <3>2. c \in Nat /\ (h = j \/ c <= a)
      BY <2>2, <2>5, <3>1, NameFacts DEF IsFlattened
    <3>3. a \in Nat \ {0} /\ b \in Nat \ {0} /\ d = a + b /\ (h = j => c = b)
      BY <1>3, <2>3, <2>4
    <3> HIDE DEF a, b, c, d
    <3>4. c < d /\ c <= d
      BY <3>2, <3>3
    <3> QED
      BY <3>4 DEF c, d
  <2> QED
    BY <2>3, <2>6, <2>7 DEF IsFlattened
<1> QED
  BY <1>4, <1>5

LEMMA FlattenFacts ==
  ASSUME NEW n \in Nat \ {0}, NEW seqs \in Seq(Seq(Statements)), Len(seqs) = n,
         \A i \in 1..n : IsName(seqs[i])
  PROVE  IsFlattened(FlattenSeq(seqs), seqs, n)
<1> DEFINE fl == CHOOSE fl : IsFlattening(fl, seqs, n)
<1>1. IsFlattening(fl, seqs, n)
  BY FlatteningExists
<1> HIDE DEF fl
<1>2. IsFlattened(fl[n], seqs, n)
  BY <1>1, FlatteningFacts
<1>3. FlattenSeq(seqs) = fl[n]
  BY DEF FlattenSeq, IsFlattening, fl
<1> QED
  BY <1>2, <1>3

-----------------------------------------------------------------------------
(* The order of files                                                      *)

\* No two files have the same timestamp and are as long.
AreFiles(files) ==
  /\ IsFiniteSet(files)
  /\ \A f \in files : IsName(f.of)
  /\ \A f, g \in files : Stamp(f) = Stamp(g) /\ Len(f.of) = Len(g.of) => f = g

LEMMA StampFacts ==
  ASSUME NEW files, AreFiles(files), NEW f \in files
  PROVE  Stamp(f) \in Nat /\ Len(f.of) \in Nat \ {0}
BY NameFacts DEF AreFiles, Stamp

LEMMA OrderIsStrict ==
  ASSUME longFirst \in BOOLEAN, NEW files, AreFiles(files), NEW f \in files, NEW g \in files
  PROVE  /\ f # g => (IsEarlier(f, g) <=> ~IsEarlier(g, f))
         /\ ~IsEarlier(f, f)
         /\ \A h \in files : IsEarlier(f, g) /\ IsEarlier(g, h) => IsEarlier(f, h)
<1>1. ~IsEarlier(f, f)
  BY StampFacts DEF IsEarlier
<1>2. \A h \in files : /\ Stamp(h) \in Nat /\ Len(h.of) \in Nat
                       /\ \A i \in files :
                            Stamp(h) = Stamp(i) /\ Len(h.of) = Len(i.of) => h = i
  BY StampFacts DEF AreFiles
<1>3. CASE longFirst = TRUE
  <2>1. \A h, i \in files :
          IsEarlier(h, i) <=> \/ Stamp(h) < Stamp(i)
                              \/ Stamp(h) = Stamp(i) /\ h # i /\ Len(h.of) > Len(i.of)
    BY <1>3 DEF IsEarlier
  <2> QED
    BY <1>1, <1>2, <2>1
<1>4. CASE longFirst = FALSE
  BY <1>1, <1>2, <1>4 DEF IsEarlier
<1> QED
  BY <1>3, <1>4

\* Every file has a place of its own.
LEMMA PlacesAreDistinct ==
  ASSUME longFirst \in BOOLEAN, NEW files, AreFiles(files)
  PROVE  /\ \A f \in files : Place(files, f) \in 1..Cardinality(files)
         /\ \A f, g \in files : IsEarlier(f, g) => Place(files, f) < Place(files, g)
<1> DEFINE before(f) == {g \in files : IsEarlier(g, f)}
<1>1. ASSUME NEW f \in files
      PROVE  /\ IsFiniteSet(before(f)) /\ Cardinality(before(f)) \in Nat
             /\ Cardinality(before(f)) < Cardinality(files) /\ Cardinality(files) \in Nat
  <2>1. IsFiniteSet(files) /\ before(f) \in SUBSET files /\ before(f) # files
    BY OrderIsStrict DEF AreFiles
  <2>2. /\ IsFiniteSet(before(f)) /\ Cardinality(before(f)) <= Cardinality(files)
        /\ Cardinality(files) # Cardinality(before(f))
    BY <2>1, FS_Subset
  <2>3. Cardinality(before(f)) \in Nat /\ Cardinality(files) \in Nat
    BY <2>1, <2>2, FS_CardinalityType
  <2> QED
    BY <2>2, <2>3
<1>2. ASSUME NEW f \in files, NEW g \in files, IsEarlier(f, g)
      PROVE  Cardinality(before(f)) < Cardinality(before(g))
  <2>1. before(f) \in SUBSET before(g) /\ f \in before(g) /\ f \notin before(f)
    BY <1>2, OrderIsStrict
  <2>2. before(f) # before(g)
    BY <2>1
  <2> HIDE DEF before
  <2>3. /\ Cardinality(before(f)) <= Cardinality(before(g))
        /\ Cardinality(before(g)) # Cardinality(before(f))
    BY <1>1, <2>1, <2>2, FS_Subset
  <2> QED
    BY <1>1, <2>3
<1>3. \A f \in files : Place(files, f) = Cardinality(before(f)) + 1
  BY DEF Place
<1> HIDE DEF before
<1> QED
  BY <1>1, <1>2, <1>3

LEMMA OrderedFacts ==
  ASSUME longFirst \in BOOLEAN, NEW files, AreFiles(files)
  PROVE  /\ Cardinality(files) \in Nat
         /\ Len(Ordered(files)) = Cardinality(files) /\ Ordered(files) \in Seq(files)
         /\ \A i \in 1..Cardinality(files) :
              Ordered(files)[i] \in files /\ Place(files, Ordered(files)[i]) = i
         /\ \A f \in files : Ordered(files)[Place(files, f)] = f
<1> DEFINE n == Cardinality(files)
           place == [f \in files |-> Place(files, f)]
<1>1. n \in Nat /\ IsFiniteSet(files)
  BY FS_CardinalityType DEF AreFiles
<1>2. \A f, g \in files : place[f] = place[g] => f = g
  BY PlacesAreDistinct, OrderIsStrict
<1>3. place \in Injection(files, 1..n)
  BY <1>2, PlacesAreDistinct DEF Injection, IsInjective
<1>4. IsFiniteSet(1..n) /\ Cardinality(1..n) = n
  BY <1>1, FS_Interval
<1>5. place \in Surjection(files, 1..n)
  BY <1>3, <1>4, FS_Injection
<1>6. \A i \in 1..n : \E f \in files : Place(files, f) = i
  BY <1>5 DEF Surjection
<1>7. \A i \in 1..n : Ordered(files)[i] \in files /\ Place(files, Ordered(files)[i]) = i
  BY <1>6 DEF Ordered
<1>8. \A f \in files : Ordered(files)[Place(files, f)] = f
  BY <1>2, <1>7, PlacesAreDistinct
<1>9. Ordered(files) \in Seq(files) /\ Len(Ordered(files)) = n
  <2>1. Ordered(files) = [i \in 1..n |-> Ordered(files)[i]]
    BY DEF Ordered
  <2>2. DOMAIN Ordered(files) = 1..n
    BY DEF Ordered
  <2> QED
    BY <1>1, <1>7, <2>1, <2>2
<1> QED
  BY <1>1, <1>7, <1>8, <1>9

\* Of some files one is the last.
LEMMA SomeFileIsLast ==
  ASSUME longFirst \in BOOLEAN, NEW files, AreFiles(files), files # {}
  PROVE  /\ Cardinality(files) > 0
         /\ Ordered(files)[Cardinality(files)] \in files
         /\ \A f \in files \ {Ordered(files)[Cardinality(files)]} :
              IsEarlier(f, Ordered(files)[Cardinality(files)])
<1> DEFINE n == Cardinality(files)
           last == Ordered(files)[n]
<1>1. n \in Nat /\ n # 0
  BY FS_EmptySet, FS_CardinalityType DEF AreFiles
<1>2. last \in files /\ Place(files, last) = n
  BY <1>1, OrderedFacts
<1>3. ASSUME NEW f \in files \ {last} PROVE IsEarlier(f, last)
  <2>1. Place(files, f) \in 1..n /\ (IsEarlier(last, f) => Place(files, last) < Place(files, f))
    BY <1>2, PlacesAreDistinct
  <2>2. ~IsEarlier(last, f)
    BY <1>1, <1>2, <2>1
  <2> QED
    BY <1>2, <2>2, OrderIsStrict
<1> QED
  BY <1>1, <1>2, <1>3

LEMMA FirstIsAmong ==
  ASSUME longFirst \in BOOLEAN, NEW files, AreFiles(files), files # {}
  PROVE  Head(Ordered(files)) \in files
<1>1. Ordered(files) \in Seq(files) /\ Ordered(files) # << >>
  BY OrderedFacts, SomeFileIsLast
<1> QED
  BY <1>1, HeadTailProperties

LEMMA MergeFacts ==
  ASSUME longFirst \in BOOLEAN, NEW group, AreFiles(group), group # {}
  PROVE  /\ Merge(group).edited = UNION {f.edited : f \in group}
         /\ IsName(Merge(group).of)
         /\ \A v : Contains(Merge(group).of, v) <=> \E f \in group : Contains(f.of, v)
         /\ \E h \in group : /\ Stamp(Merge(group)) = Stamp(h)
                            /\ \A f \in group : Stamp(f) <= Stamp(h)
         /\ Cardinality(group) > 1 =>
              \A f \in group : Len(f.of) < Len(Merge(group).of)
<1> DEFINE n == Cardinality(group)
           s == Ordered(group)
           names == [i \in 1..n |-> s[i].of]
           name == FlattenSeq(names)
<1>1. /\ n \in Nat \ {0} /\ Len(s) = n /\ s \in Seq(group) /\ DOMAIN s = 1..n
      /\ \A i \in 1..n : s[i] \in group
      /\ \A f \in group : \E i \in 1..n : s[i] = f
  BY OrderedFacts, SomeFileIsLast, PlacesAreDistinct
<1>2. \A i \in 1..n : IsName(names[i])
  BY <1>1 DEF AreFiles
<1>3. names \in Seq(Seq(Statements)) /\ Len(names) = n
  BY <1>1, <1>2 DEF IsName
<1>4. IsFlattened(name, names, n)
  <2> HIDE DEF names, n
  <2> QED
    BY <1>1, <1>2, <1>3, FlattenFacts
<1>5. Merge(group) = File(name, UNION {f.edited : f \in group})
  BY <1>1 DEF Merge
<1>6. Merge(group).of = name /\ Merge(group).edited = UNION {f.edited : f \in group}
  BY <1>5 DEF File
<1>7. \A v : Contains(name, v) <=> \E i \in 1..n : Contains(s[i].of, v)
  BY <1>4 DEF IsFlattened
<1>8. Stamp(Merge(group)) = Stamp(s[n])
  <2>1. names[n] = s[n].of
    BY <1>1
  <2> QED
    BY <1>4, <1>6, <2>1 DEF IsFlattened, Stamp
<1>9. s[n] \in group /\ \A f \in group \ {s[n]} : IsEarlier(f, s[n])
  BY SomeFileIsLast
<1>10. \A f \in group : Stamp(f) <= Stamp(s[n])
  BY <1>9, StampFacts DEF IsEarlier
<1>11. n > 1 => \A f \in group : Len(f.of) < Len(name)
  BY <1>1, <1>4 DEF IsFlattened
<1> HIDE DEF names, name, s, n
<1>12. \A v : Contains(name, v) <=> \E f \in group : Contains(f.of, v)
  BY <1>1, <1>7
<1>13. IsName(name)
  BY <1>4 DEF IsFlattened
<1> QED
  BY <1>6, <1>8, <1>9, <1>10, <1>11, <1>12, <1>13 DEF n

-----------------------------------------------------------------------------
(* Connected components                                                    *)

Component(G, f) == {f} \cup TransitiveDependents(G, f)

LEMMA ComponentIsClosed ==
  ASSUME NEW G, IsGraph(G), NEW f \in G.node, NEW x \in Component(G, f)
  PROVE  Predecessors(G, x) \subseteq Component(G, f)
BY DependentsAreClosed DEF Component

LEMMA ComponentIsLeast ==
  ASSUME NEW G, IsGraph(G), NEW S \in SUBSET G.node,
         \A x \in S : Predecessors(G, x) \subseteq S, NEW f \in S
  PROVE  Component(G, f) \subseteq S
BY DependentsAreLeast DEF Component

LEMMA ComponentsAreNodes ==
  ASSUME NEW G, IsGraph(G), NEW f \in G.node
  PROVE  Component(G, f) \in SUBSET G.node
BY DependentsAreNodes DEF Component

LEMMA SameComponent ==
  ASSUME NEW G, IsGraph(G), \A e \in G.edge : <<e[2], e[1]>> \in G.edge,
         NEW f \in G.node, NEW h \in Component(G, f)
  PROVE  Component(G, h) = Component(G, f)
<1>1. h \in G.node /\ Component(G, f) \in SUBSET G.node
  BY ComponentsAreNodes
<1>2. Component(G, h) \subseteq Component(G, f)
  BY <1>1, ComponentIsClosed, ComponentIsLeast
<1>3. f \in Component(G, h)
  <2> SUFFICES ASSUME f \notin Component(G, h) PROVE FALSE
    OBVIOUS
  <2> DEFINE rest == G.node \ Component(G, h)
  <2>1. \A x, y \in G.node : x \in Predecessors(G, y) => y \in Predecessors(G, x)
    BY DEF Predecessors
  <2>2. \A x \in rest : Predecessors(G, x) \subseteq rest
    <3> SUFFICES ASSUME NEW x \in rest, NEW y \in Predecessors(G, x) PROVE y \in rest
      OBVIOUS
    <3>1. y \in G.node /\ x \in Predecessors(G, y)
      BY <2>1, PredecessorsAreNodes
    <3> QED
      BY <1>1, <3>1, ComponentIsClosed
  <2>3. Component(G, f) \subseteq rest
    BY <2>2, ComponentIsLeast
  <2>4. h \in Component(G, h)
    BY DEF Component
  <2> QED
    BY <2>3, <2>4
<1>4. Component(G, f) \subseteq Component(G, h)
  BY <1>1, <1>3, ComponentsAreNodes, ComponentIsClosed, ComponentIsLeast
<1> QED
  BY <1>2, <1>4

Related(f, h) == Edge(f, h) \/ Edge(h, f)

LEMMA ComponentFacts ==
  ASSUME IsFiniteSet(disk), NEW g \in Components
  PROVE  /\ g \subseteq NewFiles /\ g # {}
         /\ \A f \in g, h \in NewFiles : Related(f, h) => h \in g
         /\ Cardinality(g) > 1 => \A f \in g : \E h \in g : Related(f, h)
         /\ \A h \in Components : g # h => g \cap h = {}
<1> DEFINE related == {e \in NewFiles \X NewFiles : Edge(e[1], e[2]) \/ Edge(e[2], e[1])}
           G == [node |-> NewFiles, edge |-> related]
<1>1. /\ IsGraph(G) /\ G.node = NewFiles
      /\ \A f, h \in NewFiles : f \in Predecessors(G, h) <=> Related(f, h)
  <2>1. IsFiniteSet(NewFiles)
    <3>1. NewFiles \in SUBSET disk
      BY DEF NewFiles
    <3> QED
      BY <3>1, FS_Subset
  <2>2. \A f, h \in NewFiles : f \in Predecessors(G, h) <=> Related(f, h)
    BY DEF Predecessors, Related
  <2> QED
    BY <2>1, <2>2 DEF IsGraph
<1>2. \A e \in G.edge : <<e[2], e[1]>> \in G.edge
  OBVIOUS
<1>3. Components = {Component(G, f) : f \in NewFiles}
  BY DEF Components, Component
<1> HIDE DEF G
<1>4. PICK f \in NewFiles : g = Component(G, f)
  BY <1>3
<1>5. g \subseteq NewFiles /\ f \in g
  BY <1>1, <1>4, ComponentsAreNodes DEF Component
<1>6. \A x \in g, h \in NewFiles : Related(x, h) => h \in g
  <2> SUFFICES ASSUME NEW x \in g, NEW h \in NewFiles, Related(x, h) PROVE h \in g
    OBVIOUS
  <2>1. h \in Predecessors(G, x)
    BY <1>1, <1>5 DEF Related
  <2> QED
    BY <1>1, <1>4, <2>1, ComponentIsClosed
<1>7. \A x \in g : Component(G, x) = g
  BY <1>1, <1>2, <1>4, SameComponent
<1>8. \A h \in Components : g # h => g \cap h = {}
  <2> SUFFICES ASSUME NEW h \in Components, NEW x \in g \cap h PROVE g = h
    OBVIOUS
  <2>1. PICK k \in NewFiles : h = Component(G, k)
    BY <1>3
  <2>2. Component(G, x) = h
    BY <1>1, <1>2, <2>1, SameComponent
  <2> QED
    BY <1>7, <2>2
<1>9. ASSUME Cardinality(g) > 1, NEW x \in g PROVE \E h \in g : Related(x, h)
  <2> SUFFICES ASSUME \A h \in g : ~Related(x, h) PROVE FALSE
    OBVIOUS
  <2>1. Predecessors(G, x) = {}
    <3>1. \A h \in NewFiles : ~Related(x, h)
      BY <1>6
    <3>2. \A h \in Predecessors(G, x) : h \in NewFiles /\ Related(h, x)
      BY <1>1, <1>5, PredecessorsAreNodes
    <3> QED
      BY <3>1, <3>2 DEF Related
  <2>2. Component(G, x) \subseteq {x}
    <3>1. {x} \in SUBSET G.node
      BY <1>1, <1>5
    <3> QED
      BY <1>1, <2>1, <3>1, ComponentIsLeast
  <2>3. g = {x}
    BY <1>7, <2>2 DEF Component
  <2>4. Cardinality(g) = 1
    BY <2>3, FS_Singleton
  <2> QED
    BY <1>9, <2>4
<1> QED
  BY <1>5, <1>6, <1>8, <1>9

-----------------------------------------------------------------------------
(* The inductive invariant                                                 *)

OnDisk == Names(disk)
Listed == Names(meta)
Fresh  == OnDisk \ Listed

SettingInv ==
  /\ dag \in BOOLEAN /\ longFirst \in BOOLEAN
  /\ needs \subseteq Statements \X Statements
  /\ \A e \in needs : e[1] # e[2]

Depend(v, w) == <<v, w>> \in needs \/ <<w, v>> \in needs

\* What v refers to is in files that are recorded.
IsSettled(v) == \A w : <<v, w>> \in needs => \E q \in Listed : Contains(q, w)

\* A source that an interrupted squash has left, and that none will take again:
\* it refers to recorded files only, and others refer to the file that has a copy.
IsLeft(s, v) == dag /\ s = <<v>> /\ IsSettled(v)

\* The file of this name comes after the one that holds v alone.
Outlasts(s, v) == v < Last(s) \/ ~longFirst

NamesInv ==
  /\ \A s \in OnDisk : IsName(s) /\ \A v : Contains(s, v) => v <= Last(s) /\ v \in written
  /\ \A s, t \in OnDisk : Last(s) = Last(t) /\ Len(s) = Len(t) => s = t
  /\ Listed \subseteq OnDisk /\ \A r \in Listed : Len(r) > 1

\* Files that hold the same statement: what is recorded has it for good, and of
\* two that are not, one was merged into the other.
CopiesInv ==
  /\ \A s \in Fresh, r \in Listed : \A v :
       Contains(s, v) /\ Contains(r, v) => IsLeft(s, v) /\ Outlasts(r, v)
  /\ dag => \A s, t \in Fresh : \A v :
               Contains(s, v) /\ Contains(t, v) =>
                 \/ \A w : Contains(s, w) => Contains(t, w)
                 \/ \A w : Contains(t, w) => Contains(s, w)
  /\ dag => \A s \in Fresh : Len(s) > 1 =>
               \A v : Contains(s, v) => \E w : Contains(s, w) /\ Depend(v, w)

WrittenInv ==
  /\ written \subseteq Statements
  /\ \A v \in written : \E s \in OnDisk : Contains(s, v)
  /\ \A e \in needs : e[1] \in written => e[2] \in written

FilesInv ==
  /\ IsFiniteSet(disk)
  /\ \A f, g \in disk : f.of = g.of => f = g
  /\ \A e, f \in meta : e.of = f.of => e = f
  /\ edits \in 0..MaxEdits
  /\ UNION {f.edited : f \in disk} = 1..edits
  /\ \A f \in meta : f.edited \subseteq 1..MaxEdits

\* A group that squash may merge: what other files have of its statements are copies
\* that were left, and in the DAG model each of its files has to do with another.
IsGroup(g) ==
  /\ g \subseteq NewFiles /\ Cardinality(g) > 1
  /\ \A s \in OnDisk \ Names(g), f \in g : \A v :
       Contains(s, v) /\ Contains(f.of, v) =>
         /\ s \in Fresh /\ IsLeft(s, v)
         /\ \E h \in g : Contains(h.of, v) /\ Outlasts(h.of, v)
  /\ dag => \A f \in g : \A v :
               f.of = <<v>> => \E h \in g : \E w : Contains(h.of, w) /\ Depend(v, w)

SquashInv ==
  /\ \A g \in plan : IsGroup(g) /\ g \cap merged = {} /\ g \cap doomed = {}
  /\ \A g, h \in plan : g # h => g \cap h = {}
  /\ doomed \cup merged \subseteq NewFiles /\ doomed \cap merged = {}
  /\ \A f \in doomed : \E m \in merged :
       (\A v : Contains(f.of, v) => Contains(m.of, v)) /\ f.edited \subseteq m.edited
  /\ \A m \in merged :
       /\ Len(m.of) > 1
       /\ \A s \in Fresh \ Names(merged \cup doomed) : \A v :
            Contains(s, v) /\ Contains(m.of, v) => IsLeft(s, v) /\ Outlasts(m.of, v)
  /\ stage # "none" /\ ~dag => NewFiles \subseteq merged \cup doomed \cup UNION plan

StageInv ==
  /\ stage \in {"none", "write", "unlink", "save"}
  /\ stage = "none" => plan = {} /\ doomed = {} /\ merged = {}
  /\ stage = "write" => plan # {}
  /\ stage = "save" => plan = {}
  /\ doomed # {} <=> stage = "unlink"

RepoInv ==
  /\ SettingInv /\ NamesInv /\ CopiesInv /\ WrittenInv /\ FilesInv
  /\ SquashInv /\ StageInv

-----------------------------------------------------------------------------
(* What merging a group makes                                              *)

LEMMA DiskIsFiles ==
  ASSUME SettingInv, NamesInv, FilesInv, NEW files \in SUBSET disk
  PROVE  AreFiles(files)
<1>1. IsFiniteSet(files)
  BY FS_Subset DEF FilesInv
<1>2. \A f \in files : f.of \in OnDisk /\ f \in disk
  BY DEF OnDisk, Names
<1> QED
  BY <1>1, <1>2 DEF AreFiles, Stamp, NamesInv, FilesInv

LEMMA NewFilesAreFresh ==
  /\ \A f \in NewFiles : f \in disk /\ f.of \in Fresh /\ f.of \in OnDisk /\ f.of \notin Listed
  /\ \A s \in Fresh : \E f \in NewFiles : f.of = s
  /\ \A f \in disk : f.of \in OnDisk
  /\ \A s \in OnDisk : \E f \in disk : f.of = s
BY DEF NewFiles, Fresh, OnDisk, Listed, Names

LEMMA MergedGroup ==
  ASSUME SettingInv, NamesInv, CopiesInv, FilesInv, NEW g, IsGroup(g), NEW m, m = Merge(g).of
  PROVE  /\ IsName(m) /\ Len(m) > 1 /\ m \notin OnDisk
         /\ \A v : Contains(m, v) => v <= Last(m) /\ v \in written
         /\ \A v : Contains(m, v) <=> \E f \in g : Contains(f.of, v)
         /\ Merge(g).edited = UNION {f.edited : f \in g}
         /\ \A s \in OnDisk : Last(s) = Last(m) => Len(s) # Len(m)
         /\ \A s \in OnDisk \ Names(g) : \A v :
              Contains(s, v) /\ Contains(m, v) =>
                s \in Fresh /\ IsLeft(s, v) /\ Outlasts(m, v)
         /\ dag => \A v : Contains(m, v) => \E w : Contains(m, w) /\ Depend(v, w)
<1>1. g \in SUBSET disk /\ g # {} /\ Cardinality(g) > 1
  <2>1. g \in SUBSET disk /\ Cardinality(g) > 1
    BY NewFilesAreFresh DEF IsGroup
  <2>2. Cardinality({}) = 0
    BY FS_EmptySet
  <2>3. g # {}
    BY <2>1, <2>2
  <2> QED
    BY <2>1, <2>3
<1>2. AreFiles(g)
  BY <1>1, DiskIsFiles
<1>3. /\ Merge(g).edited = UNION {f.edited : f \in g}
      /\ IsName(m)
      /\ \A v : Contains(m, v) <=> \E f \in g : Contains(f.of, v)
      /\ \A f \in g : Len(f.of) < Len(m)
  BY <1>1, <1>2, MergeFacts DEF SettingInv
<1>4. PICK h \in g : Last(m) = Last(h.of) /\ \A f \in g : Last(f.of) <= Last(h.of)
  BY <1>1, <1>2, MergeFacts DEF SettingInv, Stamp
<1>5. \A f \in g : /\ f.of \in OnDisk /\ f.of \in Fresh /\ IsName(f.of)
                   /\ Len(f.of) \in Nat \ {0} /\ Last(f.of) \in Nat
  BY <1>1, NameFacts, NewFilesAreFresh DEF IsGroup, NamesInv
<1>6. Len(m) \in Nat /\ Len(m) > 1 /\ Last(m) \in Nat /\ Contains(m, Last(m))
  BY <1>1, <1>3, <1>5, NameFacts
<1>7. \A v : Contains(m, v) => v <= Last(m) /\ v \in written
  <2> SUFFICES ASSUME NEW v, Contains(m, v) PROVE v <= Last(m) /\ v \in written
    OBVIOUS
  <2>1. PICK f \in g : Contains(f.of, v)
    BY <1>3
  <2>2. v <= Last(f.of) /\ v \in written /\ v \in Nat
    BY <1>5, <2>1, NameFacts, StatementsAreNumbers DEF NamesInv
  <2> QED
    BY <1>4, <1>5, <2>2
<1>8. ASSUME NEW s \in OnDisk \ Names(g), NEW v, Contains(s, v), Contains(m, v)
      PROVE  s \in Fresh /\ IsLeft(s, v) /\ Outlasts(m, v)
  <2>1. PICK f \in g : Contains(f.of, v)
    BY <1>3, <1>8
  <2>2. /\ s \in Fresh /\ IsLeft(s, v)
        /\ \E k \in g : Contains(k.of, v) /\ Outlasts(k.of, v)
    BY <1>8, <2>1 DEF IsGroup
  <2>3. PICK k \in g : Contains(k.of, v) /\ Outlasts(k.of, v)
    BY <2>2
  <2>4. v \in Nat
    BY <1>5, <2>3, NameFacts, StatementsAreNumbers
  <2>5. Outlasts(m, v)
    BY <1>4, <1>5, <2>3, <2>4 DEF Outlasts
  <2> QED
    BY <2>2, <2>5
<1>9. \A s \in OnDisk : Last(s) = Last(m) => Len(s) # Len(m)
  <2> SUFFICES ASSUME NEW s \in OnDisk, Last(s) = Last(m), Len(s) = Len(m) PROVE FALSE
    OBVIOUS
  <2>1. CASE s \in Names(g)
    BY <1>3, <1>5, <1>6, <2>1 DEF Names
  <2>2. CASE s \notin Names(g)
    <3>1. IsName(s) /\ Contains(s, Last(m))
      BY NameFacts DEF NamesInv
    <3>2. s = <<Last(m)>>
      BY <1>6, <1>8, <2>2, <3>1 DEF IsLeft
    <3>3. Len(s) = 1
      BY <3>2
    <3> QED
      BY <1>6, <3>3
  <2> QED
    BY <2>1, <2>2
<1>10. ASSUME dag, NEW v, Contains(m, v) PROVE \E w : Contains(m, w) /\ Depend(v, w)
  <2>1. PICK f \in g : Contains(f.of, v)
    BY <1>3, <1>10
  <2>2. CASE Len(f.of) > 1
    BY <1>3, <1>5, <1>10, <2>1, <2>2 DEF CopiesInv
  <2>3. CASE ~(Len(f.of) > 1)
    <3>1. f.of = <<v>>
      BY <1>5, <2>1, <2>3, ShortNames
    <3> QED
      BY <1>3, <1>10, <3>1 DEF IsGroup
  <2> QED
    BY <2>2, <2>3
<1> QED
  BY <1>3, <1>6, <1>7, <1>8, <1>9, <1>10

-----------------------------------------------------------------------------
(* What squash starts with                                                 *)

\* The file that others get an edge to for v.
IsLastWith(h, v) ==
  /\ h \in disk /\ Contains(h.of, v)
  /\ \A k \in disk \ {h} : Contains(k.of, v) => IsEarlier(k, h)

LEMMA EdgeFacts ==
  ASSUME SettingInv, NEW f, NEW h \in disk
  PROVE  Edge(f, h) <=> /\ f # h
                        /\ \E v, w : <<v, w>> \in needs /\ Contains(f.of, v) /\ IsLastWith(h, w)
<1> DEFINE joins(e) == Contains(f.of, e[1]) /\ IsLastWith(h, e[2])
<1>1. Edge(f, h) <=> f # h /\ \E e \in needs : joins(e)
  BY DEF Edge, IsLastWith
<1>2. \A e \in needs : e = <<e[1], e[2]>>
  BY DEF SettingInv
<1>3. \A v, w : joins(<<v, w>>) <=> Contains(f.of, v) /\ IsLastWith(h, w)
  OBVIOUS
<1> HIDE DEF joins
<1>4. (\E e \in needs : joins(e)) <=> \E v, w : <<v, w>> \in needs /\ joins(<<v, w>>)
  BY <1>2
<1> QED
  BY <1>1, <1>3, <1>4

LEMMA LastWithExists ==
  ASSUME SettingInv, NamesInv, WrittenInv, FilesInv, NEW v \in written
  PROVE  \E h \in disk : IsLastWith(h, v)
<1> DEFINE files == {f \in disk : Contains(f.of, v)}
<1>1. files \in SUBSET disk /\ files # {}
  BY NewFilesAreFresh DEF WrittenInv
<1>2. AreFiles(files)
  BY <1>1, DiskIsFiles
<1>3. \E h \in files : \A f \in files \ {h} : IsEarlier(f, h)
  BY <1>1, <1>2, SomeFileIsLast DEF SettingInv
<1> QED
  BY <1>3 DEF IsLastWith

\* A recorded file with a copy of v comes after the file of v that was left.
LEMMA LeftIsNotLast ==
  ASSUME SettingInv, NamesInv, NEW v, NEW r \in Listed, Contains(r, v), Outlasts(r, v),
         NEW f \in NewFiles, f.of = <<v>>
  PROVE  ~IsLastWith(f, v)
<1> SUFFICES ASSUME IsLastWith(f, v) PROVE FALSE
  OBVIOUS
<1>1. PICK k \in disk : k.of = r
  BY NewFilesAreFresh DEF NamesInv
<1>2. k # f /\ IsEarlier(k, f)
  BY <1>1, NewFilesAreFresh DEF IsLastWith
<1>3. IsName(r) /\ v <= Last(r) /\ Len(r) > 1 /\ v \in Statements
  BY NameFacts DEF NamesInv
<1>4. Stamp(f) = v /\ Len(f.of) = 1 /\ v \in Nat /\ Last(r) \in Nat
  BY <1>3, SingleFacts, NameFacts, StatementsAreNumbers DEF Stamp
<1>5. Last(r) = v /\ longFirst
  BY <1>1, <1>2, <1>3, <1>4 DEF IsEarlier, Stamp, SettingInv
<1> QED
  BY <1>4, <1>5 DEF Outlasts

\* What a new file of several statements has is last in a new file.
LEMMA LastWithIsNew ==
  ASSUME SettingInv, NamesInv, CopiesInv, WrittenInv, FilesInv,
         NEW f \in NewFiles, Len(f.of) > 1, NEW v, Contains(f.of, v)
  PROVE  \E h \in NewFiles : IsLastWith(h, v)
<1>1. f.of \in Fresh /\ f.of \in OnDisk /\ v \in written /\ v \in Statements
  BY NewFilesAreFresh, NameFacts DEF NamesInv
<1>2. PICK h \in disk : IsLastWith(h, v)
  BY <1>1, LastWithExists
<1>3. h.of \notin Listed
  <2> SUFFICES ASSUME h.of \in Listed PROVE FALSE
    OBVIOUS
  <2>1. f.of = <<v>>
    BY <1>1, <1>2 DEF IsLastWith, CopiesInv, IsLeft
  <2> QED
    BY <1>1, <2>1, SingleFacts
<1> QED
  BY <1>2, <1>3 DEF NewFiles, Listed

\* A file with a copy in a recorded file has nothing to do with other new ones.
LEMMA LeftIsAlone ==
  ASSUME SettingInv, NamesInv, CopiesInv, WrittenInv, FilesInv,
         NEW f \in NewFiles, NEW r \in Listed, NEW v, Contains(f.of, v), Contains(r, v),
         NEW h \in NewFiles
  PROVE  ~Related(f, h)
<1>1. f \in disk /\ h \in disk /\ f.of \in Fresh /\ h.of \in Fresh
  BY NewFilesAreFresh
<1>2. f.of = <<v>> /\ IsSettled(v) /\ Outlasts(r, v) /\ v \in Statements
  BY <1>1, NameFacts DEF CopiesInv, IsLeft, NamesInv
<1>3. ~Edge(h, f)
  <2> SUFFICES ASSUME NEW u, NEW w, <<u, w>> \in needs, IsLastWith(f, w) PROVE FALSE
    BY <1>1, EdgeFacts
  <2>1. w = v
    BY <1>2, SingleFacts DEF IsLastWith
  <2> QED
    BY <1>2, <2>1, LeftIsNotLast
<1>4. ~Edge(f, h)
  <2> SUFFICES ASSUME NEW u, NEW w, <<u, w>> \in needs, Contains(f.of, u), IsLastWith(h, w)
               PROVE  FALSE
    BY <1>1, EdgeFacts
  <2>1. u = v
    BY <1>2, SingleFacts
  <2>2. PICK q \in Listed : Contains(q, w)
    BY <1>2, <2>1 DEF IsSettled
  <2>3. h.of = <<w>> /\ Outlasts(q, w)
    BY <1>1, <2>2 DEF CopiesInv, IsLeft, IsLastWith
  <2> QED
    BY <2>2, <2>3, LeftIsNotLast
<1> QED
  BY <1>3, <1>4 DEF Related

\* Two files with both ends of a dependency are in the same component.
LEMMA CopiesAreTogether ==
  ASSUME SettingInv, FilesInv, NEW g \in Components, NEW f \in g, NEW x \in NewFiles,
         NEW v, NEW w, <<v, w>> \in needs, Contains(f.of, v), Contains(x.of, v),
         NEW h \in NewFiles, IsLastWith(h, w)
  PROVE  x \in g
<1>1. IsFiniteSet(disk) /\ f \in NewFiles /\ h \in disk
  BY ComponentFacts DEF FilesInv, IsLastWith
<1>2. \A y, z \in NewFiles : Related(y, z) /\ y \in g => z \in g
  BY <1>1, ComponentFacts
<1>3. f = h \/ Edge(f, h)
  BY <1>1, EdgeFacts
<1>4. x = h \/ Edge(x, h)
  BY <1>1, EdgeFacts
<1>5. h \in g
  BY <1>1, <1>2, <1>3 DEF Related
<1> QED
  BY <1>2, <1>4, <1>5 DEF Related

\* The file that v's copy is taken from comes before the last one with v.
LEMMA LastOutlasts ==
  ASSUME SettingInv, NamesInv, NEW x \in NewFiles, NEW v \in Statements, x.of = <<v>>,
         NEW h \in NewFiles, Contains(h.of, v), IsEarlier(x, h)
  PROVE  Outlasts(h.of, v)
<1>1. Stamp(x) = v /\ Len(x.of) = 1
  BY SingleFacts DEF Stamp
<1>2. h.of \in OnDisk /\ IsName(h.of) /\ v <= Last(h.of)
  BY NewFilesAreFresh DEF NamesInv
<1>3. Last(h.of) \in Nat /\ Len(h.of) \in Nat \ {0} /\ v \in Nat
  BY <1>2, NameFacts, StatementsAreNumbers
<1>4. CASE v < Last(h.of)
  BY <1>4 DEF Outlasts
<1>5. CASE ~(v < Last(h.of))
  <2>1. (1 > Len(h.of)) = longFirst
    BY <1>1, <1>3, <1>5 DEF IsEarlier, Stamp
  <2>2. ~(1 > Len(h.of))
    BY <1>3
  <2> QED
    BY <2>1, <2>2 DEF Outlasts
<1> QED
  BY <1>4, <1>5

LEMMA CopiesOfComponent ==
  ASSUME SettingInv, NamesInv, CopiesInv, WrittenInv, FilesInv, dag,
         NEW g \in Components, Cardinality(g) > 1,
         NEW f \in g, NEW x \in disk, x \notin g,
         NEW v, Contains(x.of, v), Contains(f.of, v)
  PROVE  /\ x \in NewFiles /\ IsLeft(x.of, v)
         /\ \E h \in g : Contains(h.of, v) /\ Outlasts(h.of, v)
<1>1. /\ IsFiniteSet(disk) /\ f \in NewFiles /\ f \in disk /\ f # x
      /\ \A y, z \in NewFiles : Related(y, z) /\ y \in g => z \in g
      /\ \E y \in g : y \in NewFiles /\ y \in disk /\ Related(f, y)
  BY ComponentFacts, NewFilesAreFresh DEF FilesInv
<1>2. v \in Statements /\ v \in written /\ IsName(f.of) /\ IsName(x.of)
  BY <1>1, NameFacts, NewFilesAreFresh DEF NamesInv
<1>3. x \in NewFiles /\ x.of \in Fresh /\ f.of \in Fresh
  <2>1. x.of \notin Listed
    BY <1>1, LeftIsAlone
  <2> QED
    BY <1>1, <2>1, NewFilesAreFresh DEF NewFiles, Listed
<1>4. ASSUME NEW u, NEW w, <<u, w>> \in needs, Contains(x.of, u), NEW k \in g, Contains(k.of, u),
             NEW h \in NewFiles, IsLastWith(h, w)
      PROVE  FALSE
  BY <1>3, <1>4, CopiesAreTogether
<1>5. CASE Len(f.of) > 1 /\ Len(x.of) > 1
  <2>1. PICK w : Contains(f.of, w) /\ Contains(x.of, w) /\ Depend(v, w)
    BY <1>3, <1>5 DEF CopiesInv
  <2>2. PICK h \in NewFiles : IsLastWith(h, w)
    BY <1>1, <1>5, <2>1, LastWithIsNew
  <2>3. PICK i \in NewFiles : IsLastWith(i, v)
    BY <1>1, <1>5, LastWithIsNew
  <2>4. CASE <<v, w>> \in needs
    BY <1>4, <2>2, <2>4
  <2>5. CASE <<w, v>> \in needs
    BY <1>4, <2>1, <2>3, <2>5
  <2> QED
    BY <2>1, <2>4, <2>5 DEF Depend
<1>6. CASE ~(Len(f.of) > 1) /\ Len(x.of) > 1
  <2>1. f.of = <<v>> /\ \A u : Contains(f.of, u) => u = v
    BY <1>2, <1>6, ShortNames, SingleFacts
  <2>2. PICK y \in g : y \in NewFiles /\ y \in disk /\ Related(f, y)
    BY <1>1
  <2>3. CASE Edge(f, y)
    <3>1. PICK w : <<v, w>> \in needs /\ IsLastWith(y, w)
      BY <2>1, <2>2, <2>3, EdgeFacts
    <3> QED
      BY <1>4, <2>2, <3>1
  <2>4. CASE Edge(y, f)
    <3>1. IsLastWith(f, v)
      <4>1. PICK u, w : <<u, w>> \in needs /\ IsLastWith(f, w)
        BY <1>1, <2>4, EdgeFacts
      <4> QED
        BY <2>1, <4>1 DEF IsLastWith
    <3>2. PICK w : Contains(x.of, w) /\ Depend(v, w)
      BY <1>3, <1>6 DEF CopiesInv
    <3>3. CASE <<v, w>> \in needs
      <4>1. PICK h \in NewFiles : IsLastWith(h, w)
        BY <1>3, <1>6, <3>2, LastWithIsNew
      <4> QED
        BY <1>4, <3>3, <4>1
    <3>4. CASE <<w, v>> \in needs
      <4>1. Edge(x, f)
        BY <1>1, <3>1, <3>2, <3>4, EdgeFacts
      <4> QED
        BY <1>1, <1>3, <4>1 DEF Related
    <3> QED
      BY <3>2, <3>3, <3>4 DEF Depend
  <2> QED
    BY <2>2, <2>3, <2>4 DEF Related
<1>7. CASE Len(f.of) > 1 /\ ~(Len(x.of) > 1)
  <2>1. x.of = <<v>> /\ \A u : Contains(x.of, u) => u = v
    BY <1>2, <1>7, ShortNames, SingleFacts
  <2>2. IsSettled(v)
    <3> SUFFICES ASSUME NEW w, <<v, w>> \in needs PROVE \E q \in Listed : Contains(q, w)
      BY DEF IsSettled
    <3>1. w \in written
      BY <1>2 DEF WrittenInv
    <3>2. PICK h \in disk : IsLastWith(h, w)
      BY <3>1, LastWithExists
    <3>3. h \notin NewFiles
      BY <1>4, <3>2
    <3> QED
      BY <3>2, <3>3 DEF NewFiles, Listed, IsLastWith
  <2>3. PICK w : Contains(f.of, w) /\ Depend(v, w)
    BY <1>3, <1>7 DEF CopiesInv
  <2>4. <<w, v>> \in needs
    <3>1. PICK h \in NewFiles : IsLastWith(h, w)
      BY <1>1, <1>7, <2>3, LastWithIsNew
    <3> QED
      BY <1>4, <2>3, <3>1 DEF Depend
  <2>5. PICK h \in NewFiles : IsLastWith(h, v)
    BY <1>1, <1>7, LastWithIsNew
  <2>6. f = h \/ Edge(f, h)
    BY <1>1, <2>3, <2>4, <2>5, NewFilesAreFresh, EdgeFacts
  <2>7. h \in g
    BY <1>1, <2>6 DEF Related
  <2>8. IsEarlier(x, h) /\ Contains(h.of, v)
    BY <2>5, <2>7 DEF IsLastWith
  <2>9. Outlasts(h.of, v)
    BY <1>2, <1>3, <2>1, <2>8, LastOutlasts
  <2> QED
    BY <1>3, <2>1, <2>2, <2>7, <2>8, <2>9 DEF IsLeft
<1>8. CASE ~(Len(f.of) > 1) /\ ~(Len(x.of) > 1)
  <2>1. f.of = <<v>> /\ x.of = <<v>>
    BY <1>2, <1>8, ShortNames
  <2> QED
    BY <1>1, <2>1 DEF FilesInv
<1> QED
  BY <1>5, <1>6, <1>7, <1>8

LEMMA ComponentIsGroup ==
  ASSUME SettingInv, NamesInv, CopiesInv, WrittenInv, FilesInv, dag,
         NEW g \in Components, Cardinality(g) > 1
  PROVE  IsGroup(g)
<1>1. IsFiniteSet(disk) /\ g \subseteq NewFiles /\ \A f \in g : \E h \in g : Related(f, h)
  BY ComponentFacts DEF FilesInv
<1>2. ASSUME NEW s \in OnDisk \ Names(g), NEW f \in g, NEW v, Contains(s, v), Contains(f.of, v)
      PROVE  /\ s \in Fresh /\ IsLeft(s, v)
             /\ \E h \in g : Contains(h.of, v) /\ Outlasts(h.of, v)
  <2>1. PICK x \in disk : x.of = s
    BY NewFilesAreFresh
  <2>2. x \notin g
    BY <1>2, <2>1 DEF Names
  <2> QED
    BY <1>2, <2>1, <2>2, CopiesOfComponent, NewFilesAreFresh
<1>3. ASSUME NEW f \in g, NEW v, f.of = <<v>>
      PROVE  \E h \in g : \E w : Contains(h.of, w) /\ Depend(v, w)
  <2>1. PICK h \in g : Related(f, h)
    BY <1>1
  <2>2. f \in disk /\ h \in disk /\ v \in Statements
    <3>1. f \in disk /\ h \in disk /\ IsName(f.of) /\ Len(f.of) = 1
      BY <1>1, <1>3, NewFilesAreFresh DEF NamesInv
    <3>2. Last(f.of) = v
      BY <1>3 DEF Last
    <3> QED
      BY <3>1, <3>2, NameFacts
  <2>3. CASE Edge(f, h)
    <3>1. PICK u, w : <<u, w>> \in needs /\ Contains(f.of, u) /\ Contains(h.of, w)
      BY <2>2, <2>3, EdgeFacts DEF IsLastWith
    <3>2. u = v
      BY <1>3, <2>2, <3>1, SingleFacts
    <3> QED
      BY <3>1, <3>2 DEF Depend
  <2>4. CASE Edge(h, f)
    <3>1. PICK u, w : <<u, w>> \in needs /\ Contains(h.of, u) /\ Contains(f.of, w)
      BY <2>2, <2>4, EdgeFacts DEF IsLastWith
    <3>2. w = v
      BY <1>3, <2>2, <3>1, SingleFacts
    <3> QED
      BY <3>1, <3>2 DEF Depend
  <2> QED
    BY <2>1, <2>3, <2>4 DEF Related
<1> QED
  BY <1>1, <1>2, <1>3 DEF IsGroup

LEMMA SquashedGroups ==
  ASSUME SettingInv, NamesInv, CopiesInv, WrittenInv, FilesInv
  PROVE  /\ \A g \in SquashGroups : IsGroup(g)
         /\ \A g, h \in SquashGroups : g # h => g \cap h = {}
         /\ ~dag /\ SquashGroups # {} => NewFiles \subseteq UNION SquashGroups
<1>1. \A g \in SquashGroups : Cardinality(g) > 1
  <2>1. NewFiles \in SUBSET disk
    BY DEF NewFiles
  <2>2. ASSUME NEW g \in SUBSET disk, Cardinality(g) >= 2 PROVE Cardinality(g) > 1
    <3>1. Cardinality(g) \in Nat
      BY FS_Subset, FS_CardinalityType DEF FilesInv
    <3> QED
      BY <2>2, <3>1
  <2>3. \A g \in SquashGroups : g \in SUBSET disk /\ Cardinality(g) >= 2
    BY <2>1, ComponentFacts DEF SquashGroups, FilesInv
  <2> QED
    BY <2>2, <2>3
<1>2. CASE dag
  <2>1. SquashGroups \subseteq Components
    BY <1>2 DEF SquashGroups
  <2> QED
    BY <1>1, <1>2, <2>1, ComponentIsGroup, ComponentFacts DEF FilesInv
<1>3. CASE ~dag
  <2>1. SquashGroups \subseteq {NewFiles}
    BY <1>3 DEF SquashGroups
  <2>2. ASSUME NewFiles \in SquashGroups PROVE IsGroup(NewFiles)
    <3>1. Cardinality(NewFiles) > 1
      BY <1>1, <2>2
    <3>2. ASSUME NEW s \in OnDisk \ Names(NewFiles), NEW f \in NewFiles, NEW v,
                 Contains(s, v), Contains(f.of, v)
          PROVE  FALSE
      <4>1. s \in Listed
        BY <3>2, NewFilesAreFresh DEF Fresh, Names
      <4> QED
        BY <1>3, <3>2, <4>1, NewFilesAreFresh DEF CopiesInv, IsLeft
    <3> QED
      BY <1>3, <3>1, <3>2 DEF IsGroup
  <2> QED
    BY <1>3, <2>1, <2>2
<1> QED
  BY <1>2, <1>3

-----------------------------------------------------------------------------
(* The steps                                                               *)

LEMMA RepoInitially ==
  ASSUME RepoInit
  PROVE  RepoInv
<1>1. SettingInv
  <2>1. \A e \in needs : e \in Statements \X Statements /\ (e[2] < e[1] \/ e[2] > e[1])
    BY DEF RepoInit
  <2>2. \A e \in needs : e[1] # e[2]
    <3> TAKE e \in needs
    <3>1. e[1] \in Nat /\ e[2] \in Nat
      BY <2>1, StatementsAreNumbers
    <3> QED
      BY <2>1, <3>1
  <2> QED
    BY <2>1, <2>2 DEF RepoInit, SettingInv
<1>2. OnDisk = {} /\ Listed = {} /\ Fresh = {} /\ NewFiles = {}
  BY DEF RepoInit, OnDisk, Listed, Fresh, NewFiles, Names
<1>3. NamesInv /\ CopiesInv /\ WrittenInv
  BY <1>2 DEF NamesInv, CopiesInv, WrittenInv, RepoInit
<1>4. FilesInv
  <2>1. IsFiniteSet(disk)
    BY FS_EmptySet DEF RepoInit
  <2>2. MaxEdits \in Nat /\ 1..0 = {}
    BY RepositoryAssumption
  <2> QED
    BY <2>1, <2>2 DEF FilesInv, RepoInit
<1>5. SquashInv /\ StageInv
  BY DEF SquashInv, StageInv, RepoInit
<1> QED
  BY <1>1, <1>3, <1>4, <1>5 DEF RepoInv

LEMMA SettingStays ==
  ASSUME SettingInv, UNCHANGED setting
  PROVE  SettingInv'
BY DEF SettingInv, setting

LEMMA LeftStays ==
  ASSUME UNCHANGED setting
  PROVE  /\ \A s, v : Outlasts(s, v)' <=> Outlasts(s, v)
         /\ \A v, w : Depend(v, w)' <=> Depend(v, w)
         /\ Listed \subseteq Listed' => \A s, v : IsLeft(s, v) => IsLeft(s, v)'
BY DEF Outlasts, Depend, IsLeft, IsSettled, setting

LEMMA SameNames ==
  ASSUME NamesInv, CopiesInv, WrittenInv, UNCHANGED setting,
         OnDisk' = OnDisk, Listed' = Listed, UNCHANGED written
  PROVE  NamesInv' /\ CopiesInv' /\ WrittenInv'
<1>1. Fresh' = Fresh
  BY DEF Fresh
<1>2. NamesInv'
  BY DEF NamesInv
<1>3. CopiesInv'
  BY <1>1, LeftStays DEF CopiesInv, setting
<1>4. WrittenInv'
  BY DEF WrittenInv, setting
<1> QED
  BY <1>2, <1>3, <1>4

\* Without a squash there is nothing to say of one.
LEMMA NoSquash ==
  ASSUME stage' = "none", plan' = {}, doomed' = {}, merged' = {}
  PROVE  SquashInv' /\ StageInv'
BY DEF SquashInv, StageInv

LEMMA NewKeeps ==
  ASSUME RepoInv, NEW n \in Statements, New(n)
  PROVE  RepoInv'
<1> DEFINE s == <<n>>
           file == File(s, {})
<1>1. /\ stage = "none" /\ n \notin written
      /\ \A m \in Statements : <<n, m>> \in needs => m \in written
      /\ disk' = disk \cup {file} /\ written' = written \cup {n}
      /\ UNCHANGED setting /\ UNCHANGED <<meta, edits, squashVars>>
  BY DEF New
<1>2. file.of = s /\ file.edited = {}
  BY DEF File
<1>3. IsName(s) /\ Len(s) = 1 /\ Last(s) = n /\ \A v : Contains(s, v) <=> v = n
  BY SingleFacts
<1>4. OnDisk' = OnDisk \cup {s} /\ Listed' = Listed
  BY <1>1, <1>2 DEF OnDisk, Listed, Names
<1> HIDE DEF file, s
<1>5. \A t \in OnDisk : ~Contains(t, n) /\ t # s /\ Last(t) # n
  <2>1. \A t \in OnDisk : ~Contains(t, n)
    BY <1>1 DEF RepoInv, NamesInv
  <2>2. \A t \in OnDisk : Contains(t, Last(t))
    BY NameFacts DEF RepoInv, NamesInv
  <2> QED
    BY <1>3, <2>1, <2>2
<1>6. Fresh' = Fresh \cup {s}
  BY <1>4, <1>5 DEF Fresh, RepoInv, NamesInv
<1>7. NamesInv'
  <2>1. n <= n
    BY StatementsAreNumbers
  <2>2. \A t \in OnDisk' : IsName(t) /\ \A v : Contains(t, v) => v <= Last(t) /\ v \in written'
    BY <1>1, <1>3, <1>4, <2>1 DEF RepoInv, NamesInv
  <2>3. \A t, r \in OnDisk' : Last(t) = Last(r) /\ Len(t) = Len(r) => t = r
    BY <1>3, <1>4, <1>5 DEF RepoInv, NamesInv
  <2>4. Listed' \subseteq OnDisk' /\ \A r \in Listed' : Len(r) > 1
    BY <1>4 DEF RepoInv, NamesInv
  <2> QED
    BY <2>2, <2>3, <2>4 DEF NamesInv
<1>8. CopiesInv'
  <2>1. \A t \in Fresh, r \in Fresh \cup Listed : \A v :
          Contains(t, v) /\ Contains(r, v) => v # n
    BY <1>5 DEF Fresh
  <2>2. \A t \in Fresh', r \in Listed' : \A v :
          Contains(t, v) /\ Contains(r, v) => IsLeft(t, v)' /\ Outlasts(r, v)'
    <3>1. \A r \in Listed : ~Contains(r, n)
      BY <1>5 DEF RepoInv, NamesInv
    <3>2. \A t \in Fresh', r \in Listed' : \A v :
            Contains(t, v) /\ Contains(r, v) => t \in Fresh /\ r \in Listed
      BY <1>3, <1>4, <1>6, <3>1
    <3> QED
      BY <1>1, <1>4, <3>2, LeftStays DEF RepoInv, CopiesInv
  <2>3. dag => \A t, r \in Fresh' : \A v :
                 Contains(t, v) /\ Contains(r, v) =>
                   \/ \A w : Contains(t, w) => Contains(r, w)
                   \/ \A w : Contains(r, w) => Contains(t, w)
    <3>1. \A t, r \in Fresh' : \A v :
            Contains(t, v) /\ Contains(r, v) => t = r \/ (t \in Fresh /\ r \in Fresh)
      BY <1>3, <1>5, <1>6 DEF Fresh
    <3> QED
      BY <3>1 DEF RepoInv, CopiesInv
  <2>4. dag => \A t \in Fresh' : Len(t) > 1 =>
                 \A v : Contains(t, v) => \E w : Contains(t, w) /\ Depend(v, w)
    <3>1. \A t \in Fresh' : Len(t) > 1 => t \in Fresh
      <4>1. ~(Len(s) > 1)
        BY <1>3
      <4> QED
        BY <1>6, <4>1
    <3> QED
      BY <3>1 DEF RepoInv, CopiesInv
  <2> QED
    BY <1>1, <2>2, <2>3, <2>4, LeftStays DEF CopiesInv, setting
<1>9. WrittenInv'
  <2>1. written' \subseteq Statements
    BY <1>1 DEF RepoInv, WrittenInv
  <2>2. \A v \in written' : \E t \in OnDisk' : Contains(t, v)
    BY <1>1, <1>3, <1>4 DEF RepoInv, WrittenInv
  <2>3. \A e \in needs' : e[1] \in written' => e[2] \in written'
    <3>1. \A e \in needs : e = <<e[1], e[2]>> /\ e[2] \in Statements
      BY DEF RepoInv, SettingInv
    <3> QED
      BY <1>1, <3>1 DEF RepoInv, WrittenInv, setting
  <2> QED
    BY <2>1, <2>2, <2>3 DEF WrittenInv
<1>10. FilesInv'
  <2>1. IsFiniteSet(disk')
    BY <1>1, FS_AddElement DEF RepoInv, FilesInv
  <2>2. \A f, g \in disk' : f.of = g.of => f = g
    <3>1. \A f \in disk : f.of # s
      BY <1>5, NewFilesAreFresh
    <3> QED
      BY <1>1, <1>2, <3>1 DEF RepoInv, FilesInv
  <2>3. UNION {f.edited : f \in disk'} = UNION {f.edited : f \in disk}
    BY <1>1, <1>2
  <2> QED
    BY <1>1, <2>1, <2>2, <2>3 DEF RepoInv, FilesInv
<1>11. SquashInv' /\ StageInv'
  BY <1>1, NoSquash DEF RepoInv, StageInv, squashVars
<1>12. SettingInv'
  BY <1>1, SettingStays DEF RepoInv
<1> QED
  BY <1>7, <1>8, <1>9, <1>10, <1>11, <1>12 DEF RepoInv

LEMMA EditKeeps ==
  ASSUME RepoInv, NEW f \in disk, Edit(f)
  PROVE  RepoInv'
<1> DEFINE file == File(f.of, f.edited \cup {edits + 1})
<1>1. /\ stage = "none" /\ edits < MaxEdits /\ edits' = edits + 1
      /\ disk' = (disk \ {f}) \cup {file}
      /\ UNCHANGED setting /\ UNCHANGED <<meta, written, squashVars>>
  BY DEF Edit
<1>2. file.of = f.of /\ file.edited = f.edited \cup {edits + 1}
  BY DEF File
<1> HIDE DEF file
<1>3. OnDisk' = OnDisk /\ Listed' = Listed
  BY <1>1, <1>2 DEF OnDisk, Listed, Names
<1>4. NamesInv' /\ CopiesInv' /\ WrittenInv'
  BY <1>1, <1>3, SameNames DEF RepoInv
<1>5. FilesInv'
  <2>1. IsFiniteSet(disk')
    BY <1>1, FS_AddElement, FS_RemoveElement DEF RepoInv, FilesInv
  <2>2. \A g, h \in disk' : g.of = h.of => g = h
    BY <1>1, <1>2 DEF RepoInv, FilesInv
  <2>3. edits' \in 0..MaxEdits /\ 1..edits' = (1..edits) \cup {edits + 1}
    BY <1>1, RepositoryAssumption DEF RepoInv, FilesInv
  <2>4. UNION {g.edited : g \in disk'} = (UNION {g.edited : g \in disk}) \cup {edits + 1}
    BY <1>1, <1>2
  <2> QED
    BY <1>1, <2>1, <2>2, <2>3, <2>4 DEF RepoInv, FilesInv
<1>6. SquashInv' /\ StageInv'
  BY <1>1, NoSquash DEF RepoInv, StageInv, squashVars
<1>7. SettingInv'
  BY <1>1, SettingStays DEF RepoInv
<1> QED
  BY <1>4, <1>5, <1>6, <1>7 DEF RepoInv

LEMMA StartKeeps ==
  ASSUME RepoInv, StartSquash
  PROVE  RepoInv'
<1>1. /\ plan' = SquashGroups /\ SquashGroups # {} /\ stage' = "write" /\ stage = "none"
      /\ UNCHANGED setting /\ UNCHANGED <<disk, meta, written, edits>>
      /\ doomed' = {} /\ merged' = {}
  BY DEF StartSquash, RepoInv, StageInv
<1>2. OnDisk' = OnDisk /\ Listed' = Listed /\ NewFiles' = NewFiles /\ Fresh' = Fresh
  BY <1>1 DEF OnDisk, Listed, NewFiles, Fresh, Names
<1>3. NamesInv' /\ CopiesInv' /\ WrittenInv'
  BY <1>1, <1>2, SameNames DEF RepoInv
<1>4. FilesInv' /\ SettingInv'
  BY <1>1, SettingStays DEF RepoInv, FilesInv
<1>5. \A g : IsGroup(g) => IsGroup(g)'
  BY <1>1, <1>2, LeftStays DEF IsGroup, setting, Names
<1>6. SquashInv'
  <2>1. /\ \A g \in plan' : IsGroup(g)'
        /\ \A g, h \in plan' : g # h => g \cap h = {}
        /\ ~dag' => NewFiles' \subseteq UNION plan'
    BY <1>1, <1>2, <1>5, SquashedGroups DEF RepoInv, setting
  <2> QED
    BY <1>1, <2>1 DEF SquashInv
<1>7. StageInv'
  BY <1>1 DEF StageInv
<1> QED
  BY <1>3, <1>4, <1>6, <1>7 DEF RepoInv

LEMMA WriteKeeps ==
  ASSUME RepoInv, WriteMerged
  PROVE  RepoInv'
<1>1. PICK g \in plan :
        /\ plan' = plan \ {g} /\ doomed' = g /\ merged' = merged \cup {Merge(g)}
        /\ disk' = {f \in disk : f.of # Merge(g).of} \cup {Merge(g)}
  BY DEF WriteMerged
<1>2. /\ stage = "write" /\ stage' = "unlink" /\ doomed = {}
      /\ UNCHANGED setting /\ UNCHANGED <<meta, written, edits>>
  BY DEF WriteMerged, RepoInv, StageInv
<1> DEFINE file == Merge(g)
           m == file.of
<1>3. IsGroup(g) /\ g \cap merged = {} /\ g \subseteq NewFiles
  BY DEF RepoInv, SquashInv, IsGroup
<1>4. /\ IsName(m) /\ Len(m) > 1 /\ m \notin OnDisk
      /\ \A v : Contains(m, v) => v <= Last(m) /\ v \in written
      /\ \A v : Contains(m, v) <=> \E f \in g : Contains(f.of, v)
      /\ file.edited = UNION {f.edited : f \in g}
      /\ \A s \in OnDisk : Last(s) = Last(m) => Len(s) # Len(m)
      /\ \A s \in OnDisk \ Names(g) : \A v :
           Contains(s, v) /\ Contains(m, v) => s \in Fresh /\ IsLeft(s, v) /\ Outlasts(m, v)
      /\ dag => \A v : Contains(m, v) => \E w : Contains(m, w) /\ Depend(v, w)
  BY <1>3, MergedGroup DEF RepoInv
<1> HIDE DEF file, m
<1>5. /\ disk' = disk \cup {file} /\ merged' = merged \cup {file} /\ file \notin disk
      /\ file.of = m
  BY <1>1, <1>4, NewFilesAreFresh DEF file, m
<1>6. OnDisk' = OnDisk \cup {m} /\ Listed' = Listed /\ Fresh' = Fresh \cup {m}
  <2>1. OnDisk' = OnDisk \cup {m} /\ Listed' = Listed
    BY <1>2, <1>5 DEF OnDisk, Listed, Names
  <2> QED
    BY <1>4, <2>1 DEF Fresh, RepoInv, NamesInv
<1>7. NewFiles' = NewFiles \cup {file} /\ m \notin Listed
  BY <1>2, <1>4, <1>5 DEF NewFiles, RepoInv, NamesInv, Listed
<1>8. NamesInv'
  <2>1. \A s \in OnDisk' : IsName(s) /\ \A v : Contains(s, v) => v <= Last(s) /\ v \in written'
    BY <1>2, <1>4, <1>6 DEF RepoInv, NamesInv
  <2>2. \A s, t \in OnDisk' : Last(s) = Last(t) /\ Len(s) = Len(t) => s = t
    BY <1>4, <1>6 DEF RepoInv, NamesInv
  <2> QED
    BY <1>6, <2>1, <2>2 DEF RepoInv, NamesInv
<1>9. \A f \in g : f.of \in Fresh
  BY <1>3, NewFilesAreFresh
<1>10. CopiesInv'
  <2>1. \A s \in Fresh', r \in Listed' : \A v :
          Contains(s, v) /\ Contains(r, v) => IsLeft(s, v) /\ Outlasts(r, v)
    <3>1. \A r \in Listed : r \in OnDisk /\ r \notin Fresh /\ r \notin Names(g)
      BY <1>9 DEF Fresh, RepoInv, NamesInv, Names
    <3>2. \A r \in Listed : \A v : ~(Contains(m, v) /\ Contains(r, v))
      BY <1>4, <3>1
    <3> QED
      BY <1>6, <3>2 DEF RepoInv, CopiesInv
  <2>2. dag => \A s, t \in Fresh' : \A v :
                 Contains(s, v) /\ Contains(t, v) =>
                   \/ \A w : Contains(s, w) => Contains(t, w)
                   \/ \A w : Contains(t, w) => Contains(s, w)
    <3>1. \A s \in Fresh : \A v :
            Contains(s, v) /\ Contains(m, v) => \A w : Contains(s, w) => Contains(m, w)
      <4> SUFFICES ASSUME NEW s \in Fresh, NEW v, Contains(s, v), Contains(m, v),
                          NEW w, Contains(s, w)
                   PROVE  Contains(m, w)
        OBVIOUS
      <4>1. CASE s \in Names(g)
        BY <1>4, <4>1 DEF Names
      <4>2. CASE s \notin Names(g)
        <5>1. s = <<v>> /\ v \in Statements
          <6>1. s \in OnDisk /\ s = <<v>>
            BY <1>4, <4>2 DEF IsLeft, Fresh
          <6> QED
            BY <6>1, NameFacts DEF RepoInv, NamesInv
        <5> QED
          BY <5>1, SingleFacts
      <4> QED
        BY <4>1, <4>2
    <3> QED
      BY <1>6, <3>1 DEF RepoInv, CopiesInv
  <2>3. dag => \A s \in Fresh' : Len(s) > 1 =>
                 \A v : Contains(s, v) => \E w : Contains(s, w) /\ Depend(v, w)
    BY <1>4, <1>6 DEF RepoInv, CopiesInv
  <2> QED
    BY <1>2, <1>6, <2>1, <2>2, <2>3, LeftStays DEF CopiesInv, setting
<1>11. WrittenInv'
  BY <1>2, <1>6 DEF RepoInv, WrittenInv, setting
<1>12. FilesInv'
  <2>1. IsFiniteSet(disk')
    BY <1>5, FS_AddElement DEF RepoInv, FilesInv
  <2>2. \A f, h \in disk' : f.of = h.of => f = h
    BY <1>4, <1>5, NewFilesAreFresh DEF RepoInv, FilesInv
  <2>3. UNION {f.edited : f \in disk'} = UNION {f.edited : f \in disk}
    <3>1. \A f \in g : f \in disk
      BY <1>3, NewFilesAreFresh
    <3>2. file.edited \subseteq UNION {f.edited : f \in disk}
      BY <1>4, <3>1
    <3>3. UNION {f.edited : f \in disk'} = (UNION {f.edited : f \in disk}) \cup file.edited
      BY <1>5
    <3> QED
      BY <3>2, <3>3
  <2> QED
    BY <1>2, <2>1, <2>2, <2>3 DEF RepoInv, FilesInv
<1>13. SquashInv'
  <2>1. ASSUME NEW h \in plan' PROVE IsGroup(h)' /\ h \cap merged' = {} /\ h \cap doomed' = {}
    <3>1. h \in plan /\ h # g /\ IsGroup(h) /\ h \cap merged = {} /\ h \cap g = {}
      BY <1>1 DEF RepoInv, SquashInv
    <3>2. h \subseteq NewFiles /\ file \notin h
      BY <1>5, <3>1, NewFilesAreFresh DEF IsGroup
    <3>3. \A f \in h : \A v : ~(Contains(f.of, v) /\ Contains(m, v))
      <4> SUFFICES ASSUME NEW f \in h, NEW v, Contains(f.of, v), Contains(m, v) PROVE FALSE
        OBVIOUS
      <4>1. PICK k \in g : Contains(k.of, v)
        BY <1>4
      <4>2. f \in disk /\ k \in disk /\ f.of \in OnDisk /\ k.of \in OnDisk
        BY <1>3, <3>2, NewFilesAreFresh
      <4>3. f.of \notin Names(g) /\ k.of \notin Names(h)
        <5>1. \A x \in g, y \in h : x.of # y.of
          BY <1>3, <3>1, <3>2, NewFilesAreFresh DEF RepoInv, FilesInv
        <5> QED
          BY <5>1 DEF Names
      <4>4. k.of = <<v>>
        BY <3>1, <4>1, <4>2, <4>3 DEF IsGroup, IsLeft
      <4>5. f.of = <<v>>
        BY <1>3, <4>1, <4>2, <4>3 DEF IsGroup, IsLeft
      <4> QED
        BY <3>1, <4>2, <4>4, <4>5 DEF RepoInv, FilesInv
    <3>4. IsGroup(h)'
      <4>1. h \subseteq NewFiles' /\ Cardinality(h) > 1
        BY <1>7, <3>1, <3>2 DEF IsGroup
      <4>2. \A s \in OnDisk' \ Names(h), f \in h : \A v :
              Contains(s, v) /\ Contains(f.of, v) =>
                /\ s \in Fresh' /\ IsLeft(s, v)'
                /\ \E k \in h : Contains(k.of, v) /\ Outlasts(k.of, v)'
        <5>1. \A s \in OnDisk' \ Names(h), f \in h : \A v :
                Contains(s, v) /\ Contains(f.of, v) => s \in OnDisk \ Names(h)
          BY <1>6, <3>3
        <5>2. \A s \in OnDisk \ Names(h), f \in h : \A v :
                Contains(s, v) /\ Contains(f.of, v) =>
                  /\ s \in Fresh' /\ IsLeft(s, v)'
                  /\ \E k \in h : Contains(k.of, v) /\ Outlasts(k.of, v)'
          BY <1>2, <1>6, <3>1, LeftStays DEF IsGroup
        <5> QED
          BY <5>1, <5>2
      <4>3. dag' => \A f \in h : \A v :
              f.of = <<v>> => \E k \in h : \E w : Contains(k.of, w) /\ Depend(v, w)'
        BY <1>2, <3>1, LeftStays DEF IsGroup, setting
      <4> QED
        BY <4>1, <4>2, <4>3 DEF IsGroup, Names
    <3> QED
      BY <1>1, <1>5, <3>1, <3>2, <3>4
  <2>2. \A h, k \in plan' : h # k => h \cap k = {}
    BY <1>1 DEF RepoInv, SquashInv
  <2>3. doomed' \cup merged' \subseteq NewFiles' /\ doomed' \cap merged' = {}
    BY <1>1, <1>3, <1>5, <1>7, NewFilesAreFresh DEF RepoInv, SquashInv
  <2>4. \A f \in doomed' : \E k \in merged' :
          (\A v : Contains(f.of, v) => Contains(k.of, v)) /\ f.edited \subseteq k.edited
    BY <1>1, <1>4, <1>5
  <2>5. \A k \in merged' :
          /\ Len(k.of) > 1
          /\ \A s \in Fresh' \ Names(merged' \cup doomed') : \A v :
               Contains(s, v) /\ Contains(k.of, v) => IsLeft(s, v)' /\ Outlasts(k.of, v)'
    <3>1. \A s \in Fresh' \ Names(merged' \cup doomed') :
            s \in Fresh \ Names(merged \cup doomed) /\ s \in OnDisk /\ s \notin Names(g)
      BY <1>1, <1>2, <1>5, <1>6 DEF Names, Fresh
    <3>2. ASSUME NEW k \in merged', NEW s \in Fresh' \ Names(merged' \cup doomed'), NEW v,
                 Contains(s, v), Contains(k.of, v)
          PROVE  IsLeft(s, v) /\ Outlasts(k.of, v)
      BY <1>4, <1>5, <3>1, <3>2 DEF RepoInv, SquashInv
    <3>3. \A k \in merged' : Len(k.of) > 1
      BY <1>4, <1>5 DEF RepoInv, SquashInv
    <3> QED
      BY <1>2, <1>6, <3>2, <3>3, LeftStays
  <2>6. ~dag' => NewFiles' \subseteq merged' \cup doomed' \cup UNION plan'
    <3>1. ~dag' => NewFiles \subseteq merged \cup UNION plan
      BY <1>2 DEF RepoInv, SquashInv, setting
    <3> QED
      BY <1>1, <1>5, <1>7, <3>1
  <2> QED
    BY <2>1, <2>2, <2>3, <2>4, <2>5, <2>6 DEF SquashInv
<1>14. StageInv'
  <2>1. g # {}
    <3>1. Cardinality(g) > 1 /\ Cardinality({}) = 0
      BY <1>3, FS_EmptySet DEF IsGroup
    <3> QED
      BY <3>1
  <2> QED
    BY <1>1, <1>2, <2>1 DEF StageInv
<1>15. SettingInv'
  BY <1>2, SettingStays DEF RepoInv
<1> QED
  BY <1>8, <1>10, <1>11, <1>12, <1>13, <1>14, <1>15 DEF RepoInv

LEMMA UnlinkKeeps ==
  ASSUME RepoInv, Unlink
  PROVE  RepoInv'
<1> DEFINE f == Head(Ordered(doomed))
<1>1. /\ stage = "unlink" /\ doomed # {} /\ doomed' = doomed \ {f}
      /\ disk' = {g \in disk : g.of # f.of}
      /\ stage' = IF doomed' # {} THEN "unlink" ELSE IF plan # {} THEN "write" ELSE "save"
      /\ UNCHANGED setting /\ UNCHANGED <<meta, written, edits, plan, merged>>
  BY DEF Unlink, RepoInv, StageInv
<1>2. doomed \subseteq NewFiles /\ doomed \in SUBSET disk /\ merged \subseteq NewFiles
  BY NewFilesAreFresh DEF RepoInv, SquashInv
<1>3. f \in doomed
  BY <1>1, <1>2, DiskIsFiles, FirstIsAmong DEF RepoInv, SettingInv
<1> HIDE DEF f
<1>4. f \in NewFiles /\ f \in disk /\ f.of \in Fresh /\ f.of \in OnDisk
  BY <1>2, <1>3, NewFilesAreFresh
<1>5. disk' = disk \ {f}
  BY <1>1, <1>4 DEF RepoInv, FilesInv
<1>6. OnDisk' = OnDisk \ {f.of} /\ Listed' = Listed /\ Fresh' = Fresh \ {f.of}
  <2>1. OnDisk' = OnDisk \ {f.of} /\ Listed' = Listed
    BY <1>1 DEF OnDisk, Listed, Names
  <2> QED
    BY <2>1 DEF Fresh
<1>7. NewFiles' = NewFiles \ {f}
  BY <1>1, <1>5 DEF NewFiles, Names
<1>8. NamesInv'
  BY <1>1, <1>4, <1>6 DEF RepoInv, NamesInv, Fresh
<1>9. CopiesInv'
  BY <1>1, <1>6, LeftStays DEF RepoInv, CopiesInv, setting
<1>10. PICK m \in merged :
         (\A v : Contains(f.of, v) => Contains(m.of, v)) /\ f.edited \subseteq m.edited
  BY <1>3 DEF RepoInv, SquashInv
<1>11. m \in disk /\ m # f /\ m \in disk' /\ m.of \in OnDisk'
  <2>1. m # f
    BY <1>3 DEF RepoInv, SquashInv
  <2>2. m \in disk
    BY <1>2, NewFilesAreFresh
  <2>3. m.of # f.of /\ m.of \in OnDisk
    BY <1>4, <2>1, <2>2, NewFilesAreFresh DEF RepoInv, FilesInv
  <2> QED
    BY <1>5, <1>6, <2>1, <2>2, <2>3
<1>12. WrittenInv'
  <2>1. \A v \in written : \E s \in OnDisk' : Contains(s, v)
    BY <1>6, <1>10, <1>11 DEF RepoInv, WrittenInv
  <2> QED
    BY <1>1, <2>1 DEF RepoInv, WrittenInv, setting
<1>13. FilesInv'
  <2>1. IsFiniteSet(disk')
    BY <1>5, FS_RemoveElement DEF RepoInv, FilesInv
  <2>2. UNION {g.edited : g \in disk'} = UNION {g.edited : g \in disk}
    <3>1. UNION {g.edited : g \in disk} = (UNION {g.edited : g \in disk'}) \cup f.edited
      BY <1>4, <1>5
    <3>2. f.edited \subseteq UNION {g.edited : g \in disk'}
      <4>1. m.edited \subseteq UNION {g.edited : g \in disk'}
        BY <1>11
      <4> QED
        BY <1>10, <4>1
    <3> QED
      BY <3>1, <3>2
  <2> QED
    BY <1>1, <1>5, <2>1, <2>2 DEF RepoInv, FilesInv
<1>14. SquashInv'
  <2>1. ASSUME NEW g \in plan PROVE IsGroup(g)' /\ g \cap merged = {} /\ g \cap doomed' = {}
    <3>1. IsGroup(g) /\ g \cap merged = {} /\ g \cap doomed = {} /\ f \notin g
      BY <1>3 DEF RepoInv, SquashInv
    <3>2. \A k \in g : k.of # f.of
      BY <1>4, <3>1, NewFilesAreFresh DEF IsGroup, RepoInv, FilesInv
    <3>3. g \subseteq NewFiles' /\ Cardinality(g) > 1
      BY <1>7, <3>1 DEF IsGroup
    <3>4. \A s \in OnDisk' \ Names(g) : s \in OnDisk \ Names(g) /\ (s \in Fresh => s \in Fresh')
      BY <1>6
    <3>5. \A s \in OnDisk' \ Names(g), k \in g : \A v :
            Contains(s, v) /\ Contains(k.of, v) =>
              /\ s \in Fresh' /\ IsLeft(s, v)'
              /\ \E h \in g : Contains(h.of, v) /\ Outlasts(h.of, v)'
      BY <1>1, <1>6, <3>1, <3>4, LeftStays DEF IsGroup
    <3>6. dag' => \A k \in g : \A v :
            k.of = <<v>> => \E h \in g : \E w : Contains(h.of, w) /\ Depend(v, w)'
      BY <1>1, <3>1, LeftStays DEF IsGroup, setting
    <3> QED
      BY <1>1, <3>1, <3>3, <3>5, <3>6 DEF IsGroup, Names
  <2>2. \A g, h \in plan : g # h => g \cap h = {}
    BY DEF RepoInv, SquashInv
  <2>3. doomed' \cup merged \subseteq NewFiles' /\ doomed' \cap merged = {}
    BY <1>1, <1>2, <1>3, <1>7 DEF RepoInv, SquashInv
  <2>4. \A k \in doomed' : \E h \in merged :
          (\A v : Contains(k.of, v) => Contains(h.of, v)) /\ k.edited \subseteq h.edited
    BY <1>1 DEF RepoInv, SquashInv
  <2>5. ASSUME NEW k \in merged
        PROVE  /\ Len(k.of) > 1
               /\ \A s \in Fresh' \ Names(merged \cup doomed') : \A v :
                    Contains(s, v) /\ Contains(k.of, v) => IsLeft(s, v)' /\ Outlasts(k.of, v)'
    <3>1. \A s \in Fresh' \ Names(merged \cup doomed') : s \in Fresh \ Names(merged \cup doomed)
      BY <1>1, <1>6 DEF Names
    <3> QED
      BY <1>1, <1>6, <3>1, LeftStays DEF RepoInv, SquashInv
  <2>6. ~dag' => NewFiles' \subseteq merged \cup doomed' \cup UNION plan
    <3>1. ~dag => NewFiles \subseteq merged \cup doomed \cup UNION plan
      BY <1>1 DEF RepoInv, SquashInv
    <3> QED
      BY <1>1, <1>7, <3>1 DEF setting
  <2> QED
    BY <1>1, <2>1, <2>2, <2>3, <2>4, <2>5, <2>6 DEF SquashInv
<1>15. StageInv'
  BY <1>1 DEF StageInv
<1>16. SettingInv'
  BY <1>1, SettingStays DEF RepoInv
<1> QED
  BY <1>8, <1>9, <1>12, <1>13, <1>14, <1>15, <1>16 DEF RepoInv

LEMMA SaveKeeps ==
  ASSUME RepoInv, SaveSquashed
  PROVE  RepoInv'
<1>1. /\ stage = "save" /\ plan = {} /\ doomed = {} /\ meta' = meta \cup merged
      /\ plan' = {} /\ doomed' = {} /\ merged' = {} /\ stage' = "none"
      /\ UNCHANGED setting /\ UNCHANGED <<disk, written, edits>>
  BY DEF SaveSquashed, RepoInv, StageInv
<1>2. merged \subseteq NewFiles /\ merged \subseteq disk
  BY NewFilesAreFresh DEF RepoInv, SquashInv
<1>3. OnDisk' = OnDisk /\ Listed' = Listed \cup Names(merged)
  BY <1>1 DEF OnDisk, Listed, Names
<1>4. Fresh' = Fresh \ Names(merged) /\ Names(merged) \subseteq Fresh
  <2>1. Names(merged) \subseteq Fresh
    BY <1>2, NewFilesAreFresh DEF Names
  <2> QED
    BY <1>3, <2>1 DEF Fresh
<1>5. \A s, v : IsLeft(s, v) => IsLeft(s, v)'
  BY <1>1, <1>3, LeftStays
<1>6. NamesInv'
  <2>1. \A r \in Names(merged) : Len(r) > 1
    BY DEF RepoInv, SquashInv, Names
  <2> QED
    BY <1>1, <1>3, <1>4, <2>1 DEF RepoInv, NamesInv, Fresh
<1>7. CopiesInv'
  <2>1. \A s \in Fresh', r \in Names(merged) : \A v :
          Contains(s, v) /\ Contains(r, v) => IsLeft(s, v) /\ Outlasts(r, v)
    <3>1. Names(merged \cup doomed) = Names(merged)
      BY <1>1
    <3>2. \A s \in Fresh' : s \in Fresh \ Names(merged \cup doomed)
      BY <1>4, <3>1
    <3> QED
      BY <3>2 DEF RepoInv, SquashInv, Names
  <2>2. \A s \in Fresh', r \in Listed' : \A v :
          Contains(s, v) /\ Contains(r, v) => IsLeft(s, v) /\ Outlasts(r, v)
    BY <1>3, <1>4, <2>1 DEF RepoInv, CopiesInv
  <2>3. Fresh' \subseteq Fresh
    BY <1>4
  <2> QED
    BY <1>1, <1>5, <2>2, <2>3, LeftStays DEF RepoInv, CopiesInv, setting
<1>8. WrittenInv'
  BY <1>1, <1>3 DEF RepoInv, WrittenInv, setting
<1>9. FilesInv'
  <2>1. \A e, f \in meta' : e.of = f.of => e = f
    <3>1. \A f \in merged : f \in disk /\ f.of \notin Listed
      BY <1>2, NewFilesAreFresh
    <3>2. \A e \in meta : e.of \in Listed
      BY DEF Listed, Names
    <3> QED
      BY <1>1, <3>1, <3>2 DEF RepoInv, FilesInv
  <2>2. \A f \in meta' : f.edited \subseteq 1..MaxEdits
    <3>1. \A f \in disk : f.edited \subseteq 1..edits
      BY DEF RepoInv, FilesInv
    <3>2. 1..edits \subseteq 1..MaxEdits
      BY RepositoryAssumption DEF RepoInv, FilesInv
    <3> QED
      BY <1>1, <1>2, <3>1, <3>2 DEF RepoInv, FilesInv
  <2> QED
    BY <1>1, <2>1, <2>2 DEF RepoInv, FilesInv
<1>10. SquashInv' /\ StageInv' /\ SettingInv'
  BY <1>1, NoSquash, SettingStays DEF RepoInv
<1> QED
  BY <1>6, <1>7, <1>8, <1>9, <1>10 DEF RepoInv

LEMMA InterruptKeeps ==
  ASSUME RepoInv, InterruptSquash
  PROVE  RepoInv'
<1>1. /\ plan' = {} /\ doomed' = {} /\ merged' = {} /\ stage' = "none"
      /\ UNCHANGED setting /\ UNCHANGED <<disk, meta, written, edits>>
  BY DEF InterruptSquash
<1>2. OnDisk' = OnDisk /\ Listed' = Listed
  BY <1>1 DEF OnDisk, Listed, Names
<1>3. NamesInv' /\ CopiesInv' /\ WrittenInv'
  BY <1>1, <1>2, SameNames DEF RepoInv
<1>4. FilesInv'
  BY <1>1 DEF RepoInv, FilesInv
<1>5. SquashInv' /\ StageInv' /\ SettingInv'
  BY <1>1, NoSquash, SettingStays DEF RepoInv
<1> QED
  BY <1>3, <1>4, <1>5 DEF RepoInv

LEMMA RepoStutters ==
  ASSUME RepoInv, UNCHANGED repoVars
  PROVE  RepoInv'
<1>1. UNCHANGED <<dag, needs, longFirst, disk, meta, written, edits, plan, doomed, merged, stage>>
  BY DEF repoVars, squashVars
<1>2. OnDisk' = OnDisk /\ Listed' = Listed /\ Fresh' = Fresh /\ NewFiles' = NewFiles
  BY <1>1 DEF OnDisk, Listed, Fresh, NewFiles, Names
<1>3. UNCHANGED setting
  BY <1>1 DEF setting
<1>4. NamesInv' /\ CopiesInv' /\ WrittenInv' /\ SettingInv'
  BY <1>1, <1>2, <1>3, SameNames, SettingStays DEF RepoInv
<1>5. FilesInv' /\ StageInv'
  BY <1>1 DEF RepoInv, FilesInv, StageInv
<1>6. \A g : IsGroup(g) => IsGroup(g)'
  BY <1>1, <1>2, <1>3, LeftStays DEF IsGroup, Names
<1>7. \A s, v : IsLeft(s, v) => IsLeft(s, v)'
  BY <1>2, <1>3, LeftStays
<1>8. SquashInv'
  BY <1>1, <1>2, <1>3, <1>6, <1>7, LeftStays DEF RepoInv, SquashInv, Names
<1> QED
  BY <1>4, <1>5, <1>8 DEF RepoInv

LEMMA RepoInvariant == RepoSpec => []RepoInv
<1>1. RepoInit => RepoInv
  BY RepoInitially
<1>2. RepoInv /\ [RepoNext]_repoVars => RepoInv'
  <2> SUFFICES ASSUME RepoInv, [RepoNext]_repoVars PROVE RepoInv'
    OBVIOUS
  <2>1. ASSUME NEW n \in Statements, New(n) PROVE RepoInv'
    BY <2>1, NewKeeps
  <2>2. ASSUME NEW f \in disk, Edit(f) PROVE RepoInv'
    BY <2>2, EditKeeps
  <2>3. CASE StartSquash
    BY <2>3, StartKeeps
  <2>4. CASE WriteMerged
    BY <2>4, WriteKeeps
  <2>5. CASE Unlink
    BY <2>5, UnlinkKeeps
  <2>6. CASE SaveSquashed
    BY <2>6, SaveKeeps
  <2>7. CASE InterruptSquash
    BY <2>7, InterruptKeeps
  <2>8. CASE Done \/ UNCHANGED repoVars
    BY <2>8, RepoStutters DEF Done
  <2> QED
    BY <2>1, <2>2, <2>3, <2>4, <2>5, <2>6, <2>7, <2>8 DEF RepoNext
<1> QED
  BY <1>1, <1>2, PTL DEF RepoSpec

-----------------------------------------------------------------------------
(* The theorems                                                            *)

\* No two files of the checkout have the same name, squash works on files that are
\* there, and what it has yet to remove says where it is.
THEOREM RepositoryTypeCorrect == RepoSpec => []RepositoryTypeOK
<1>1. RepoInv => RepositoryTypeOK
  <2> SUFFICES ASSUME RepoInv PROVE RepositoryTypeOK
    OBVIOUS
  <2>1. \A f \in disk : IsName(f.of) /\ f.edited \subseteq 1..MaxEdits
    <3>1. 1..edits \subseteq 1..MaxEdits
      BY RepositoryAssumption DEF RepoInv, FilesInv
    <3>2. \A f \in disk : f.edited \subseteq 1..edits
      BY DEF RepoInv, FilesInv
    <3> QED
      BY <3>1, <3>2, NewFilesAreFresh DEF RepoInv, NamesInv
  <2>2. \A f \in meta : IsName(f.of) /\ f.edited \subseteq 1..MaxEdits
    BY DEF RepoInv, NamesInv, FilesInv, Listed, Names
  <2>3. merged \cup doomed \subseteq disk
    BY NewFilesAreFresh DEF RepoInv, SquashInv
  <2>4. Cardinality(Names(disk)) = Cardinality(disk)
    <3> DEFINE name == [f \in disk |-> f.of]
    <3>1. name \in Bijection(disk, Names(disk))
      <4>1. name \in [disk -> Names(disk)]
        BY DEF Names
      <4>2. \A f, g \in disk : name[f] = name[g] => f = g
        BY DEF RepoInv, FilesInv
      <4>3. \A s \in Names(disk) : \E f \in disk : name[f] = s
        BY DEF Names
      <4> QED
        BY <4>1, <4>2, <4>3 DEF Bijection, Injection, IsInjective, Surjection
    <3> QED
      BY <3>1, FS_Bijection DEF ExistsBijection, RepoInv, FilesInv
  <2>5. plan \subseteq SUBSET disk
    BY NewFilesAreFresh DEF RepoInv, SquashInv, IsGroup
  <2> QED
    BY <2>1, <2>2, <2>3, <2>4, <2>5
    DEF RepositoryTypeOK, RepoInv, WrittenInv, StageInv, IsName
<1> QED
  BY <1>1, RepoInvariant, PTL

\* However often squash is interrupted, no statement and no edit is lost.
THEOREM NothingIsForgotten == RepoSpec => []StatementsRemain
<1>1. RepoInv => StatementsRemain
  BY NewFilesAreFresh DEF RepoInv, WrittenInv, FilesInv, StatementsRemain
<1> QED
  BY <1>1, RepoInvariant, PTL

\* metadata.json lists no file that is not there.
THEOREM MetadataIsTrue == RepoSpec => []RecordedFilesExist
<1>1. RepoInv => RecordedFilesExist
  BY DEF RepoInv, NamesInv, RecordedFilesExist, OnDisk, Listed
<1> QED
  BY <1>1, RepoInvariant, PTL

CrashesInv == crashes \in Nat

LEMMA CrashesAreCounted == RepoSpec => []CrashesInv
<1>1. RepoInit => CrashesInv
  BY DEF RepoInit, CrashesInv
<1>2. CrashesInv /\ [RepoNext]_repoVars => CrashesInv'
  <2> SUFFICES ASSUME CrashesInv, [RepoNext]_repoVars PROVE CrashesInv'
    OBVIOUS
  <2>1. CASE InterruptSquash
    BY <2>1 DEF InterruptSquash, CrashesInv
  <2>2. CASE \/ \E n \in Statements : New(n)
             \/ \E f \in disk : Edit(f)
    BY <2>2 DEF New, Edit, CrashesInv
  <2>3. CASE StartSquash \/ WriteMerged \/ Unlink \/ SaveSquashed
    BY <2>3 DEF StartSquash, WriteMerged, Unlink, SaveSquashed, CrashesInv
  <2>4. CASE Done \/ UNCHANGED repoVars
    BY <2>4 DEF Done, repoVars, CrashesInv
  <2> QED
    BY <2>1, <2>2, <2>3, <2>4 DEF RepoNext
<1> QED
  BY <1>1, <1>2, PTL DEF RepoSpec

\* What a squash has come to its end with passes check.
THEOREM SquashLeavesOrder == RepoSpec => SquashSettles
<1> DEFINE ends == stage = "save" /\ crashes' = crashes /\ \A f \in Recorded : ~IsChanged(f)
<1>1. ASSUME RepoInv, RepoInv', CrashesInv, RepoNext, ends PROVE CheckPasses'
  <2>1. SaveSquashed
    <3>1. ~InterruptSquash
      BY <1>1 DEF InterruptSquash, CrashesInv
    <3> QED
      BY <1>1, <3>1 DEF RepoNext, New, Edit, StartSquash, WriteMerged, Unlink, Done
  <2>2. /\ plan = {} /\ doomed = {} /\ meta' = meta \cup merged /\ disk' = disk /\ dag' = dag
    BY <1>1, <2>1 DEF SaveSquashed, setting, RepoInv, StageInv
  <2>3. merged \subseteq NewFiles /\ merged \subseteq disk
    BY <1>1, NewFilesAreFresh DEF RepoInv, SquashInv
  <2>4. ~dag => NewFiles' = {}
    <3>1. ~dag => NewFiles \subseteq merged
      BY <1>1, <2>2 DEF RepoInv, SquashInv
    <3>2. \A f \in NewFiles' : f \in NewFiles /\ f \notin merged
      BY <2>2 DEF NewFiles, Names
    <3> QED
      BY <3>1, <3>2
  <2>5. ~dag' => /\ Cardinality(NewFiles') <= 1
                 /\ \A f \in NewFiles', g \in Recorded' : Stamp(g) <= Stamp(f)
    <3>1. Cardinality({}) = 0
      BY FS_EmptySet
    <3> QED
      BY <2>2, <2>4, <3>1
  <2>6. \A f \in Recorded' : ~IsChanged(f)'
    <3> SUFFICES ASSUME NEW f \in Recorded', NEW e \in meta', e.of = f.of
                 PROVE  e.edited = f.edited
      BY DEF IsChanged
    <3>1. f \in disk
      BY <2>2 DEF Recorded
    <3>2. CASE e \in meta
      <4>1. f \in Recorded
        BY <3>1, <3>2 DEF Recorded, NewFiles, Names
      <4> QED
        BY <1>1, <3>2, <4>1 DEF IsChanged
    <3>3. CASE e \in merged
      BY <1>1, <2>3, <3>1, <3>3 DEF RepoInv, FilesInv
    <3> QED
      BY <2>2, <3>2, <3>3
  <2>7. Names(meta)' \subseteq Names(disk)'
    BY <1>1 DEF RepoInv, NamesInv, OnDisk, Listed
  <2> QED
    BY <2>5, <2>6, <2>7 DEF CheckPasses
<1>2. RepoInv /\ RepoInv' /\ CrashesInv /\ [RepoNext]_repoVars
        => [ends => CheckPasses']_repoVars
  BY <1>1
<1> QED
  BY <1>2, RepoInvariant, CrashesAreCounted, PTL DEF RepoSpec, SquashSettles

-----------------------------------------------------------------------------
(* What creates an object is applied before what refers to it              *)

Grows(s) == \A i, j \in 1..Len(s) : i < j => s[i] < s[j]

\* As long as no squash was interrupted, each statement is in one file, beside the
\* one it is being merged into; what is new has one statement; and a file has its
\* statements in the order of their timestamps.
HomesInv ==
  /\ \A s \in OnDisk : Grows(s)
  /\ \A s, t \in OnDisk : \A v :
       Contains(s, v) /\ Contains(t, v) => s = t \/ s \in Names(doomed) \/ t \in Names(doomed)
  /\ \A s \in Fresh : Len(s) = 1 \/ s \in Names(merged)

Refers(s, t) == s # t /\ \E v, w : <<v, w>> \in needs /\ Contains(s, v) /\ Contains(t, w)

\* What v refers to is in a file of this name or in files that are recorded.
IsServedIn(s, v) ==
  \A w : <<v, w>> \in needs => Contains(s, w) \/ \E q \in Listed : Contains(q, w)

\* In the DAG model what is recorded refers to what is recorded only, and has no
\* cycle; a group refers to itself and to what is recorded.
ClosedInv ==
  /\ \A r \in Listed : \A v : Contains(r, v) => IsSettled(v)
  /\ \A S \in SUBSET Listed : S # {} => \E s \in S : \A t \in S : ~Refers(s, t)
  /\ \A m \in merged : \A v : Contains(m.of, v) => IsServedIn(m.of, v)
  /\ \A g \in plan : \A f \in g : \A v, w :
       Contains(f.of, v) /\ <<v, w>> \in needs =>
         (\E h \in g : Contains(h.of, w)) \/ \E q \in Listed : Contains(q, w)

\* In the linear model, where nothing was inserted, what is new comes after what is
\* recorded, and what is recorded is in the order of the files.
LinearInv ==
  /\ \A g, h \in plan : g = h
  /\ \A m, k \in merged : m = k
  /\ merged # {} => plan = {}
  /\ ~inserted =>
       /\ \A s \in Listed, t \in Fresh : \A v : Contains(t, v) => Last(s) < v
       /\ \A s, t \in Listed : \A v : Last(s) < Last(t) /\ Contains(t, v) => Last(s) < v

\* No statement refers to one with a later timestamp.
RefersBack == \A e \in needs : e[2] < e[1]

OrderInv == crashes = 0 => HomesInv /\ (dag => ClosedInv) /\ (~dag => LinearInv)

-----------------------------------------------------------------------------
(* Merging files of one statement each                                     *)

IsStartOf(p, s, k) == p \in Seq(Statements) /\ Len(p) = k /\ \A i \in 1..k : p[i] = s[i]

LEMMA FlattenSingles ==
  ASSUME NEW n \in Nat \ {0}, NEW s \in Seq(Statements), Len(s) = n,
         NEW seqs, seqs = [i \in 1..n |-> <<s[i]>>]
  PROVE  FlattenSeq(seqs) = s
<1> DEFINE fl == CHOOSE fl : IsFlattening(fl, seqs, n)
           bad == {j \in 1..n : ~IsStartOf(fl[j], s, j)}
<1>1. IsFlattening(fl, seqs, n)
  BY FlatteningExists
<1>2. FlattenSeq(seqs) = fl[n]
  <2>1. \A i \in 1..n : <<s[i]>> \in Seq(Statements)
    BY ElementOfSeq
  <2>2. seqs \in Seq(Seq(Statements)) /\ Len(seqs) = n
    BY <2>1
  <2> QED
    BY <2>2 DEF FlattenSeq, IsFlattening
<1> HIDE DEF fl
<1>3. ASSUME bad # {} PROVE FALSE
  <2>1. PICK j \in bad : \A i \in bad : j <= i
    <3>1. bad \in SUBSET Nat
      OBVIOUS
    <3> QED
      BY <1>3, <3>1, LeastNatural
  <2>2. fl[j] = IF j = 1 THEN seqs[j] ELSE fl[j - 1] \o seqs[j]
    BY <1>1, <2>1 DEF IsFlattening
  <2>3. seqs[j] = <<s[j]>> /\ s[j] \in Statements /\ j \in 1..n
    BY <2>1, ElementOfSeq
  <2>4. <<s[j]>> \in Seq(Statements) /\ Len(<<s[j]>>) = 1 /\ <<s[j]>>[1] = s[j]
    BY <2>3
  <2>5. CASE j = 1
    <3>1. \A i \in 1..1 : i = 1
      OBVIOUS
    <3>2. IsStartOf(<<s[j]>>, s, 1)
      BY <2>4, <2>5, <3>1 DEF IsStartOf
    <3> QED
      BY <2>1, <2>2, <2>3, <2>5, <3>2
  <2>6. CASE j # 1
    <3> DEFINE p == fl[j - 1]
               i == j - 1
               t == <<s[j]>>
    <3>1. i \in Nat /\ i \in 1..n /\ i \notin bad /\ j = i + 1
      BY <2>1, <2>3, <2>6
    <3>2. p \in Seq(Statements) /\ Len(p) = i /\ \A h \in 1..i : p[h] = s[h]
      BY <3>1 DEF IsStartOf
    <3>3. fl[j] = p \o t
      BY <2>2, <2>3, <2>6
    <3>4. t \in Seq(Statements) /\ Len(t) = 1 /\ t[1] = s[j]
      BY <2>4
    <3> HIDE DEF p, i, t
    <3>5. /\ p \o t \in Seq(Statements) /\ Len(p \o t) = i + 1
          /\ \A h \in 1..(i + 1) : (p \o t)[h] = IF h <= i THEN p[h] ELSE t[h - i]
      <4>1. p \in Seq(Statements) /\ t \in Seq(Statements)
        BY <3>2, <3>4
      <4>2. /\ p \o t \in Seq(Statements) /\ Len(p \o t) = Len(p) + Len(t)
            /\ \A h \in 1..(Len(p) + Len(t)) :
                 (p \o t)[h] = IF h <= Len(p) THEN p[h] ELSE t[h - Len(p)]
        BY <4>1, ConcatProperties
      <4> QED
        BY <3>2, <3>4, <4>2
    <3>6. \A h \in 1..j : (p \o t)[h] = s[h]
      <4> TAKE h \in 1..j
      <4>1. CASE h <= i
        BY <3>1, <3>2, <3>5, <4>1
      <4>2. CASE ~(h <= i)
        <5>1. h = j /\ h - i = 1
          BY <3>1, <4>2
        <5> QED
          BY <3>1, <3>4, <3>5, <4>2, <5>1
      <4> QED
        BY <4>1, <4>2
    <3>7. IsStartOf(fl[j], s, j)
      BY <3>1, <3>3, <3>5, <3>6 DEF IsStartOf
    <3> QED
      BY <2>1, <3>7
  <2> QED
    BY <2>5, <2>6
<1>4. IsStartOf(fl[n], s, n)
  BY <1>3
<1>5. fl[n] = s
  BY <1>4, SeqEqual DEF IsStartOf
<1> QED
  BY <1>2, <1>5

\* The merged file has the statements in the order of their timestamps.
LEMMA SinglesMerge ==
  ASSUME longFirst \in BOOLEAN, NEW group, AreFiles(group), group # {},
         \A f \in group : Len(f.of) = 1
  PROVE  Grows(Merge(group).of)
<1> DEFINE n == Cardinality(group)
           o == Ordered(group)
           s == [i \in 1..n |-> Stamp(o[i])]
           names == [i \in 1..n |-> o[i].of]
<1>1. /\ n \in Nat \ {0} /\ o \in Seq(group) /\ DOMAIN o = 1..n
      /\ \A i \in 1..n : o[i] \in group /\ Place(group, o[i]) = i
  BY OrderedFacts, SomeFileIsLast, PlacesAreDistinct
<1>2. \A i \in 1..n : names[i] = <<s[i]>> /\ s[i] \in Statements
  <2> TAKE i \in 1..n
  <2>1. o[i] \in group /\ IsName(o[i].of) /\ Len(o[i].of) = 1
    BY <1>1 DEF AreFiles
  <2>2. o[i].of = <<Last(o[i].of)>> /\ Last(o[i].of) \in Statements
    BY <2>1, NameFacts, SingleNames
  <2>3. names[i] = o[i].of /\ s[i] = Last(o[i].of)
    BY DEF Stamp
  <2> HIDE DEF names, s
  <2> QED
    BY <2>2, <2>3
<1>3. s \in Seq(Statements) /\ Len(s) = n
  <2> HIDE DEF o
  <2> QED
    BY <1>1, <1>2
<1>4. names = [i \in 1..n |-> <<s[i]>>]
  BY <1>2
<1>5. FlattenSeq(names) = s
  <2> HIDE DEF names, s, n
  <2> QED
    BY <1>1, <1>3, <1>4, FlattenSingles
<1>6. Merge(group).of = s
  BY <1>1, <1>5 DEF Merge, File
<1>7. ASSUME NEW i \in 1..n, NEW j \in 1..n, i < j PROVE s[i] < s[j]
  <2> DEFINE f == o[i]
             g == o[j]
  <2>1. f \in group /\ g \in group /\ Place(group, f) = i /\ Place(group, g) = j
    BY <1>1
  <2> HIDE DEF f, g
  <2>2. f # g /\ ~IsEarlier(g, f)
    <3>1. IsEarlier(g, f) => j < i
      BY <2>1, PlacesAreDistinct
    <3> QED
      BY <1>1, <1>7, <2>1, <3>1
  <2>3. IsEarlier(f, g)
    BY <2>1, <2>2, OrderIsStrict
  <2>4. Stamp(f) # Stamp(g)
    BY <2>1, <2>2 DEF AreFiles
  <2>5. Stamp(f) < Stamp(g)
    BY <2>3, <2>4 DEF IsEarlier
  <2> QED
    BY <2>5 DEF f, g
<1> HIDE DEF s, n
<1> QED
  BY <1>3, <1>6, <1>7 DEF Grows

LEMMA SinglesGrow ==
  ASSUME NEW v
  PROVE  Grows(<<v>>)
BY DEF Grows

-----------------------------------------------------------------------------
(* The steps keep it                                                       *)

LEMMA OrderInitially ==
  ASSUME RepoInit
  PROVE  OrderInv
<1>1. OnDisk = {} /\ Listed = {} /\ Fresh = {} /\ plan = {} /\ merged = {}
  BY DEF RepoInit, OnDisk, Listed, Fresh, Names
<1> QED
  BY <1>1 DEF OrderInv, HomesInv, ClosedInv, LinearInv

LEMMA ClosedStays ==
  ASSUME ClosedInv, needs' = needs, Listed' = Listed, plan' = plan, merged' = merged
  PROVE  ClosedInv'
<1>1. \A v : IsSettled(v)' <=> IsSettled(v)
  BY DEF IsSettled
<1>2. \A s, v : IsServedIn(s, v)' <=> IsServedIn(s, v)
  BY DEF IsServedIn
<1>3. \A s, t : Refers(s, t)' <=> Refers(s, t)
  BY DEF Refers
<1> QED
  BY <1>1, <1>2, <1>3 DEF ClosedInv

LEMMA OrderStays ==
  ASSUME OrderInv, UNCHANGED setting, UNCHANGED <<plan, doomed, merged, inserted, crashes>>,
         OnDisk' = OnDisk, Listed' = Listed
  PROVE  OrderInv'
<1>1. Fresh' = Fresh /\ Names(doomed)' = Names(doomed) /\ Names(merged)' = Names(merged)
  BY DEF Fresh, Names
<1>2. UNCHANGED <<dag, needs>>
  BY DEF setting
<1>3. HomesInv => HomesInv'
  BY <1>1 DEF HomesInv
<1>4. ClosedInv => ClosedInv'
  BY <1>2, ClosedStays
<1>5. LinearInv => LinearInv'
  BY <1>1 DEF LinearInv
<1> QED
  BY <1>2, <1>3, <1>4, <1>5 DEF OrderInv

LEMMA OrderNew ==
  ASSUME RepoInv, OrderInv, NEW n \in Statements, New(n)
  PROVE  OrderInv'
<1> DEFINE s == <<n>>
           file == File(s, {})
<1>1. /\ stage = "none" /\ n \notin written
      /\ disk' = disk \cup {file}
      /\ inserted' = (inserted \/ \E g \in Recorded : n < Stamp(g))
      /\ UNCHANGED setting /\ UNCHANGED <<meta, plan, doomed, merged, crashes>>
  BY DEF New, squashVars
<1>2. file.of = s
  BY DEF File
<1>3. Len(s) = 1 /\ (\A v : Contains(s, v) <=> v = n) /\ Grows(s)
  BY SingleFacts, SinglesGrow
<1>4. OnDisk' = OnDisk \cup {s} /\ Listed' = Listed
  BY <1>1, <1>2 DEF OnDisk, Listed, Names
<1> HIDE DEF file, s
<1>5. \A t \in OnDisk : ~Contains(t, n)
  BY <1>1 DEF RepoInv, NamesInv
<1>6. Fresh' \subseteq Fresh \cup {s}
  BY <1>4 DEF Fresh
<1>7. UNCHANGED <<dag, needs>> /\ Names(doomed)' = Names(doomed) /\ Names(merged)' = Names(merged)
  BY <1>1 DEF setting, Names
<1>8. HomesInv => HomesInv'
  <2> SUFFICES ASSUME HomesInv PROVE HomesInv'
    OBVIOUS
  <2>1. \A t, r \in OnDisk' : \A v : Contains(t, v) /\ Contains(r, v)
          => t = r \/ (t \in OnDisk /\ r \in OnDisk)
    BY <1>3, <1>4, <1>5
  <2>2. \A t, r \in OnDisk' : \A v : Contains(t, v) /\ Contains(r, v)
          => t = r \/ t \in Names(doomed) \/ r \in Names(doomed)
    BY <2>1 DEF HomesInv
  <2>3. \A t \in OnDisk' : Grows(t)
    BY <1>3, <1>4 DEF HomesInv
  <2>4. \A t \in Fresh' : Len(t) = 1 \/ t \in Names(merged)
    BY <1>3, <1>6 DEF HomesInv
  <2> QED
    BY <1>7, <2>2, <2>3, <2>4 DEF HomesInv
<1>9. ClosedInv => ClosedInv'
  BY <1>1, <1>4, <1>7, ClosedStays
<1>10. LinearInv => LinearInv'
  <2> SUFFICES ASSUME LinearInv, ~inserted' PROVE
                 /\ \A r \in Listed', t \in Fresh' : \A v : Contains(t, v) => Last(r) < v
                 /\ \A r, t \in Listed' : \A v : Last(r) < Last(t) /\ Contains(t, v) => Last(r) < v
    BY <1>1 DEF LinearInv
  <2>1. ~inserted /\ \A g \in Recorded : ~(n < Stamp(g))
    BY <1>1
  <2>2. \A r \in Listed : Last(r) < n
    <3> TAKE r \in Listed
    <3>1. r \in OnDisk
      BY DEF RepoInv, NamesInv
    <3>2. PICK g \in disk : g.of = r
      BY <3>1, NewFilesAreFresh
    <3>3. g \in Recorded
      BY <3>2, NewFilesAreFresh DEF Recorded
    <3>4. ~(n < Last(r))
      BY <2>1, <3>2, <3>3 DEF Stamp
    <3>5. Last(r) \in Nat /\ Contains(r, Last(r)) /\ n \in Nat
      BY <3>1, NameFacts, StatementsAreNumbers DEF RepoInv, NamesInv
    <3>6. Last(r) # n
      BY <1>5, <3>1, <3>5
    <3> QED
      BY <3>4, <3>5, <3>6
  <2> QED
    BY <1>3, <1>4, <1>6, <2>1, <2>2 DEF LinearInv
<1> QED
  BY <1>1, <1>7, <1>8, <1>9, <1>10 DEF OrderInv

LEMMA OrderEdit ==
  ASSUME OrderInv, NEW f \in disk, Edit(f)
  PROVE  OrderInv'
<1> DEFINE file == File(f.of, f.edited \cup {edits + 1})
<1>1. /\ disk' = (disk \ {f}) \cup {file}
      /\ UNCHANGED setting /\ UNCHANGED <<meta, plan, doomed, merged, inserted, crashes>>
  BY DEF Edit, squashVars
<1>2. file.of = f.of
  BY DEF File
<1> HIDE DEF file
<1>3. OnDisk' = OnDisk /\ Listed' = Listed
  BY <1>1, <1>2 DEF OnDisk, Listed, Names
<1> QED
  BY <1>1, <1>3, OrderStays

\* What a file of a component refers to is in the component, or recorded.
LEMMA ComponentIsServed ==
  ASSUME RepoInv, HomesInv, stage = "none", NEW g \in Components, NEW f \in g,
         NEW v, NEW w, Contains(f.of, v), <<v, w>> \in needs
  PROVE  (\E h \in g : Contains(h.of, w)) \/ \E q \in Listed : Contains(q, w)
<1>1. doomed = {} /\ Names(doomed) = {}
  BY DEF RepoInv, StageInv, Names
<1>2. g \subseteq NewFiles /\ \A h \in NewFiles : Related(f, h) => h \in g
  BY ComponentFacts DEF RepoInv, FilesInv
<1>3. v \in written /\ w \in written
  <2>1. f.of \in OnDisk
    BY <1>2, NewFilesAreFresh
  <2>2. v \in written
    BY <2>1 DEF RepoInv, NamesInv
  <2> QED
    BY <2>2 DEF RepoInv, WrittenInv
<1>4. PICK k \in disk : IsLastWith(k, w)
  BY <1>3, LastWithExists DEF RepoInv
<1>5. Contains(k.of, w) /\ k.of \in OnDisk
  BY <1>4, NewFilesAreFresh DEF IsLastWith
<1>6. CASE k \notin NewFiles
  <2>1. k.of \in Listed
    BY <1>6 DEF NewFiles, Listed
  <2> QED
    BY <1>5, <2>1
<1>7. CASE k \in NewFiles
  <2>1. CASE k = f
    BY <1>5, <2>1
  <2>2. CASE k # f
    <3>1. Edge(f, k)
      BY <1>4, <2>2, EdgeFacts DEF RepoInv
    <3> QED
      BY <1>2, <1>5, <1>7, <3>1 DEF Related
  <2> QED
    BY <2>1, <2>2
<1> QED
  BY <1>6, <1>7

LEMMA OrderStart ==
  ASSUME RepoInv, OrderInv, StartSquash
  PROVE  OrderInv'
<1>1. /\ plan' = SquashGroups /\ stage = "none" /\ plan = {} /\ doomed = {} /\ merged = {}
      /\ doomed' = {} /\ merged' = {}
      /\ UNCHANGED setting /\ UNCHANGED <<disk, meta, inserted, crashes>>
  BY DEF StartSquash, RepoInv, StageInv
<1>2. OnDisk' = OnDisk /\ Listed' = Listed /\ Fresh' = Fresh
  BY <1>1 DEF OnDisk, Listed, Fresh, Names
<1>3. UNCHANGED <<dag, needs>> /\ Names(doomed)' = Names(doomed) /\ Names(merged)' = Names(merged)
  BY <1>1 DEF setting, Names
<1>4. HomesInv => HomesInv'
  BY <1>2, <1>3 DEF HomesInv
<1>5. ASSUME HomesInv, ClosedInv, dag PROVE ClosedInv'
  <2>1. SquashGroups \subseteq Components
    BY <1>5 DEF SquashGroups
  <2>2. \A g \in plan' : \A f \in g : \A v, w :
          Contains(f.of, v) /\ <<v, w>> \in needs =>
            (\E h \in g : Contains(h.of, w)) \/ \E q \in Listed : Contains(q, w)
    BY <1>1, <1>5, <2>1, ComponentIsServed
  <2>3. \A v : IsSettled(v)' <=> IsSettled(v)
    BY <1>2, <1>3 DEF IsSettled
  <2>4. \A s, t : Refers(s, t)' <=> Refers(s, t)
    BY <1>3 DEF Refers
  <2> QED
    BY <1>1, <1>2, <1>3, <1>5, <2>2, <2>3, <2>4 DEF ClosedInv
<1>6. ASSUME LinearInv, ~dag PROVE LinearInv'
  <2>1. \A g, h \in plan' : g = h
    BY <1>1, <1>6 DEF SquashGroups
  <2> QED
    BY <1>1, <1>2, <1>6, <2>1 DEF LinearInv
<1> QED
  BY <1>1, <1>3, <1>4, <1>5, <1>6 DEF OrderInv

LEMMA OrderWrite ==
  ASSUME RepoInv, OrderInv, WriteMerged
  PROVE  OrderInv'
<1>1. PICK g \in plan :
        /\ plan' = plan \ {g} /\ doomed' = g /\ merged' = merged \cup {Merge(g)}
        /\ disk' = {f \in disk : f.of # Merge(g).of} \cup {Merge(g)}
  BY DEF WriteMerged
<1>2. /\ doomed = {} /\ UNCHANGED setting /\ UNCHANGED <<meta, inserted, crashes>>
  BY DEF WriteMerged, RepoInv, StageInv
<1> DEFINE file == Merge(g)
           m == file.of
<1>3. IsGroup(g) /\ g \cap merged = {} /\ g \subseteq NewFiles /\ g \in SUBSET disk
  BY NewFilesAreFresh DEF RepoInv, SquashInv, IsGroup
<1>4. /\ m \notin OnDisk
      /\ \A v : Contains(m, v) <=> \E f \in g : Contains(f.of, v)
  BY <1>3, MergedGroup DEF RepoInv
<1>5. HomesInv => Grows(m)
  <2> SUFFICES ASSUME HomesInv PROVE Grows(m)
    OBVIOUS
  <2>1. g # {}
    <3>1. Cardinality(g) > 1
      BY <1>3 DEF IsGroup
    <3>2. Cardinality({}) = 0
      BY FS_EmptySet
    <3> QED
      BY <3>1, <3>2
  <2>2. AreFiles(g)
    BY <1>3, DiskIsFiles DEF RepoInv
  <2>3. ASSUME NEW f \in g PROVE Len(f.of) = 1
    <3>1. f \in disk /\ f.of \in Fresh /\ f \notin merged
      BY <1>3, NewFilesAreFresh
    <3>2. merged \subseteq disk
      BY NewFilesAreFresh DEF RepoInv, SquashInv
    <3>3. f.of \notin Names(merged)
      BY <3>1, <3>2 DEF Names, RepoInv, FilesInv
    <3> QED
      BY <3>1, <3>3 DEF HomesInv
  <2> QED
    BY <2>1, <2>2, <2>3, SinglesMerge DEF RepoInv, SettingInv
<1> HIDE DEF file, m
<1>6. disk' = disk \cup {file} /\ merged' = merged \cup {file} /\ file.of = m
  BY <1>1, <1>4, NewFilesAreFresh DEF file, m
<1>7. /\ OnDisk' = OnDisk \cup {m} /\ Listed' = Listed
      /\ Names(merged)' = Names(merged) \cup {m} /\ Names(doomed)' = Names(g)
  BY <1>1, <1>2, <1>6 DEF OnDisk, Listed, Names
<1>8. Fresh' = Fresh \cup {m}
  BY <1>4, <1>7 DEF Fresh, RepoInv, NamesInv
<1>9. UNCHANGED <<dag, needs>>
  BY <1>2 DEF setting
<1>10. ASSUME HomesInv PROVE HomesInv'
  <2>1. \A s, t \in OnDisk : \A v : Contains(s, v) /\ Contains(t, v) => s = t
    BY <1>2, <1>10 DEF HomesInv, Names
  <2>2. \A s \in OnDisk : \A v : Contains(s, v) /\ Contains(m, v) => s \in Names(g)
    <3> SUFFICES ASSUME NEW s \in OnDisk, NEW v, Contains(s, v), Contains(m, v)
                 PROVE  s \in Names(g)
      OBVIOUS
    <3>1. PICK f \in g : Contains(f.of, v)
      BY <1>4
    <3>2. f.of \in OnDisk
      BY <1>3, NewFilesAreFresh
    <3>3. s = f.of
      BY <2>1, <3>1, <3>2
    <3> QED
      BY <3>3 DEF Names
  <2>3. \A s, t \in OnDisk' : \A v : Contains(s, v) /\ Contains(t, v)
          => s = t \/ s \in Names(g) \/ t \in Names(g)
    BY <1>7, <2>1, <2>2
  <2>4. \A s \in OnDisk' : Grows(s)
    BY <1>5, <1>7, <1>10 DEF HomesInv
  <2>5. \A s \in Fresh' : Len(s) = 1 \/ s \in Names(merged)'
    BY <1>7, <1>8, <1>10 DEF HomesInv
  <2> QED
    BY <1>7, <2>3, <2>4, <2>5 DEF HomesInv
<1>11. ASSUME ClosedInv PROVE ClosedInv'
  <2>1. /\ \A v : IsSettled(v)' <=> IsSettled(v)
        /\ \A s, v : IsServedIn(s, v)' <=> IsServedIn(s, v)
        /\ \A s, t : Refers(s, t)' <=> Refers(s, t)
    BY <1>7, <1>9 DEF IsSettled, IsServedIn, Refers
  <2>2. \A v : Contains(m, v) => IsServedIn(m, v)
    <3> SUFFICES ASSUME NEW v, Contains(m, v), NEW w, <<v, w>> \in needs
                 PROVE  Contains(m, w) \/ \E q \in Listed : Contains(q, w)
      BY DEF IsServedIn
    <3>1. PICK f \in g : Contains(f.of, v)
      BY <1>4
    <3>2. (\E h \in g : Contains(h.of, w)) \/ \E q \in Listed : Contains(q, w)
      BY <1>11, <3>1 DEF ClosedInv
    <3> QED
      BY <1>4, <3>2
  <2>3. \A k \in merged' : \A v : Contains(k.of, v) => IsServedIn(k.of, v)
    BY <1>6, <1>11, <2>2 DEF ClosedInv
  <2> QED
    BY <1>1, <1>7, <1>9, <1>11, <2>1, <2>3 DEF ClosedInv
<1>12. ASSUME LinearInv PROVE LinearInv'
  <2>1. \A h \in plan : h = g
    BY <1>12 DEF LinearInv
  <2>2. plan' = {} /\ merged = {} /\ merged' = {file}
    BY <1>1, <1>6, <1>12, <2>1 DEF LinearInv
  <2>3. ASSUME ~inserted, NEW s \in Listed, NEW t \in Fresh', NEW v, Contains(t, v)
        PROVE  Last(s) < v
    <3>1. CASE t \in Fresh
      BY <1>12, <2>3, <3>1 DEF LinearInv
    <3>2. CASE t = m
      <4>1. PICK f \in g : Contains(f.of, v)
        BY <1>4, <2>3, <3>2
      <4>2. f.of \in Fresh
        BY <1>3, NewFilesAreFresh
      <4> QED
        BY <1>12, <2>3, <4>1, <4>2 DEF LinearInv
    <3> QED
      BY <1>8, <3>1, <3>2
  <2> QED
    BY <1>2, <1>7, <1>12, <2>2, <2>3 DEF LinearInv
<1> QED
  BY <1>2, <1>9, <1>10, <1>11, <1>12 DEF OrderInv

LEMMA OrderUnlink ==
  ASSUME RepoInv, OrderInv, Unlink
  PROVE  OrderInv'
<1> DEFINE f == Head(Ordered(doomed))
<1>1. /\ doomed' = doomed \ {f} /\ disk' = {g \in disk : g.of # f.of}
      /\ UNCHANGED setting /\ UNCHANGED <<meta, plan, merged, inserted, crashes>>
  BY DEF Unlink
<1> HIDE DEF f
<1>2. OnDisk' = OnDisk \ {f.of} /\ Listed' = Listed
  BY <1>1 DEF OnDisk, Listed, Names
<1>3. Fresh' \subseteq Fresh /\ Names(merged)' = Names(merged)
  BY <1>1, <1>2 DEF Fresh, Names
<1>4. \A s \in OnDisk' : s \in Names(doomed) => s \in Names(doomed)'
  BY <1>1, <1>2 DEF Names
<1>5. UNCHANGED <<dag, needs>>
  BY <1>1 DEF setting
<1>6. ASSUME HomesInv PROVE HomesInv'
  <2>1. OnDisk' \subseteq OnDisk
    BY <1>2
  <2> QED
    BY <1>3, <1>4, <1>6, <2>1 DEF HomesInv
<1>7. ClosedInv => ClosedInv'
  BY <1>1, <1>2, <1>5, ClosedStays
<1>8. LinearInv => LinearInv'
  BY <1>1, <1>2, <1>3 DEF LinearInv
<1> QED
  BY <1>1, <1>5, <1>6, <1>7, <1>8 DEF OrderInv

LEMMA OrderSave ==
  ASSUME RepoInv, OrderInv, SaveSquashed
  PROVE  OrderInv'
<1>1. /\ stage # "none" /\ plan = {} /\ doomed = {} /\ meta' = meta \cup merged
      /\ plan' = {} /\ doomed' = {} /\ merged' = {}
      /\ UNCHANGED setting /\ UNCHANGED <<disk, inserted, crashes>>
  BY DEF SaveSquashed, RepoInv, StageInv
<1>2. merged \subseteq NewFiles
  BY DEF RepoInv, SquashInv
<1>3. /\ OnDisk' = OnDisk /\ Listed' = Listed \cup Names(merged) /\ Listed' \subseteq OnDisk
      /\ Listed \subseteq Listed' /\ Names(merged) \subseteq Fresh /\ Fresh \cap Listed = {}
  <2>1. Names(merged) \subseteq Fresh
    BY <1>2, NewFilesAreFresh DEF Names
  <2>2. OnDisk' = OnDisk /\ Listed' = Listed \cup Names(merged)
    BY <1>1 DEF OnDisk, Listed, Names
  <2> QED
    BY <2>1, <2>2 DEF Fresh, RepoInv, NamesInv
<1>4. Fresh' = Fresh \ Names(merged)
  BY <1>3 DEF Fresh
<1>5. UNCHANGED <<dag, needs>>
  BY <1>1 DEF setting
<1>6. ASSUME HomesInv
      PROVE  \A s, t \in OnDisk : \A v : Contains(s, v) /\ Contains(t, v) => s = t
  BY <1>1, <1>6 DEF HomesInv, Names
<1>7. ASSUME HomesInv PROVE HomesInv'
  <2>1. \A s \in Fresh' : Len(s) = 1
    BY <1>4, <1>7 DEF HomesInv
  <2>2. \A s \in OnDisk : Grows(s)
    BY <1>7 DEF HomesInv
  <2> QED
    BY <1>3, <1>6, <1>7, <2>1, <2>2 DEF HomesInv
<1>8. ASSUME HomesInv, ClosedInv PROVE ClosedInv'
  <2>1. \A t \in Names(merged) : \A v : Contains(t, v) => IsServedIn(t, v)
    BY <1>8 DEF ClosedInv, Names
  <2>2. ASSUME NEW r \in Listed', NEW v, Contains(r, v), NEW w, <<v, w>> \in needs
        PROVE  \E q \in Listed' : Contains(q, w)
    <3>1. CASE r \in Listed
      BY <1>3, <1>8, <2>2, <3>1 DEF ClosedInv, IsSettled
    <3>2. CASE r \in Names(merged)
      BY <1>3, <2>1, <2>2, <3>2 DEF IsServedIn
    <3> QED
      BY <1>3, <3>1, <3>2
  <2>3. \A s, t : Refers(s, t)' <=> Refers(s, t)
    BY <1>5 DEF Refers
  <2>4. \A s \in Listed, t \in Names(merged) : ~Refers(s, t)
    <3> SUFFICES ASSUME NEW s \in Listed, NEW t \in Names(merged), NEW v, NEW w,
                        <<v, w>> \in needs, Contains(s, v), Contains(t, w)
                 PROVE  FALSE
      BY DEF Refers
    <3>1. PICK q \in Listed : Contains(q, w)
      BY <1>8 DEF ClosedInv, IsSettled
    <3>2. q = t
      BY <1>3, <1>6, <1>8, <3>1
    <3> QED
      BY <1>3, <3>2
  <2>5. \A s, t \in Names(merged) : ~Refers(s, t)
    <3> SUFFICES ASSUME NEW s \in Names(merged), NEW t \in Names(merged), s # t, NEW v, NEW w,
                        <<v, w>> \in needs, Contains(s, v), Contains(t, w)
                 PROVE  FALSE
      BY DEF Refers
    <3>1. Contains(s, w) \/ \E q \in Listed : Contains(q, w)
      BY <2>1 DEF IsServedIn
    <3>2. \A q \in OnDisk : Contains(q, w) => q = t
      BY <1>3, <1>6, <1>8
    <3> QED
      BY <1>3, <3>1, <3>2
  <2>6. ASSUME NEW S \in SUBSET Listed', S # {}
        PROVE  \E s \in S : \A t \in S : ~Refers(s, t)
    <3>1. CASE S \cap Listed = {}
      BY <1>3, <2>5, <2>6, <3>1
    <3>2. CASE S \cap Listed # {}
      <4>1. PICK s \in S \cap Listed : \A t \in S \cap Listed : ~Refers(s, t)
        <5> DEFINE R == S \cap Listed
        <5>1. R \in SUBSET Listed /\ R # {}
          BY <3>2
        <5> HIDE DEF R
        <5>2. \E s \in R : \A t \in R : ~Refers(s, t)
          BY <1>8, <5>1 DEF ClosedInv
        <5> QED
          BY <5>2 DEF R
      <4> QED
        BY <1>3, <2>4, <2>6, <4>1
    <3> QED
      BY <3>1, <3>2
  <2>7. \A r \in Listed' : \A v : Contains(r, v) => IsSettled(v)'
    BY <1>5, <2>2 DEF IsSettled
  <2>8. \A S \in SUBSET Listed' : S # {} => \E s \in S : \A t \in S : ~Refers(s, t)'
    BY <2>3, <2>6
  <2> QED
    BY <1>1, <2>7, <2>8 DEF ClosedInv
<1>9. ASSUME LinearInv, ~dag PROVE LinearInv'
  <2>1. Fresh' = {}
    <3>1. NewFiles \subseteq merged
      BY <1>1, <1>9 DEF RepoInv, SquashInv
    <3>2. \A s \in Fresh : s \in Names(merged)
      BY <3>1, NewFilesAreFresh DEF Names
    <3> QED
      BY <1>4, <3>2
  <2>2. ASSUME ~inserted, NEW s \in Listed', NEW t \in Listed', NEW v, Last(s) < Last(t), Contains(t, v)
        PROVE  Last(s) < v
    <3>1. Contains(s, Last(s)) /\ Last(s) \in Nat /\ Last(t) \in Nat
      BY <1>3, NameFacts DEF RepoInv, NamesInv
    <3>2. CASE t \in Names(merged) /\ s \in Listed
      BY <1>3, <1>9, <2>2, <3>2 DEF LinearInv
    <3>3. CASE t \in Listed /\ s \in Listed
      BY <1>9, <2>2, <3>3 DEF LinearInv
    <3>4. CASE t \in Listed /\ s \in Names(merged)
      <4>1. Last(t) < Last(s)
        BY <1>3, <1>9, <2>2, <3>1, <3>4 DEF LinearInv
      <4> QED
        BY <2>2, <3>1, <4>1
    <3>5. CASE t \in Names(merged) /\ s \in Names(merged)
      <4>1. s = t
        BY <1>9, <3>5 DEF LinearInv, Names
      <4> QED
        BY <2>2, <3>1, <4>1
    <3> QED
      BY <1>3, <3>2, <3>3, <3>4, <3>5
  <2> QED
    BY <1>1, <2>1, <2>2 DEF LinearInv
<1> QED
  BY <1>1, <1>5, <1>7, <1>8, <1>9 DEF OrderInv

LEMMA OrderInvariant == RepoSpec => []OrderInv
<1>1. RepoInit => OrderInv
  BY OrderInitially
<1>2. RepoInv /\ CrashesInv /\ OrderInv /\ [RepoNext]_repoVars => OrderInv'
  <2> SUFFICES ASSUME RepoInv, CrashesInv, OrderInv, [RepoNext]_repoVars PROVE OrderInv'
    OBVIOUS
  <2>1. ASSUME NEW n \in Statements, New(n) PROVE OrderInv'
    BY <2>1, OrderNew
  <2>2. ASSUME NEW f \in disk, Edit(f) PROVE OrderInv'
    BY <2>2, OrderEdit
  <2>3. CASE StartSquash
    BY <2>3, OrderStart
  <2>4. CASE WriteMerged
    BY <2>4, OrderWrite
  <2>5. CASE Unlink
    BY <2>5, OrderUnlink
  <2>6. CASE SaveSquashed
    BY <2>6, OrderSave
  <2>7. CASE InterruptSquash
    <3>1. crashes' = crashes + 1 /\ crashes \in Nat
      BY <2>7 DEF InterruptSquash, CrashesInv
    <3>2. crashes' # 0
      BY <3>1
    <3> QED
      BY <3>2 DEF OrderInv
  <2>8. CASE Done \/ UNCHANGED repoVars
    <3>1. UNCHANGED repoVars
      BY <2>8 DEF Done
    <3>2. UNCHANGED setting /\ UNCHANGED <<plan, doomed, merged, inserted, crashes>>
          /\ OnDisk' = OnDisk /\ Listed' = Listed
      BY <3>1 DEF repoVars, squashVars, setting, OnDisk, Listed, Names
    <3> QED
      BY <3>2, OrderStays
  <2> QED
    BY <2>1, <2>2, <2>3, <2>4, <2>5, <2>6, <2>7, <2>8 DEF RepoNext
<1> QED
  BY <1>1, <1>2, RepoInvariant, CrashesAreCounted, PTL DEF RepoSpec

-----------------------------------------------------------------------------
(* The order of apply                                                      *)

\* The recursive function by which ApplyOrder is defined.
IsSelection(o, n) ==
  o = [k \in 0..n |->
         IF k = 0 THEN << >>
         ELSE Append(o[k - 1], Head(Ordered(Ready(FileGraph, disk \ ToSet(o[k - 1])))))]

LEMMA SelectionExists ==
  ASSUME NEW n \in Nat
  PROVE  \E o : IsSelection(o, n)
<1> DEFINE next(s) == Append(s, Head(Ordered(Ready(FileGraph, disk \ ToSet(s)))))
           bad == {k \in Nat : ~ \E o : IsSelection(o, k)}
<1>1. \A o : \A k \in Nat :
        IsSelection(o, k) <=> o = [i \in 0..k |-> IF i = 0 THEN << >> ELSE next(o[i - 1])]
  BY DEF IsSelection
<1> HIDE DEF next
<1> SUFFICES ASSUME bad # {} PROVE FALSE
  OBVIOUS
<1>2. PICK k \in bad : \A j \in bad : k <= j
  BY LeastNatural
<1>3. CASE k = 0
  <2> DEFINE o == [i \in 0..0 |-> << >>]
  <2>1. o = [i \in 0..0 |-> IF i = 0 THEN << >> ELSE next(o[i - 1])]
    OBVIOUS
  <2> QED
    BY <1>1, <1>3, <2>1
<1>4. CASE k # 0
  <2>1. k - 1 \in Nat /\ k - 1 \notin bad
    BY <1>2, <1>4
  <2>2. PICK o : o = [i \in 0..(k - 1) |-> IF i = 0 THEN << >> ELSE next(o[i - 1])]
    BY <1>1, <2>1
  <2> DEFINE new == [i \in 0..k |-> IF i < k THEN o[i] ELSE next(o[k - 1])]
  <2>3. ASSUME NEW i \in 0..k
        PROVE  new[i] = IF i = 0 THEN << >> ELSE next(new[i - 1])
    <3>1. CASE i < k
      <4>1. i \in 0..(k - 1) /\ new[i] = o[i] /\ (i # 0 => new[i - 1] = o[i - 1])
        BY <2>1, <3>1
      <4>2. o[i] = IF i = 0 THEN << >> ELSE next(o[i - 1])
        BY <2>2, <4>1
      <4> QED
        BY <4>1, <4>2
    <3>2. CASE i = k
      <4>1. new[i] = next(o[k - 1]) /\ new[i - 1] = o[k - 1]
        BY <1>4, <2>1, <3>2
      <4> QED
        BY <1>4, <3>2, <4>1
    <3> QED
      BY <3>1, <3>2
  <2>4. new = [i \in 0..k |-> IF i = 0 THEN << >> ELSE next(new[i - 1])]
    <3>1. new = [i \in 0..k |-> new[i]]
      OBVIOUS
    <3> HIDE DEF new
    <3> QED
      BY <2>3, <3>1
  <2> QED
    BY <1>1, <1>2, <2>4
<1> QED
  BY <1>3, <1>4

\* The first k files: each comes after those it depends on.
IsBuild(s, k) ==
  /\ s \in Seq(disk) /\ Len(s) = k
  /\ \A i, j \in 1..k : s[i] = s[j] => i = j
  /\ \A i \in 1..k : \A g \in Successors(FileGraph, s[i]) : \E j \in 1..(i - 1) : s[j] = g

LEMMA BuildGoesOn ==
  ASSUME longFirst \in BOOLEAN, AreFiles(disk),
         \A S \in SUBSET disk : S # {} => \E x \in S : Successors(FileGraph, x) \cap S = {},
         NEW k \in Nat, k < Cardinality(disk), NEW s, IsBuild(s, k)
  PROVE  IsBuild(Append(s, Head(Ordered(Ready(FileGraph, disk \ ToSet(s))))), k + 1)
<1> DEFINE rest == disk \ ToSet(s)
           ready == Ready(FileGraph, rest)
           f == Head(Ordered(ready))
           t == Append(s, f)
<1>1. /\ s \in Seq(disk) /\ Len(s) = k /\ DOMAIN s = 1..k
      /\ ToSet(s) = {s[i] : i \in 1..k}
  BY LenProperties DEF IsBuild, ToSet
<1>2. rest # {}
  <2>1. IsFiniteSet(1..k) /\ Cardinality(1..k) = k
    BY FS_Interval
  <2>2. IsFiniteSet(ToSet(s)) /\ Cardinality(ToSet(s)) <= k
    <3>1. s \in [1..k -> ToSet(s)] /\ \A x \in ToSet(s) : \E i \in 1..k : s[i] = x
      BY <1>1
    <3>2. s \in Surjection(1..k, ToSet(s))
      BY <3>1 DEF Surjection
    <3> QED
      BY <2>1, <3>2, FS_Surjection
  <2>3. disk \subseteq ToSet(s) => Cardinality(disk) <= Cardinality(ToSet(s))
    BY <2>2, FS_Subset
  <2>4. Cardinality(disk) \in Nat /\ Cardinality(ToSet(s)) \in Nat
    BY <2>2, FS_CardinalityType DEF AreFiles
  <2> QED
    BY <2>2, <2>3, <2>4
<1>3. ready # {} /\ ready \in SUBSET disk
  <2>1. \E x \in rest : Successors(FileGraph, x) \cap rest = {}
    BY <1>2
  <2> QED
    BY <2>1 DEF Ready
<1>4. AreFiles(ready)
  <2>1. IsFiniteSet(ready)
    BY <1>3, FS_Subset DEF AreFiles
  <2> QED
    BY <1>3, <2>1 DEF AreFiles
<1>5. f \in ready
  BY <1>3, <1>4, FirstIsAmong
<1>6. f \in disk /\ f \notin ToSet(s) /\ Successors(FileGraph, f) \subseteq ToSet(s)
  <2>1. Successors(FileGraph, f) \subseteq disk
    BY DEF Successors, FileGraph
  <2> QED
    BY <1>5, <2>1 DEF Ready
<1> HIDE DEF f
<1>7. /\ t \in Seq(disk) /\ Len(t) = k + 1 /\ t[k + 1] = f
      /\ \A i \in 1..k : t[i] = s[i]
  BY <1>1, <1>6, AppendProperties
<1> HIDE DEF t
<1>8. 1..(k + 1) = (1..k) \cup {k + 1} /\ (k + 1) - 1 = k
  OBVIOUS
<1>9. \A i, j \in 1..(k + 1) : t[i] = t[j] => i = j
  <2>1. \A i \in 1..k : t[i] # f
    BY <1>1, <1>6, <1>7
  <2>2. \A i, j \in 1..k : t[i] = t[j] => i = j
    BY <1>7 DEF IsBuild
  <2> QED
    BY <1>7, <1>8, <2>1, <2>2
<1>10. ASSUME NEW i \in 1..(k + 1), NEW g \in Successors(FileGraph, t[i])
       PROVE  \E j \in 1..(i - 1) : t[j] = g
  <2>1. CASE i \in 1..k
    <3>1. PICK j \in 1..(i - 1) : s[j] = g
      BY <1>7, <1>10, <2>1 DEF IsBuild
    <3>2. j \in 1..k
      BY <2>1
    <3> QED
      BY <1>7, <3>1, <3>2
  <2>2. CASE i = k + 1
    <3>1. PICK j \in 1..k : s[j] = g
      BY <1>1, <1>6, <1>7, <1>10, <2>2
    <3> QED
      BY <1>7, <1>8, <2>2, <3>1
  <2> QED
    BY <1>8, <2>1, <2>2
<1>11. IsBuild(t, k + 1)
  BY <1>7, <1>9, <1>10 DEF IsBuild
<1> QED
  BY <1>11 DEF t, f

\* In the DAG model the order has every file, after those it depends on.
LEMMA ApplyOrderIsBuild ==
  ASSUME longFirst \in BOOLEAN, AreFiles(disk), dag,
         \A S \in SUBSET disk : S # {} => \E x \in S : Successors(FileGraph, x) \cap S = {}
  PROVE  /\ Cardinality(disk) \in Nat
         /\ IsBuild(ApplyOrder, Cardinality(disk))
         /\ \A f \in disk : \E i \in 1..Cardinality(disk) : ApplyOrder[i] = f
<1> DEFINE n == Cardinality(disk)
           o == CHOOSE o : IsSelection(o, n)
           bad == {k \in 0..n : ~IsBuild(o[k], k)}
<1>1. n \in Nat
  BY FS_CardinalityType DEF AreFiles
<1>2. IsSelection(o, n)
  BY <1>1, SelectionExists
<1>3. IsGraph(FileGraph) /\ FileGraph.node = disk
  BY DEF IsGraph, FileGraph, AreFiles
<1>4. IsAcyclic(FileGraph)
  BY <1>3, NeverStuckIsAcyclic
<1>5. ApplyOrder = o[n]
  BY <1>4 DEF ApplyOrder, IsSelection
<1> HIDE DEF o, n
<1>6. ASSUME bad # {} PROVE FALSE
  <2>1. PICK k \in bad : \A j \in bad : k <= j
    <3>1. bad \in SUBSET Nat
      BY <1>1
    <3> HIDE DEF bad
    <3> QED
      BY <1>6, <3>1, LeastNatural
  <2>2. CASE k = 0
    <3>1. o[0] = << >>
      BY <1>1, <1>2 DEF IsSelection
    <3>2. IsBuild(<< >>, 0)
      BY EmptySeq DEF IsBuild
    <3> QED
      BY <2>1, <2>2, <3>1, <3>2
  <2>3. CASE k # 0
    <3> DEFINE i == k - 1
    <3>1. i \in Nat /\ i \in 0..n /\ i < n /\ i + 1 = k /\ i \notin bad
      BY <1>1, <2>1, <2>3
    <3>2. IsBuild(o[i], i)
      BY <3>1
    <3>3. o[k] = Append(o[i], Head(Ordered(Ready(FileGraph, disk \ ToSet(o[i])))))
      BY <1>2, <2>1, <2>3 DEF IsSelection
    <3> HIDE DEF i
    <3>4. IsBuild(o[k], i + 1)
      BY <3>1, <3>2, <3>3, BuildGoesOn DEF n
    <3> QED
      BY <2>1, <3>1, <3>4
  <2> QED
    BY <2>2, <2>3
<1>7. IsBuild(o[n], n)
  BY <1>1, <1>6
<1>8. ASSUME NEW f \in disk PROVE \E i \in 1..n : o[n][i] = f
  <2> DEFINE s == o[n]
  <2>1. s \in [1..n -> disk] /\ \A i, j \in 1..n : s[i] = s[j] => i = j
    BY <1>7, LenProperties DEF IsBuild
  <2>2. s \in Injection(1..n, disk)
    BY <2>1 DEF Injection, IsInjective
  <2>3. IsFiniteSet(disk) /\ Cardinality(1..n) = Cardinality(disk)
    BY <1>1, FS_Interval DEF AreFiles, n
  <2>4. s \in Surjection(1..n, disk)
    BY <2>2, <2>3, FS_Injection
  <2> QED
    BY <2>4 DEF Surjection
<1> QED
  BY <1>1, <1>5, <1>7, <1>8 DEF n

LEMMA FirstAtFacts ==
  ASSUME NEW S, NEW s \in Seq(S), NEW v, Contains(s, v)
  PROVE  /\ FirstAt(s, v) \in 1..Len(s) /\ s[FirstAt(s, v)] = v
         /\ \A j \in 1..(FirstAt(s, v) - 1) : s[j] # v
<1> DEFINE at == {i \in 1..Len(s) : s[i] = v}
<1>1. DOMAIN s = 1..Len(s) /\ Len(s) \in Nat
  BY LenProperties
<1>2. at # {} /\ at \in SUBSET Nat
  BY <1>1 DEF Contains
<1>3. PICK i \in at : \A j \in at : i <= j
  BY <1>2, LeastNatural
<1>4. \A j \in 1..(i - 1) : s[j] # v
  <2> SUFFICES ASSUME NEW j \in 1..(i - 1), s[j] = v PROVE FALSE
    OBVIOUS
  <2>1. j \in at /\ j < i
    BY <1>1
  <2> QED
    BY <1>1, <1>3, <2>1
<1>5. \E a \in DOMAIN s : s[a] = v /\ \A j \in 1..(a - 1) : s[j] # v
  BY <1>1, <1>4
<1> QED
  BY <1>1, <1>5 DEF FirstAt

\* A list of files in which no file with v stands before one with w.
Serves(A, n, v, w) ==
  /\ DOMAIN A = 1..n /\ \A i \in 1..n : A[i] \in disk
  /\ (\E i \in 1..n : Contains(A[i].of, v)) /\ (\E j \in 1..n : Contains(A[j].of, w))
  /\ \A i, j \in 1..n : Contains(A[i].of, v) /\ Contains(A[j].of, w) => j <= i

\* Executed file by file, what has the earlier timestamp comes first.
LEMMA ServedFirst ==
  ASSUME RepoInv, HomesInv, NEW n \in Nat, NEW A, NEW v, NEW w, w < v, Serves(A, n, v, w)
  PROVE  FirstAt(FlattenSeq([i \in DOMAIN A |-> A[i].of]), w)
           < FirstAt(FlattenSeq([i \in DOMAIN A |-> A[i].of]), v)
<1> DEFINE names == [i \in 1..n |-> A[i].of]
           s == FlattenSeq(names)
<1>1. /\ DOMAIN A = 1..n
      /\ \A i \in 1..n : /\ names[i] \in OnDisk /\ IsName(names[i]) /\ Grows(names[i])
                         /\ DOMAIN names[i] = 1..Len(names[i])
  <2>1. \A i \in 1..n : names[i] \in OnDisk
    BY NewFilesAreFresh DEF Serves
  <2>2. \A t \in OnDisk : IsName(t) /\ Grows(t) /\ DOMAIN t = 1..Len(t)
    BY NameFacts DEF RepoInv, NamesInv, HomesInv
  <2> HIDE DEF names
  <2> QED
    BY <2>1, <2>2 DEF Serves
<1>2. names \in Seq(Seq(Statements)) /\ Len(names) = n
  <2>1. \A i \in 1..n : A[i].of \in Seq(Statements)
    BY <1>1 DEF IsName
  <2> QED
    BY <2>1
<1>3. /\ (\E i \in 1..n : Contains(names[i], v)) /\ (\E j \in 1..n : Contains(names[j], w))
      /\ \A i, j \in 1..n : Contains(names[i], v) /\ Contains(names[j], w) => j <= i
  BY DEF Serves
<1> HIDE DEF names
<1>4. IsConcatenation(s, names, n, Statements)
  BY <1>2, FlattenIsConcatenation
<1>5. s \in Seq(Statements) /\ DOMAIN s = 1..Len(s) /\ Len(s) \in Nat
  BY <1>4, LenProperties DEF IsConcatenation
<1>6. \A i \in 1..n : \A x : Contains(names[i], x) => Contains(s, x)
  <2> TAKE i \in 1..n
  <2>1. \A x : Contains(names[i], x) => x \in ToSet(names[i])
    BY DEF Contains, ToSet
  <2>2. \A x : x \in ToSet(s) => Contains(s, x)
    BY DEF Contains, ToSet
  <2>3. ToSet(names[i]) \subseteq ToSet(s)
    BY <1>4 DEF IsConcatenation
  <2> QED
    BY <2>1, <2>2, <2>3
<1>7. PICK j \in 1..n : Contains(names[j], w)
  BY <1>3
<1>8. PICK l \in 1..Len(names[j]) : names[j][l] = w
  BY <1>1, <1>7 DEF Contains
<1>9. PICK p \in 1..Len(s) : IsPlace(s, names, j, l, p)
  BY <1>4 DEF IsConcatenation
<1>10. s[p] = w
  BY <1>8, <1>9 DEF IsPlace
<1>11. \A q \in 1..(p - 1) : s[q] # v
  <2> SUFFICES ASSUME NEW q \in 1..(p - 1), s[q] = v PROVE FALSE
    OBVIOUS
  <2>1. PICK h \in 1..j : \E k \in 1..Len(names[h]) : v = names[h][k] /\ (h = j => k < l)
    BY <1>9 DEF IsPlace
  <2>2. PICK k \in 1..Len(names[h]) : v = names[h][k] /\ (h = j => k < l)
    BY <2>1
  <2>3. h \in 1..n /\ Contains(names[h], v)
    <3>1. h \in 1..n
      OBVIOUS
    <3> QED
      BY <1>1, <2>2, <3>1 DEF Contains
  <2>4. j <= h
    BY <1>3, <1>7, <2>3
  <2>5. h = j
    BY <2>4
  <2>6. k \in 1..Len(names[j]) /\ k < l /\ names[j][k] = v
    BY <2>5, <2>2
  <2>7. v < w
    BY <1>1, <1>8, <2>6 DEF Grows
  <2>8. v \in Nat /\ w \in Nat
    <3>1. v \in Statements /\ w \in Statements
      BY <1>1, <1>7, <2>3, NameFacts
    <3> QED
      BY <3>1, StatementsAreNumbers
  <2> QED
    BY <2>7, <2>8
<1> DEFINE a == FirstAt(s, w)
           b == FirstAt(s, v)
<1>12. a \in 1..Len(s) /\ s[a] = w /\ \A q \in 1..(a - 1) : s[q] # w
  BY <1>5, <1>6, <1>7, FirstAtFacts
<1>13. b \in 1..Len(s) /\ s[b] = v
  BY <1>3, <1>5, <1>6, FirstAtFacts
<1>14. v # w
  <2>1. w \in Nat
    BY <1>1, <1>7, NameFacts, StatementsAreNumbers
  <2> QED
    BY <2>1
<1> HIDE DEF a, b
<1>15. a <= p
  <2> SUFFICES ASSUME p < a PROVE FALSE
    BY <1>5, <1>12
  <2>1. p \in 1..(a - 1)
    BY <1>5, <1>12
  <2> QED
    BY <1>10, <1>12, <2>1
<1>16. p < b
  <2> SUFFICES ASSUME ~(p < b) PROVE FALSE
    OBVIOUS
  <2>1. b \in 1..(p - 1) \/ b = p
    BY <1>5, <1>13
  <2> QED
    BY <1>10, <1>11, <1>13, <1>14, <2>1
<1>17. a < b
  BY <1>5, <1>12, <1>13, <1>15, <1>16
<1>18. [i \in DOMAIN A |-> A[i].of] = names
  BY <1>1 DEF names
<1> QED
  BY <1>17, <1>18 DEF a, b

\* Each statement is in one file when no squash is under way.
LEMMA HomesAreSingle ==
  ASSUME RepoInv, HomesInv, stage = "none"
  PROVE  /\ \A f, g \in disk : \A v : Contains(f.of, v) /\ Contains(g.of, v) => f = g
         /\ \A s \in Fresh : Len(s) = 1
<1>1. doomed = {} /\ merged = {}
  BY DEF RepoInv, StageInv
<1>2. \A s, t \in OnDisk : \A v : Contains(s, v) /\ Contains(t, v) => s = t
  BY <1>1 DEF HomesInv, Names
<1>3. \A f, g \in disk : \A v : Contains(f.of, v) /\ Contains(g.of, v) => f.of = g.of
  BY <1>2, NewFilesAreFresh
<1> QED
  BY <1>1, <1>3 DEF HomesInv, Names, RepoInv, FilesInv

\* In the DAG model some file of any set refers to none of them.
LEMMA FilesAreNeverStuck ==
  ASSUME RepoInv, HomesInv, ClosedInv, stage = "none", RefersBack,
         NEW S \in SUBSET disk, S # {}
  PROVE  \E f \in S : Successors(FileGraph, f) \cap S = {}
<1>1. \A f, g \in disk : g \in Successors(FileGraph, f) => Refers(f.of, g.of)
  <2> SUFFICES ASSUME NEW f \in disk, NEW g \in disk, Edge(f, g) PROVE Refers(f.of, g.of)
    BY DEF Successors, FileGraph
  <2>1. f # g /\ \E v, w : <<v, w>> \in needs /\ Contains(f.of, v) /\ IsLastWith(g, w)
    BY EdgeFacts DEF RepoInv
  <2>2. f.of # g.of
    BY <2>1 DEF RepoInv, FilesInv
  <2> QED
    BY <2>1, <2>2 DEF Refers, IsLastWith
<1> SUFFICES \E f \in S : \A g \in S : ~Refers(f.of, g.of)
  BY <1>1
<1> DEFINE R == {s \in Listed : \E f \in S : f.of = s}
<1>2. CASE R # {}
  <2>1. PICK s \in R : \A t \in R : ~Refers(s, t)
    <3>1. R \in SUBSET Listed
      OBVIOUS
    <3> HIDE DEF R
    <3> QED
      BY <1>2, <3>1 DEF ClosedInv
  <2>2. PICK f \in S : f.of = s
    OBVIOUS
  <2>3. ASSUME NEW g \in S, Refers(s, g.of) PROVE FALSE
    <3>1. PICK v, w : <<v, w>> \in needs /\ Contains(s, v) /\ Contains(g.of, w)
      BY <2>3 DEF Refers
    <3>2. PICK q \in Listed : Contains(q, w)
      BY <3>1 DEF ClosedInv, IsSettled
    <3>3. PICK h \in disk : h.of = q
      BY NewFilesAreFresh DEF RepoInv, NamesInv
    <3>4. h = g
      BY <3>1, <3>2, <3>3, HomesAreSingle
    <3>5. g.of \in R
      BY <3>2, <3>3, <3>4
    <3> QED
      BY <2>1, <2>3, <3>5
  <2> QED
    BY <2>2, <2>3
<1>3. CASE R = {}
  <2> DEFINE stamps == {Stamp(f) : f \in S}
  <2>1. ASSUME NEW f \in S
        PROVE  Stamp(f) \in Nat /\ \A v : Contains(f.of, v) <=> v = Stamp(f)
    <3>1. f.of \in Fresh /\ IsName(f.of)
      BY <1>3, NewFilesAreFresh DEF Fresh, RepoInv, NamesInv
    <3>2. Len(f.of) = 1
      BY <3>1, HomesAreSingle
    <3> DEFINE x == Stamp(f)
    <3>3. f.of = <<x>> /\ x \in Statements
      BY <3>1, <3>2, NameFacts, SingleNames DEF Stamp
    <3> HIDE DEF x
    <3>4. x \in Nat /\ \A v : Contains(<<x>>, v) <=> v = x
      BY <3>3, SingleFacts, StatementsAreNumbers
    <3> QED
      BY <3>3, <3>4 DEF x
  <2>2. stamps \in SUBSET Nat /\ stamps # {}
    BY <2>1
  <2>3. PICK m \in stamps : \A k \in stamps : m <= k
    BY <2>2, LeastNatural
  <2>4. PICK f \in S : m = Stamp(f)
    OBVIOUS
  <2>5. ASSUME NEW g \in S, Refers(f.of, g.of) PROVE FALSE
    <3>1. <<Stamp(f), Stamp(g)>> \in needs
      BY <2>1, <2>5 DEF Refers
    <3>2. Stamp(g) < Stamp(f)
      BY <3>1 DEF RefersBack
    <3>3. m <= Stamp(g)
      BY <2>3
    <3> QED
      BY <2>1, <2>4, <3>2, <3>3
  <2> QED
    BY <2>5
<1> QED
  BY <1>2, <1>3

\* In both models a file with v stands behind the one with what v refers to.
LEMMA ApplyOrderServes ==
  ASSUME RepoInv, OrderInv, stage = "none", crashes = 0, dag \/ ~inserted,
         RefersBack,
         NEW v \in written, NEW w, <<v, w>> \in needs
  PROVE  \E n \in Nat : Serves(ApplyOrder, n, v, w)
<1> DEFINE n == Cardinality(disk)
<1>1. HomesInv /\ (dag => ClosedInv) /\ (~dag => LinearInv)
  BY DEF OrderInv
<1>2. longFirst \in BOOLEAN /\ AreFiles(disk)
  BY DiskIsFiles DEF RepoInv, SettingInv
<1>3. n \in Nat
  BY <1>2, OrderedFacts
<1>4. w \in written /\ w < v
  <2>1. w = <<v, w>>[2] /\ v = <<v, w>>[1]
    OBVIOUS
  <2> QED
    BY <2>1 DEF RepoInv, WrittenInv, RefersBack
<1>5. PICK f \in disk, g \in disk : Contains(f.of, v) /\ Contains(g.of, w)
  <2>1. (\E s \in OnDisk : Contains(s, v)) /\ \E s \in OnDisk : Contains(s, w)
    BY <1>4 DEF RepoInv, WrittenInv
  <2> QED
    BY <2>1, NewFilesAreFresh
<1>6. \A h \in disk : (Contains(h.of, v) => h = f) /\ (Contains(h.of, w) => h = g)
  BY <1>1, <1>5, HomesAreSingle
<1>7. CASE dag
  <2>1. \A S \in SUBSET disk : S # {} => \E x \in S : Successors(FileGraph, x) \cap S = {}
    BY <1>1, <1>7, FilesAreNeverStuck
  <2>2. /\ IsBuild(ApplyOrder, n)
        /\ \A h \in disk : \E i \in 1..n : ApplyOrder[i] = h
    BY <1>2, <1>7, <2>1, ApplyOrderIsBuild
  <2>3. /\ DOMAIN ApplyOrder = 1..n /\ \A i \in 1..n : ApplyOrder[i] \in disk
        /\ \A i, j \in 1..n : ApplyOrder[i] = ApplyOrder[j] => i = j
        /\ \A i \in 1..n : \A h \in Successors(FileGraph, ApplyOrder[i]) :
             \E j \in 1..(i - 1) : ApplyOrder[j] = h
    BY <2>2, LenProperties DEF IsBuild
  <2>4. f # g => g \in Successors(FileGraph, f)
    <3> SUFFICES ASSUME f # g PROVE Edge(f, g)
      BY DEF Successors, FileGraph
    <3>1. IsLastWith(g, w)
      BY <1>5, <1>6 DEF IsLastWith
    <3> QED
      BY <1>5, <3>1, EdgeFacts DEF RepoInv
  <2> HIDE DEF n
  <2>5. ASSUME NEW i \in 1..n, NEW j \in 1..n, ApplyOrder[i] = f, ApplyOrder[j] = g
        PROVE  j <= i
    <3>1. CASE f = g
      BY <2>3, <2>5, <3>1
    <3>2. CASE f # g
      <4>1. PICK k \in 1..(i - 1) : ApplyOrder[k] = g
        BY <2>3, <2>4, <2>5, <3>2
      <4>2. k \in 1..n /\ k < i
        BY <1>3
      <4>3. k = j
        BY <2>3, <2>5, <4>1, <4>2
      <4> QED
        BY <1>3, <4>2, <4>3
    <3> QED
      BY <3>1, <3>2
  <2>6. (\E i \in 1..n : ApplyOrder[i] = f) /\ \E j \in 1..n : ApplyOrder[j] = g
    BY <2>2
  <2>7. Serves(ApplyOrder, n, v, w)
    BY <1>5, <1>6, <2>3, <2>5, <2>6 DEF Serves
  <2> QED
    BY <1>3, <2>7
<1>8. CASE ~dag
  <2> DEFINE o == Ordered(disk)
  <2>1. ApplyOrder = o
    BY <1>8 DEF ApplyOrder
  <2>2. /\ DOMAIN o = 1..n /\ \A i \in 1..n : o[i] \in disk /\ Place(disk, o[i]) = i
        /\ \A h \in disk : Place(disk, h) \in 1..n /\ o[Place(disk, h)] = h
    BY <1>2, OrderedFacts, PlacesAreDistinct, LenProperties
  <2> HIDE DEF o, n
  <2>3. f # g => IsEarlier(g, f)
    <3> SUFFICES ASSUME f # g PROVE Stamp(g) < Stamp(f)
      BY DEF IsEarlier
    <3> DEFINE s == f.of
               t == g.of
    <3>1. /\ s \in OnDisk /\ t \in OnDisk
          /\ Last(s) \in Nat /\ Last(t) \in Nat /\ Contains(s, Last(s)) /\ Contains(t, Last(t))
          /\ v <= Last(s) /\ v \in Nat /\ w \in Nat
      <4>1. s \in OnDisk /\ t \in OnDisk
        BY NewFilesAreFresh
      <4>2. IsName(s) /\ IsName(t) /\ v <= Last(s)
        BY <1>5, <4>1 DEF RepoInv, NamesInv
      <4> QED
        BY <1>5, <4>1, <4>2, NameFacts, StatementsAreNumbers
    <3>2. Last(s) # Last(t)
      BY <1>1, <1>5, <3>1, HomesAreSingle
    <3>3. Contains(t, w)
      BY <1>5
    <3>4. ~inserted /\ LinearInv
      BY <1>1, <1>8
    <3>5. ASSUME Last(s) < Last(t) PROVE Last(s) < w
      <4>1. CASE t \in Fresh
        <5>1. Len(t) = 1 /\ IsName(t)
          BY <1>1, <4>1, HomesAreSingle DEF RepoInv, NamesInv, Fresh
        <5>2. t = <<w>>
          BY <3>3, <5>1, SingleNames
        <5>3. Last(t) = w
          BY <5>1, <5>2 DEF Last
        <5> QED
          BY <3>5, <5>3
      <4>2. CASE t \in Listed /\ s \in Listed
        BY <3>3, <3>4, <3>5, <4>2 DEF LinearInv
      <4>3. CASE t \in Listed /\ s \in Fresh
        <5>1. Last(t) < Last(s)
          BY <3>1, <3>4, <4>3 DEF LinearInv
        <5> QED
          BY <3>1, <3>5, <5>1
      <4> QED
        BY <3>1, <4>1, <4>2, <4>3 DEF Fresh
    <3>6. Stamp(f) = Last(s) /\ Stamp(g) = Last(t)
      BY DEF Stamp
    <3> HIDE DEF s, t
    <3> QED
      BY <1>4, <3>1, <3>2, <3>5, <3>6
  <2>4. ASSUME NEW i \in 1..n, NEW j \in 1..n, o[i] = f, o[j] = g
        PROVE  j <= i
    <3>1. i = Place(disk, f) /\ j = Place(disk, g)
      BY <2>2, <2>4
    <3>2. f # g => j < i
      BY <1>2, <2>3, <3>1, PlacesAreDistinct
    <3> QED
      BY <1>3, <3>1, <3>2
  <2>5. (\E i \in 1..n : o[i] = f) /\ \E j \in 1..n : o[j] = g
    BY <2>2
  <2>6. Serves(o, n, v, w)
    BY <1>5, <1>6, <2>2, <2>4, <2>5 DEF Serves
  <2> QED
    BY <1>3, <2>1, <2>6
<1> QED
  BY <1>7, <1>8

\* Where no statement refers to one with a later timestamp, an apply of the whole
\* checkout executes what creates an object before what refers to it, in both models,
\* from whichever branches the statements came and however they were squashed.
THEOREM DependenciesAlwaysPrecede == RepoSpec => [](RefersBack => DependenciesPrecede)
<1>1. ASSUME RepoInv, OrderInv, RefersBack PROVE DependenciesPrecede
  <2> SUFFICES ASSUME stage = "none", crashes = 0, dag \/ ~inserted,
                      NEW e \in needs, e[1] \in written
               PROVE  FirstAt(StatementOrder, e[2]) < FirstAt(StatementOrder, e[1])
    BY DEF DependenciesPrecede
  <2> DEFINE v == e[1]
             w == e[2]
  <2>1. <<v, w>> \in needs /\ w < v /\ v \in written
    <3>1. e = <<v, w>>
      BY <1>1 DEF RepoInv, SettingInv
    <3> QED
      BY <1>1, <3>1 DEF RefersBack
  <2> HIDE DEF v, w
  <2>2. PICK n \in Nat : Serves(ApplyOrder, n, v, w)
    BY <1>1, <2>1, ApplyOrderServes
  <2>3. HomesInv
    BY <1>1 DEF OrderInv
  <2>4. FirstAt(StatementOrder, w) < FirstAt(StatementOrder, v)
    BY <1>1, <2>1, <2>2, <2>3, ServedFirst DEF StatementOrder
  <2> QED
    BY <2>4 DEF v, w
<1> QED
  BY <1>1, RepoInvariant, OrderInvariant, PTL

\* So it is at every setting that has no such references.
COROLLARY PrecedeUnlessLate ==
  ASSUME ~LateReferences
  PROVE  RepoSpec => []DependenciesPrecede
<1>1. RepoInit => RefersBack
  BY DEF RepoInit, RefersBack
<1>2. RefersBack /\ [RepoNext]_repoVars => RefersBack'
  <2>1. [RepoNext]_repoVars => UNCHANGED needs
    BY DEF RepoNext, New, Edit, StartSquash, WriteMerged, Unlink, SaveSquashed,
           InterruptSquash, Done, repoVars, setting
  <2> QED
    BY <2>1 DEF RefersBack
<1> QED
  BY <1>1, <1>2, DependenciesAlwaysPrecede, PTL DEF RepoSpec

=============================================================================
