--------------------------- MODULE ScengenProofs ---------------------------
(***************************************************************************)
(* Proofs about Scengen, for every set of directory trees and every bound. *)
(***************************************************************************)
EXTENDS Scengen, Inductions, SequenceTheorems, TLAPS

-----------------------------------------------------------------------------
(* Replacing the scenario directory.                                       *)

\* Where the command is tells what the two directories hold: the new scenario
\* is whole before the old one is touched, and stays whole until it has taken
\* its place.
SwapInv ==
  /\ stage \in {"written", "removing", "swap"} => tmp = "new"
  /\ stage = "swap" => out = "none"

\* Every step keeps that relation.
LEMMA SwapStep == SwapInv /\ [Next]_vars => SwapInv'
<1> SUFFICES ASSUME SwapInv, [Next]_vars PROVE SwapInv'
  OBVIOUS
<1> USE DEF SwapInv
<1>1. CASE Walk \/ IDClash \/ (\E n \in todo : InsertHubs(n)) \/ AddNodes
  BY <1>1 DEF Walk, IDClash, InsertHubs, AddNodes, files
<1>2. CASE (\E e \in raw.edges : AssignOne(e)) \/ Dequeue \/ Validate
  BY <1>2 DEF AssignOne, Dequeue, Validate, files
<1>3. CASE SaveGraph \/ LoadGraph \/ SpawnEnemies \/ PlaceItems
  BY <1>3 DEF SaveGraph, LoadGraph, SpawnEnemies, PlaceItems, files
<1>4. CASE CleanTmp \/ WriteTmp \/ RemoveOutput \/ Rename
  BY <1>4 DEF CleanTmp, WriteTmp, RemoveOutput, Rename
<1>5. CASE IOError \/ Crash \/ SelfValidate \/ GenerateAgain
  BY <1>5 DEF IOError, Crash, SelfValidate, GenerateAgain
<1>6. CASE UNCHANGED vars
  BY <1>6 DEF vars
<1>7. QED
  BY <1>1, <1>2, <1>3, <1>4, <1>5, <1>6 DEF Next

\* The old scenario is given up only when the new one is whole beside it, in
\* every run over whatever an error or a crash has left on disk.
THEOREM OldScenarioSafe == Spec => OldKeptUntilNewIsWhole
<1>1. Init => SwapInv
  BY DEF Init, SwapInv
<1>2. SwapInv /\ [Next]_vars => [out = "old" /\ out' # "old" => tmp = "new"]_vars
  <2> SUFFICES ASSUME SwapInv, Next, out = "old", out' # "old"
               PROVE  tmp = "new"
    OBVIOUS
  <2>1. RemoveOutput \/ Rename \/ LoadGraph \/ GenerateAgain
    BY DEF Next, Walk, IDClash, InsertHubs, AddNodes, AssignOne, Dequeue, Validate, SaveGraph,
           SpawnEnemies, PlaceItems, CleanTmp, WriteTmp, IOError, Crash, SelfValidate, files
  <2>2. QED
    BY <2>1 DEF SwapInv, RemoveOutput, Rename, LoadGraph, GenerateAgain, Older
<1>3. QED
  BY <1>1, <1>2, SwapStep, PTL DEF Spec, OldKeptUntilNewIsWhole

-----------------------------------------------------------------------------
(* Corridors.                                                              *)

\* A graph has three fields; its corridors are marked.
Marked(g) == g.hubs = {n \in g.nodes : IsHub(n)}
IsGraph(g) == g = [nodes |-> g.nodes, hubs |-> g.hubs, edges |-> g.edges]

\* Before the visitors nothing is in the rooms, and afterwards no enemy is in
\* a room marked as a corridor; the marks are right except in a graph that
\* came from the store, which is never given directions again.
CorridorInv ==
  /\ IsGraph(graph) /\ IsGraph(db)
  /\ content = [enemies |-> content.enemies, items |-> content.items]
  /\ stage \in {"walk", "hubs", "assign", "graph"} => content = NoContent
  /\ \A n \in DOMAIN content.enemies : n \in graph.nodes /\ n \notin graph.hubs
  /\ Marked(graph) \/ (graph = db /\ stage # "assign")

\* An empty scenario has no enemies.
LEMMA NoEnemies == \A n \in DOMAIN NoContent.enemies : FALSE
BY DEF NoContent

\* Every step keeps the corridors empty.
LEMMA CorridorStep == CorridorInv /\ [Next]_vars => CorridorInv'
<1> SUFFICES ASSUME CorridorInv, [Next]_vars PROVE CorridorInv'
  OBVIOUS
<1>1. IsGraph(NoGraph) /\ Marked(NoGraph)
  BY DEF IsGraph, NoGraph, Marked
<1>2. NoContent = [enemies |-> NoContent.enemies, items |-> NoContent.items]
  BY DEF NoContent
<1>3. ASSUME UNCHANGED <<graph, db, content>>,
             stage' \in {"walk", "hubs", "assign", "graph"} =>
               stage \in {"walk", "hubs", "assign", "graph"},
             stage' # "assign" \/ stage' = stage
      PROVE  CorridorInv'
  BY <1>3 DEF CorridorInv, IsGraph, Marked
<1>4. CASE Walk \/ IDClash \/ (\E n \in todo : InsertHubs(n)) \/ Dequeue \/ Validate
  BY <1>3, <1>4 DEF Walk, IDClash, InsertHubs, Dequeue, Validate
<1>5. CASE CleanTmp \/ WriteTmp \/ RemoveOutput \/ Rename \/ IOError \/ Crash \/ SelfValidate
  BY <1>3, <1>5 DEF CleanTmp, WriteTmp, RemoveOutput, Rename, IOError, Crash, SelfValidate
<1>6. CASE AddNodes
  <2>1. /\ graph' = [nodes |-> raw.nodes, hubs |-> {n \in raw.nodes : IsHub(n)}, edges |-> {}]
        /\ UNCHANGED <<db, content>> /\ content = NoContent
    BY <1>6 DEF AddNodes, CorridorInv
  <2>2. IsGraph(graph') /\ Marked(graph')
    BY <2>1 DEF IsGraph, Marked
  <2>3. QED
    BY <2>1, <2>2, <1>2, NoEnemies DEF CorridorInv, IsGraph
<1>7. CASE \E e \in raw.edges : AssignOne(e)
  <2>1. PICK edges : graph' = [graph EXCEPT !.edges = edges]
    <3>1. graph = [graph EXCEPT !.edges = graph.edges] BY DEF CorridorInv, IsGraph
    <3>2. graph' = graph \/ \E edges : graph' = [graph EXCEPT !.edges = edges]
      BY <1>7, Zenon DEF AssignOne
    <3> QED BY <3>1, <3>2
  <2>2. stage = "assign" /\ UNCHANGED <<db, content>>
    BY <1>7, Zenon DEF AssignOne
  <2>3. content = NoContent
    BY <2>2 DEF CorridorInv
  <2>4. IsGraph(graph') /\ graph'.hubs = graph.hubs /\ graph'.nodes = graph.nodes
    BY <2>1 DEF CorridorInv, IsGraph
  <2>5. Marked(graph')
    BY <2>2, <2>4 DEF CorridorInv, Marked
  <2>6. QED
    BY <1>2, <2>2, <2>3, <2>4, <2>5, NoEnemies DEF CorridorInv, IsGraph
<1>8. CASE SaveGraph
  <2>1. /\ UNCHANGED <<graph, content>> /\ stage = "graph" /\ stage' \in {"graph", "invalid"}
        /\ graph # db /\ (db' = db \/ db' = [graph EXCEPT !.hubs = {}])
    BY <1>8, Zenon DEF SaveGraph
  <2>2. Marked(graph)
    BY <2>1 DEF CorridorInv
  <2>3. IsGraph(db')
    BY <2>1 DEF CorridorInv, IsGraph
  <2>4. QED
    BY <2>1, <2>2, <2>3 DEF CorridorInv, IsGraph, Marked
<1>9. CASE LoadGraph
  <2>1. /\ graph' = db /\ db' = db /\ content' = NoContent
        /\ stage' = "graph" \/ stage' = "invalid"
    BY <1>9 DEF LoadGraph
  <2>2. QED
    BY <2>1, <1>2, NoEnemies DEF CorridorInv, IsGraph, Marked
<1>10. CASE SpawnEnemies
  <2>1. UNCHANGED <<graph, db>> /\ stage' = "enemies"
    BY <1>10 DEF SpawnEnemies
  <2>2. PICK S \in SUBSET SpawnRooms : \E f \in [S -> -1..Tiers] :
          content' = [content EXCEPT !.enemies = f]
    BY <1>10 DEF SpawnEnemies
  <2>3. PICK f \in [S -> -1..Tiers] : content' = [content EXCEPT !.enemies = f]
    BY <2>2
  <2>4. content'.enemies = f
        /\ content' = [enemies |-> content'.enemies, items |-> content'.items]
    BY <2>3 DEF CorridorInv
  <2>5. \A n \in DOMAIN content'.enemies : n \in graph.nodes /\ n \notin graph.hubs
    BY <2>3, <2>4 DEF SpawnRooms
  <2>6. QED
    BY <2>1, <2>4, <2>5 DEF CorridorInv, IsGraph, Marked
<1>11. CASE PlaceItems
  <2>1. UNCHANGED <<graph, db>> /\ stage' = "filled"
    BY <1>11 DEF PlaceItems
  <2>2. PICK items : content' = [content EXCEPT !.items = items]
    BY <1>11 DEF PlaceItems
  <2>3. /\ content'.enemies = content.enemies
        /\ content' = [enemies |-> content'.enemies, items |-> content'.items]
    BY <2>2 DEF CorridorInv
  <2>4. QED
    BY <2>1, <2>3 DEF CorridorInv, IsGraph, Marked
<1>12. CASE GenerateAgain
  <2>1. graph' = NoGraph /\ db' = db /\ content' = NoContent
    BY <1>12 DEF GenerateAgain
  <2>2. QED
    BY <2>1, <1>1, <1>2, NoEnemies DEF CorridorInv, IsGraph, Marked
<1>13. CASE UNCHANGED vars
  BY <1>3, <1>13 DEF vars
<1>14. QED
  BY <1>4, <1>5, <1>6, <1>7, <1>8, <1>9, <1>10, <1>11, <1>12, <1>13 DEF Next

\* No enemy waits in a corridor, but in a graph that came from the store.
THEOREM NoEnemyInCorridor == Spec => []CorridorsEmpty
<1>1. Init => CorridorInv
  BY NoEnemies DEF Init, CorridorInv, IsGraph, NoGraph, NoContent, Marked
<1>2. CorridorInv => CorridorsEmpty
  BY DEF CorridorInv, CorridorsEmpty, Marked
<1>3. QED
  BY <1>1, <1>2, CorridorStep, PTL DEF Spec

-----------------------------------------------------------------------------
(* Paths.                                                                  *)

\* A path other than the root is its parent's path and a last position.
LEMMA PathParts ==
  ASSUME NEW p \in Seq(Nat), p # <<>>
  PROVE  /\ Len(p) \in Nat \ {0} /\ Front(p) \in Seq(Nat) /\ Len(Front(p)) = Len(p) - 1
         /\ Last(p) \in Nat /\ Last(p) = p[Len(p)]
         /\ \A i \in 1..(Len(p) - 1) : Front(p)[i] = p[i]
<1>1. Len(p) \in Nat \ {0} BY EmptySeq
<1>2. \A i \in 1..Len(p) : p[i] \in Nat BY ElementOfSeq
<1>3. /\ SubSeq(p, 1, Len(p) - 1) \in Seq(Nat) /\ Len(SubSeq(p, 1, Len(p) - 1)) = Len(p) - 1
      /\ \A i \in 1..(Len(p) - 1) : SubSeq(p, 1, Len(p) - 1)[i] = p[i]
  <2> DEFINE m == Len(p) - 1
             d == SubSeq(p, 1, m)
  <2>1. m \in Nat /\ \A i \in 1..m : p[i] \in Nat BY <1>1, <1>2
  <2>2. d = [i \in 1..m |-> p[i]] BY <1>1
  <2> HIDE DEF m, d
  <2>3. d \in Seq(Nat) /\ Len(d) = m /\ \A i \in 1..m : d[i] = p[i] BY <2>1, <2>2
  <2> QED BY <2>3 DEF m, d
<1>4. Last(p) \in Nat BY <1>1, <1>2 DEF Last
<1> QED BY <1>1, <1>3, <1>4 DEF Front, Last

\* Two directories in the same directory differ in their last position.
LEMMA PathEqual ==
  ASSUME NEW p \in Seq(Nat), NEW q \in Seq(Nat), p # <<>>, q # <<>>,
         Front(p) = Front(q), Last(p) = Last(q)
  PROVE  p = q
<1>1. Len(p) = Len(q) /\ Len(p) \in Nat \ {0}
  <2>1. Len(p) \in Nat \ {0} /\ Len(Front(p)) = Len(p) - 1 BY PathParts
  <2>2. Len(q) \in Nat \ {0} /\ Len(Front(q)) = Len(q) - 1 BY PathParts
  <2> QED BY <2>1, <2>2
<1>2. \A i \in 1..(Len(p) - 1) : p[i] = q[i]
  <2>1. \A i \in 1..(Len(p) - 1) : Front(p)[i] = p[i] BY PathParts
  <2>2. \A i \in 1..(Len(q) - 1) : Front(q)[i] = q[i] BY PathParts
  <2> QED BY <1>1, <2>1, <2>2
<1>3. p[Len(p)] = q[Len(p)] BY <1>1, PathParts
<1>4. \A i \in 1..Len(p) : p[i] = q[i]
  <2> TAKE i \in 1..Len(p)
  <2>1. i \in 1..(Len(p) - 1) \/ i = Len(p) BY <1>1
  <2> QED BY <1>2, <1>3, <2>1
<1> QED BY <1>1, <1>4, SeqEqual

-----------------------------------------------------------------------------
(* Counting.                                                               *)

\* There are n numbers from 1 to n.
LEMMA UpTo == ASSUME NEW n \in Nat PROVE IsFiniteSet(1..n) /\ Cardinality(1..n) = n
BY FS_Interval

\* A set with an element less is smaller.
LEMMA FewerElements ==
  ASSUME NEW S, IsFiniteSet(S), NEW T, T \subseteq S, NEW x \in S, x \notin T
  PROVE  /\ IsFiniteSet(T) /\ Cardinality(T) \in Nat /\ Cardinality(S) \in Nat
         /\ Cardinality(T) < Cardinality(S)
<1>1. T \in SUBSET S OBVIOUS
<1>2. IsFiniteSet(T) /\ Cardinality(T) <= Cardinality(S) /\ Cardinality(T) # Cardinality(S)
  BY <1>1, FS_Subset
<1>3. Cardinality(T) \in Nat /\ Cardinality(S) \in Nat BY <1>2, FS_CardinalityType
<1> QED BY <1>2, <1>3

\* A set that is mapped one to one into another is not larger; if it is as
\* large, nothing of the other is left out.
LEMMA OneToOne ==
  ASSUME NEW S, NEW T, IsFiniteSet(T), NEW f \in [S -> T],
         \A x, y \in S : f[x] = f[y] => x = y
  PROVE  /\ IsFiniteSet(S) /\ Cardinality(S) \in Nat /\ Cardinality(T) \in Nat
         /\ Cardinality(S) <= Cardinality(T)
         /\ Cardinality(S) = Cardinality(T) => \A y \in T : \E x \in S : f[x] = y
<1>1. f \in Injection(S, T) BY DEF Injection, IsInjective
<1>2. /\ IsFiniteSet(S) /\ Cardinality(S) <= Cardinality(T)
      /\ Cardinality(S) = Cardinality(T) <=> f \in Surjection(S, T)
  BY <1>1, FS_Injection
<1>3. f \in Surjection(S, T) => \A y \in T : \E x \in S : f[x] = y BY DEF Surjection
<1> QED BY <1>2, <1>3, FS_CardinalityType

\* Sets with a one-to-one correspondence have the same size.
LEMMA SameSize ==
  ASSUME NEW S, NEW T, IsFiniteSet(S), NEW f \in [S -> T],
         \A x, y \in S : f[x] = f[y] => x = y, \A y \in T : \E x \in S : f[x] = y
  PROVE  IsFiniteSet(T) /\ Cardinality(T) = Cardinality(S) /\ Cardinality(S) \in Nat
<1>1. f \in Bijection(S, T) BY DEF Bijection, Injection, Surjection, IsInjective
<1>2. ExistsBijection(S, T) BY <1>1 DEF ExistsBijection
<1> QED BY <1>2, FS_Bijection, FS_CardinalityType

\* What a function makes of a finite set is finite.
LEMMA ImageFinite ==
  ASSUME NEW S, IsFiniteSet(S), NEW f, DOMAIN f = S, f = [x \in S |-> f[x]]
  PROVE  IsFiniteSet({f[x] : x \in S})
<1> DEFINE T == {f[x] : x \in S}
<1>1. f \in Surjection(S, T) BY DEF Surjection
<1> QED BY <1>1, FS_Surjection

\* The elements of a finite set in the order of a value that tells them
\* apart: the number of elements before one grows with it and takes every
\* value below the size of the set.
Rank(S, v, x) == Cardinality({y \in S : v[y] < v[x]})
LEMMA Ranks ==
  ASSUME NEW S, IsFiniteSet(S), NEW v \in [S -> Int], \A x, y \in S : v[x] = v[y] => x = y
  PROVE  /\ Cardinality(S) \in Nat
         /\ \A x \in S : Rank(S, v, x) \in 0..(Cardinality(S) - 1)
         /\ \A x, y \in S : v[x] < v[y] => Rank(S, v, x) < Rank(S, v, y)
         /\ \A i \in 0..(Cardinality(S) - 1) : \E x \in S : Rank(S, v, x) = i
<1> DEFINE B(x) == {y \in S : v[y] < v[x]}
           n == Cardinality(S)
           r == [x \in S |-> Rank(S, v, x)]
<1>1. n \in Nat BY FS_CardinalityType
<1>2. \A x \in S : IsFiniteSet(B(x)) /\ Rank(S, v, x) \in 0..(n - 1)
  <2> TAKE x \in S
  <2>1. B(x) \subseteq S /\ x \notin B(x) OBVIOUS
  <2>2. /\ IsFiniteSet(B(x)) /\ Cardinality(B(x)) \in Nat /\ Cardinality(S) \in Nat
        /\ Cardinality(B(x)) < Cardinality(S)
    BY <2>1, FewerElements
  <2> QED BY <2>2 DEF Rank
<1>3. ASSUME NEW x \in S, NEW y \in S, v[x] < v[y] PROVE Rank(S, v, x) < Rank(S, v, y)
  <2>1. B(x) \subseteq B(y) /\ x \in B(y) /\ x \notin B(x) BY <1>3
  <2>2. IsFiniteSet(B(y)) BY <1>2
  <2>3. Cardinality(B(x)) < Cardinality(B(y)) BY <2>1, <2>2, FewerElements
  <2> QED BY <2>3 DEF Rank
<1>4. r \in [S -> 0..(n - 1)] BY <1>2
<1>5. ASSUME NEW x \in S, NEW y \in S, r[x] = r[y] PROVE x = y
  <2>1. /\ Rank(S, v, x) = Rank(S, v, y)
        /\ Rank(S, v, x) \in 0..(n - 1) /\ Rank(S, v, y) \in 0..(n - 1)
    BY <1>2, <1>5
  <2>2. ~(v[x] < v[y]) /\ ~(v[y] < v[x]) BY <1>1, <1>3, <2>1
  <2>3. v[x] \in Int /\ v[y] \in Int OBVIOUS
  <2>4. v[x] = v[y] BY <2>2, <2>3
  <2> QED BY <2>4
<1>6. IsFiniteSet(0..(n - 1)) /\ Cardinality(0..(n - 1)) = n BY <1>1, FS_Interval
<1> HIDE DEF r, n, B
<1>7. \A i \in 0..(n - 1) : \E x \in S : r[x] = i
  <2> DEFINE T == 0..(n - 1)
  <2>1. r \in [S -> T] /\ IsFiniteSet(T) /\ Cardinality(T) = Cardinality(S) BY <1>4, <1>6 DEF n
  <2>2. \A x, y \in S : r[x] = r[y] => x = y BY <1>5
  <2> HIDE DEF T
  <2>3. \A i \in T : \E x \in S : r[x] = i BY <2>1, <2>2, OneToOne
  <2> QED BY <2>3 DEF T
<1> QED BY <1>1, <1>2, <1>3, <1>7 DEF n, r

-----------------------------------------------------------------------------
(* The rooms of a tree and where they hang.                                *)

\* The directories in a directory are finitely many and have their order.
LEMMA SubdirFacts ==
  ASSUME NEW t, IsTree(t), NEW p
  PROVE  /\ IsFiniteSet(Subdirs(t, p)) /\ Cardinality(Subdirs(t, p)) \in Nat
         /\ \A q \in Subdirs(t, p) :
              q \in t /\ q \in Seq(Nat) /\ q # <<>> /\ Front(q) = p /\ Last(q) \in Nat
         /\ \A q, s \in Subdirs(t, p) : Last(q) = Last(s) => q = s
<1>1. Subdirs(t, p) \in SUBSET t BY DEF Subdirs
<1>2. IsFiniteSet(Subdirs(t, p)) BY <1>1, FS_Subset DEF IsTree
<1>3. \A q \in Subdirs(t, p) : q \in t /\ q \in Seq(Nat) /\ q # <<>> /\ Front(q) = p
  BY DEF Subdirs, IsTree
<1>4. \A q \in Subdirs(t, p) : Last(q) \in Nat BY <1>3, PathParts
<1>5. \A q, s \in Subdirs(t, p) : Last(q) = Last(s) => q = s BY <1>3, PathEqual
<1> QED BY <1>2, <1>3, <1>4, <1>5, FS_CardinalityType

\* A directory's position in its parent, as insertHubs counts it.
Pos(t, q) == Cardinality(Earlier(t, q))
LEMMA Positions ==
  ASSUME NEW t, IsTree(t), NEW p
  PROVE  /\ \A q \in Subdirs(t, p) : Pos(t, q) \in 0..(Cardinality(Subdirs(t, p)) - 1)
         /\ \A q, s \in Subdirs(t, p) : Last(q) < Last(s) => Pos(t, q) < Pos(t, s)
         /\ \A q, s \in Subdirs(t, p) : Pos(t, q) = Pos(t, s) => q = s
         /\ \A i \in 0..(Cardinality(Subdirs(t, p)) - 1) :
              \E q \in Subdirs(t, p) : Pos(t, q) = i
<1> DEFINE S == Subdirs(t, p)
           n == Cardinality(S)
           v == [q \in S |-> Last(q)]
<1>1. /\ IsFiniteSet(S) /\ n \in Nat
      /\ \A q \in S : Front(q) = p /\ Last(q) \in Nat
      /\ \A q, s \in S : Last(q) = Last(s) => q = s
  BY SubdirFacts
<1>2. v \in [S -> Int] /\ \A q \in S : v[q] = Last(q) BY <1>1
<1>3. \A q \in S : Rank(S, v, q) = Pos(t, q)
  <2> TAKE q \in S
  <2>1. {s \in S : v[s] < v[q]} = Earlier(t, q) BY <1>1, <1>2 DEF Earlier
  <2> QED BY <2>1 DEF Rank, Pos
<1> HIDE DEF v, n, S
<1>4. /\ \A q \in S : Rank(S, v, q) \in 0..(n - 1)
      /\ \A q, s \in S : v[q] < v[s] => Rank(S, v, q) < Rank(S, v, s)
      /\ \A i \in 0..(n - 1) : \E q \in S : Rank(S, v, q) = i
  BY <1>1, <1>2, Ranks DEF n
<1>5. /\ \A q \in S : Pos(t, q) \in 0..(n - 1)
      /\ \A i \in 0..(n - 1) : \E q \in S : Pos(t, q) = i
  BY <1>3, <1>4
<1>6. \A q, s \in S : Last(q) < Last(s) => Pos(t, q) < Pos(t, s) BY <1>2, <1>3, <1>4
<1>7. ASSUME NEW q \in S, NEW s \in S, Pos(t, q) = Pos(t, s) PROVE q = s
  <2>1. Pos(t, q) \in Int /\ Last(q) \in Int /\ Last(s) \in Int BY <1>1, <1>5
  <2>2. ~(Last(q) < Last(s)) /\ ~(Last(s) < Last(q)) BY <1>6, <1>7, <2>1
  <2>3. Last(q) = Last(s) BY <2>1, <2>2
  <2> QED BY <1>1, <2>3
<1> QED BY <1>5, <1>6, <1>7 DEF n, S

\* Batches in numbers.
LEMMA Batches ==
  /\ \A i \in Nat : Batch(i) \in Nat /\ (Batch(i) = 0 <=> i <= 3) /\ (Batch(i) = 1 <=> i \in 4..8)
  /\ \A i, j \in Nat : i <= j => Batch(i) <= Batch(j)
BY DEF Batch, maxChildrenPerNode

\* The corridors of a directory are numbered from 1.
LEMMA CorridorCount ==
  ASSUME NEW t, IsTree(t), NEW p
  PROVE  /\ Corridors(t, p) \in Nat /\ (Corridors(t, p) # 0 => IsWide(t, p))
         /\ IsWide(t, p) => /\ Cardinality(Subdirs(t, p)) \in Nat
                            /\ Cardinality(Subdirs(t, p)) > 5
                            /\ Corridors(t, p) = Batch(Cardinality(Subdirs(t, p)) - 1)
<1>1. Cardinality(Subdirs(t, p)) \in Nat BY SubdirFacts
<1>2. IsWide(t, p) => Cardinality(Subdirs(t, p)) > 5 BY DEF IsWide, maxChildrenPerNode
<1>3. IsWide(t, p) => Cardinality(Subdirs(t, p)) - 1 \in Nat BY <1>1, <1>2
<1>4. Corridors(t, p) \in Nat BY <1>3, Batches DEF Corridors
<1> QED BY <1>1, <1>2, <1>4 DEF Corridors

\* The rooms while the directories in left have not been split, and where
\* they hang then.
Rooms(t, left) ==
  UNION {{Hub(p, k) : k \in 0..(IF Room(p) \in left THEN 0 ELSE Corridors(t, p))} : p \in t}
HostNow(t, left, n) ==
  IF ~IsHub(n) /\ Room(Front(n.path)) \in left THEN Room(Front(n.path)) ELSE Host(t, n)

\* In the end they are those of the reference definition.
LEMMA NothingLeft == \A t, n : Rooms(t, {}) = Dungeon(t) /\ HostNow(t, {}, n) = Host(t, n)
BY DEF Rooms, Dungeon, HostNow

\* A room is known by its path and number.
LEMMA RoomForm ==
  ASSUME NEW t, IsTree(t), NEW left, NEW n
  PROVE  n \in Rooms(t, left) <=>
           /\ n = Hub(n.path, n.hub) /\ n.path \in t
           /\ n.hub \in Nat /\ n.hub <= Corridors(t, n.path)
           /\ Room(n.path) \in left => n.hub = 0
<1>1. \A p : Corridors(t, p) \in Nat BY CorridorCount
<1>2. n \in Rooms(t, left) <=>
        \E p \in t : \E k \in 0..(IF Room(p) \in left THEN 0 ELSE Corridors(t, p)) : n = Hub(p, k)
  BY DEF Rooms
<1>3. \A p, k : Hub(p, k).path = p /\ Hub(p, k).hub = k BY DEF Hub
<1>4. ASSUME n \in Rooms(t, left)
      PROVE  /\ n = Hub(n.path, n.hub) /\ n.path \in t
             /\ n.hub \in Nat /\ n.hub <= Corridors(t, n.path)
             /\ Room(n.path) \in left => n.hub = 0
  <2>1. PICK p \in t : \E k \in 0..(IF Room(p) \in left THEN 0 ELSE Corridors(t, p)) : n = Hub(p, k)
    BY <1>2, <1>4
  <2>2. PICK k \in 0..(IF Room(p) \in left THEN 0 ELSE Corridors(t, p)) : n = Hub(p, k)
    BY <2>1
  <2>3. n.path = p /\ n.hub = k BY <1>3, <2>2
  <2>4. k \in Nat /\ k <= Corridors(t, p) /\ (Room(p) \in left => k = 0) BY <1>1, <2>2
  <2> QED BY <2>2, <2>3, <2>4
<1>5. ASSUME n = Hub(n.path, n.hub), n.path \in t, n.hub \in Nat, n.hub <= Corridors(t, n.path),
             Room(n.path) \in left => n.hub = 0
      PROVE  n \in Rooms(t, left)
  <2>1. n.hub \in 0..(IF Room(n.path) \in left THEN 0 ELSE Corridors(t, n.path)) BY <1>1, <1>5
  <2> QED BY <1>2, <1>5, <2>1
<1> QED BY <1>4, <1>5

\* The start is a room, and every other room hangs on a room: a corridor on
\* the one before it, a directory on its parent or one of its corridors.
LEMMA HostForm ==
  ASSUME NEW t, IsTree(t), NEW n \in Dungeon(t) \ {Start}
  PROVE  /\ Host(t, n) \in Dungeon(t)
         /\ \/ /\ IsHub(n) /\ n.hub \in Nat \ {0} /\ n = Hub(n.path, n.hub)
               /\ Host(t, n) = Hub(n.path, n.hub - 1)
            \/ /\ ~IsHub(n) /\ n = Room(n.path) /\ n.path \in t /\ n.path # <<>>
               /\ n.path \in Subdirs(t, Front(n.path)) /\ Front(n.path) \in t
               /\ Host(t, n).path = Front(n.path)
               /\ Host(t, n) = IF IsWide(t, Front(n.path))
                               THEN Hub(Front(n.path), Batch(Pos(t, n.path)))
                               ELSE Room(Front(n.path))
<1>1. /\ n = Hub(n.path, n.hub) /\ n.path \in t
      /\ n.hub \in Nat /\ n.hub <= Corridors(t, n.path)
  BY NothingLeft, RoomForm
<1>2. ASSUME NEW p \in t, NEW k \in Nat, k <= Corridors(t, p) PROVE Hub(p, k) \in Dungeon(t)
  <2>1. Hub(p, k).path = p /\ Hub(p, k).hub = k BY DEF Hub
  <2>2. Hub(p, k) \in Rooms(t, {}) BY <1>2, <2>1, RoomForm
  <2> QED BY <2>2, NothingLeft
<1>3. Corridors(t, n.path) \in Nat BY CorridorCount
<1>4. CASE IsHub(n)
  <2>1. n.hub \in Nat \ {0} /\ Host(t, n) = Hub(n.path, n.hub - 1) BY <1>1, <1>4 DEF IsHub, Host
  <2>2. n.hub - 1 \in Nat /\ n.hub - 1 <= Corridors(t, n.path) BY <1>1, <1>3, <2>1
  <2>3. Host(t, n) \in Dungeon(t) BY <1>1, <1>2, <2>1, <2>2
  <2> QED BY <1>1, <1>4, <2>1, <2>3
<1>5. CASE ~IsHub(n)
  <2> DEFINE p == Front(n.path)
  <2>1. n = Room(n.path) /\ n.path # <<>> BY <1>1, <1>5 DEF IsHub, Hub, Room, Start
  <2>2. p \in t /\ n.path \in Subdirs(t, p) BY <1>1, <2>1 DEF IsTree, Subdirs
  <2>3. Host(t, n) = IF IsWide(t, p) THEN Hub(p, Batch(Pos(t, n.path))) ELSE Room(p)
    BY <1>5 DEF Host, Pos
  <2>4. CASE IsWide(t, p)
    <3>1. Pos(t, n.path) \in 0..(Cardinality(Subdirs(t, p)) - 1) BY <2>2, Positions
    <3>2. /\ Cardinality(Subdirs(t, p)) \in Nat /\ Cardinality(Subdirs(t, p)) > 5
          /\ Corridors(t, p) = Batch(Cardinality(Subdirs(t, p)) - 1)
      BY <2>4, CorridorCount
    <3>3. /\ Pos(t, n.path) \in Nat /\ Cardinality(Subdirs(t, p)) - 1 \in Nat
          /\ Pos(t, n.path) <= Cardinality(Subdirs(t, p)) - 1
      BY <3>1, <3>2
    <3>4. Batch(Pos(t, n.path)) \in Nat /\ Batch(Pos(t, n.path)) <= Corridors(t, p)
      BY <3>2, <3>3, Batches
    <3>5. Host(t, n) \in Dungeon(t) /\ Host(t, n).path = p
      BY <1>2, <2>2, <2>3, <2>4, <3>4 DEF Hub
    <3> QED BY <1>1, <1>5, <2>1, <2>2, <2>3, <3>5
  <2>5. CASE ~IsWide(t, p)
    <3>1. Host(t, n) = Hub(p, 0) /\ Room(p) = Hub(p, 0) BY <2>3, <2>5 DEF Room, Hub
    <3>2. Corridors(t, p) \in Nat /\ 0 <= Corridors(t, p) BY CorridorCount
    <3>3. Host(t, n) \in Dungeon(t) /\ Host(t, n).path = p
      BY <1>2, <2>2, <3>1, <3>2 DEF Hub
    <3> QED BY <1>1, <1>5, <2>1, <2>2, <2>3, <3>3
  <2> QED BY <2>4, <2>5
<1> QED BY <1>4, <1>5

\* The children of a room have a strict total order.
LEMMA AheadOrders ==
  ASSUME NEW t, IsTree(t), NEW m \in Dungeon(t) \ {Start}, NEW n \in Dungeon(t) \ {Start},
         Host(t, m) = Host(t, n)
  PROVE  /\ m # n => Ahead(m, n) \/ Ahead(n, m)
         /\ ~(Ahead(m, n) /\ Ahead(n, m))
<1>1. CASE IsHub(m) /\ IsHub(n)
  <2>1. /\ m = Hub(m.path, m.hub) /\ n = Hub(n.path, n.hub)
        /\ Hub(m.path, m.hub - 1) = Hub(n.path, n.hub - 1) /\ m.hub \in Nat /\ n.hub \in Nat
    BY <1>1, HostForm
  <2>2. m.path = n.path /\ m.hub - 1 = n.hub - 1 BY <2>1 DEF Hub
  <2>3. m.hub = n.hub BY <2>1, <2>2
  <2>4. m = n BY <2>1, <2>2, <2>3
  <2> QED BY <1>1, <2>4 DEF Ahead
<1>2. CASE (IsHub(m) /\ ~IsHub(n)) \/ (~IsHub(m) /\ IsHub(n))
  <2>1. m # n BY <1>2
  <2> QED BY <1>2, <2>1 DEF Ahead
<1>3. CASE ~IsHub(m) /\ ~IsHub(n)
  <2>1. /\ m = Room(m.path) /\ Host(t, m).path = Front(m.path)
        /\ m.path \in Subdirs(t, Front(m.path))
    BY <1>3, HostForm
  <2>2. /\ n = Room(n.path) /\ Host(t, n).path = Front(n.path)
        /\ n.path \in Subdirs(t, Front(n.path))
    BY <1>3, HostForm
  <2> DEFINE S == Subdirs(t, Front(m.path))
  <2>3. m.path \in S /\ n.path \in S BY <2>1, <2>2
  <2>4. Last(m.path) \in Nat /\ Last(n.path) \in Nat /\ (Last(m.path) = Last(n.path) => m.path = n.path)
    BY <2>3, SubdirFacts
  <2> QED BY <1>3, <2>1, <2>2, <2>4 DEF Ahead
<1> QED BY <1>1, <1>2, <1>3

-----------------------------------------------------------------------------
(* How many children a room may have.                                      *)

Kids(t, r) == {n \in Dungeon(t) \ {Start} : Host(t, n) = r}

\* The children of a room: the next corridor, and directories of its batch.
LEMMA KidForm ==
  ASSUME NEW t, IsTree(t), NEW r, NEW n \in Kids(t, r)
  PROVE  \/ IsHub(n) /\ n = Hub(r.path, r.hub + 1) /\ r.hub + 1 <= Corridors(t, r.path) /\ r.hub \in Nat
         \/ /\ ~IsHub(n) /\ n = Room(n.path) /\ n.path \in Subdirs(t, r.path)
            /\ IF IsWide(t, r.path) THEN Batch(Pos(t, n.path)) = r.hub ELSE r.hub = 0
<1>1. n \in Dungeon(t) \ {Start} /\ Host(t, n) = r BY DEF Kids
<1>2. CASE IsHub(n)
  <2>1. n.hub \in Nat \ {0} /\ n = Hub(n.path, n.hub) /\ r = Hub(n.path, n.hub - 1)
    BY <1>1, <1>2, HostForm
  <2>2. n.hub <= Corridors(t, n.path) BY <1>1, NothingLeft, RoomForm
  <2>3. r.path = n.path /\ r.hub = n.hub - 1 BY <2>1 DEF Hub
  <2>4. r.hub + 1 = n.hub /\ r.hub \in Nat BY <2>1, <2>3
  <2> QED BY <1>2, <2>1, <2>2, <2>3, <2>4
<1>3. CASE ~IsHub(n)
  <2>1. /\ n = Room(n.path) /\ r.path = Front(n.path) /\ n.path \in Subdirs(t, Front(n.path))
        /\ r = IF IsWide(t, Front(n.path)) THEN Hub(Front(n.path), Batch(Pos(t, n.path)))
               ELSE Room(Front(n.path))
    BY <1>1, <1>3, HostForm
  <2> QED BY <1>3, <2>1 DEF Hub, Room
<1> QED BY <1>2, <1>3

\* In a tree whose directories hold nine others at most, a room has at most
\* five children.
LEMMA FewKids ==
  ASSUME NEW t, IsTree(t), ~TooWide(t), NEW r \in Dungeon(t)
  PROVE  IsFiniteSet(Kids(t, r)) /\ Cardinality(Kids(t, r)) \in Nat /\ Cardinality(Kids(t, r)) <= 5
<1> DEFINE p == r.path
           S == Subdirs(t, p)
           c == Cardinality(S)
           K == Kids(t, r)
           f == [n \in K |-> IF IsHub(n) THEN 5 ELSE Pos(t, n.path) + 1 - 4 * r.hub]
<1>1. p \in t /\ r.hub \in Nat /\ r.hub <= Corridors(t, p) BY NothingLeft, RoomForm
<1>2. c \in Nat /\ c <= 9 BY <1>1, SubdirFacts DEF TooWide
<1>3. \A q \in S : Pos(t, q) \in 0..(c - 1) BY Positions
<1>4. \A q, s \in S : Pos(t, q) = Pos(t, s) => q = s BY Positions
<1>5. IF IsWide(t, p) THEN c >= 6 /\ Corridors(t, p) = 1 ELSE c <= 5 /\ Corridors(t, p) = 0
  <2>1. CASE IsWide(t, p)
    <3>1. c > 5 /\ Corridors(t, p) = Batch(c - 1) BY <2>1, CorridorCount
    <3>2. c - 1 \in Nat /\ c - 1 \in 4..8 /\ c >= 6 BY <1>2, <3>1
    <3>3. Batch(c - 1) = 1 BY <3>2, Batches
    <3> QED BY <2>1, <3>1, <3>2, <3>3
  <2>2. CASE ~IsWide(t, p)
    <3>1. c <= 5 BY <1>2, <2>2 DEF IsWide, maxChildrenPerNode
    <3> QED BY <2>2, <3>1 DEF Corridors
  <2> QED BY <2>1, <2>2
<1> HIDE DEF c
<1>6. ASSUME NEW n \in K
      PROVE  \/ IsHub(n) /\ n = Hub(p, 1) /\ r.hub = 0 /\ f[n] = 5 /\ IsWide(t, p)
             \/ /\ ~IsHub(n) /\ n = Room(n.path) /\ n.path \in S
                /\ f[n] = Pos(t, n.path) + 1 - 4 * r.hub /\ f[n] \in 1..5
                /\ IsWide(t, p) /\ r.hub = 0 => f[n] # 5
  <2>1. \/ IsHub(n) /\ n = Hub(p, r.hub + 1) /\ r.hub + 1 <= Corridors(t, p) /\ r.hub \in Nat
        \/ /\ ~IsHub(n) /\ n = Room(n.path) /\ n.path \in S
           /\ IF IsWide(t, p) THEN Batch(Pos(t, n.path)) = r.hub ELSE r.hub = 0
    BY KidForm
  <2>2. CASE IsHub(n)
    <3>1. n = Hub(p, r.hub + 1) /\ r.hub + 1 <= Corridors(t, p) BY <2>1, <2>2
    <3>2. r.hub = 0 /\ IsWide(t, p) BY <1>1, <1>5, <3>1
    <3> QED BY <2>2, <3>1, <3>2
  <2>3. CASE ~IsHub(n)
    <3> DEFINE i == Pos(t, n.path)
    <3>1. /\ n = Room(n.path) /\ n.path \in S
          /\ IF IsWide(t, p) THEN Batch(i) = r.hub ELSE r.hub = 0
      BY <2>1, <2>3
    <3>2. i \in 0..(c - 1) /\ i \in Nat BY <1>2, <1>3, <3>1
    <3>3. f[n] = i + 1 - 4 * r.hub BY <2>3
    <3>4. CASE IsWide(t, p)
      <4>1. r.hub = 0 \/ r.hub = 1 BY <1>1, <1>5, <3>4
      <4>2. r.hub = 0 => i <= 3 BY <3>1, <3>2, <3>4, Batches
      <4>3. r.hub = 1 => i \in 4..8 BY <3>1, <3>2, <3>4, Batches
      <4>4. i + 1 - 4 * r.hub \in 1..5 /\ (r.hub = 0 => i + 1 - 4 * r.hub # 5) BY <3>2, <4>1, <4>2, <4>3
      <4> QED BY <2>3, <3>1, <3>3, <4>4
    <3>5. CASE ~IsWide(t, p)
      <4>1. r.hub = 0 /\ c <= 5 BY <1>5, <3>1, <3>5
      <4>2. i + 1 - 4 * r.hub \in 1..5 BY <1>2, <3>2, <4>1
      <4> QED BY <2>3, <3>1, <3>3, <3>5, <4>2
    <3> QED BY <3>4, <3>5
  <2> QED BY <2>2, <2>3
<1> DEFINE T == 1..5
<1>7. f \in [K -> T]
  <2>1. \A n \in K : f[n] \in T BY <1>6
  <2> QED BY <2>1
<1>8. ASSUME NEW m \in K, NEW n \in K, f[m] = f[n] PROVE m = n
  <2> HIDE DEF f
  <2>1. CASE IsHub(m) /\ IsHub(n) BY <1>6, <2>1
  <2>2. CASE ~IsHub(m) /\ ~IsHub(n)
    <3>1. m.path \in S /\ n.path \in S /\ m = Room(m.path) /\ n = Room(n.path) BY <1>6, <2>2
    <3>2. /\ Pos(t, m.path) + 1 - 4 * r.hub = Pos(t, n.path) + 1 - 4 * r.hub
          /\ Pos(t, m.path) \in Int /\ Pos(t, n.path) \in Int
      BY <1>2, <1>3, <1>6, <1>8, <2>2, <3>1
    <3>3. Pos(t, m.path) = Pos(t, n.path) BY <1>1, <3>2
    <3>4. m.path = n.path BY <1>4, <3>1, <3>3
    <3> QED BY <3>1, <3>4
  <2>3. CASE (IsHub(m) /\ ~IsHub(n)) \/ (~IsHub(m) /\ IsHub(n)) BY <1>6, <1>8, <2>3
  <2> QED BY <2>1, <2>2, <2>3
<1>9. IsFiniteSet(T) /\ Cardinality(T) = 5
  <2>1. 5 \in Nat OBVIOUS
  <2> QED BY <2>1, UpTo
<1> HIDE DEF f, T, K
<1>10. IsFiniteSet(K) /\ Cardinality(K) \in Nat /\ Cardinality(K) <= Cardinality(T)
  BY <1>7, <1>8, <1>9, OneToOne
<1> QED BY <1>9, <1>10 DEF K

\* When a directory holds more than nine others, its first corridor has six
\* children.
LEMMA ManyKids ==
  ASSUME NEW t, IsTree(t), TooWide(t)
  PROVE  \E r \in Dungeon(t) \ {Start} : \E f \in [1..6 -> Kids(t, r)] :
           \A i, j \in 1..6 : f[i] = f[j] => i = j
<1>1. PICK p \in t : Cardinality(Subdirs(t, p)) > 9 BY DEF TooWide
<1> DEFINE S == Subdirs(t, p)
           c == Cardinality(S)
           r == Hub(p, 1)
           q(i) == CHOOSE s \in S : Pos(t, s) = i + 3
           f == [i \in 1..6 |-> IF i = 6 THEN Hub(p, 2) ELSE Room(q(i))]
<1>2. c \in Nat /\ c > 9 /\ IsWide(t, p)
  BY <1>1, SubdirFacts DEF IsWide, maxChildrenPerNode
<1>3. Corridors(t, p) \in Nat /\ Corridors(t, p) >= 2
  <2>1. Corridors(t, p) = Batch(c - 1) BY <1>2, CorridorCount
  <2>2. c - 1 \in Nat /\ 9 <= c - 1 BY <1>2
  <2>3. Batch(9) <= Batch(c - 1) /\ Batch(c - 1) \in Nat BY <2>2, Batches
  <2>4. Batch(9) = 2 BY DEF Batch, maxChildrenPerNode
  <2> QED BY <2>1, <2>3, <2>4
<1>4. ASSUME NEW s \in t, NEW k \in 0..2, k = 0 \/ s = p PROVE Hub(s, k) \in Dungeon(t)
  <2>1. Hub(s, k).path = s /\ Hub(s, k).hub = k BY DEF Hub
  <2>2. Corridors(t, s) \in Nat BY CorridorCount
  <2>3. k <= Corridors(t, s) BY <1>3, <1>4, <2>2
  <2>4. Hub(s, k) \in Rooms(t, {}) BY <2>1, <2>3, RoomForm
  <2> QED BY <2>4, NothingLeft
<1>5. r \in Dungeon(t) \ {Start} /\ Hub(p, 2) \in Dungeon(t) \ {Start}
  <2>1. 1 \in 0..2 /\ 2 \in 0..2 OBVIOUS
  <2>2. Hub(p, 1) \in Dungeon(t) /\ Hub(p, 2) \in Dungeon(t) BY <1>4, <2>1
  <2>3. Hub(p, 1).hub = 1 /\ Hub(p, 2).hub = 2 /\ Start.hub = 0 BY DEF Hub, Start, Room
  <2>4. Hub(p, 1) # Start /\ Hub(p, 2) # Start BY <2>3
  <2> QED BY <2>2, <2>4
<1>6. Hub(p, 2) \in Kids(t, r)
  <2>1. Host(t, Hub(p, 2)) = Hub(p, 1) BY DEF Host, IsHub, Hub
  <2> QED BY <1>5, <2>1 DEF Kids
<1>7. ASSUME NEW i \in 1..5 PROVE q(i) \in S /\ Pos(t, q(i)) = i + 3 /\ Room(q(i)) \in Kids(t, r)
  <2>1. i + 3 \in 0..(c - 1) BY <1>2
  <2>2. \E s \in S : Pos(t, s) = i + 3 BY <2>1, Positions
  <2>3. q(i) \in S /\ Pos(t, q(i)) = i + 3 BY <2>2
  <2>4. q(i) \in t /\ q(i) # <<>> /\ Front(q(i)) = p BY <2>3, SubdirFacts
  <2> DEFINE s == q(i)
             n == Room(s)
  <2> HIDE DEF s
  <2>5. n = Hub(s, 0) /\ n.path = s /\ n.hub = 0 /\ ~IsHub(n) BY DEF Room, Hub, IsHub
  <2>6. n \in Dungeon(t) BY <1>4, <2>4, <2>5 DEF s
  <2>7. n # Start BY <2>4 DEF Start, Room, s
  <2>8. Host(t, n) = Hub(p, Batch(i + 3)) BY <1>2, <2>3, <2>4, <2>5 DEF Host, Pos, s
  <2>9. Batch(i + 3) = 1 BY Batches
  <2> HIDE DEF n
  <2>10. n \in Kids(t, r) BY <2>6, <2>7, <2>8, <2>9 DEF Kids
  <2> QED BY <2>3, <2>10 DEF s, n
<1> HIDE DEF q, S, c
<1>8. f \in [1..6 -> Kids(t, r)]
  <2>1. \A i \in 1..6 : i = 6 \/ i \in 1..5 OBVIOUS
  <2> QED BY <1>6, <1>7, <2>1
<1>9. ASSUME NEW i \in 1..6, NEW j \in 1..6, f[i] = f[j] PROVE i = j
  <2>1. \A k \in 1..6 : k = 6 \/ k \in 1..5 OBVIOUS
  <2>2. \A s : Room(s).hub = 0 /\ Room(s).path = s BY DEF Room
  <2>3. Hub(p, 2).hub = 2 BY DEF Hub
  <2>4. CASE i = 6 \/ j = 6 BY <1>9, <2>1, <2>2, <2>3, <2>4
  <2>5. CASE i # 6 /\ j # 6
    <3>1. i \in 1..5 /\ j \in 1..5 /\ Room(q(i)) = Room(q(j)) BY <1>9, <2>1, <2>5
    <3>2. q(i) = q(j) BY <2>2, <3>1
    <3>3. i + 3 = j + 3 BY <1>7, <3>1, <3>2
    <3> QED BY <3>3
  <2> QED BY <2>4, <2>5
<1> QED BY <1>5, <1>8, <1>9

-----------------------------------------------------------------------------
(* The walk.                                                               *)

\* A prefix is a shorter path with the same positions.
LEMMA PrefixForm ==
  ASSUME NEW p \in Seq(Nat), NEW q \in Seq(Nat)
  PROVE  IsPrefix(p, q) <=> Len(p) <= Len(q) /\ \A i \in 1..Len(p) : p[i] = q[i]
<1> DEFINE n == Len(p)
           d == SubSeq(q, 1, n)
<1>1. n \in Nat /\ Len(q) \in Nat BY LenProperties
<1>2. SubSeq(p, 1, n) = p BY SubSeqFull
<1>3. IsPrefix(p, q) <=> n <= Len(q) /\ p = d BY <1>2 DEF IsPrefix
<1>4. ASSUME n <= Len(q) PROVE p = d <=> \A i \in 1..n : p[i] = q[i]
  <2>1. \A i \in 1..n : q[i] \in Nat BY <1>1, <1>4, ElementOfSeq
  <2>2. d = [i \in 1..n |-> q[i]] BY <1>1
  <2> HIDE DEF d
  <2>3. d \in Seq(Nat) /\ Len(d) = n /\ \A i \in 1..n : d[i] = q[i] BY <1>1, <2>1, <2>2
  <2>4. (\A i \in 1..n : p[i] = q[i]) => p = d BY <2>3, SeqEqual
  <2> QED BY <2>3, <2>4
<1> QED BY <1>3, <1>4

\* Of two directories in the same directory, WalkDir visits the one with the
\* smaller name, and whatever comes before it, first.
LEMMA SiblingsInOrder ==
  ASSUME NEW p \in Seq(Nat), NEW q \in Seq(Nat), p # <<>>, q # <<>>,
         Front(p) = Front(q), Last(p) < Last(q), NEW r \in Seq(Nat)
  PROVE  (Before(r, p) => Before(r, q)) /\ Before(p, q) /\ ~Before(p, p)
<1> DEFINE n == Len(p)
<1>1. /\ n \in Nat \ {0} /\ Len(q) = n /\ p[n] \in Nat /\ q[n] \in Nat /\ p[n] < q[n]
      /\ \A i \in 1..(n - 1) : p[i] = q[i]
  <2>1. /\ Len(p) \in Nat \ {0} /\ Len(Front(p)) = Len(p) - 1 /\ Last(p) \in Nat /\ Last(p) = p[Len(p)]
        /\ \A i \in 1..(Len(p) - 1) : Front(p)[i] = p[i]
    BY PathParts
  <2>2. /\ Len(q) \in Nat \ {0} /\ Len(Front(q)) = Len(q) - 1 /\ Last(q) \in Nat /\ Last(q) = q[Len(q)]
        /\ \A i \in 1..(Len(q) - 1) : Front(q)[i] = q[i]
    BY PathParts
  <2>3. Len(q) = n BY <2>1, <2>2
  <2> QED BY <2>1, <2>2, <2>3
<1>2. DOMAIN p = 1..n /\ DOMAIN q = 1..n /\ DOMAIN r = 1..Len(r) /\ Len(r) \in Nat
  BY <1>1, LenProperties
<1>3. \A i \in 1..n : p[i] \in Nat /\ q[i] \in Nat BY <1>1, ElementOfSeq
<1>4. \A i \in 1..Len(r) : r[i] \in Nat BY ElementOfSeq
<1> HIDE DEF n
<1>5. Before(p, q)
  <2>1. n \in DOMAIN p \cap DOMAIN q BY <1>1, <1>2
  <2> QED BY <1>1, <2>1 DEF Before
<1>6. ~Before(p, p)
  <2>1. \A i \in 1..n : ~(p[i] < p[i]) BY <1>3
  <2> QED BY <1>2, <2>1 DEF Before, IsStrictPrefix
<1>7. ASSUME Before(r, p) PROVE Before(r, q)
  <2>1. CASE IsStrictPrefix(r, p)
    <3>1. Len(r) <= n /\ \A i \in 1..Len(r) : r[i] = p[i] BY <2>1, PrefixForm DEF n, IsStrictPrefix
    <3>2. Len(r) # n
      <4>1. ASSUME Len(r) = n PROVE r = p BY <3>1, <4>1, SeqEqual DEF n
      <4> QED BY <2>1, <4>1 DEF IsStrictPrefix
    <3>3. Len(r) <= Len(q) /\ \A i \in 1..Len(r) : r[i] = q[i]
      <4> DEFINE m == Len(r)
      <4>1. m \in Nat /\ m <= n /\ m # n BY <1>2, <3>1, <3>2
      <4>2. n \in Nat BY <1>1
      <4> HIDE DEF m
      <4>3. \A i \in 1..m : i \in 1..(n - 1) BY <4>1, <4>2
      <4> USE DEF m
      <4> QED BY <1>1, <3>1, <4>3
    <3>4. r # q BY <1>1, <3>2
    <3> QED BY <3>3, <3>4, PrefixForm DEF Before, IsStrictPrefix
  <2>2. CASE ~IsStrictPrefix(r, p)
    <3>1. PICK i \in DOMAIN r \cap DOMAIN p : r[i] < p[i] /\ \A j \in 1..(i - 1) : r[j] = p[j]
      BY <1>7, <2>2 DEF Before
    <3>2. i \in 1..n /\ i \in 1..Len(r) /\ r[i] \in Nat BY <1>2, <1>4, <3>1
    <3>3. \A j \in 1..(i - 1) : r[j] = q[j] BY <1>1, <3>1, <3>2
    <3>4. r[i] < q[i]
      <4>1. CASE i = n BY <1>1, <3>1, <3>2, <4>1
      <4>2. CASE i # n
        <5>1. i \in 1..(n - 1) BY <1>1, <3>2, <4>2
        <5> QED BY <1>1, <3>1, <5>1
      <4> QED BY <4>1, <4>2
    <3> QED BY <1>2, <3>2, <3>3, <3>4 DEF Before
  <2> QED BY <2>1, <2>2
<1> QED BY <1>5, <1>6, <1>7

\* The raw graph of a tree t of which the directories in left have still to be
\* split: its rooms hang where the reference definition has them, or on their
\* parents where those are in left, each by one edge, and the edges from a
\* room have places in the order of the rooms they lead to.
RawIs(t, left, r) ==
  /\ r.nodes = Rooms(t, left)
  /\ left \subseteq {Room(p) : p \in {q \in t : IsWide(t, q)}}
  /\ r.len \in Nat /\ IsFiniteSet(r.edges)
  /\ \A e \in r.edges : /\ e.at \in Nat /\ e.to \in r.nodes \ {Start}
                        /\ e.from = HostNow(t, left, e.to)
  /\ \A n \in r.nodes \ {Start} : \E e \in r.edges : e.to = n
  /\ \A e, f \in r.edges : e.to = f.to => e = f
  /\ \A e, f \in r.edges : e.from = f.from /\ Ahead(f.to, e.to) => f.at < e.at

\* The walk finds the rooms of the tree, none of them split.
LEMMA Walked ==
  ASSUME NEW t, IsTree(t), NEW r, NEW left,
         r = [nodes |-> {Room(p) : p \in t}, edges |-> WalkEdges(t),
              len |-> Cardinality(t \ {<<>>})],
         left = {n \in r.nodes : Cardinality(ChildrenOf(r.edges, n)) > maxChildrenPerNode}
  PROVE  RawIs(t, left, r)
<1> DEFINE dirs == t \ {<<>>}
           Back(p) == {q \in dirs : Before(q, p)}
           W(p) == [at |-> Cardinality(Back(p)), from |-> Room(Front(p)), to |-> Room(p)]
<1>1. IsFiniteSet(dirs) /\ \A p \in dirs : p \in Seq(Nat) /\ p # <<>> /\ Front(p) \in t
  <2>1. dirs \in SUBSET t OBVIOUS
  <2> QED BY <2>1, FS_Subset DEF IsTree
<1>2. r.nodes = {Room(p) : p \in t} /\ r.edges = {W(p) : p \in dirs} /\ r.len = Cardinality(dirs)
  BY DEF WalkEdges
<1>3. \A p : W(p).at = Cardinality(Back(p)) /\ W(p).from = Room(Front(p)) /\ W(p).to = Room(p)
  OBVIOUS
<1>4. \A p, q : Room(p) = Room(q) => p = q
  <2>1. \A p : Room(p).path = p BY DEF Room
  <2> QED BY <2>1
<1>5. \A p \in dirs : IsFiniteSet(Back(p)) /\ Cardinality(Back(p)) \in Nat
  <2> TAKE p \in dirs
  <2>1. Back(p) \in SUBSET dirs OBVIOUS
  <2> HIDE DEF Back, dirs
  <2> QED BY <1>1, <2>1, FS_Subset, FS_CardinalityType
<1> HIDE DEF W, dirs
<1>6. ASSUME NEW p \in t
      PROVE  Cardinality(ChildrenOf(r.edges, Room(p))) = Cardinality(Subdirs(t, p))
  <2> DEFINE S == Subdirs(t, p)
             K == ChildrenOf(r.edges, Room(p))
             f == [q \in S |-> W(q)]
  <2>1. IsFiniteSet(S) BY SubdirFacts
  <2>2. \A q \in S : q \in dirs /\ Front(q) = p BY DEF Subdirs, dirs
  <2>3. f \in [S -> K] BY <1>2, <1>3, <2>2 DEF ChildrenOf
  <2>4. \A q, s \in S : f[q] = f[s] => q = s BY <1>3, <1>4
  <2>5. \A e \in K : \E q \in S : f[q] = e
    <3> TAKE e \in K
    <3>1. PICK q \in dirs : e = W(q) BY <1>2 DEF ChildrenOf
    <3>2. Room(Front(q)) = Room(p) BY <1>3, <3>1 DEF ChildrenOf
    <3>3. q \in S BY <1>1, <1>4, <3>2 DEF Subdirs, dirs
    <3> QED BY <3>1, <3>3
  <2> HIDE DEF f, K, S
  <2>6. Cardinality(K) = Cardinality(S) BY <2>1, <2>3, <2>4, <2>5, SameSize
  <2> QED BY <2>6 DEF K, S
<1>7. left = {Room(p) : p \in {q \in t : IsWide(t, q)}} BY <1>2, <1>6 DEF IsWide
<1>8. r.nodes = Rooms(t, left)
  <2>1. ASSUME NEW p \in t PROVE Room(p) \in Rooms(t, left)
    <3>1. Room(p) = Hub(p, 0) /\ Room(p).path = p /\ Room(p).hub = 0 BY DEF Room, Hub
    <3>2. Corridors(t, p) \in Nat BY CorridorCount
    <3> QED BY <3>1, <3>2, RoomForm
  <2>2. ASSUME NEW n \in Rooms(t, left) PROVE n \in r.nodes
    <3>1. /\ n = Hub(n.path, n.hub) /\ n.path \in t /\ n.hub \in Nat /\ n.hub <= Corridors(t, n.path)
          /\ Room(n.path) \in left => n.hub = 0
      BY RoomForm
    <3>2. n.hub = 0
      <4>1. Room(n.path) \notin left => ~IsWide(t, n.path) BY <1>7, <3>1
      <4>2. ~IsWide(t, n.path) => Corridors(t, n.path) = 0 BY DEF Corridors
      <4> QED BY <3>1, <4>1, <4>2
    <3> QED BY <1>2, <3>1, <3>2 DEF Hub, Room
  <2> QED BY <1>2, <2>1, <2>2
<1>9. r.len \in Nat /\ IsFiniteSet(r.edges)
  <2> DEFINE f == [p \in dirs |-> W(p)]
  <2>1. IsFiniteSet({f[p] : p \in dirs}) BY <1>1, ImageFinite
  <2>2. {f[p] : p \in dirs} = r.edges BY <1>2
  <2> QED BY <1>1, <1>2, <2>1, <2>2, FS_CardinalityType
<1>10. ASSUME NEW e \in r.edges
       PROVE  e.at \in Nat /\ e.to \in r.nodes \ {Start} /\ e.from = HostNow(t, left, e.to)
  <2>1. PICK p \in dirs : e = W(p) BY <1>2
  <2>2. e.at \in Nat BY <1>3, <1>5, <2>1
  <2>3. e.to = Room(p) /\ e.from = Room(Front(p)) BY <1>3, <2>1
  <2>4. p \in t /\ p # <<>> BY DEF dirs
  <2>5. e.to \in r.nodes \ {Start} BY <1>2, <1>4, <2>3, <2>4 DEF Start
  <2>6. ~IsHub(e.to) /\ e.to.path = p BY <2>3 DEF Room, IsHub
  <2>7. Room(Front(p)) \notin left => ~IsWide(t, Front(p)) BY <1>1, <1>7
  <2>8. HostNow(t, left, e.to) = Room(Front(p)) BY <2>6, <2>7 DEF HostNow, Host
  <2> QED BY <2>2, <2>3, <2>5, <2>8
<1>11. ASSUME NEW n \in r.nodes \ {Start} PROVE \E e \in r.edges : e.to = n
  <2>1. PICK p \in t : n = Room(p) BY <1>2
  <2>2. p \in dirs BY <2>1 DEF Start, dirs
  <2> QED BY <1>2, <1>3, <2>1, <2>2
<1>12. ASSUME NEW e \in r.edges, NEW f \in r.edges, e.to = f.to PROVE e = f
  <2>1. PICK p \in dirs, q \in dirs : e = W(p) /\ f = W(q) BY <1>2
  <2> QED BY <1>3, <1>4, <1>12, <2>1
<1>13. ASSUME NEW e \in r.edges, NEW f \in r.edges, e.from = f.from, Ahead(f.to, e.to)
       PROVE  f.at < e.at
  <2>1. PICK p \in dirs, q \in dirs : e = W(q) /\ f = W(p) BY <1>2
  <2>2. Front(p) = Front(q) BY <1>3, <1>4, <1>13, <2>1
  <2>3. Last(p) < Last(q)
    <3>1. f.to = Room(p) /\ e.to = Room(q) BY <1>3, <2>1
    <3>2. \A s : Room(s).path = s /\ Room(s).hub = 0 BY DEF Room
    <3> QED BY <1>13, <3>1, <3>2 DEF Ahead, IsHub
  <2>4. p \in Seq(Nat) /\ q \in Seq(Nat) /\ p # <<>> /\ q # <<>> BY <1>1
  <2>5. \A s \in dirs : Before(s, p) => Before(s, q) BY <1>1, <2>2, <2>3, <2>4, SiblingsInOrder
  <2>6. Before(p, q) /\ ~Before(p, p) BY <2>2, <2>3, <2>4, SiblingsInOrder
  <2>7. Back(p) \subseteq Back(q) /\ p \in Back(q) /\ p \notin Back(p) BY <2>5, <2>6
  <2> HIDE DEF Back
  <2>8. Cardinality(Back(p)) < Cardinality(Back(q)) BY <1>5, <2>7, FewerElements
  <2> QED BY <1>3, <2>1, <2>8
<1> QED BY <1>7, <1>8, <1>9, <1>10, <1>11, <1>12, <1>13 DEF RawIs

-----------------------------------------------------------------------------
(* Splitting a directory.                                                  *)

\* The parts of a room.
LEMMA HubParts ==
  /\ \A p, k : Hub(p, k).path = p /\ Hub(p, k).hub = k
  /\ \A p : Room(p) = Hub(p, 0) /\ Room(p).path = p /\ Room(p).hub = 0 /\ ~IsHub(Room(p))
  /\ Start = Hub(<<>>, 0)
BY DEF Hub, Room, IsHub, Start

\* A room that is there before its directory is split is there in the end.
LEMMA RoomsLast ==
  ASSUME NEW t, IsTree(t), NEW left, NEW n \in Rooms(t, left) PROVE n \in Dungeon(t)
<1>1. /\ n = Hub(n.path, n.hub) /\ n.path \in t
      /\ n.hub \in Nat /\ n.hub <= Corridors(t, n.path)
  BY RoomForm
<1>2. n \in Rooms(t, {}) BY <1>1, RoomForm
<1> QED BY <1>2, NothingLeft

\* Where an edge of the raw graph begins: of what hangs on a directory that
\* has still to be split, its own directories and nothing else.
LEMMA RawHosts ==
  ASSUME NEW t, IsTree(t), NEW left, NEW r, RawIs(t, left, r), NEW p \in t, Room(p) \in left
  PROVE  /\ \A e \in r.edges : e.from.path = p =>
              e.from = Room(p) /\ e.to = Room(e.to.path) /\ e.to.path \in Subdirs(t, p)
         /\ \A q \in Subdirs(t, p) : \E e \in r.edges : e.from = Room(p) /\ e.to = Room(q)
<1>1. ASSUME NEW e \in r.edges, e.from.path = p
      PROVE  e.from = Room(p) /\ e.to = Room(e.to.path) /\ e.to.path \in Subdirs(t, p)
  <2> DEFINE n == e.to
  <2>1. n \in Rooms(t, left) /\ n # Start /\ e.from = HostNow(t, left, n) BY DEF RawIs
  <2>2. n \in Dungeon(t) \ {Start} BY <2>1, RoomsLast
  <2>3. Room(n.path) \in left => n.hub = 0 BY <2>1, RoomForm
  <2>4. CASE IsHub(n)
    <3>1. n.hub \in Nat \ {0} /\ Host(t, n) = Hub(n.path, n.hub - 1) BY <2>2, <2>4, HostForm
    <3>2. e.from = Host(t, n) BY <2>1, <2>4 DEF HostNow
    <3>3. n.path = p BY <1>1, <3>1, <3>2, HubParts
    <3> QED BY <2>3, <3>1, <3>3
  <2>5. CASE ~IsHub(n)
    <3>1. /\ n = Room(n.path) /\ n.path \in Subdirs(t, Front(n.path))
          /\ Host(t, n).path = Front(n.path)
      BY <2>2, <2>5, HostForm
    <3>2. e.from.path = Front(n.path) BY <2>1, <3>1, HubParts DEF HostNow
    <3>3. Front(n.path) = p BY <1>1, <3>2
    <3>4. e.from = Room(p) BY <2>1, <2>5, <3>3 DEF HostNow
    <3> QED BY <3>1, <3>3, <3>4
  <2> QED BY <2>4, <2>5
<1>2. ASSUME NEW q \in Subdirs(t, p) PROVE \E e \in r.edges : e.from = Room(p) /\ e.to = Room(q)
  <2>1. q \in t /\ q # <<>> /\ Front(q) = p BY SubdirFacts
  <2>2. Corridors(t, q) \in Nat BY CorridorCount
  <2>3. Room(q) \in Rooms(t, left) BY <2>1, <2>2, HubParts, RoomForm
  <2>4. Room(q) # Start BY <2>1, HubParts
  <2>5. PICK e \in r.edges : e.to = Room(q) BY <2>3, <2>4 DEF RawIs
  <2>6. e.from = HostNow(t, left, Room(q)) BY <2>5 DEF RawIs
  <2>7. e.from = Room(p) BY <2>1, <2>6, HubParts DEF HostNow
  <2> QED BY <2>5, <2>7
<1> QED BY <1>1, <1>2

\* The children that insertHubs collects for a directory are its
\* subdirectories, and their places in the slice are their positions.
LEMMA Collected ==
  ASSUME NEW t, IsTree(t), NEW left, NEW r, RawIs(t, left, r), NEW p \in t, Room(p) \in left,
         NEW kids, kids = ChildrenOf(r.edges, Room(p))
  PROVE  /\ IsFiniteSet(kids) /\ Cardinality(kids) = Cardinality(Subdirs(t, p))
         /\ \A e \in kids : /\ e.to = Room(e.to.path) /\ e.to.path \in Subdirs(t, p)
                            /\ Place(kids, e) = Pos(t, e.to.path)
         /\ \A e, f \in kids : e.to.path = f.to.path => e = f
         /\ \A q \in Subdirs(t, p) : \E e \in kids : e.to = Room(q)
<1> DEFINE S == Subdirs(t, p)
<1>1. \A e \in kids : e \in r.edges /\ e.from = Room(p) BY DEF ChildrenOf
<1>2. \A e \in kids : e.to = Room(e.to.path) /\ e.to.path \in S BY <1>1, RawHosts, HubParts
<1>3. \A q \in S : \E e \in kids : e.to = Room(q) BY RawHosts DEF ChildrenOf
<1>4. \A e, f \in kids : e.to.path = f.to.path => e = f
  <2>1. \A e, f \in r.edges : e.to = f.to => e = f BY DEF RawIs
  <2> QED BY <1>1, <1>2, <2>1
<1>5. IsFiniteSet(kids)
  <2>1. kids \in SUBSET r.edges BY <1>1
  <2> QED BY <2>1, FS_Subset DEF RawIs
<1>6. Cardinality(kids) = Cardinality(S)
  <2> DEFINE g == [e \in kids |-> e.to.path]
  <2>1. g \in [kids -> S] BY <1>2
  <2>2. \A e, f \in kids : g[e] = g[f] => e = f BY <1>4
  <2>3. \A q \in S : \E e \in kids : g[e] = q BY <1>3, HubParts
  <2> HIDE DEF g, S
  <2> QED BY <1>5, <2>1, <2>2, <2>3, SameSize
<1>7. ASSUME NEW e \in kids PROVE Place(kids, e) = Pos(t, e.to.path)
  <2> DEFINE A == {f \in kids : f.at < e.at}
             q == e.to.path
             E == Earlier(t, q)
             g == [f \in A |-> f.to.path]
  <2>1. ASSUME NEW f \in kids PROVE f.at < e.at <=> Last(f.to.path) < Last(q)
    <3>1. /\ Last(q) \in Nat /\ Last(f.to.path) \in Nat
          /\ Last(q) = Last(f.to.path) => q = f.to.path
      BY <1>2, SubdirFacts
    <3>2. e.at \in Nat /\ f.at \in Nat BY <1>1 DEF RawIs
    <3>3. ~IsHub(e.to) /\ ~IsHub(f.to) BY <1>2, HubParts
    <3>4. Last(f.to.path) < Last(q) => f.at < e.at BY <1>1, <3>3 DEF RawIs, Ahead
    <3>5. Last(q) < Last(f.to.path) => e.at < f.at BY <1>1, <3>3 DEF RawIs, Ahead
    <3>6. Last(q) = Last(f.to.path) => e = f BY <1>4, <3>1
    <3> QED BY <3>1, <3>2, <3>4, <3>5, <3>6
  <2>2. E = {s \in S : Last(s) < Last(q)} BY <1>2, SubdirFacts DEF Earlier
  <2>3. g \in [A -> E] BY <1>2, <2>1, <2>2
  <2>4. \A f, h \in A : g[f] = g[h] => f = h BY <1>4
  <2>5. \A s \in E : \E f \in A : g[f] = s
    <3> TAKE s \in E
    <3>1. s \in S /\ Last(s) < Last(q) BY <2>2
    <3>2. PICK f \in kids : f.to = Room(s) BY <1>3, <3>1
    <3>3. f.to.path = s BY <3>2, HubParts
    <3> QED BY <2>1, <3>1, <3>3
  <2>6. IsFiniteSet(A)
    <3>1. A \in SUBSET kids OBVIOUS
    <3> QED BY <1>5, <3>1, FS_Subset
  <2> HIDE DEF A, E, g
  <2>7. Cardinality(E) = Cardinality(A) BY <2>3, <2>4, <2>5, <2>6, SameSize
  <2> QED BY <2>7 DEF A, E, Place, Pos
<1> QED BY <1>2, <1>3, <1>4, <1>5, <1>6, <1>7

\* One pass of insertHubs splits one directory and leaves the others alone.
LEMMA SplitOne ==
  ASSUME NEW t, IsTree(t), NEW left, NEW r, RawIs(t, left, r), NEW room \in left,
         NEW kids, kids = ChildrenOf(r.edges, room),
         NEW chain, chain = SplitChain(room, kids, r.len),
         NEW s, s = [nodes |-> r.nodes \cup {e.from : e \in chain},
                     edges |-> (r.edges \ kids) \cup chain,
                     len |-> r.len + Cardinality(chain)]
  PROVE  RawIs(t, left \ {room}, s)
<1>1. PICK p \in t : room = Room(p) /\ IsWide(t, p) BY DEF RawIs
<1> DEFINE L == left \ {room}
           S == Subdirs(t, p)
           c == Cardinality(S)
           b == Corridors(t, p)
           kept == r.edges \ kids
           Link(k) == [at |-> r.len + k * (maxChildrenPerNode + 1) - 2,
                       from |-> Hub(p, k - 1), to |-> Hub(p, k)]
           Moved(e) == [at |-> r.len + Place(kids, e) + Batch(Place(kids, e)),
                        from |-> Hub(p, Batch(Place(kids, e))), to |-> e.to]
           i(e) == Pos(t, e.to.path)
<1>2. c \in Nat /\ c > 5 /\ b = Batch(c - 1) /\ b \in Nat BY <1>1, CorridorCount
<1>3. /\ IsFiniteSet(kids) /\ Cardinality(kids) = c
      /\ \A e \in kids : e.to = Room(e.to.path) /\ e.to.path \in S /\ Place(kids, e) = i(e)
      /\ \A e, f \in kids : e.to.path = f.to.path => e = f
      /\ \A q \in S : \E e \in kids : e.to = Room(q)
  BY <1>1, Collected
<1>4. chain = {Link(k) : k \in 1..b} \cup {Moved(e) : e \in kids}
  <2>1. room.path = p BY <1>1, HubParts
  <2> QED BY <1>2, <1>3, <2>1 DEF SplitChain, Links
<1>5. \A k : /\ Link(k).at = r.len + k * 6 - 2 /\ Link(k).from = Hub(p, k - 1)
             /\ Link(k).to = Hub(p, k)
  BY DEF maxChildrenPerNode
<1>6. \A e \in kids : /\ Moved(e).at = r.len + i(e) + Batch(i(e)) /\ Moved(e).to = e.to
                      /\ Moved(e).from = Hub(p, Batch(i(e)))
  BY <1>3
<1> HIDE DEF Link, Moved, b, c
<1>7. \A e \in kids : /\ i(e) \in Nat /\ i(e) <= c - 1 /\ Batch(i(e)) \in Nat /\ Batch(i(e)) <= b
  <2> TAKE e \in kids
  <2>1. i(e) \in 0..(c - 1) BY <1>3, Positions DEF c
  <2>2. c - 1 \in Nat /\ i(e) \in Nat /\ i(e) <= c - 1 BY <1>2, <2>1
  <2> QED BY <1>2, <2>2, Batches
<1>8. s.nodes = r.nodes \cup {e.from : e \in chain} /\ s.edges = kept \cup chain
      /\ s.len = r.len + Cardinality(chain)
  OBVIOUS
<1>9. Room(p) \in left /\ Room(p) \notin L /\ \A q : q # p => (Room(q) \in left <=> Room(q) \in L)
  BY <1>1, HubParts
<1>10. \A n : n \in Rooms(t, L) <=> n \in Rooms(t, left) \/ \E k \in 1..b : n = Hub(p, k)
  <2> TAKE n
  <2>1. ASSUME n \in Rooms(t, L) PROVE n \in Rooms(t, left) \/ \E k \in 1..b : n = Hub(p, k)
    <3>1. /\ n = Hub(n.path, n.hub) /\ n.path \in t /\ n.hub \in Nat /\ n.hub <= Corridors(t, n.path)
          /\ Room(n.path) \in L => n.hub = 0
      BY <2>1, RoomForm
    <3>2. CASE n.path # p BY <1>9, <3>1, <3>2, RoomForm
    <3>3. CASE n.path = p /\ n.hub = 0 BY <3>1, <3>3, RoomForm
    <3>4. CASE n.path = p /\ n.hub # 0
      <4>1. n.hub \in 1..b BY <1>2, <3>1, <3>4 DEF b
      <4> QED BY <3>1, <3>4, <4>1
    <3> QED BY <3>2, <3>3, <3>4
  <2>2. ASSUME n \in Rooms(t, left) PROVE n \in Rooms(t, L)
    <3>1. /\ n = Hub(n.path, n.hub) /\ n.path \in t /\ n.hub \in Nat /\ n.hub <= Corridors(t, n.path)
          /\ Room(n.path) \in left => n.hub = 0
      BY <2>2, RoomForm
    <3> QED BY <3>1, RoomForm
  <2>3. ASSUME NEW k \in 1..b, n = Hub(p, k) PROVE n \in Rooms(t, L)
    <3>1. k \in Nat /\ k <= Corridors(t, p) BY <1>2 DEF b
    <3>2. n.path = p /\ n.hub = k BY <2>3, HubParts
    <3> QED BY <1>9, <2>3, <3>1, <3>2, RoomForm
  <2> QED BY <2>1, <2>2, <2>3
<1>11. Room(p) \in Rooms(t, left) BY <1>2, HubParts, RoomForm DEF b
<1>12. \A k \in 0..b : Hub(p, k) \in Rooms(t, L)
  <2> TAKE k \in 0..b
  <2>1. k = 0 \/ k \in 1..b BY <1>2
  <2> QED BY <1>10, <1>11, <2>1, HubParts
<1>13. s.nodes = Rooms(t, L)
  <2>1. \A e \in chain : e.from \in Rooms(t, L)
    <3> TAKE e \in chain
    <3>1. CASE \E k \in 1..b : e = Link(k)
      <4>1. PICK k \in 1..b : e = Link(k) BY <3>1
      <4>2. k - 1 \in 0..b BY <1>2
      <4> QED BY <1>5, <1>12, <4>1, <4>2
    <3>2. CASE \E f \in kids : e = Moved(f)
      <4>1. PICK f \in kids : e = Moved(f) BY <3>2
      <4>2. Batch(i(f)) \in 0..b BY <1>2, <1>7
      <4> QED BY <1>6, <1>12, <4>1, <4>2
    <3> QED BY <1>4, <3>1, <3>2
  <2>2. \A k \in 1..b : \E e \in chain : e.from = Hub(p, k)
    <3> TAKE k \in 1..b
    <3>1. CASE k = b
      <4>1. c - 1 \in 0..(c - 1) BY <1>2
      <4>2. PICK q \in S : Pos(t, q) = c - 1 BY <4>1, Positions DEF c
      <4>3. PICK e \in kids : e.to = Room(q) BY <1>3
      <4>4. i(e) = c - 1 BY <4>2, <4>3, HubParts
      <4>5. Moved(e) \in chain /\ Moved(e).from = Hub(p, b) BY <1>2, <1>4, <1>6, <4>4
      <4> QED BY <3>1, <4>5
    <3>2. CASE k # b
      <4>1. k + 1 \in 1..b /\ k + 1 - 1 = k BY <1>2, <3>2
      <4>2. Link(k + 1) \in chain /\ Link(k + 1).from = Hub(p, k) BY <1>4, <1>5, <4>1
      <4> QED BY <4>2
    <3> QED BY <3>1, <3>2
  <2>3. r.nodes = Rooms(t, left) BY DEF RawIs
  <2>4. s.nodes \subseteq Rooms(t, L) BY <1>8, <1>10, <2>1, <2>3
  <2>5. Rooms(t, L) \subseteq s.nodes
    <3> SUFFICES ASSUME NEW n \in Rooms(t, L) PROVE n \in s.nodes
      OBVIOUS
    <3>1. CASE n \in Rooms(t, left) BY <1>8, <2>3, <3>1
    <3>2. CASE \E k \in 1..b : n = Hub(p, k)
      <4>1. PICK e \in chain : e.from = n BY <2>2, <3>2
      <4> QED BY <1>8, <4>1
    <3> QED BY <1>10, <3>1, <3>2
  <2> QED BY <2>4, <2>5
<1>14. L \subseteq {Room(q) : q \in {u \in t : IsWide(t, u)}} BY DEF RawIs
<1>15. s.len \in Nat /\ IsFiniteSet(s.edges)
  <2> DEFINE g == [k \in 1..b |-> Link(k)]
             h == [e \in kids |-> Moved(e)]
             A == {g[k] : k \in 1..b}
             B == {h[e] : e \in kids}
  <2>1. IsFiniteSet(1..b) BY <1>2, UpTo
  <2>2. DOMAIN g = 1..b /\ g = [k \in 1..b |-> g[k]] OBVIOUS
  <2>3. DOMAIN h = kids /\ h = [e \in kids |-> h[e]] OBVIOUS
  <2>4. chain = A \cup B BY <1>4
  <2> HIDE DEF g, h
  <2>5. IsFiniteSet(chain)
    <3>1. IsFiniteSet(A) BY <2>1, <2>2, ImageFinite
    <3>2. IsFiniteSet(B) BY <1>3, <2>3, ImageFinite
    <3> HIDE DEF A, B
    <3> QED BY <2>4, <3>1, <3>2, FS_Union
  <2>6. kept \in SUBSET r.edges OBVIOUS
  <2>7. IsFiniteSet(kept) BY <2>6, FS_Subset DEF RawIs
  <2>8. IsFiniteSet(kept \cup chain) BY <2>5, <2>7, FS_Union
  <2>9. Cardinality(chain) \in Nat /\ r.len \in Nat BY <2>5, FS_CardinalityType DEF RawIs
  <2> QED BY <1>8, <2>8, <2>9
<1> DEFINE IsLink(e) == \E k \in 1..b : e = Link(k)
           IsMoved(e) == \E f \in kids : e = Moved(f)
<1>16. \A e \in s.edges : e \in kept \/ IsLink(e) \/ IsMoved(e) BY <1>4, <1>8
<1>17. \A e \in kept : e \in r.edges /\ e.from.path # p /\ e.from # Room(p)
  <2> TAKE e \in kept
  <2>1. e.from # Room(p) BY <1>1 DEF ChildrenOf
  <2>2. e.from.path # p BY <1>9, <2>1, RawHosts
  <2> QED BY <2>1, <2>2
<1>18. ASSUME NEW e \in s.edges
       PROVE  e.at \in Nat /\ e.to \in s.nodes \ {Start} /\ e.from = HostNow(t, L, e.to)
  <2>1. CASE e \in kept
    <3>1. e.at \in Nat /\ e.to \in Rooms(t, left) \ {Start} /\ e.from = HostNow(t, left, e.to)
      BY <2>1 DEF RawIs
    <3>2. HostNow(t, L, e.to) = HostNow(t, left, e.to)
      BY <1>9, <1>17, <2>1, <3>1 DEF HostNow
    <3> QED BY <1>10, <1>13, <3>1, <3>2
  <2>2. CASE IsLink(e)
    <3>1. PICK k \in 1..b : e = Link(k) BY <2>2
    <3>2. k \in Nat \ {0} /\ r.len \in Nat BY <1>2 DEF RawIs
    <3>3. e.at = r.len + k * 6 - 2 /\ e.from = Hub(p, k - 1) /\ e.to = Hub(p, k) BY <1>5, <3>1
    <3>4. e.at \in Nat BY <3>2, <3>3
    <3>5. IsHub(e.to) /\ e.to # Start BY <3>2, <3>3, HubParts DEF IsHub
    <3>6. HostNow(t, L, e.to) = Hub(p, k - 1) BY <3>3, <3>5, HubParts DEF HostNow, Host
    <3> QED BY <1>10, <1>13, <3>3, <3>4, <3>5, <3>6
  <2>3. CASE IsMoved(e)
    <3>1. PICK f \in kids : e = Moved(f) BY <2>3
    <3> DEFINE q == f.to.path
    <3>2. /\ e.at = r.len + i(f) + Batch(i(f)) /\ e.from = Hub(p, Batch(i(f))) /\ e.to = f.to
      BY <1>6, <3>1
    <3>3. e.at \in Nat
      <4>1. r.len \in Nat /\ i(f) \in Nat /\ Batch(i(f)) \in Nat BY <1>7 DEF RawIs
      <4> QED BY <3>2, <4>1
    <3>4. f \in r.edges BY DEF ChildrenOf
    <3>5. f.to \in Rooms(t, left) \ {Start} BY <3>4 DEF RawIs
    <3>6. f.to = Room(q) /\ q \in S BY <1>3
    <3>7. Front(q) = p BY <3>6, SubdirFacts
    <3>8. HostNow(t, L, f.to) = Hub(p, Batch(i(f)))
      <4>1. ~IsHub(f.to) BY <3>6, HubParts
      <4>2. HostNow(t, L, f.to) = Host(t, f.to) BY <1>9, <3>7 DEF HostNow
      <4> QED BY <1>1, <3>7, <4>1, <4>2 DEF Host, Pos
    <3> QED BY <1>10, <1>13, <3>2, <3>3, <3>5, <3>8
  <2> QED BY <1>16, <2>1, <2>2, <2>3
<1>19. ASSUME NEW n \in s.nodes \ {Start} PROVE \E e \in s.edges : e.to = n
  <2>1. CASE n \in Rooms(t, left)
    <3>1. PICK e \in r.edges : e.to = n BY <2>1 DEF RawIs
    <3>2. CASE e \in kept BY <1>8, <3>1, <3>2
    <3>3. CASE e \in kids
      <4>1. Moved(e) \in s.edges /\ Moved(e).to = n BY <1>4, <1>6, <1>8, <3>1, <3>3
      <4> QED BY <4>1
    <3> QED BY <3>2, <3>3
  <2>2. CASE \E k \in 1..b : n = Hub(p, k)
    <3>1. PICK k \in 1..b : n = Hub(p, k) BY <2>2
    <3>2. Link(k) \in s.edges /\ Link(k).to = n BY <1>4, <1>5, <1>8, <3>1
    <3> QED BY <3>2
  <2> QED BY <1>10, <1>13, <2>1, <2>2
<1>20. \A k \in 1..b : IsHub(Link(k).to) /\ Link(k).to \notin Rooms(t, left)
  <2> TAKE k \in 1..b
  <2>1. Link(k).to.hub = k /\ Link(k).to.path = p /\ k > 0 BY <1>2, <1>5, HubParts
  <2> QED BY <1>9, <2>1, RoomForm DEF IsHub
<1>21. \A e \in kids : ~IsHub(Moved(e).to) /\ Moved(e).to \in Rooms(t, left) /\ e \in r.edges
  <2> TAKE e \in kids
  <2>1. e \in r.edges BY DEF ChildrenOf
  <2>2. ~IsHub(e.to) BY <1>3, HubParts
  <2> QED BY <1>6, <2>1, <2>2 DEF RawIs
<1>22. \A e \in kept : e.to \in Rooms(t, left) BY DEF RawIs
<1>23. \A e, f \in r.edges : e.to = f.to => e = f BY DEF RawIs
<1>24. ASSUME NEW e \in s.edges, NEW f \in s.edges, e.to = f.to PROVE e = f
  <2>1. CASE e \in kept /\ f \in kept BY <1>23, <1>24, <2>1
  <2>2. CASE IsLink(e) /\ IsLink(f)
    <3>1. PICK k \in 1..b, l \in 1..b : e = Link(k) /\ f = Link(l) BY <2>2
    <3>2. Hub(p, k) = Hub(p, l) BY <1>5, <1>24, <3>1
    <3>3. k = l BY <3>2, HubParts
    <3> QED BY <3>1, <3>3
  <2>3. CASE IsMoved(e) /\ IsMoved(f)
    <3>1. PICK g \in kids, h \in kids : e = Moved(g) /\ f = Moved(h) BY <2>3
    <3>2. g = h BY <1>6, <1>21, <1>23, <1>24, <3>1
    <3> QED BY <3>1, <3>2
  <2>4. CASE (IsLink(e) /\ ~IsLink(f)) \/ (~IsLink(e) /\ IsLink(f))
    BY <1>16, <1>20, <1>21, <1>22, <1>24, <2>4
  <2>5. ASSUME NEW g \in kept, NEW h \in kids, g.to = Moved(h).to PROVE FALSE
    BY <1>6, <1>21, <1>23, <2>5
  <2>6. CASE (e \in kept /\ IsMoved(f)) \/ (IsMoved(e) /\ f \in kept) BY <1>24, <2>5, <2>6
  <2> QED BY <1>16, <2>1, <2>2, <2>3, <2>4, <2>6
<1>25. ASSUME NEW e \in s.edges, NEW f \in s.edges, e.from = f.from, Ahead(f.to, e.to)
       PROVE  f.at < e.at
  <2>1. ~IsHub(f.to) BY <1>25 DEF Ahead
  <2>2. ~IsLink(f) BY <1>20, <2>1
  <2>3. CASE e \in kept /\ f \in kept BY <1>25, <2>3 DEF RawIs
  <2>4. \A g : IsLink(g) \/ IsMoved(g) => g.from.path = p BY <1>5, <1>6, HubParts
  <2>5. e \in kept <=> f \in kept BY <1>16, <1>17, <1>25, <2>4
  <2>6. CASE IsMoved(f) /\ IsLink(e)
    <3>1. PICK g \in kids : f = Moved(g) BY <2>6
    <3>2. PICK k \in 1..b : e = Link(k) BY <2>6
    <3> DEFINE x == i(g)
               y == Batch(x)
               z == r.len
    <3>3. x \in Nat /\ y \in Nat /\ k \in Nat /\ z \in Nat BY <1>2, <1>7 DEF RawIs
    <3>4. f.at = z + x + y /\ e.at = z + k * 6 - 2 /\ y = k - 1
      BY <1>5, <1>6, <1>25, <3>1, <3>2, HubParts
    <3>5. y = (x + 1) \div 5 BY DEF Batch, maxChildrenPerNode
    <3> HIDE DEF x, y, z
    <3>6. x + 1 <= 5 * y + 4 BY <3>3, <3>5
    <3> QED BY <3>3, <3>4, <3>6
  <2>7. CASE IsMoved(f) /\ IsMoved(e)
    <3>1. PICK g \in kids, h \in kids : f = Moved(g) /\ e = Moved(h) BY <2>7
    <3>2. f.to = g.to /\ e.to = h.to /\ Batch(i(g)) = Batch(i(h)) BY <1>6, <1>25, <3>1, HubParts
    <3>3. ~IsHub(e.to) BY <1>21, <3>1
    <3>4. Last(g.to.path) < Last(h.to.path) BY <1>25, <3>2, <3>3 DEF Ahead
    <3>5. i(g) < i(h) BY <1>3, <3>4, Positions
    <3>6. /\ i(g) \in Nat /\ i(h) \in Nat /\ Batch(i(g)) \in Nat /\ r.len \in Nat
          /\ f.at = r.len + i(g) + Batch(i(g)) /\ e.at = r.len + i(h) + Batch(i(g))
      BY <1>6, <1>7, <3>1, <3>2 DEF RawIs
    <3> QED BY <3>5, <3>6
  <2> QED BY <1>16, <2>2, <2>3, <2>5, <2>6, <2>7
<1> QED BY <1>13, <1>14, <1>15, <1>18, <1>19, <1>24, <1>25 DEF RawIs

-----------------------------------------------------------------------------
(* The raw graph of a run.                                                 *)

\* The raw graph is that of the tree, of which insertHubs has split all
\* directories before directions are assigned.
RawInv ==
  /\ tree \in Trees
  /\ stage \in {"hubs", "assign"} => RawIs(tree, todo, raw)
  /\ stage = "assign" => todo = {}

\* Every step keeps it so, in whatever order the directories are split.
LEMMA RawStep == RawInv /\ [Next]_vars => RawInv'
<1> SUFFICES ASSUME RawInv, [Next]_vars PROVE RawInv'
  OBVIOUS
<1>1. IsTree(tree) BY ScengenAssumption DEF RawInv
<1>2. ASSUME tree' = tree, stage' \notin {"hubs", "assign"} PROVE RawInv'
  BY <1>2 DEF RawInv
<1>3. ASSUME UNCHANGED <<tree, raw, todo>>, stage' = stage PROVE RawInv'
  BY <1>3 DEF RawInv
<1>4. CASE Walk
  <2>1. RawIs(tree, todo', raw') BY <1>1, <1>4, Walked DEF Walk
  <2> QED BY <1>4, <2>1 DEF Walk, RawInv
<1>5. CASE \E n \in todo : InsertHubs(n)
  <2>1. PICK n \in todo : InsertHubs(n) BY <1>5
  <2>2. stage = "hubs" /\ stage' = stage /\ tree' = tree /\ todo' = todo \ {n} /\ RawIs(tree, todo, raw)
    BY <2>1 DEF InsertHubs, RawInv
  <2>3. RawIs(tree, todo \ {n}, raw') BY <1>1, <2>1, <2>2, SplitOne DEF InsertHubs
  <2> QED BY <2>2, <2>3 DEF RawInv
<1>6. CASE AddNodes BY <1>6 DEF AddNodes, RawInv
<1>7. CASE \E e \in raw.edges : AssignOne(e)
  <2>1. UNCHANGED <<tree, raw, todo>> /\ (stage' = stage \/ stage' = "nodirection")
    BY <1>7, Zenon DEF AssignOne
  <2> QED BY <1>2, <1>3, <2>1
<1>8. CASE Dequeue BY <1>3, <1>8 DEF Dequeue
<1>9. CASE SaveGraph
  <2>1. UNCHANGED <<tree, raw, todo>> /\ (stage' = stage \/ stage' = "invalid")
    BY <1>9, Zenon DEF SaveGraph
  <2> QED BY <1>2, <1>3, <2>1
<1>10. CASE IDClash \/ Validate \/ LoadGraph \/ SpawnEnemies \/ PlaceItems
  BY <1>2, <1>10 DEF IDClash, Validate, LoadGraph, SpawnEnemies, PlaceItems
<1>11. CASE CleanTmp \/ WriteTmp \/ RemoveOutput \/ Rename
  BY <1>2, <1>11 DEF CleanTmp, WriteTmp, RemoveOutput, Rename
<1>12. CASE IOError \/ Crash \/ SelfValidate \/ GenerateAgain
  BY <1>2, <1>12 DEF IOError, Crash, SelfValidate, GenerateAgain
<1>13. CASE UNCHANGED vars BY <1>3, <1>13 DEF vars
<1> QED BY <1>4, <1>5, <1>6, <1>7, <1>8, <1>9, <1>10, <1>11, <1>12, <1>13 DEF Next

\* A run begins before the walk.
LEMMA RawInit == Init => RawInv
BY DEF Init, RawInv

\* insertHubs neither loses nor moves a directory, whatever the tree and
\* whatever order it goes through the map in.
THEOREM TreeIsKept == Spec => []TreeKept
<1>1. RawInv => TreeKept
  <2> SUFFICES ASSUME RawInv, stage = "assign", NEW p \in tree \ {<<>>}
               PROVE  LET into == {e \in raw.edges : e.to = Room(p)}
                      IN  Cardinality(into) = 1 /\ \A e \in into : e.from.path = Front(p)
    BY DEF TreeKept
  <2> DEFINE into == {e \in raw.edges : e.to = Room(p)}
  <2>1. IsTree(tree) /\ RawIs(tree, {}, raw) BY ScengenAssumption DEF RawInv
  <2>2. Corridors(tree, p) \in Nat BY <2>1, CorridorCount
  <2>3. Room(p) \in Rooms(tree, {}) BY <2>1, <2>2, HubParts, RoomForm
  <2>4. Room(p) \in Dungeon(tree) \ {Start} BY <2>3, NothingLeft, HubParts
  <2>5. PICK e \in raw.edges : e.to = Room(p) BY <2>1, <2>3, <2>4 DEF RawIs
  <2>6. into = {e} BY <2>1, <2>5 DEF RawIs
  <2>7. e.from = Host(tree, Room(p)) BY <2>1, <2>5, NothingLeft DEF RawIs
  <2>8. e.from.path = Front(p) BY <2>1, <2>4, <2>7, HubParts, HostForm
  <2>9. Cardinality(into) = 1 BY <2>6, FS_Singleton
  <2> QED BY <2>6, <2>8, <2>9
<1>2. QED
  BY <1>1, RawInit, RawStep, PTL DEF Spec

-----------------------------------------------------------------------------
(* Directions.                                                             *)

Dirs == {preferredDirs[i] : i \in 1..6}

\* The six directions differ, and the opposite of one is another's only.
LEMMA DirFacts ==
  /\ DOMAIN preferredDirs = 1..6
  /\ \A i, j \in 1..6 : preferredDirs[i] = preferredDirs[j] => i = j
  /\ \A d \in Dirs : Opposite(d) \in Dirs /\ Opposite(Opposite(d)) = d
<1>1. DOMAIN preferredDirs = 1..6 BY DEF preferredDirs
<1>2. /\ preferredDirs[1] = "north" /\ preferredDirs[2] = "east" /\ preferredDirs[3] = "south"
      /\ preferredDirs[4] = "west" /\ preferredDirs[5] = "up" /\ preferredDirs[6] = "down"
  BY DEF preferredDirs
<1>3. \A i \in 1..6 : i = 1 \/ i = 2 \/ i = 3 \/ i = 4 \/ i = 5 \/ i = 6 OBVIOUS
<1>4. ASSUME NEW i \in 1..6, NEW j \in 1..6, preferredDirs[i] = preferredDirs[j] PROVE i = j
  BY <1>2, <1>3, <1>4
<1>5. Dirs = {"north", "east", "south", "west", "up", "down"}
  <2>1. 1 \in 1..6 /\ 2 \in 1..6 /\ 3 \in 1..6 /\ 4 \in 1..6 /\ 5 \in 1..6 /\ 6 \in 1..6 OBVIOUS
  <2>2. Dirs \subseteq {"north", "east", "south", "west", "up", "down"} BY <1>2, <1>3 DEF Dirs
  <2>3. {"north", "east", "south", "west", "up", "down"} \subseteq Dirs BY <1>2, <2>1 DEF Dirs
  <2> QED BY <2>2, <2>3
<1>6. \A d \in Dirs : Opposite(d) \in Dirs /\ Opposite(Opposite(d)) = d BY <1>5 DEF Opposite
<1> QED BY <1>1, <1>4, <1>6

\* The way back from a room is the direction i.
WayBack(E, n, i) == \E f \in E : f.to = n /\ preferredDirs[i] = Opposite(f.dir)

\* The edges that have got a direction: they are edges of the dungeon of the
\* tree t, followed from the start; no room has two exits in one direction;
\* the children of a room get theirs in order, each the first that is free.
Planned(t, E) ==
  /\ IsFiniteSet(E)
  /\ \A e \in E : /\ e = [from |-> e.from, to |-> e.to, dir |-> e.dir]
                  /\ e.to \in Dungeon(t) \ {Start} /\ e.from = Host(t, e.to)
                  /\ e.from \in Visited(E) /\ e.dir \in Dirs
  /\ \A e, f \in E : e.to = f.to => e = f
  /\ \A e, f \in E : e.from = f.from /\ e.dir = f.dir => e = f
  /\ \A e, f \in E : e.to = f.from => Opposite(e.dir) # f.dir
  /\ \A e \in E : \A m \in Kids(t, e.from) : Ahead(m, e.to) => m \in Visited(E)
  /\ \A e \in E : \A i, j \in 1..6 : i < j /\ e.dir = preferredDirs[j] =>
       \/ WayBack(E, e.from, i)
       \/ \E f \in E : f.from = e.from /\ f.dir = preferredDirs[i] /\ Ahead(f.to, e.to)

\* What a room's exits use, and the free directions to a room that the search
\* has not met.
LEMMA FreeFacts ==
  ASSUME NEW t, NEW E, Planned(t, E), NEW curr, NEW next, next \notin Visited(E)
  PROVE  /\ FreeDirs(E, curr, next) = {i \in 1..6 : preferredDirs[i] \notin UsedDirs(E, curr)}
         /\ \A d : d \in UsedDirs(E, curr) <=>
              \/ \E f \in E : f.from = curr /\ f.dir = d
              \/ \E f \in E : f.to = curr /\ d = Opposite(f.dir)
<1>1. \A r, d : d \in UsedDirs(E, r) <=> \/ \E f \in E : f.from = r /\ f.dir = d
                                         \/ \E f \in E : f.to = r /\ d = Opposite(f.dir)
  <2> TAKE r, d
  <2>1. d \in UsedDirs(E, r) <=> \E x \in Exits(E, r) : d = x.dir BY DEF UsedDirs
  <2>2. ASSUME NEW x \in Exits(E, r), d = x.dir
        PROVE  \/ \E f \in E : f.from = r /\ f.dir = d
               \/ \E f \in E : f.to = r /\ d = Opposite(f.dir)
    BY <2>2 DEF Exits
  <2>3. ASSUME NEW f \in E, f.from = r PROVE [dir |-> f.dir, to |-> f.to] \in Exits(E, r)
    BY <2>3 DEF Exits
  <2>4. ASSUME NEW f \in E, f.to = r PROVE [dir |-> Opposite(f.dir), to |-> f.from] \in Exits(E, r)
    BY <2>4 DEF Exits
  <2>5. ASSUME NEW f \in E, f.from = r, f.dir = d PROVE \E x \in Exits(E, r) : d = x.dir
    <3>1. [dir |-> f.dir, to |-> f.to].dir = d BY <2>5
    <3> QED BY <2>3, <2>5, <3>1
  <2>6. ASSUME NEW f \in E, f.to = r, d = Opposite(f.dir) PROVE \E x \in Exits(E, r) : d = x.dir
    <3>1. [dir |-> Opposite(f.dir), to |-> f.from].dir = d BY <2>6
    <3> QED BY <2>4, <2>6, <3>1
  <2> QED BY <2>1, <2>2, <2>5, <2>6
<1>2. \A f \in E : f.from # next /\ f.to # next BY DEF Planned, Visited
<1>3. \A d : d \notin UsedDirs(E, next) BY <1>1, <1>2
<1> QED BY <1>1, <1>3, DirFacts DEF FreeDirs

\* assignDirections gives the next child of a room the first free direction.
NewEdge(E, curr, next) ==
  [from |-> curr, to |-> next, dir |-> preferredDirs[Min(FreeDirs(E, curr, next))]]
LEMMA OneMore ==
  ASSUME NEW t, IsTree(t), NEW E, Planned(t, E), NEW curr \in Visited(E), NEW next \in Kids(t, curr),
         next \notin Visited(E), \A m \in Kids(t, curr) : Ahead(m, next) => m \in Visited(E),
         FreeDirs(E, curr, next) # {}
  PROVE  /\ Planned(t, E \cup {NewEdge(E, curr, next)})
         /\ Visited(E \cup {NewEdge(E, curr, next)}) = Visited(E) \cup {next}
<1> DEFINE free == FreeDirs(E, curr, next)
           d == NewEdge(E, curr, next)
           i == Min(free)
           F == E \cup {d}
<1>1. free = {j \in 1..6 : preferredDirs[j] \notin UsedDirs(E, curr)} BY FreeFacts
<1>2. i \in free /\ \A j \in free : i <= j
  <2>1. free \in SUBSET Nat BY <1>1
  <2> QED BY <2>1, MinOfNaturals
<1>3. d = [from |-> curr, to |-> next, dir |-> preferredDirs[i]] BY DEF NewEdge
<1>parts. d.from = curr /\ d.to = next /\ d.dir = preferredDirs[i] BY <1>3
<1> HIDE DEF i, d, free
<1>4. i \in 1..6 /\ preferredDirs[i] \notin UsedDirs(E, curr) BY <1>1, <1>2
<1>5. \A j \in 1..6 : j < i => preferredDirs[j] \in UsedDirs(E, curr) BY <1>1, <1>2, <1>4
<1>6. \A x : x \in UsedDirs(E, curr) <=> \/ \E f \in E : f.from = curr /\ f.dir = x
                                         \/ \E f \in E : f.to = curr /\ x = Opposite(f.dir)
  BY FreeFacts
<1>7. Visited(F) = Visited(E) \cup {next} BY <1>parts DEF Visited
<1>8. next \in Dungeon(t) \ {Start} /\ Host(t, next) = curr BY DEF Kids
<1>9. \A e \in E : e.to \in Visited(E) /\ e.from \in Visited(E) BY DEF Planned, Visited
<1>10. IsFiniteSet(F) BY FS_AddElement DEF Planned
<1>11. ASSUME NEW e \in F
       PROVE  /\ e = [from |-> e.from, to |-> e.to, dir |-> e.dir]
              /\ e.to \in Dungeon(t) \ {Start} /\ e.from = Host(t, e.to)
              /\ e.from \in Visited(F) /\ e.dir \in Dirs
  <2>1. CASE e \in E BY <1>7, <2>1 DEF Planned
  <2>2. CASE e = d
    <3>1. d = [from |-> d.from, to |-> d.to, dir |-> d.dir] BY <1>3, <1>parts
    <3>2. d.dir \in Dirs BY <1>parts, <1>4 DEF Dirs
    <3> QED BY <1>parts, <1>7, <1>8, <2>2, <3>1, <3>2
  <2> QED BY <2>1, <2>2
<1>12. \A e, f \in F : e.to = f.to => e = f BY <1>parts, <1>9 DEF Planned
<1>13. \A e \in E : e.from = curr => e.dir # d.dir BY <1>parts, <1>4, <1>6
<1>14. \A e, f \in F : e.from = f.from /\ e.dir = f.dir => e = f BY <1>parts, <1>13 DEF Planned
<1>15. ASSUME NEW e \in F, NEW f \in F, e.to = f.from PROVE Opposite(e.dir) # f.dir
  <2>1. CASE e \in E /\ f \in E BY <1>15, <2>1 DEF Planned
  <2>2. CASE e \in E /\ f = d BY <1>parts, <1>4, <1>6, <1>15, <2>2
  <2>3. CASE e = d BY <1>parts, <1>9, <1>15, <2>3
  <2> QED BY <2>1, <2>2, <2>3
<1>16. ASSUME NEW e \in F, NEW m \in Kids(t, e.from), Ahead(m, e.to) PROVE m \in Visited(F)
  <2>1. CASE e \in E BY <1>7, <1>16, <2>1 DEF Planned
  <2>2. CASE e = d BY <1>parts, <1>7, <1>16, <2>2
  <2> QED BY <2>1, <2>2
<1>17. ASSUME NEW e \in F, NEW j \in 1..6, NEW k \in 1..6, j < k, e.dir = preferredDirs[k]
       PROVE  \/ WayBack(F, e.from, j)
              \/ \E f \in F : f.from = e.from /\ f.dir = preferredDirs[j] /\ Ahead(f.to, e.to)
  <2>1. CASE e \in E
    <3>1. \/ WayBack(E, e.from, j)
          \/ \E f \in E : f.from = e.from /\ f.dir = preferredDirs[j] /\ Ahead(f.to, e.to)
      BY <1>17, <2>1 DEF Planned
    <3> QED BY <3>1 DEF WayBack
  <2>2. CASE e = d
    <3>1. k = i BY <1>parts, <1>4, <1>17, <2>2, DirFacts
    <3>2. preferredDirs[j] \in UsedDirs(E, curr) BY <1>5, <1>17, <3>1
    <3>3. CASE \E f \in E : f.to = curr /\ preferredDirs[j] = Opposite(f.dir)
      BY <1>parts, <2>2, <3>3 DEF WayBack
    <3>4. CASE \E f \in E : f.from = curr /\ f.dir = preferredDirs[j]
      <4>1. PICK f \in E : f.from = curr /\ f.dir = preferredDirs[j] BY <3>4
      <4>2. f.to \in Dungeon(t) \ {Start} /\ Host(t, f.to) = curr /\ f.to \in Visited(E)
        BY <1>9, <4>1 DEF Planned
      <4>3. f.to # next BY <4>2
      <4>4. Ahead(f.to, next) \/ Ahead(next, f.to) BY <1>8, <4>2, <4>3, AheadOrders
      <4>5. ~Ahead(next, f.to) BY <4>1 DEF Planned
      <4> QED BY <1>parts, <2>2, <4>1, <4>4, <4>5
    <3> QED BY <1>6, <3>2, <3>3, <3>4
  <2> QED BY <2>1, <2>2
<1> HIDE DEF F
<1>18. Planned(t, F)
  <2>1. \A e \in F : \A m \in Kids(t, e.from) : Ahead(m, e.to) => m \in Visited(F) BY <1>16
  <2>2. \A e \in F : \A j, k \in 1..6 : j < k /\ e.dir = preferredDirs[k] =>
          \/ WayBack(F, e.from, j)
          \/ \E f \in F : f.from = e.from /\ f.dir = preferredDirs[j] /\ Ahead(f.to, e.to)
    BY <1>17
  <2> QED BY <1>10, <1>11, <1>12, <1>14, <1>15, <2>1, <2>2, Zenon DEF Planned
<1> QED BY <1>7, <1>18 DEF F, d

-----------------------------------------------------------------------------
(* The rooms that can be reached.                                          *)

\* The rooms of some edges, and the walks of k steps from the start to n on
\* which one may also wait.
Ends(E) == {Start} \cup {e.from : e \in E} \cup {e.to : e \in E}
StepTo(E, m, n) == n = m \/ n \in Neighbours(E, m)
Walks(E, k, n) ==
  {w \in [0..k -> Ends(E)] :
     w[0] = Start /\ w[k] = n /\ \A i \in 0..(k - 1) : StepTo(E, w[i], w[i + 1])}

\* A room's neighbours.
LEMMA NeighbourForm ==
  ASSUME NEW E, NEW m, NEW n
  PROVE  n \in Neighbours(E, m) <=> \/ \E e \in E : e.from = m /\ e.to = n
                                    \/ \E e \in E : e.to = m /\ e.from = n
<1>1. ASSUME n \in Neighbours(E, m)
      PROVE  (\E e \in E : e.from = m /\ e.to = n) \/ (\E e \in E : e.to = m /\ e.from = n)
  BY <1>1 DEF Neighbours, Exits
<1>2. ASSUME NEW e \in E, e.from = m, e.to = n PROVE n \in Neighbours(E, m)
  <2>1. [dir |-> e.dir, to |-> e.to] \in Exits(E, m) BY <1>2 DEF Exits
  <2>2. [dir |-> e.dir, to |-> e.to].to = n BY <1>2
  <2> QED BY <2>1, <2>2 DEF Neighbours
<1>3. ASSUME NEW e \in E, e.to = m, e.from = n PROVE n \in Neighbours(E, m)
  <2>1. [dir |-> Opposite(e.dir), to |-> e.from] \in Exits(E, m) BY <1>3 DEF Exits
  <2>2. [dir |-> Opposite(e.dir), to |-> e.from].to = n BY <1>3
  <2> QED BY <2>1, <2>2 DEF Neighbours
<1> QED BY <1>1, <1>2, <1>3

\* What k + 1 steps reach is what one more step reaches after k.
LEMMA WalksGrow ==
  ASSUME NEW E, NEW k \in Nat, NEW n
  PROVE  Walks(E, k + 1, n) # {} <=> \E m : Walks(E, k, m) # {} /\ StepTo(E, m, n)
<1> DEFINE U == Ends(E)
<1>1. ASSUME NEW w \in Walks(E, k + 1, n)
      PROVE  \E m : Walks(E, k, m) # {} /\ StepTo(E, m, n)
  <2> DEFINE v == [i \in 0..k |-> w[i]]
  <2>1. /\ w \in [0..(k + 1) -> U] /\ w[0] = Start /\ w[k + 1] = n
        /\ \A i \in 0..(k + 1 - 1) : StepTo(E, w[i], w[i + 1])
    BY DEF Walks
  <2>2. \A i \in 0..k : i \in 0..(k + 1) /\ i \in 0..(k + 1 - 1) OBVIOUS
  <2>3. v \in [0..k -> U] BY <2>1, <2>2
  <2>4. k \in 0..k /\ 0 \in 0..k /\ \A i \in 0..(k - 1) : i \in 0..k /\ i + 1 \in 0..k OBVIOUS
  <2>5. v[0] = Start /\ v[k] = w[k] /\ \A i \in 0..(k - 1) : StepTo(E, v[i], v[i + 1])
    BY <2>1, <2>2, <2>4
  <2> HIDE DEF v
  <2>6. v \in Walks(E, k, w[k]) BY <2>3, <2>5 DEF Walks
  <2>7. StepTo(E, w[k], n) BY <2>1, <2>2, <2>4
  <2> QED BY <2>6, <2>7
<1>2. ASSUME NEW m, NEW w \in Walks(E, k, m), StepTo(E, m, n) PROVE Walks(E, k + 1, n) # {}
  <2> DEFINE v == [i \in 0..(k + 1) |-> IF i = k + 1 THEN n ELSE w[i]]
  <2>1. /\ w \in [0..k -> U] /\ w[0] = Start /\ w[k] = m
        /\ \A i \in 0..(k - 1) : StepTo(E, w[i], w[i + 1])
    BY DEF Walks
  <2>2. k \in 0..k OBVIOUS
  <2>3. m \in U BY <2>1, <2>2
  <2>4. n \in U BY <1>2, <2>3, NeighbourForm DEF StepTo, Ends
  <2>5. \A i \in 0..(k + 1) : i = k + 1 \/ i \in 0..k OBVIOUS
  <2>6. \A i \in 0..k : i # k + 1 /\ i \in 0..(k + 1) OBVIOUS
  <2>7. v \in [0..(k + 1) -> U] BY <2>1, <2>4, <2>5
  <2>8. 0 \in 0..k /\ k + 1 \in 0..(k + 1) OBVIOUS
  <2>9. \A i \in 0..k : v[i] = w[i] BY <2>6
  <2>10. v[0] = Start /\ v[k + 1] = n BY <2>1, <2>8, <2>9
  <2> HIDE DEF v
  <2>11. ASSUME NEW i \in 0..(k + 1 - 1) PROVE StepTo(E, v[i], v[i + 1])
    <3>1. CASE i = k BY <1>2, <2>1, <2>2, <2>9, <2>10, <3>1
    <3>2. CASE i # k
      <4>1. i \in 0..(k - 1) /\ i \in 0..k /\ i + 1 \in 0..k BY <3>2
      <4> QED BY <2>1, <2>9, <4>1
    <3> QED BY <3>1, <3>2
  <2>12. v \in Walks(E, k + 1, n) BY <2>7, <2>10, <2>11 DEF Walks
  <2> QED BY <2>12
<1> QED BY <1>1, <1>2

\* The recursive definition of Ball defines a function, that of the ends of
\* the walks.
LEMMA BallFacts ==
  ASSUME NEW E
  PROVE  /\ Ball(E)[0] = {Start}
         /\ \A k \in Nat : \A n : n \in Ball(E)[k + 1] <=> \E m \in Ball(E)[k] : StepTo(E, m, n)
<1> DEFINE D(g, k) == IF k = 0 THEN {Start}
                      ELSE g[k - 1] \cup UNION {Neighbours(E, n) : n \in g[k - 1]}
           G == [k \in Nat |-> {n \in Ends(E) : Walks(E, k, n) # {}}]
<1>1. \A k \in Nat : \A n : n \in G[k] <=> Walks(E, k, n) # {}
  <2> TAKE k \in Nat
  <2> TAKE n
  <2>1. k \in 0..k OBVIOUS
  <2>2. Walks(E, k, n) # {} => n \in Ends(E) BY <2>1 DEF Walks
  <2> QED BY <2>2
<1>2. G[0] = {Start}
  <2>1. ASSUME NEW n, NEW w \in Walks(E, 0, n) PROVE n = Start BY DEF Walks
  <2>2. [i \in 0..0 |-> Start] \in Walks(E, 0, Start) BY DEF Walks, Ends
  <2>3. \A n : n \in G[0] <=> Walks(E, 0, n) # {} BY <1>1
  <2> QED BY <2>1, <2>2, <2>3
<1>3. \A k \in Nat : G[k + 1] = G[k] \cup UNION {Neighbours(E, n) : n \in G[k]}
  <2> TAKE k \in Nat
  <2>1. \A n : n \in G[k + 1] <=> \E m : m \in G[k] /\ StepTo(E, m, n)
    <3>1. k + 1 \in Nat OBVIOUS
    <3> QED BY <1>1, <3>1, WalksGrow
  <2> HIDE DEF G
  <2> QED BY <2>1 DEF StepTo
<1>4. G = [k \in Nat |-> D(G, k)]
  <2>1. \A k \in Nat : G[k] = D(G, k)
    <3> TAKE k \in Nat
    <3>1. CASE k = 0 BY <1>2, <3>1
    <3>2. CASE k # 0
      <4>1. k - 1 \in Nat /\ (k - 1) + 1 = k BY <3>2
      <4>2. G[(k - 1) + 1] = G[k - 1] \cup UNION {Neighbours(E, n) : n \in G[k - 1]} BY <1>3, <4>1
      <4> HIDE DEF G
      <4> QED BY <3>2, <4>1, <4>2
    <3> QED BY <3>1, <3>2
  <2>2. G = [k \in Nat |-> G[k]] OBVIOUS
  <2> HIDE DEF G
  <2> QED BY <2>1, <2>2
<1> HIDE DEF G
<1>5. Ball(E) = CHOOSE g : g = [k \in Nat |-> D(g, k)] BY DEF Ball
<1>6. Ball(E) = [k \in Nat |-> D(Ball(E), k)] BY <1>4, <1>5
<1> DEFINE g == Ball(E)
<1> HIDE DEF g
<1>7. g[0] = {Start} BY <1>6 DEF g
<1>8. \A k \in Nat : g[k + 1] = g[k] \cup UNION {Neighbours(E, n) : n \in g[k]}
  <2> TAKE k \in Nat
  <2>1. k + 1 \in Nat /\ k + 1 # 0 /\ k + 1 - 1 = k OBVIOUS
  <2>2. g[k + 1] = D(g, k + 1) BY <1>6, <2>1 DEF g
  <2> QED BY <2>1, <2>2
<1>9. \A k \in Nat : \A n : n \in g[k + 1] <=> \E m \in g[k] : StepTo(E, m, n)
  BY <1>8 DEF StepTo
<1> QED BY <1>7, <1>9 DEF g

\* More steps reach no less.
LEMMA BallGrows ==
  ASSUME NEW E, NEW k \in Nat, NEW l \in Nat, k <= l PROVE Ball(E)[k] \subseteq Ball(E)[l]
<1> DEFINE T == {j \in Nat : k <= j => Ball(E)[k] \subseteq Ball(E)[j]}
<1>1. 0 \in T
  <2>1. k <= 0 => k = 0 OBVIOUS
  <2> QED BY <2>1
<1>2. ASSUME NEW j \in T PROVE j + 1 \in T
  <2>1. j \in Nat /\ j + 1 \in Nat OBVIOUS
  <2>2. Ball(E)[j] \subseteq Ball(E)[j + 1] BY <2>1, BallFacts DEF StepTo
  <2>3. k <= j + 1 => k <= j \/ k = j + 1 BY <2>1
  <2> QED BY <2>1, <2>2, <2>3
<1> HIDE DEF T
<1>3. T \in SUBSET Nat BY DEF T
<1>4. \A j \in Nat : j \in T BY <1>1, <1>2, <1>3, SetInduction
<1> QED BY <1>4 DEF T

\* More edges reach no less.
LEMMA BallWider ==
  ASSUME NEW E, NEW F, E \subseteq F, NEW l \in Nat PROVE Ball(E)[l] \subseteq Ball(F)[l]
<1> DEFINE T == {j \in Nat : Ball(E)[j] \subseteq Ball(F)[j]}
<1>1. 0 \in T BY BallFacts
<1>2. ASSUME NEW j \in T PROVE j + 1 \in T
  <2>1. j \in Nat /\ j + 1 \in Nat OBVIOUS
  <2>2. ASSUME NEW n \in Ball(E)[j + 1] PROVE n \in Ball(F)[j + 1]
    <3>1. PICK m \in Ball(E)[j] : StepTo(E, m, n) BY <2>1, <2>2, BallFacts
    <3>2. StepTo(F, m, n) BY <3>1, NeighbourForm DEF StepTo
    <3>3. m \in Ball(F)[j] OBVIOUS
    <3> QED BY <2>1, <3>2, <3>3, BallFacts
  <2> QED BY <2>1, <2>2
<1> HIDE DEF T
<1>3. T \in SUBSET Nat BY DEF T
<1>4. \A j \in Nat : j \in T BY <1>1, <1>2, <1>3, SetInduction
<1> QED BY <1>4 DEF T

\* Nothing is reached but rooms of the graph.
LEMMA BallInside ==
  ASSUME NEW E, NEW U, Ends(E) \subseteq U, NEW l \in Nat PROVE Ball(E)[l] \subseteq U
<1> DEFINE T == {j \in Nat : Ball(E)[j] \subseteq U}
<1>1. 0 \in T BY BallFacts DEF Ends
<1>2. ASSUME NEW j \in T PROVE j + 1 \in T
  <2>1. j \in Nat /\ j + 1 \in Nat OBVIOUS
  <2>2. ASSUME NEW n \in Ball(E)[j + 1] PROVE n \in U
    <3>1. PICK m \in Ball(E)[j] : StepTo(E, m, n) BY <2>1, <2>2, BallFacts
    <3>2. m \in U OBVIOUS
    <3> QED BY <3>1, <3>2, NeighbourForm DEF StepTo, Ends
  <2> QED BY <2>1, <2>2
<1> HIDE DEF T
<1>3. T \in SUBSET Nat BY DEF T
<1>4. \A j \in Nat : j \in T BY <1>1, <1>2, <1>3, SetInduction
<1> QED BY <1>4 DEF T

\* An edge from a room that is reached reaches one more.
LEMMA ReachMore ==
  ASSUME NEW E, IsFiniteSet(E), Visited(E) \subseteq Reached(E),
         NEW d, d \notin E, d.from \in Visited(E)
  PROVE  Visited(E \cup {d}) \subseteq Reached(E \cup {d})
<1> DEFINE F == E \cup {d}
           k == Cardinality(E)
<1>1. k \in Nat /\ k + 1 \in Nat /\ Cardinality(F) = k + 1 BY FS_CardinalityType, FS_AddElement
<1>2. E \subseteq F /\ d \in F OBVIOUS
<1>3. Visited(F) = Visited(E) \cup {d.to} BY DEF Visited
<1> HIDE DEF F, k
<1>4. Visited(E) \subseteq Ball(F)[k] BY <1>1, <1>2, BallWider DEF Reached, k
<1>5. Ball(F)[k] \subseteq Ball(F)[k + 1]
  <2>1. k <= k + 1 BY <1>1
  <2> QED BY <1>1, <2>1, BallGrows
<1>6. StepTo(F, d.from, d.to) BY <1>2, NeighbourForm DEF StepTo
<1>7. d.to \in Ball(F)[k + 1] BY <1>1, <1>4, <1>6, BallFacts
<1>8. Visited(F) \subseteq Reached(F) BY <1>1, <1>3, <1>4, <1>5, <1>7 DEF Reached
<1> QED BY <1>8 DEF F

\* The start is reached without an edge.
LEMMA ReachNone == IsFiniteSet({}) /\ Visited({}) \subseteq Reached({})
<1>1. IsFiniteSet({}) /\ Cardinality({}) = 0 BY FS_EmptySet
<1> QED BY <1>1, BallFacts DEF Visited, Reached

-----------------------------------------------------------------------------
(* The finished graph.                                                     *)

\* When every room of the dungeon has been met.
Complete(t, g) ==
  /\ g.nodes = Dungeon(t) /\ Visited(g.edges) = Dungeon(t)
  /\ Planned(t, g.edges) /\ Visited(g.edges) \subseteq Reached(g.edges)

\* At most one edge of a room leaves in each direction.
LEMMA SixExits ==
  ASSUME NEW t, NEW E, Planned(t, E), NEW n
  PROVE  Degree(E, n) \in Nat /\ Degree(E, n) <= 6
<1> DEFINE I == {e \in E : n \in {e.from, e.to}}
           Out(e) == IF e.from = n THEN e.dir ELSE Opposite(e.dir)
           x(e) == CHOOSE i \in 1..6 : preferredDirs[i] = Out(e)
           f == [e \in I |-> x(e)]
           T == 1..6
<1>1. ASSUME NEW e \in I PROVE Out(e) \in Dirs
  <2>1. e.dir \in Dirs BY DEF Planned
  <2> QED BY <2>1, DirFacts
<1> HIDE DEF Out
<1>2. ASSUME NEW e \in I PROVE x(e) \in 1..6 /\ preferredDirs[x(e)] = Out(e)
  <2>1. \E i \in 1..6 : preferredDirs[i] = Out(e) BY <1>1 DEF Dirs
  <2> QED BY <2>1
<1> HIDE DEF x
<1>3. f \in [I -> T] BY <1>2
<1>4. ASSUME NEW e \in I, NEW g \in I, f[e] = f[g] PROVE e = g
  <2>1. Out(e) = Out(g) BY <1>2, <1>4
  <2>2. e \in E /\ g \in E OBVIOUS
  <2>3. CASE e.from = n /\ g.from = n BY <2>1, <2>2, <2>3 DEF Out, Planned
  <2>4. CASE e.from # n /\ g.from # n
    <3>1. e.to = n /\ g.to = n BY <2>4
    <3> QED BY <2>2, <3>1 DEF Planned
  <2>5. CASE e.from = n /\ g.from # n
    <3>1. g.to = e.from /\ Opposite(g.dir) = e.dir BY <2>1, <2>5 DEF Out
    <3> QED BY <2>2, <3>1 DEF Planned
  <2>6. CASE e.from # n /\ g.from = n
    <3>1. e.to = g.from /\ Opposite(e.dir) = g.dir BY <2>1, <2>6 DEF Out
    <3> QED BY <2>2, <3>1 DEF Planned
  <2> QED BY <2>3, <2>4, <2>5, <2>6
<1>5. IsFiniteSet(T) /\ Cardinality(T) = 6
  <2>1. 6 \in Nat OBVIOUS
  <2> QED BY <2>1, UpTo
<1> HIDE DEF f, T, I
<1>6. Cardinality(I) \in Nat /\ Cardinality(I) <= 6 BY <1>3, <1>4, <1>5, OneToOne
<1> QED BY <1>6 DEF I, Degree

\* The start is a room of every dungeon.
LEMMA StartInside == ASSUME NEW t, IsTree(t) PROVE Start \in Dungeon(t)
<1>1. Start = Hub(<<>>, 0) /\ Start.path = <<>> /\ Start.hub = 0 BY DEF Start, Hub, Room
<1>2. Corridors(t, <<>>) \in Nat /\ <<>> \in t BY CorridorCount DEF IsTree
<1>3. Start \in Rooms(t, {}) BY <1>1, <1>2, RoomForm
<1> QED BY <1>3, NothingLeft

\* A finished graph passes Graph.Validate and the keys of the store.
LEMMA CompleteValid ==
  ASSUME NEW t, IsTree(t), NEW g, Complete(t, g)
  PROVE  GraphValid(g) /\ KeysUnique(g.edges)
<1> DEFINE E == g.edges
<1>1. Planned(t, E) /\ g.nodes = Dungeon(t) BY DEF Complete
<1>2. \A e \in E : e.from \in Dungeon(t) /\ e.to \in Dungeon(t)
  BY <1>1 DEF Planned, Complete
<1>3. Start \in Dungeon(t) BY StartInside
<1>4. Reached(E) = Dungeon(t)
  <2>1. Ends(E) \subseteq Dungeon(t) BY <1>2, <1>3 DEF Ends
  <2>2. Cardinality(E) \in Nat BY <1>1, FS_CardinalityType DEF Planned
  <2>3. Reached(E) \subseteq Dungeon(t) BY <2>1, <2>2, BallInside DEF Reached
  <2> QED BY <2>3 DEF Complete
<1>5. \A n : Degree(E, n) <= 6 BY <1>1, SixExits
<1>6. GraphValid(g) BY <1>1, <1>2, <1>3, <1>4, <1>5 DEF GraphValid
<1>7. ASSUME NEW e \in E, NEW f \in E, e # f
      PROVE  /\ <<e.from, e.dir>> # <<f.from, f.dir>>
             /\ <<e.to, Opposite(e.dir)>> # <<f.to, Opposite(f.dir)>>
  <2>1. e.to # f.to /\ ~(e.from = f.from /\ e.dir = f.dir) BY <1>1, <1>7 DEF Planned
  <2> QED BY <2>1
<1>8. KeysUnique(E) BY <1>7 DEF KeysUnique
<1> QED BY <1>6, <1>8

-----------------------------------------------------------------------------
(* The search from the start.                                              *)

\* The edges with a direction and the queue: what is queued has been met, and
\* of a room that has been met and is no longer queued, so have all children.
Search(t, E, q) ==
  /\ Planned(t, E) /\ Visited(E) \subseteq Reached(E)
  /\ q \in Seq(Visited(E))
  /\ \A n \in Visited(E) : (\A i \in 1..Len(q) : q[i] # n) => Kids(t, n) \subseteq Visited(E)

\* The neighbours of a queued room that the search has not met are children of
\* it, and all its children that have not been met are among them.
FreshIn(r, E, n) == {e \in r.edges : n \in {e.from, e.to} /\ OtherEnd(e, n) \notin Visited(E)}
LEMMA FreshKids ==
  ASSUME NEW t, IsTree(t), NEW r, RawIs(t, {}, r), NEW E, Planned(t, E), NEW curr \in Visited(E)
  PROVE  /\ \A e \in FreshIn(r, E, curr) : /\ e.from = curr /\ OtherEnd(e, curr) = e.to
                             /\ e.to \in Kids(t, curr) /\ e.to \notin Visited(E)
         /\ \A m \in Kids(t, curr) : m \notin Visited(E) => \E e \in FreshIn(r, E, curr) : e.to = m
<1> DEFINE fresh == FreshIn(r, E, curr)
<1>1. \A e \in r.edges : e.to \in Dungeon(t) \ {Start} /\ e.from = Host(t, e.to)
  BY NothingLeft DEF RawIs
<1>2. ASSUME NEW e \in fresh
      PROVE  /\ e.from = curr /\ OtherEnd(e, curr) = e.to
             /\ e.to \in Kids(t, curr) /\ e.to \notin Visited(E)
  <2>1. e \in r.edges /\ curr \in {e.from, e.to} /\ OtherEnd(e, curr) \notin Visited(E)
    BY DEF FreshIn
  <2>2. e.from = curr
    <3> SUFFICES ASSUME e.from # curr PROVE FALSE
      OBVIOUS
    <3>1. e.to = curr /\ e.from \notin Visited(E) BY <2>1 DEF OtherEnd
    <3>2. curr # Start BY <1>1, <2>1, <3>1
    <3>3. PICK f \in E : f.to = curr BY <3>2 DEF Visited
    <3>4. f.from = Host(t, curr) /\ f.from \in Visited(E) BY <3>3 DEF Planned
    <3> QED BY <1>1, <2>1, <3>1, <3>4
  <2>3. OtherEnd(e, curr) = e.to BY <2>2 DEF OtherEnd
  <2> QED BY <1>1, <2>1, <2>2, <2>3 DEF Kids
<1>3. ASSUME NEW m \in Kids(t, curr), m \notin Visited(E) PROVE \E e \in fresh : e.to = m
  <2>1. m \in Dungeon(t) \ {Start} /\ Host(t, m) = curr BY DEF Kids
  <2>2. PICK e \in r.edges : e.to = m BY <2>1, NothingLeft DEF RawIs
  <2>3. e.from = curr BY <1>1, <2>1, <2>2
  <2>4. OtherEnd(e, curr) = m BY <2>2, <2>3 DEF OtherEnd
  <2>5. e \in fresh BY <1>3, <2>3, <2>4 DEF FreshIn
  <2> QED BY <2>2, <2>5
<1> QED BY <1>2, <1>3

\* The search begins at the start.
LEMMA SearchBegins == ASSUME NEW t, IsTree(t) PROVE Search(t, {}, <<Start>>)
<1>1. Visited({}) = {Start} BY DEF Visited
<1>2. Planned(t, {}) BY ReachNone DEF Planned
<1>3. <<Start>> \in Seq({Start}) /\ Len(<<Start>>) = 1 /\ <<Start>>[1] = Start OBVIOUS
<1>4. 1 \in 1..1 OBVIOUS
<1> QED BY <1>1, <1>2, <1>3, <1>4, ReachNone DEF Search

\* The next neighbour gets its direction.
LEMMA SearchGoesOn ==
  ASSUME NEW t, IsTree(t), NEW r, RawIs(t, {}, r), NEW E, NEW q, Search(t, E, q), q # <<>>,
         NEW curr, curr = Head(q), NEW e \in FreshIn(r, E, curr),
         \A f \in FreshIn(r, E, curr) : e.at <= f.at, NEW next, next = OtherEnd(e, curr)
  PROVE  /\ curr \in Visited(E) /\ next \in Kids(t, curr) /\ next \notin Visited(E)
         /\ FreeDirs(E, curr, next) # {} =>
              Search(t, E \cup {NewEdge(E, curr, next)}, Append(q, next))
<1> DEFINE fresh == FreshIn(r, E, curr)
           d == NewEdge(E, curr, next)
<1>1. Planned(t, E) /\ Visited(E) \subseteq Reached(E) /\ q \in Seq(Visited(E)) BY DEF Search
<1>2. curr \in Visited(E) BY <1>1, HeadTailProperties
<1>fresh. /\ \A f \in fresh : /\ f.from = curr /\ OtherEnd(f, curr) = f.to
                            /\ f.to \in Kids(t, curr) /\ f.to \notin Visited(E)
      /\ \A m \in Kids(t, curr) : m \notin Visited(E) => \E f \in fresh : f.to = m
  BY <1>1, <1>2, FreshKids
<1>3. next = e.to /\ next \in Kids(t, curr) /\ next \notin Visited(E) /\ e.from = curr
  BY <1>fresh
<1>4. ASSUME NEW m \in Kids(t, curr), Ahead(m, next) PROVE m \in Visited(E)
  <2> SUFFICES ASSUME m \notin Visited(E) PROVE FALSE
    OBVIOUS
  <2>1. PICK f \in fresh : f.to = m BY <1>fresh
  <2>2. f.from = curr BY <1>fresh
  <2>3. f \in r.edges /\ e \in r.edges BY DEF FreshIn
  <2>4. f.at < e.at /\ f.at \in Nat /\ e.at \in Nat BY <1>3, <1>4, <2>1, <2>2, <2>3 DEF RawIs
  <2>5. e.at <= f.at OBVIOUS
  <2> QED BY <2>4, <2>5
<1>5. ASSUME FreeDirs(E, curr, next) # {} PROVE Search(t, E \cup {d}, Append(q, next))
  <2> DEFINE F == E \cup {d}
             u == Append(q, next)
  <2>1. Planned(t, F) /\ Visited(F) = Visited(E) \cup {next}
    <3>1. \A m \in Kids(t, curr) : Ahead(m, next) => m \in Visited(E) BY <1>4
    <3> QED BY <1>1, <1>2, <1>3, <1>5, <3>1, OneMore
  <2>2. d.from = curr /\ d.to = next BY DEF NewEdge
  <2> HIDE DEF d
  <2>3. d \notin E BY <1>3, <2>2 DEF Visited
  <2>4. Visited(F) \subseteq Reached(F)
    <3>1. IsFiniteSet(E) BY <1>1 DEF Planned
    <3> QED BY <1>1, <1>2, <2>2, <2>3, <3>1, ReachMore
  <2> HIDE DEF F
  <2> DEFINE V == Visited(F)
  <2>5. Visited(E) \subseteq V /\ next \in V BY <2>1
  <2>6. q \in Seq(V)
    <3>1. Len(q) \in Nat /\ DOMAIN q = 1..Len(q) /\ \A i \in 1..Len(q) : q[i] \in Visited(E)
      BY <1>1, ElementOfSeq, LenProperties
    <3>2. q = [i \in 1..Len(q) |-> q[i]] BY <1>1, <3>1
    <3> QED BY <1>1, <2>5, <3>1, <3>2
  <2> HIDE DEF V
  <2>7. /\ u \in Seq(V) /\ Len(u) = Len(q) + 1 /\ u[Len(q) + 1] = next
        /\ \A i \in 1..Len(q) : u[i] = q[i]
    BY <2>5, <2>6, AppendProperties
  <2> HIDE DEF u
  <2>8. ASSUME NEW n \in V, \A i \in 1..Len(u) : u[i] # n PROVE Kids(t, n) \subseteq V
    <3>1. Len(q) \in Nat BY <1>1, LenProperties
    <3>2. Len(q) + 1 \in 1..Len(u) /\ \A i \in 1..Len(q) : i \in 1..Len(u) BY <2>7, <3>1
    <3>3. n # next BY <2>7, <2>8, <3>2
    <3>4. n \in Visited(E) BY <2>1, <3>3 DEF V
    <3>5. \A i \in 1..Len(q) : q[i] # n BY <2>7, <2>8, <3>2
    <3>6. Kids(t, n) \subseteq Visited(E) BY <3>4, <3>5 DEF Search
    <3> QED BY <2>5, <3>6
  <2> QED BY <2>1, <2>4, <2>7, <2>8 DEF Search, F, u, V, d
<1> QED BY <1>2, <1>3, <1>5

\* A room all of whose children have been met leaves the queue.
LEMMA SearchLeaves ==
  ASSUME NEW t, IsTree(t), NEW r, RawIs(t, {}, r), NEW E, NEW q, Search(t, E, q), q # <<>>,
         FreshIn(r, E, Head(q)) = {}
  PROVE  Search(t, E, Tail(q))
<1> DEFINE curr == Head(q)
           u == Tail(q)
           V == Visited(E)
<1>1. Planned(t, E) /\ q \in Seq(V) BY DEF Search
<1> HIDE DEF V
<1>2. curr \in V /\ u \in Seq(V) /\ Len(u) = Len(q) - 1 /\ \A i \in 1..Len(u) : u[i] = q[i + 1]
  BY <1>1, HeadTailProperties
<1>3. Len(q) \in Nat \ {0} /\ q[1] = curr BY <1>1, EmptySeq, LenProperties
<1> HIDE DEF u, curr
<1>4. Kids(t, curr) \subseteq V
  <2> DEFINE fresh == FreshIn(r, E, curr)
  <2>1. fresh = {} BY DEF curr
  <2>2. \A m \in Kids(t, curr) : m \notin Visited(E) => \E e \in fresh : e.to = m
    <3>1. curr \in Visited(E) BY <1>2 DEF V
    <3> QED BY <1>1, <3>1, FreshKids
  <2> QED BY <2>1, <2>2 DEF V
<1>5. ASSUME NEW n \in V, \A i \in 1..Len(u) : u[i] # n PROVE Kids(t, n) \subseteq V
  <2>1. CASE n = curr BY <1>4, <2>1
  <2>2. CASE n # curr
    <3>1. ASSUME NEW i \in 1..Len(q) PROVE q[i] # n
      <4>1. CASE i = 1 BY <1>3, <2>2, <4>1
      <4>2. CASE i # 1
        <5>1. i - 1 \in 1..Len(u) /\ (i - 1) + 1 = i BY <1>2, <1>3, <4>2
        <5>2. u[i - 1] = q[(i - 1) + 1] BY <1>2, <5>1
        <5> QED BY <1>5, <5>1, <5>2
      <4> QED BY <4>1, <4>2
    <3> QED BY <3>1 DEF Search, V
  <2> QED BY <2>1, <2>2
<1>6. Search(t, E, u) BY <1>2, <1>5 DEF Search, V
<1> QED BY <1>6 DEF u

\* When the queue is empty every room has been met: a room that has not, with
\* the shortest path and the smallest number among those, hangs on one that
\* has.
LEMMA SearchEnds ==
  ASSUME NEW t, IsTree(t), NEW E, Search(t, E, <<>>)
  PROVE  Visited(E) = Dungeon(t)
<1> DEFINE V == Visited(E)
           M == Dungeon(t) \ V
<1>1. \A n \in V : Kids(t, n) \subseteq V
  <2>1. 1..Len(<<>>) = {} OBVIOUS
  <2> QED BY <2>1 DEF Search
<1>2. V \subseteq Dungeon(t) /\ Start \in V BY StartInside DEF Search, Planned, Visited
<1> HIDE DEF V
<1>3. \A n \in Dungeon(t) : n.path \in t /\ n.path \in Seq(Nat) /\ Len(n.path) \in Nat /\ n.hub \in Nat
  <2> TAKE n \in Dungeon(t)
  <2>1. n.path \in t /\ n.hub \in Nat BY NothingLeft, RoomForm
  <2> QED BY <2>1, LenProperties DEF IsTree
<1>4. ASSUME M # {} PROVE FALSE
  <2> DEFINE A == {Len(n.path) : n \in M}
             B == {m.hub : m \in {n \in M : Len(n.path) = Min(A)}}
  <2>1. A \in SUBSET Nat /\ A # {} BY <1>3, <1>4
  <2>2. Min(A) \in A /\ \A y \in A : Min(A) <= y BY <2>1, MinOfNaturals
  <2>3. B \in SUBSET Nat /\ B # {} BY <1>3, <2>2
  <2>4. Min(B) \in B /\ \A y \in B : Min(B) <= y BY <2>3, MinOfNaturals
  <2>5. PICK n \in M : Len(n.path) = Min(A) /\ n.hub = Min(B) BY <2>4
  <2>6. n \in Dungeon(t) \ {Start} BY <1>2
  <2> DEFINE h == Host(t, n)
  <2>7. h \in Dungeon(t) /\ n \in Kids(t, h) BY <2>6, HostForm DEF Kids
  <2>8. h \in M BY <1>1, <2>7
  <2>9. Len(n.path) <= Len(h.path) BY <2>2, <2>5, <2>8
  <2>10. CASE IsHub(n)
    <3>1. n.hub \in Nat \ {0} /\ h = Hub(n.path, n.hub - 1) BY <2>6, <2>10, HostForm
    <3>2. h.path = n.path /\ h.hub = n.hub - 1 BY <3>1, HubParts
    <3>3. h.hub \in B BY <2>5, <2>8, <3>2
    <3>4. n.hub <= h.hub BY <2>4, <2>5, <3>3
    <3> QED BY <3>1, <3>2, <3>4
  <2>11. CASE ~IsHub(n)
    <3>1. h.path = Front(n.path) /\ n.path \in Seq(Nat) /\ n.path # <<>>
      BY <1>3, <2>6, <2>11, HostForm
    <3>2. Len(n.path) \in Nat /\ Len(h.path) = Len(n.path) - 1 BY <3>1, PathParts
    <3> QED BY <2>9, <3>2
  <2> QED BY <2>10, <2>11
<1> QED BY <1>2, <1>4 DEF V

-----------------------------------------------------------------------------
(* Trees that are too wide.                                                *)

\* The place of a direction in the list, and the edge into a room.
Index(d) == CHOOSE i \in 1..6 : preferredDirs[i] = d
EdgeTo(E, n) == CHOOSE e \in E : e.to = n

\* Both are determined.
LEMMA IndexFacts ==
  /\ \A d \in Dirs : Index(d) \in 1..6 /\ preferredDirs[Index(d)] = d
  /\ \A c, d \in Dirs : Index(c) = Index(d) => c = d
<1>1. ASSUME NEW d \in Dirs PROVE Index(d) \in 1..6 /\ preferredDirs[Index(d)] = d
  <2>1. \E i \in 1..6 : preferredDirs[i] = d BY DEF Dirs
  <2> QED BY <2>1 DEF Index
<1> QED BY <1>1

\* In a finished graph a room has its edge from the room it hangs on.
LEMMA EdgeToFacts ==
  ASSUME NEW t, NEW g, Complete(t, g), NEW n \in Dungeon(t) \ {Start}
  PROVE  LET e == EdgeTo(g.edges, n)
         IN  e \in g.edges /\ e.to = n /\ e.from = Host(t, n) /\ e.dir \in Dirs
<1>1. \E e \in g.edges : e.to = n BY DEF Complete, Visited
<1>2. EdgeTo(g.edges, n) \in g.edges /\ EdgeTo(g.edges, n).to = n BY <1>1 DEF EdgeTo
<1> QED BY <1>2 DEF Complete, Planned

\* No direction is left for a child only in a tree that is too wide: the six
\* exits lead to five other children and back.
LEMMA StuckIsWide ==
  ASSUME NEW t, IsTree(t), NEW E, Planned(t, E), NEW curr \in Visited(E), NEW next \in Kids(t, curr),
         next \notin Visited(E), FreeDirs(E, curr, next) = {}
  PROVE  TooWide(t)
<1> SUFFICES ASSUME ~TooWide(t) PROVE FALSE
  OBVIOUS
<1> DEFINE K == Kids(t, curr)
           S == 1..6
           Onto(i) == \E f \in E : f.from = curr /\ f.dir = preferredDirs[i]
           x(i) == CHOOSE f \in E : f.from = curr /\ f.dir = preferredDirs[i]
           h == [i \in S |-> IF Onto(i) THEN x(i).to ELSE next]
<1>1. curr \in Dungeon(t) BY StartInside DEF Planned, Visited
<1>2. IsFiniteSet(K) /\ Cardinality(K) <= 5 BY <1>1, FewKids
<1>3. ASSUME NEW i \in S, ~Onto(i) PROVE \E f \in E : f.to = curr /\ preferredDirs[i] = Opposite(f.dir)
  <2>1. FreeDirs(E, curr, next) = {j \in 1..6 : preferredDirs[j] \notin UsedDirs(E, curr)} BY FreeFacts
  <2>2. preferredDirs[i] \in UsedDirs(E, curr) BY <2>1
  <2> QED BY <1>3, <2>2, FreeFacts
<1>4. ASSUME NEW i \in S, Onto(i)
      PROVE  /\ x(i) \in E /\ x(i).from = curr /\ x(i).dir = preferredDirs[i]
             /\ x(i).to \in K /\ x(i).to \in Visited(E)
  <2>1. x(i) \in E /\ x(i).from = curr /\ x(i).dir = preferredDirs[i] BY <1>4
  <2> QED BY <2>1 DEF Planned, Visited, Kids
<1> HIDE DEF x, K
<1>5. h \in [S -> K] BY <1>4 DEF K
<1>6. ASSUME NEW i \in S, NEW j \in S, h[i] = h[j] PROVE i = j
  <2>1. CASE Onto(i) /\ Onto(j)
    <3>1. x(i).to = x(j).to BY <1>6, <2>1
    <3>2. x(i) = x(j) BY <1>4, <2>1, <3>1 DEF Planned
    <3>3. preferredDirs[i] = preferredDirs[j] BY <1>4, <2>1, <3>2
    <3> QED BY <3>3, DirFacts
  <2>2. CASE ~Onto(i) /\ ~Onto(j)
    <3>1. PICK f \in E : f.to = curr /\ preferredDirs[i] = Opposite(f.dir) BY <1>3, <2>2
    <3>2. PICK g \in E : g.to = curr /\ preferredDirs[j] = Opposite(g.dir) BY <1>3, <2>2
    <3>3. f = g BY <3>1, <3>2 DEF Planned
    <3> QED BY <3>1, <3>2, <3>3, DirFacts
  <2>3. CASE Onto(i) /\ ~Onto(j) BY <1>4, <1>6, <2>3
  <2>4. CASE ~Onto(i) /\ Onto(j) BY <1>4, <1>6, <2>4
  <2> QED BY <2>1, <2>2, <2>3, <2>4
<1>7. Cardinality(S) = 6
  <2>1. 6 \in Nat OBVIOUS
  <2> QED BY <2>1, UpTo
<1> HIDE DEF h, S
<1>8. Cardinality(S) \in Nat /\ Cardinality(K) \in Nat /\ Cardinality(S) <= Cardinality(K)
  BY <1>2, <1>5, <1>6, OneToOne
<1> QED BY <1>2, <1>7, <1>8

\* A tree that is too wide has no finished graph: some corridor would need
\* seven directions, six for its children and the one back.
LEMMA FinishedFits ==
  ASSUME NEW t, IsTree(t), NEW g, Complete(t, g)
  PROVE  ~TooWide(t)
<1> SUFFICES ASSUME TooWide(t) PROVE FALSE
  OBVIOUS
<1>1. PICK r \in Dungeon(t) \ {Start} : \E f \in [1..6 -> Kids(t, r)] :
        \A i, j \in 1..6 : f[i] = f[j] => i = j
  BY ManyKids
<1>2. PICK f \in [1..6 -> Kids(t, r)] : \A i, j \in 1..6 : f[i] = f[j] => i = j BY <1>1
<1> DEFINE E == g.edges
           back == EdgeTo(E, r)
           x(i) == EdgeTo(E, f[i])
           D(i) == IF i = 7 THEN Opposite(back.dir) ELSE x(i).dir
           h == [i \in 1..7 |-> Index(D(i))]
           S == 1..7
           T == 1..6
<1>3. Planned(t, E) BY DEF Complete
<1>4. back \in E /\ back.to = r /\ back.dir \in Dirs BY EdgeToFacts
<1>5. ASSUME NEW i \in 1..6
      PROVE  x(i) \in E /\ x(i).to = f[i] /\ x(i).from = r /\ x(i).dir \in Dirs
  <2>1. f[i] \in Dungeon(t) \ {Start} /\ Host(t, f[i]) = r BY DEF Kids
  <2> QED BY <2>1, EdgeToFacts
<1> HIDE DEF back, x
<1>6. \A i \in 1..7 : i = 7 \/ (i \in 1..6 /\ i # 7) OBVIOUS
<1>7. \A i \in 1..7 : D(i) \in Dirs BY <1>4, <1>5, <1>6, DirFacts
<1>8. ASSUME NEW i \in 1..6 PROVE D(i) # D(7)
  <2>1. D(i) = x(i).dir /\ D(7) = Opposite(back.dir) OBVIOUS
  <2> QED BY <1>3, <1>4, <1>5, <2>1 DEF Planned
<1>9. ASSUME NEW i \in 1..7, NEW j \in 1..7, D(i) = D(j) PROVE i = j
  <2>1. CASE i = 7 \/ j = 7 BY <1>6, <1>8, <1>9, <2>1
  <2>2. CASE i # 7 /\ j # 7
    <3>1. i \in 1..6 /\ j \in 1..6 /\ x(i).dir = x(j).dir BY <1>6, <1>9, <2>2
    <3>2. x(i) = x(j) BY <1>3, <1>5, <3>1 DEF Planned
    <3>3. f[i] = f[j] BY <1>5, <3>1, <3>2
    <3> QED BY <1>2, <3>1, <3>3
  <2> QED BY <2>1, <2>2
<1> HIDE DEF D
<1>10. h \in [S -> T] BY <1>7, IndexFacts
<1>11. \A i, j \in S : h[i] = h[j] => i = j BY <1>7, <1>9, IndexFacts
<1>12. IsFiniteSet(T) /\ Cardinality(T) = 6 /\ Cardinality(S) = 7
  <2>1. 6 \in Nat /\ 7 \in Nat OBVIOUS
  <2> QED BY <2>1, UpTo
<1> HIDE DEF h, S, T
<1>13. Cardinality(S) <= Cardinality(T) BY <1>10, <1>11, <1>12, OneToOne
<1> QED BY <1>12, <1>13

-----------------------------------------------------------------------------
(* The directions of the finished graph.                                   *)

\* The number of onward directions before one, and of children before one.
LEMMA PlannedDoors ==
  ASSUME NEW t, IsTree(t), NEW g, Complete(t, g), NEW n \in Dungeon(t) \ {Start}
  PROVE  LET on == Onward(g.edges, Host(t, n))
             i == Index(EdgeTo(g.edges, n).dir)
         IN  /\ i \in on
             /\ Cardinality({j \in on : j < i}) =
                Cardinality({m \in Dungeon(t) \ {Start} : Host(t, m) = Host(t, n) /\ Ahead(m, n)})
             /\ \A k \in on : Cardinality({j \in on : j < k}) = Cardinality({j \in on : j < i}) => k = i
<1> DEFINE E == g.edges
           H == Host(t, n)
           on == Onward(E, H)
           x(m) == EdgeTo(E, m)
           y(m) == Index(x(m).dir)
           i == y(n)
           A == {m \in Dungeon(t) \ {Start} : Host(t, m) = H /\ Ahead(m, n)}
           B == {j \in on : j < i}
           f == [m \in A |-> y(m)]
<1>1. Planned(t, E) BY DEF Complete
<1>2. ASSUME NEW m \in Dungeon(t) \ {Start}, Host(t, m) = H
      PROVE  /\ x(m) \in E /\ x(m).to = m /\ x(m).from = H /\ x(m).dir \in Dirs
             /\ y(m) \in 1..6 /\ preferredDirs[y(m)] = x(m).dir
  BY <1>2, EdgeToFacts, IndexFacts
<1>3. on = {j \in 1..6 : ~WayBack(E, H, j)} BY DirFacts DEF Onward, WayBack
<1> HIDE DEF x, on
<1>4. ASSUME NEW m \in Dungeon(t) \ {Start}, Host(t, m) = H PROVE y(m) \in on
  <2>1. ~WayBack(E, H, y(m))
    <3> SUFFICES ASSUME NEW e \in E, e.to = H, preferredDirs[y(m)] = Opposite(e.dir) PROVE FALSE
      BY DEF WayBack
    <3> QED BY <1>1, <1>2, <1>4 DEF Planned
  <2> QED BY <1>2, <1>3, <1>4, <2>1
<1> HIDE DEF y
<1>5. ASSUME NEW m \in A PROVE y(m) \in B
  <2>1. m \in Dungeon(t) \ {Start} /\ Host(t, m) = H /\ Ahead(m, n) OBVIOUS
  <2>2. /\ x(m) \in E /\ x(m).to = m /\ x(m).from = H /\ preferredDirs[y(m)] = x(m).dir
        /\ y(m) \in 1..6 /\ y(m) \in on
    BY <1>2, <1>4, <2>1
  <2>3. x(n) \in E /\ x(n).to = n /\ x(n).from = H /\ preferredDirs[i] = x(n).dir /\ i \in 1..6 /\ i \in on
    BY <1>2, <1>4
  <2>4. ~Ahead(n, m) BY <2>1, AheadOrders
  <2>5. y(m) # i
    <3>1. m # n BY <2>1, <2>4
    <3> QED BY <1>1, <2>2, <2>3, <3>1 DEF Planned
  <2>6. ~(i < y(m))
    <3> SUFFICES ASSUME i < y(m) PROVE FALSE
      OBVIOUS
    <3>1. \/ WayBack(E, H, i)
          \/ \E e \in E : e.from = H /\ e.dir = preferredDirs[i] /\ Ahead(e.to, m)
      BY <1>1, <2>2, <2>3 DEF Planned
    <3>2. PICK e \in E : e.from = H /\ e.dir = preferredDirs[i] /\ Ahead(e.to, m)
      BY <1>3, <2>3, <3>1
    <3>3. e = x(n) BY <1>1, <2>3, <3>2 DEF Planned
    <3> QED BY <2>3, <2>4, <3>2, <3>3
  <2>7. y(m) < i BY <2>2, <2>3, <2>5, <2>6
  <2> QED BY <2>2, <2>7
<1>6. f \in [A -> B] BY <1>5
<1>7. ASSUME NEW m \in A, NEW k \in A, f[m] = f[k] PROVE m = k
  <2>1. y(m) = y(k) BY <1>7
  <2>2. /\ x(m) \in E /\ x(m).to = m /\ x(m).from = H /\ preferredDirs[y(m)] = x(m).dir
        /\ x(k) \in E /\ x(k).to = k /\ x(k).from = H /\ preferredDirs[y(k)] = x(k).dir
    BY <1>2
  <2>3. x(m) = x(k) BY <1>1, <2>1, <2>2 DEF Planned
  <2> QED BY <2>2, <2>3
<1>8. ASSUME NEW j \in B PROVE \E m \in A : f[m] = j
  <2>1. x(n) \in E /\ x(n).to = n /\ x(n).from = H /\ preferredDirs[i] = x(n).dir /\ i \in 1..6
    BY <1>2
  <2>2. j \in 1..6 /\ j < i /\ ~WayBack(E, H, j) BY <1>3
  <2>3. \/ WayBack(E, H, j)
        \/ \E e \in E : e.from = H /\ e.dir = preferredDirs[j] /\ Ahead(e.to, n)
    BY <1>1, <2>1, <2>2 DEF Planned
  <2>4. PICK e \in E : e.from = H /\ e.dir = preferredDirs[j] /\ Ahead(e.to, n) BY <2>2, <2>3
  <2>5. e.to \in Dungeon(t) \ {Start} /\ Host(t, e.to) = H BY <1>1, <2>4 DEF Planned
  <2>6. e.to \in A BY <2>4, <2>5
  <2>7. x(e.to) \in E /\ x(e.to).to = e.to /\ preferredDirs[y(e.to)] = x(e.to).dir /\ y(e.to) \in 1..6
    BY <1>2, <2>5
  <2>8. x(e.to) = e BY <1>1, <2>7 DEF Planned
  <2>9. y(e.to) = j BY <2>2, <2>4, <2>7, <2>8, DirFacts
  <2> QED BY <2>6, <2>9
<1>9. IsFiniteSet(on) /\ IsFiniteSet(B)
  <2>1. 6 \in Nat OBVIOUS
  <2>2. IsFiniteSet(1..6) BY <2>1, UpTo
  <2>3. on \in SUBSET (1..6) BY <1>3
  <2>4. IsFiniteSet(on) BY <2>2, <2>3, FS_Subset
  <2>5. B \in SUBSET on OBVIOUS
  <2> QED BY <2>4, <2>5, FS_Subset
<1>10. i \in on BY <1>4
<1>11. ASSUME NEW k \in on, Cardinality({j \in on : j < k}) = Cardinality({j \in on : j < i})
       PROVE  k = i
  <2> DEFINE v == [j \in on |-> j]
  <2>1. v \in [on -> Int] BY <1>3
  <2>2. \A j, l \in on : v[j] = v[l] => j = l OBVIOUS
  <2>3. \A l \in on : Rank(on, v, l) = Cardinality({j \in on : j < l})
    <3> TAKE l \in on
    <3>1. {j \in on : v[j] < v[l]} = {j \in on : j < l} OBVIOUS
    <3> QED BY <3>1 DEF Rank
  <2>4. k \in Int /\ i \in Int BY <1>3, <1>10
  <2>5. v[k] = k /\ v[i] = i BY <1>10
  <2> HIDE DEF v
  <2>6. /\ \A l \in on : Rank(on, v, l) \in 0..(Cardinality(on) - 1)
        /\ \A l, m \in on : v[l] < v[m] => Rank(on, v, l) < Rank(on, v, m)
    BY <1>9, <2>1, <2>2, Ranks
  <2>7. Rank(on, v, k) = Rank(on, v, i) BY <1>10, <1>11, <2>3
  <2>8. Rank(on, v, k) \in Int
    <3>1. Cardinality(on) \in Nat BY <1>9, FS_CardinalityType
    <3> QED BY <2>6, <3>1
  <2>9. ~(k < i) /\ ~(i < k) BY <1>10, <2>5, <2>6, <2>7, <2>8
  <2> QED BY <2>4, <2>9
<1> HIDE DEF f, A, B
<1>12. Cardinality(B) = Cardinality(A)
  <2>1. IsFiniteSet(A) BY <1>6, <1>7, <1>9, OneToOne
  <2> QED BY <1>6, <1>7, <1>8, <2>1, SameSize
<1> QED BY <1>10, <1>11, <1>12 DEF A, B, on, x, y

-----------------------------------------------------------------------------
(* The graph of a run.                                                     *)

\* A room that may have enemies has a tier.
LEMMA TierFacts ==
  ASSUME IsFiniteSet(graph.edges), NEW n, Distance(graph.edges, n) > 0
  PROVE  TierIndex(n) \in 0..(Tiers - 1)
<1> DEFINE E == graph.edges
           c == Cardinality(E)
           A == {k \in 0..c : n \in Ball(E)[k]}
           B == {k \in 0..c : Ball(E)[k] = Reached(E)}
           d == Distance(E, n)
           m == MaxDistance(E)
<1>1. c \in Nat BY FS_CardinalityType
<1>2. d \in Nat
  <2>1. n \in Reached(E)
    <3> SUFFICES ASSUME n \notin Reached(E) PROVE FALSE
      OBVIOUS
    <3>1. d = -1 BY DEF Distance
    <3> QED BY <3>1
  <2>2. d = Min(A) BY <2>1 DEF Distance
  <2>3. c \in 0..c BY <1>1
  <2>4. c \in A BY <2>1, <2>3 DEF Reached
  <2>5. A \in SUBSET Nat /\ A # {} BY <1>1, <2>4
  <2> HIDE DEF A, d
  <2>6. Min(A) \in A BY <2>5, MinOfNaturals
  <2> QED BY <2>2, <2>5, <2>6
<1>3. m \in Nat
  <2>1. c \in 0..c BY <1>1
  <2>2. c \in B BY <2>1 DEF Reached
  <2>3. B \in SUBSET Nat /\ B # {} BY <1>1, <2>2
  <2>4. m = Min(B) BY DEF MaxDistance
  <2> HIDE DEF B, m
  <2>5. Min(B) \in B BY <2>3, MinOfNaturals
  <2> QED BY <2>3, <2>4, <2>5
<1>4. Tiers \in Nat \ {0} BY ScengenAssumption
<1> DEFINE q == (d * Tiers) \div (m + 1)
<1>5. TierIndex(n) = Min({Tiers - 1, q}) BY DEF TierIndex
<1> HIDE DEF d, m
<1>6. d * Tiers \in Nat /\ m + 1 \in Nat \ {0} BY <1>2, <1>3, <1>4
<1>7. q \in Nat
  <2> DEFINE a == d * Tiers
             b == m + 1
  <2>1. a \in Nat /\ b \in Nat \ {0} BY <1>6
  <2> HIDE DEF a, b
  <2>2. a \div b \in Nat BY <2>1
  <2> QED BY <2>2 DEF a, b
<1> HIDE DEF q
<1>8. {Tiers - 1, q} \in SUBSET Nat /\ {Tiers - 1, q} # {} BY <1>4, <1>7
<1>9. TierIndex(n) \in {Tiers - 1, q} /\ TierIndex(n) <= Tiers - 1 BY <1>5, <1>8, MinOfNaturals
<1> QED BY <1>4, <1>7, <1>9

\* The edges with a direction are those of a search, and of a finished graph
\* once there are no more rooms to take from the queue; what is in the store
\* is a finished graph; enemies are of a tier that there is; and no check has
\* refused anything.
GraphInv ==
  /\ stage = "assign" => graph.nodes = Dungeon(tree) /\ Search(tree, graph.edges, queue)
  /\ stage \in {"graph", "enemies", "filled", "writing", "written", "removing", "swap", "swapped", "done"}
       => Complete(tree, graph)
  /\ db = NoGraph \/ Complete(tree, db)
  /\ stage = "nodirection" => TooWide(tree)
  /\ \A n \in DOMAIN content.enemies : content.enemies[n] \in 0..(Tiers - 1)
  /\ stage = "swapped" => out = "new"
  /\ stage # "invalid"

\* All that is known of a run.
RunInv == RawInv /\ CorridorInv /\ SwapInv /\ GraphInv

\* What is loaded at the end is a scenario that scenario.Validate accepts.
LEMMA ScenarioAccepted == RunInv /\ stage = "swapped" => out = "new" /\ ScenarioValid
<1> SUFFICES ASSUME RunInv, stage = "swapped" PROVE out = "new" /\ ScenarioValid
  OBVIOUS
<1>1. IsTree(tree) BY ScengenAssumption DEF RunInv, RawInv
<1>2. Complete(tree, graph) /\ out = "new" BY DEF RunInv, GraphInv
<1>3. GraphValid(graph) BY <1>1, <1>2, CompleteValid
<1>4. Start \in graph.nodes /\ \A e \in graph.edges : e.from \in graph.nodes /\ e.to \in graph.nodes
  BY <1>3 DEF GraphValid
<1>5. ASSUME NEW n \in graph.nodes, NEW x \in Exits(graph.edges, n) PROVE x.to \in graph.nodes
  <2>1. x.to \in Neighbours(graph.edges, n) BY DEF Neighbours
  <2> QED BY <1>4, <2>1, NeighbourForm
<1>6. \A n \in DOMAIN content.enemies : content.enemies[n] \in 0..(Tiers - 1)
  BY DEF RunInv, GraphInv
<1> QED BY <1>2, <1>4, <1>5, <1>6 DEF ScenarioValid

\* A neighbour gets its direction, or the tree is too wide.
LEMMA AssignStep ==
  ASSUME RunInv, NEW e \in raw.edges, AssignOne(e) PROVE GraphInv'
<1> DEFINE E == graph.edges
           curr == Head(queue)
           next == OtherEnd(e, curr)
           free == FreeDirs(E, curr, next)
<1>1. /\ stage = "assign" /\ queue # <<>> /\ e \in Fresh(curr) /\ \A f \in Fresh(curr) : e.at <= f.at
      /\ UNCHANGED <<tree, db, content>>
  BY DEF AssignOne
<1>2. IsTree(tree) /\ RawIs(tree, {}, raw) BY <1>1, ScengenAssumption DEF RunInv, RawInv
<1>3. graph.nodes = Dungeon(tree) /\ Search(tree, E, queue) BY <1>1 DEF RunInv, GraphInv
<1>4. e \in FreshIn(raw, E, curr) /\ \A f \in FreshIn(raw, E, curr) : e.at <= f.at
  <2>1. Fresh(curr) = FreshIn(raw, E, curr) BY DEF Fresh, FreshIn
  <2> QED BY <1>1, <2>1
<1> HIDE DEF curr, next
<1>5. /\ curr \in Visited(E) /\ next \in Kids(tree, curr) /\ next \notin Visited(E)
      /\ free # {} => Search(tree, E \cup {NewEdge(E, curr, next)}, Append(queue, next))
  <2>1. curr = Head(queue) /\ next = OtherEnd(e, curr) BY DEF curr, next
  <2> QED BY <1>1, <1>2, <1>3, <1>4, <2>1, SearchGoesOn
<1>6. CASE free = {}
  <2>1. stage' = "nodirection" BY <1>6 DEF AssignOne, curr, next
  <2>2. Planned(tree, E) BY <1>3 DEF Search
  <2>3. TooWide(tree) BY <1>2, <1>5, <1>6, <2>2, StuckIsWide
  <2> QED BY <1>1, <2>1, <2>3 DEF RunInv, GraphInv
<1>7. CASE free # {}
  <2>1. /\ graph' = [graph EXCEPT !.edges = E \cup {NewEdge(E, curr, next)}]
        /\ queue' = Append(queue, next) /\ stage' = stage
    BY <1>7 DEF AssignOne, curr, next, NewEdge
  <2>2. graph'.nodes = graph.nodes /\ graph'.edges = E \cup {NewEdge(E, curr, next)}
    BY <2>1 DEF RunInv, CorridorInv, IsGraph
  <2>3. Search(tree', graph'.edges, queue') BY <1>1, <1>5, <1>7, <2>1, <2>2
  <2> QED BY <1>1, <1>3, <2>1, <2>2, <2>3 DEF RunInv, GraphInv
<1> QED BY <1>6, <1>7

\* Every step keeps what is known of the graph.
LEMMA GraphStep == RunInv /\ [Next]_vars => GraphInv'
<1> SUFFICES ASSUME RunInv, [Next]_vars PROVE GraphInv'
  OBVIOUS
<1>1. IsTree(tree) BY ScengenAssumption DEF RunInv, RawInv
<1>2. GraphInv BY DEF RunInv
<1>3. CASE Walk \/ IDClash \/ (\E n \in todo : InsertHubs(n))
  BY <1>2, <1>3 DEF Walk, IDClash, InsertHubs, GraphInv
<1>4. CASE AddNodes
  <2>1. /\ stage' = "assign" /\ queue' = <<Start>> /\ UNCHANGED <<tree, db, content>>
        /\ graph'.nodes = raw.nodes /\ graph'.edges = {} /\ todo = {} /\ stage = "hubs"
    BY <1>4 DEF AddNodes
  <2>2. raw.nodes = Dungeon(tree) BY <2>1, NothingLeft DEF RunInv, RawInv, RawIs
  <2>3. Search(tree, {}, <<Start>>) BY <1>1, SearchBegins
  <2> QED BY <1>2, <2>1, <2>2, <2>3 DEF GraphInv
<1>5. CASE \E e \in raw.edges : AssignOne(e) BY <1>5, AssignStep
<1>6. CASE Dequeue
  <2>1. /\ stage = "assign" /\ queue # <<>> /\ Fresh(Head(queue)) = {} /\ queue' = Tail(queue)
        /\ UNCHANGED <<stage, tree, graph, db, content>>
    BY <1>6 DEF Dequeue
  <2>2. RawIs(tree, {}, raw) BY <2>1 DEF RunInv, RawInv
  <2>3. FreshIn(raw, graph.edges, Head(queue)) = {} BY <2>1 DEF Fresh, FreshIn
  <2>4. Search(tree, graph.edges, queue) BY <1>2, <2>1 DEF GraphInv
  <2>5. Search(tree, graph.edges, Tail(queue)) BY <1>1, <2>1, <2>2, <2>3, <2>4, SearchLeaves
  <2> QED BY <1>2, <2>1, <2>5 DEF GraphInv
<1>7. CASE Validate
  <2>1. /\ stage = "assign" /\ queue = <<>> /\ UNCHANGED <<tree, graph, db, content>>
        /\ stage' = IF GraphValid(graph) THEN "graph" ELSE "invalid"
    BY <1>7 DEF Validate
  <2>2. graph.nodes = Dungeon(tree) /\ Search(tree, graph.edges, <<>>) BY <1>2, <2>1 DEF GraphInv
  <2>3. Visited(graph.edges) = Dungeon(tree) BY <1>1, <2>2, SearchEnds
  <2>4. Complete(tree, graph) BY <2>2, <2>3 DEF Search, Complete
  <2>5. stage' = "graph" BY <1>1, <2>1, <2>4, CompleteValid
  <2> QED BY <1>2, <2>1, <2>4, <2>5 DEF GraphInv
<1>8. CASE SaveGraph
  <2>1. stage = "graph" /\ UNCHANGED <<tree, graph, content>> BY <1>8 DEF SaveGraph
  <2>2. Complete(tree, graph) BY <1>2, <2>1 DEF GraphInv
  <2>3. KeysUnique(graph.edges) BY <1>1, <2>2, CompleteValid
  <2>4. db' = [graph EXCEPT !.hubs = {}] /\ stage' = stage BY <1>8, <2>3 DEF SaveGraph
  <2>5. db'.nodes = graph.nodes /\ db'.edges = graph.edges BY <2>4 DEF RunInv, CorridorInv, IsGraph
  <2>6. Complete(tree, db') BY <2>2, <2>5 DEF Complete
  <2> QED BY <1>2, <2>1, <2>2, <2>4, <2>6 DEF GraphInv
<1>9. CASE LoadGraph
  <2>1. /\ db # NoGraph /\ graph' = db /\ UNCHANGED <<tree, db>> /\ content' = NoContent
        /\ stage' = IF GraphValid(db) THEN "graph" ELSE "invalid"
    BY <1>9 DEF LoadGraph
  <2>2. Complete(tree, db) BY <1>2, <2>1 DEF GraphInv
  <2>3. stage' = "graph" BY <1>1, <2>1, <2>2, CompleteValid
  <2> QED BY <2>1, <2>2, <2>3, NoEnemies DEF GraphInv
<1>10. CASE SpawnEnemies
  <2>1. stage = "graph" /\ stage' = "enemies" /\ UNCHANGED <<tree, graph, db>>
    BY <1>10 DEF SpawnEnemies
  <2>2. PICK S \in SUBSET SpawnRooms : \E f \in [S -> -1..Tiers] :
          /\ \A n \in S : f[n] \in Jitter(TierIndex(n))
          /\ content' = [content EXCEPT !.enemies = f]
    BY <1>10 DEF SpawnEnemies
  <2>3. PICK f \in [S -> -1..Tiers] : /\ \A n \in S : f[n] \in Jitter(TierIndex(n))
                                      /\ content' = [content EXCEPT !.enemies = f]
    BY <2>2
  <2>4. content'.enemies = f BY <2>3 DEF RunInv, CorridorInv
  <2>5. Complete(tree, graph) BY <1>2, <2>1 DEF GraphInv
  <2>6. IsFiniteSet(graph.edges) BY <2>5 DEF Complete, Planned
  <2>7. ASSUME NEW n \in S PROVE f[n] \in 0..(Tiers - 1)
    <3>1. TierIndex(n) \in 0..(Tiers - 1) BY <2>6, TierFacts DEF SpawnRooms
    <3>2. f[n] \in Jitter(TierIndex(n)) BY <2>3
    <3>3. Tiers \in Nat \ {0} BY ScengenAssumption
    <3> DEFINE a == TierIndex(n)
    <3> HIDE DEF a
    <3>4. \A x \in Jitter(a) : x \in 0..(Tiers - 1) BY <3>1, <3>3 DEF Jitter, a
    <3> QED BY <3>2, <3>4 DEF a
  <2> QED BY <1>2, <2>1, <2>4, <2>5, <2>7 DEF GraphInv
<1>11. CASE PlaceItems
  <2>1. stage = "enemies" /\ stage' = "filled" /\ UNCHANGED <<tree, graph, db>>
    BY <1>11 DEF PlaceItems
  <2>2. PICK items : content' = [content EXCEPT !.items = items] BY <1>11 DEF PlaceItems
  <2>3. content'.enemies = content.enemies BY <2>2 DEF RunInv, CorridorInv
  <2> QED BY <1>2, <2>1, <2>3 DEF GraphInv
<1>12. CASE CleanTmp \/ WriteTmp \/ RemoveOutput \/ Rename
  BY <1>2, <1>12 DEF CleanTmp, WriteTmp, RemoveOutput, Rename, GraphInv, RunInv, SwapInv
<1>13. CASE IOError \/ Crash
  BY <1>2, <1>13 DEF IOError, Crash, GraphInv
<1>14. CASE SelfValidate
  BY <1>2, <1>14, ScenarioAccepted DEF SelfValidate, GraphInv
<1>15. CASE GenerateAgain
  BY <1>2, <1>15, NoEnemies DEF GenerateAgain, GraphInv
<1>16. CASE UNCHANGED vars
  BY <1>2, <1>16 DEF vars, GraphInv
<1> QED
  BY <1>3, <1>4, <1>5, <1>6, <1>7, <1>8, <1>9, <1>10, <1>11, <1>12, <1>13, <1>14, <1>15, <1>16
  DEF Next

\* All of it holds throughout.
LEMMA RunInvariant == Spec => []RunInv
<1>1. Init => RunInv
  <2>1. Init => CorridorInv
    BY NoEnemies DEF Init, CorridorInv, IsGraph, NoGraph, NoContent, Marked
  <2>2. Init => SwapInv BY DEF Init, SwapInv
  <2>3. Init => GraphInv BY NoEnemies DEF Init, GraphInv
  <2> QED BY <2>1, <2>2, <2>3, RawInit DEF RunInv
<1>2. RunInv /\ [Next]_vars => RunInv'
  BY RawStep, CorridorStep, SwapStep, GraphStep DEF RunInv
<1>3. QED
  BY <1>1, <1>2, PTL DEF Spec

\* Generation fails for want of directions in trees that are too wide, and
\* succeeds only in others: nine directories in one always fit.
THEOREM NineAlwaysFit == Spec => []NineFit
<1>1. RunInv => NineFit
  <2> SUFFICES ASSUME RunInv PROVE NineFit
    OBVIOUS
  <2>1. IsTree(tree) BY ScengenAssumption DEF RunInv, RawInv
  <2>2. stage = "nodirection" => TooWide(tree) BY DEF RunInv, GraphInv
  <2>3. stage \in {"graph", "enemies", "filled", "done"} => Complete(tree, graph)
    BY DEF RunInv, GraphInv
  <2> QED BY <2>1, <2>2, <2>3, FinishedFits DEF NineFit
<1>2. QED
  BY <1>1, RunInvariant, PTL

\* Graph.Validate, the keys of the store and scenario.Validate refuse nothing
\* that generate and export make of a tree.
THEOREM ChecksAccept == Spec => []NeverInvalid
<1>1. RunInv => NeverInvalid BY DEF RunInv, GraphInv, NeverInvalid
<1>2. QED
  BY <1>1, RunInvariant, PTL

\* The tree alone determines the rooms and the direction of every edge,
\* whatever order the corridors were inserted in and whether or not the graph
\* went through the store.
THEOREM TreeDeterminesDungeon == Spec => []DirectionsAsPlanned
<1>1. RunInv => DirectionsAsPlanned
  <2> SUFFICES ASSUME RunInv, stage = "graph" PROVE DirectionsAsPlanned
    BY DEF DirectionsAsPlanned
  <2> DEFINE t == tree
             E == graph.edges
             rooms == Dungeon(t) \ {Start}
             on(n) == Onward(E, Host(t, n))
             Door(n, i) ==
               /\ i \in on(n)
               /\ Cardinality({j \in on(n) : j < i}) =
                  Cardinality({m \in rooms : Host(t, m) = Host(t, n) /\ Ahead(m, n)})
             Edge(n, i) == [from |-> Host(t, n), to |-> n, dir |-> preferredDirs[i]]
             P == {x \in rooms \X DOMAIN preferredDirs : Door(x[1], x[2])}
  <2>1. IsTree(t) /\ Complete(t, graph) BY ScengenAssumption DEF RunInv, RawInv, GraphInv
  <2>2. ASSUME NEW n \in rooms
        PROVE  LET e == EdgeTo(E, n)
               IN  /\ e \in E /\ e.to = n /\ Index(e.dir) \in 1..6 /\ e = Edge(n, Index(e.dir))
                   /\ Door(n, Index(e.dir)) /\ \A k \in 1..6 : Door(n, k) => k = Index(e.dir)
    <3> DEFINE e == EdgeTo(E, n)
               i == Index(e.dir)
    <3>1. e \in E /\ e.to = n /\ e.from = Host(t, n) /\ e.dir \in Dirs BY <2>1, EdgeToFacts
    <3>2. i \in 1..6 /\ preferredDirs[i] = e.dir BY <3>1, IndexFacts
    <3>3. e = [from |-> e.from, to |-> e.to, dir |-> e.dir] BY <2>1, <3>1 DEF Complete, Planned
    <3>4. e = Edge(n, i) BY <3>1, <3>2, <3>3
    <3>5. /\ Door(n, i)
          /\ \A k \in on(n) : Cardinality({j \in on(n) : j < k}) =
                              Cardinality({j \in on(n) : j < i}) => k = i
      BY <2>1, PlannedDoors
    <3>6. \A k \in 1..6 : Door(n, k) => k = i BY <3>5
    <3> QED BY <3>1, <3>2, <3>4, <3>5, <3>6
  <2> HIDE DEF Door
  <2>3. DOMAIN preferredDirs = 1..6 BY DirFacts
  <2>4. ASSUME NEW e \in E PROVE \E x \in P : e = Edge(x[1], x[2])
    <3> DEFINE n == e.to
               x == <<n, Index(e.dir)>>
    <3>1. n \in rooms BY <2>1 DEF Complete, Planned
    <3>2. EdgeTo(E, n) = e BY <2>1, <2>2, <3>1 DEF Complete, Planned
    <3>3. x[1] = n /\ x[2] = Index(e.dir) /\ x \in rooms \X DOMAIN preferredDirs BY <2>2, <2>3, <3>1, <3>2
    <3>4. Door(x[1], x[2]) /\ e = Edge(x[1], x[2]) BY <2>2, <3>1, <3>2, <3>3
    <3> QED BY <3>3, <3>4
  <2>5. ASSUME NEW x \in P PROVE Edge(x[1], x[2]) \in E
    <3> DEFINE n == x[1]
               i == Index(EdgeTo(E, n).dir)
    <3>1. n \in rooms /\ x[2] \in 1..6 /\ Door(n, x[2]) BY <2>3
    <3>2. x[2] = i BY <2>2, <3>1
    <3>3. EdgeTo(E, n) \in E /\ EdgeTo(E, n) = Edge(n, i) BY <2>2, <3>1
    <3> QED BY <3>2, <3>3
  <2>6. E = {Edge(x[1], x[2]) : x \in P} BY <2>4, <2>5
  <2>7. graph.nodes = Dungeon(t) BY <2>1 DEF Complete
  <2> QED BY <2>6, <2>7 DEF DirectionsAsPlanned, Door
<1>2. QED
  BY <1>1, RunInvariant, PTL

=============================================================================
