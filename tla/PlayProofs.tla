----------------------------- MODULE PlayProofs -----------------------------
(***************************************************************************)
(* Proofs about Play, for every scenario, class, set of save slots and     *)
(* bound that satisfies the assumptions of Rules and Play: first lemmas    *)
(* about the operators of Rules (weights, counts, the turn order), then    *)
(* the invariants of Play.                                                 *)
(***************************************************************************)
EXTENDS Play, Inductions

-----------------------------------------------------------------------------
(* What the hero carries, and how many of an item there are.               *)

\* The two sums of TotalCarryWeight, and the two of an item count.
PackWeights(p) == [i \in Items |-> p.inv[i] * ItemWeight[i]]
WornWeights(p) ==
  [s \in Slots |-> IF p.worn[s] = NoItem THEN 0 ELSE ItemWeight[p.worn[s]]]
OnFloors(d, i) == [r \in Rooms |-> d.floor[r][i]]
WornAt(p, i) == {s \in Slots : p.worn[s] = i}

\* An item's number over all floors, the pack and the slots.
Count(p, d, i) == SumFunction(OnFloors(d, i)) + p.inv[i] + Cardinality(WornAt(p, i))

\* There are four slots, so finitely many.
LEMMA SlotsFinite == IsFiniteSet(Slots)
<1>1. /\ IsFiniteSet({"weapon"}) /\ IsFiniteSet({"armor"})
      /\ IsFiniteSet({"ring"}) /\ IsFiniteSet({"amulet"})
  BY FS_Singleton
<1>2. IsFiniteSet({"weapon"} \cup {"armor"}) /\ IsFiniteSet({"ring"} \cup {"amulet"})
  BY <1>1, FS_Union
<1>3. IsFiniteSet(({"weapon"} \cup {"armor"}) \cup ({"ring"} \cup {"amulet"}))
  BY <1>2, FS_Union
<1>4. Slots = ({"weapon"} \cup {"armor"}) \cup ({"ring"} \cup {"amulet"})
  BY DEF Slots
<1>5. QED
  BY <1>3, <1>4

\* Weights are numbers.
LEMMA WeightTypes ==
  ASSUME NEW p \in Pack
  PROVE  /\ PackWeights(p) \in [Items -> Nat] /\ WornWeights(p) \in [Slots -> Nat]
<1>1. \A i \in Items : p.inv[i] \in Nat /\ ItemWeight[i] \in Nat
  BY ItemAssumption DEF Pack
<1>2. \A m, n \in Nat : m * n \in Nat
  OBVIOUS
<1>3. \A i \in Items : p.inv[i] * ItemWeight[i] \in Nat
  BY <1>1, <1>2
<1>4. PackWeights(p) \in [Items -> Nat]
  BY <1>3 DEF PackWeights
<1>5. \A s \in Slots : p.worn[s] # NoItem => ItemWeight[p.worn[s]] \in Nat
  BY ItemAssumption DEF Pack
<1>6. WornWeights(p) \in [Slots -> Nat]
  BY <1>5 DEF WornWeights
<1>7. QED
  BY <1>4, <1>6

\* When the number of one item in the pack changes, so do the weights.
LEMMA PackWeightChanges ==
  ASSUME NEW p \in Pack, NEW q \in Pack, NEW i \in Items,
         \A j \in Items : j # i => q.inv[j] = p.inv[j]
  PROVE  /\ SumFunction(PackWeights(p)) \in Nat /\ SumFunction(PackWeights(q)) \in Nat
         /\ SumFunction(PackWeights(q)) + p.inv[i] * ItemWeight[i]
              = SumFunction(PackWeights(p)) + q.inv[i] * ItemWeight[i]
<1> DEFINE f == PackWeights(p)
           g == PackWeights(q)
<1>1. f \in [Items -> Nat] /\ g \in [Items -> Nat] /\ IsFiniteSet(Items)
  BY WeightTypes, ItemAssumption
<1>2. /\ f[i] = p.inv[i] * ItemWeight[i] /\ g[i] = q.inv[i] * ItemWeight[i]
      /\ \A j \in Items : j # i => g[j] = f[j]
  BY DEF PackWeights
<1> HIDE DEF f, g
<1>3. /\ SumFunction(f) \in Nat /\ SumFunction(g) \in Nat
      /\ SumFunction(g) + f[i] = SumFunction(f) + g[i]
  BY <1>1, <1>2, SumChanges
<1>4. QED
  BY <1>2, <1>3 DEF f, g

\* When one slot changes, so do the weights of what is worn.
LEMMA WornWeightChanges ==
  ASSUME NEW p \in Pack, NEW q \in Pack, NEW s \in Slots,
         \A z \in Slots : z # s => q.worn[z] = p.worn[z]
  PROVE  /\ SumFunction(WornWeights(p)) \in Nat /\ SumFunction(WornWeights(q)) \in Nat
         /\ SumFunction(WornWeights(q)) + WornWeights(p)[s]
              = SumFunction(WornWeights(p)) + WornWeights(q)[s]
<1> DEFINE f == WornWeights(p)
           g == WornWeights(q)
<1>1. f \in [Slots -> Nat] /\ g \in [Slots -> Nat]
  BY WeightTypes
<1>2. \A z \in Slots : z # s => g[z] = f[z]
  BY DEF WornWeights
<1> HIDE DEF f, g
<1>3. /\ SumFunction(f) \in Nat /\ SumFunction(g) \in Nat
      /\ SumFunction(g) + f[s] = SumFunction(f) + g[s]
  BY <1>1, <1>2, SlotsFinite, SumChanges
<1>4. QED
  BY <1>3 DEF f, g

\* When the number of one item on one floor changes, so does its sum.
LEMMA FloorChanges ==
  ASSUME NEW d \in Dungeon, NEW e \in Dungeon, NEW r \in Rooms, NEW i \in Items,
         \A z \in Rooms : z # r => e.floor[z][i] = d.floor[z][i]
  PROVE  /\ SumFunction(OnFloors(d, i)) \in Nat /\ SumFunction(OnFloors(e, i)) \in Nat
         /\ SumFunction(OnFloors(e, i)) + d.floor[r][i]
              = SumFunction(OnFloors(d, i)) + e.floor[r][i]
<1> DEFINE f == OnFloors(d, i)
           g == OnFloors(e, i)
<1>1. f \in [Rooms -> Nat] /\ g \in [Rooms -> Nat] /\ IsFiniteSet(Rooms)
  BY WorldAssumption DEF OnFloors, Dungeon
<1>2. /\ f[r] = d.floor[r][i] /\ g[r] = e.floor[r][i]
      /\ \A z \in Rooms : z # r => g[z] = f[z]
  BY DEF OnFloors
<1> HIDE DEF f, g
<1>3. /\ SumFunction(f) \in Nat /\ SumFunction(g) \in Nat
      /\ SumFunction(g) + f[r] = SumFunction(f) + g[r]
  BY <1>1, <1>2, SumChanges
<1>4. QED
  BY <1>2, <1>3 DEF f, g

\* Nothing is heavier or more than a number.
LEMMA GoodsTypes ==
  ASSUME NEW p \in Pack, NEW d \in Dungeon
  PROVE  /\ TotalCarryWeight(p) \in Nat
         /\ TotalCarryWeight(p) = SumFunction(PackWeights(p)) + SumFunction(WornWeights(p))
         /\ \A i \in Items : /\ SumFunction(OnFloors(d, i)) \in Nat /\ p.inv[i] \in Nat
                             /\ Cardinality(WornAt(p, i)) \in Nat
<1>1. TotalCarryWeight(p) = SumFunction(PackWeights(p)) + SumFunction(WornWeights(p))
  BY DEF TotalCarryWeight, PackWeights, WornWeights
<1>2. SumFunction(PackWeights(p)) \in Nat
  BY WeightTypes, ItemAssumption, SumType
<1>3. SumFunction(WornWeights(p)) \in Nat
  BY WeightTypes, SlotsFinite, SumType
<1>4. ASSUME NEW i \in Items
      PROVE  /\ SumFunction(OnFloors(d, i)) \in Nat /\ p.inv[i] \in Nat
             /\ Cardinality(WornAt(p, i)) \in Nat
  <2>1. OnFloors(d, i) \in [Rooms -> Nat] /\ p.inv[i] \in Nat
    BY DEF OnFloors, Dungeon, Pack
  <2>2. SumFunction(OnFloors(d, i)) \in Nat
    BY <2>1, WorldAssumption, SumType
  <2>3. WornAt(p, i) \in SUBSET Slots
    BY DEF WornAt
  <2>4. Cardinality(WornAt(p, i)) \in Nat
    BY <2>3, SlotsFinite, FS_Subset, FS_CardinalityType
  <2>5. QED
    BY <2>1, <2>2, <2>4
<1>5. QED
  BY <1>1, <1>2, <1>3, <1>4

\* One item i goes into the pack, out of it, or from or to the floor of r.
LEMMA ItemMoves ==
  ASSUME NEW p \in Pack, NEW q \in Pack, NEW d \in Dungeon, NEW e \in Dungeon,
         NEW r \in Rooms, NEW i \in Items, q.worn = p.worn,
         \A j \in Items : j # i => q.inv[j] = p.inv[j],
         \A z \in Rooms, j \in Items : z # r \/ j # i => e.floor[z][j] = d.floor[z][j]
  PROVE  /\ TotalCarryWeight(q) + p.inv[i] * ItemWeight[i]
              = TotalCarryWeight(p) + q.inv[i] * ItemWeight[i]
         /\ \A j \in Items : j # i => Count(q, e, j) = Count(p, d, j)
         /\ Count(q, e, i) + p.inv[i] + d.floor[r][i]
              = Count(p, d, i) + q.inv[i] + e.floor[r][i]
<1>1. TotalCarryWeight(q) + p.inv[i] * ItemWeight[i]
        = TotalCarryWeight(p) + q.inv[i] * ItemWeight[i]
  <2> DEFINE a == SumFunction(PackWeights(p))
             b == SumFunction(PackWeights(q))
             w == SumFunction(WornWeights(p))
             m == p.inv[i] * ItemWeight[i]
             n == q.inv[i] * ItemWeight[i]
  <2>1. a \in Nat /\ b \in Nat /\ b + m = a + n
    BY PackWeightChanges
  <2>2. WornWeights(q) = WornWeights(p)
    BY DEF WornWeights
  <2>3. TotalCarryWeight(p) = a + w /\ TotalCarryWeight(q) = b + w
    BY <2>2, GoodsTypes
  <2>4. w \in Nat
    BY WeightTypes, SlotsFinite, SumType
  <2>5. m \in Nat /\ n \in Nat
    BY WeightTypes DEF PackWeights
  <2> HIDE DEF a, b, w, m, n
  <2>6. TotalCarryWeight(q) + m = TotalCarryWeight(p) + n
    BY <2>1, <2>3, <2>4, <2>5
  <2>7. QED
    BY <2>6 DEF m, n
<1>2. \A j \in Items : WornAt(q, j) = WornAt(p, j)
  BY DEF WornAt
<1>3. ASSUME NEW j \in Items, j # i
      PROVE  Count(q, e, j) = Count(p, d, j)
  <2>1. OnFloors(e, j) = OnFloors(d, j)
    BY <1>3 DEF OnFloors
  <2>2. QED
    BY <1>2, <1>3, <2>1 DEF Count
<1>4. Count(q, e, i) + p.inv[i] + d.floor[r][i] = Count(p, d, i) + q.inv[i] + e.floor[r][i]
  <2> DEFINE a == SumFunction(OnFloors(d, i))
             b == SumFunction(OnFloors(e, i))
             k == Cardinality(WornAt(p, i))
  <2>1. a \in Nat /\ b \in Nat /\ b + d.floor[r][i] = a + e.floor[r][i]
    BY FloorChanges
  <2>2. Count(p, d, i) = a + p.inv[i] + k /\ Count(q, e, i) = b + q.inv[i] + k
    BY <1>2 DEF Count
  <2>3. k \in Nat /\ p.inv[i] \in Nat /\ q.inv[i] \in Nat
    BY GoodsTypes
  <2>4. d.floor[r][i] \in Nat /\ e.floor[r][i] \in Nat
    BY DEF Dungeon
  <2> HIDE DEF a, b, k
  <2>5. QED
    BY <2>1, <2>2, <2>3, <2>4
<1>5. QED
  BY <1>1, <1>3, <1>4

\* One item i goes from the pack of p into the free slot s of q.
LEMMA ItemWorn ==
  ASSUME NEW p \in Pack, NEW q \in Pack, NEW d \in Dungeon, NEW s \in Slots, NEW i \in Items,
         p.worn[s] = NoItem, q.worn[s] = i, \A z \in Slots : z # s => q.worn[z] = p.worn[z],
         p.inv[i] = q.inv[i] + 1, \A j \in Items : j # i => q.inv[j] = p.inv[j]
  PROVE  /\ TotalCarryWeight(q) = TotalCarryWeight(p)
         /\ \A j \in Items : Count(q, d, j) = Count(p, d, j)
<1>1. TotalCarryWeight(q) = TotalCarryWeight(p)
  <2> DEFINE a == SumFunction(PackWeights(p))
             b == SumFunction(PackWeights(q))
             v == SumFunction(WornWeights(p))
             w == SumFunction(WornWeights(q))
             k == ItemWeight[i]
             m == p.inv[i] * k
             n == q.inv[i] * k
  <2>1. a \in Nat /\ b \in Nat /\ b + m = a + n
    BY PackWeightChanges
  <2>2. WornWeights(p)[s] = 0 /\ WornWeights(q)[s] = k
    BY ItemAssumption DEF WornWeights
  <2>3. v \in Nat /\ w \in Nat /\ w + WornWeights(p)[s] = v + WornWeights(q)[s]
    BY WornWeightChanges
  <2>4. TotalCarryWeight(p) = a + v /\ TotalCarryWeight(q) = b + w
    BY GoodsTypes
  <2>5. m \in Nat /\ n \in Nat
    BY WeightTypes DEF PackWeights
  <2>6. m = n + k
    <3>1. q.inv[i] \in Nat /\ k \in Nat
      BY ItemAssumption DEF Pack
    <3>2. QED
      BY <3>1
  <2>7. k \in Nat
    BY ItemAssumption
  <2> HIDE DEF a, b, v, w, k, m, n
  <2>8. w = v + k
    BY <2>2, <2>3, <2>7
  <2>9. QED
    BY <2>1, <2>3, <2>4, <2>5, <2>6, <2>7, <2>8
<1>2. ASSUME NEW j \in Items, j # i
      PROVE  Count(q, d, j) = Count(p, d, j)
  <2>1. WornAt(q, j) = WornAt(p, j)
    BY <1>2, ItemAssumption DEF WornAt
  <2>2. QED
    BY <1>2, <2>1 DEF Count
<1>3. Count(q, d, i) = Count(p, d, i)
  <2> DEFINE a == SumFunction(OnFloors(d, i))
             k == Cardinality(WornAt(p, i))
  <2>1. WornAt(q, i) = WornAt(p, i) \cup {s} /\ s \notin WornAt(p, i)
    BY ItemAssumption DEF WornAt
  <2>2. IsFiniteSet(WornAt(p, i))
    <3>1. WornAt(p, i) \in SUBSET Slots
      BY DEF WornAt
    <3>2. QED
      BY <3>1, SlotsFinite, FS_Subset
  <2>3. Cardinality(WornAt(q, i)) = k + 1
    <3>1. s \notin WornAt(p, i) BY <2>1
    <3>2. Cardinality(WornAt(p, i) \cup {s}) = k + 1 BY <2>2, <3>1, FS_AddElement
    <3> QED BY <2>1, <3>2
  <2>4. k \in Nat /\ a \in Nat /\ q.inv[i] \in Nat
    BY GoodsTypes
  <2>5. Count(p, d, i) = a + p.inv[i] + k /\ Count(q, d, i) = a + q.inv[i] + (k + 1)
    BY <2>3 DEF Count
  <2> HIDE DEF a, k
  <2>6. QED
    BY <2>4, <2>5
<1>4. QED
  BY <1>1, <1>2, <1>3

-----------------------------------------------------------------------------
(* The turn order.                                                         *)

\* The hero's position, and the place of a position in the round that ends
\* with the hero's turn: the positions after the hero's come first, the
\* hero's own is the last.
HeroAt(c) == CHOOSE p \in DOMAIN c.order : c.order[p] = HERO

Rank(c, p) ==
  IF p > HeroAt(c) THEN p - HeroAt(c)
  ELSE p - HeroAt(c) + Cardinality(DOMAIN c.order)

\* What c \in Fights(n) says, field by field.
FightShape(n, c) ==
  /\ c.active = TRUE
  /\ c.tmpl \in [1..n -> Templates] /\ c.hp \in [1..n -> Nat]
  /\ c.order \in [1..n + 1 -> 0..n] /\ DOMAIN c.order = 1..n + 1
  /\ \A p, q \in 1..n + 1 : c.order[p] = c.order[q] => p = q
  /\ \A i \in 0..n : \E p \in 1..n + 1 : c.order[p] = i
  /\ c.turn \in 1..n + 1 /\ c.defending \in BOOLEAN
  /\ Cardinality(DOMAIN c.order) = n + 1

\* A record of Fights(n) has that shape.
LEMMA FightFields ==
  ASSUME NEW n \in Nat \ {0}, NEW c \in Fights(n)
  PROVE  FightShape(n, c)
<1>1. c.order \in TurnOrders(n) /\ c.active = TRUE
      /\ c.tmpl \in [1..n -> Templates] /\ c.hp \in [1..n -> Nat]
      /\ c.turn \in 1..n + 1 /\ c.defending \in BOOLEAN
  BY DEF Fights
<1>2. c.order \in [1..n + 1 -> 0..n]
  BY <1>1 DEF TurnOrders, Bijection, Injection
<1>3. DOMAIN c.order = 1..n + 1
  BY <1>2
<1>4. \A p, q \in 1..n + 1 : c.order[p] = c.order[q] => p = q
  BY <1>1, <1>3 DEF TurnOrders, Bijection, Injection, IsInjective
<1>5. \A i \in 0..n : \E p \in 1..n + 1 : c.order[p] = i
  BY <1>1 DEF TurnOrders, Bijection, Surjection
<1>6. Cardinality(DOMAIN c.order) = n + 1
  <2>1. Cardinality(1..n + 1) = n + 1
    BY FS_Interval
  <2>2. QED
    BY <2>1, <1>3
<1>7. QED
  BY <1>1, <1>2, <1>3, <1>4, <1>5, <1>6 DEF FightShape

\* The hero has exactly one position.
LEMMA HeroPosition ==
  ASSUME NEW n \in Nat \ {0}, NEW c \in Fights(n)
  PROVE  /\ HeroAt(c) \in 1..n + 1
         /\ \A p \in 1..n + 1 : c.order[p] = HERO <=> p = HeroAt(c)
         /\ IsHeroTurn(c) <=> c.turn = HeroAt(c)
         /\ HeroAt(c) \in TurnStops(c)
<1>1. FightShape(n, c)
  BY FightFields
<1>2. \E p \in DOMAIN c.order : c.order[p] = HERO
  <2>1. HERO \in 0..n
    BY DEF HERO
  <2>2. QED
    BY <1>1, <2>1, Zenon DEF FightShape
<1>3. HeroAt(c) \in DOMAIN c.order /\ c.order[HeroAt(c)] = HERO
  BY <1>2, Zenon DEF HeroAt
<1>4. HeroAt(c) \in 1..n + 1
  BY <1>1, <1>3 DEF FightShape
<1>5. \A p \in 1..n + 1 : c.order[p] = HERO <=> p = HeroAt(c)
  BY <1>1, <1>3, <1>4 DEF FightShape
<1>6. IsHeroTurn(c) <=> c.turn = HeroAt(c)
  BY <1>4, <1>5, <1>1 DEF IsHeroTurn, FightShape
<1>7. QED
  BY <1>3, <1>4, <1>5, <1>6 DEF TurnStops

\* What AdvanceTurn does to a fight: only the turn and the stance change, the
\* turn is the hero's or a living enemy's, the hero's turn ends the stance,
\* and within a round the turn only moves on.
Advanced(n, c, a) ==
  /\ a \in Fights(n)
  /\ a.tmpl = c.tmpl /\ a.hp = c.hp /\ a.order = c.order
  /\ a.turn \in TurnStops(c)
  /\ IsHeroTurn(a) => ~a.defending
  /\ c.turn # HeroAt(c) => Rank(c, c.turn) < Rank(c, a.turn)

\* AdvanceTurn has those effects on every fight.
LEMMA AdvanceTurnAdvances ==
  ASSUME NEW n \in Nat \ {0}, NEW c \in Fights(n)
  PROVE  Advanced(n, c, AdvanceTurn(c))
<1> DEFINE stops == TurnStops(c)
           later == {p \in stops : p > c.turn}
           next == IF later # {} THEN Min(later)
                   ELSE IF stops # {} THEN Min(stops) ELSE c.turn
           a == AdvanceTurn(c)
           h == HeroAt(c)
<1>1. FightShape(n, c)
  BY FightFields
<1>2. h \in 1..n + 1 /\ h \in stops /\ \A p \in 1..n + 1 : c.order[p] = HERO <=> p = h
  BY HeroPosition
<1>3. stops \subseteq 1..n + 1
  BY <1>1 DEF TurnStops, FightShape
<1>4. /\ later # {} => next \in later /\ \A p \in later : next <= p
      /\ later = {} => next \in stops /\ \A p \in stops : next <= p
  <2>1. CASE later # {}
    <3>1. Min(later) \in later /\ \A p \in later : Min(later) <= p
      <4> HIDE DEF later
      <4>1. later \in SUBSET Nat
        BY <1>3 DEF later
      <4>2. QED
        BY <2>1, <4>1, MinOfNaturals
    <3>2. QED
      BY <2>1, <3>1
  <2>2. CASE later = {}
    <3>1. Min(stops) \in stops /\ \A p \in stops : Min(stops) <= p
      BY <1>2, <1>3, MinOfNaturals
    <3>2. QED
      BY <1>2, <2>2, <3>1
  <2>3. QED
    BY <2>1, <2>2
<1>5. next \in stops /\ next \in 1..n + 1
  BY <1>3, <1>4
<1> HIDE DEF next
<1>6. a = [c EXCEPT !.turn = next, !.defending = c.defending /\ c.order[next] # HERO]
  BY DEF AdvanceTurn, next
<1>7. /\ a \in Fights(n) /\ a.tmpl = c.tmpl /\ a.hp = c.hp /\ a.order = c.order
      /\ a.turn = next /\ (a.defending => c.order[next] # HERO)
  <2> HIDE DEF a
  <2>1. (c.defending /\ c.order[next] # HERO) \in BOOLEAN
    OBVIOUS
  <2>2. QED
    BY <1>5, <1>6, <2>1 DEF Fights
<1>8. IsHeroTurn(a) => ~a.defending
  <2> HIDE DEF a
  <2>1. QED
    BY <1>7 DEF IsHeroTurn
<1>9. c.turn # h => Rank(c, c.turn) < Rank(c, next)
  <2> SUFFICES ASSUME c.turn # h
               PROVE  Rank(c, c.turn) < Rank(c, next)
    OBVIOUS
  <2> HIDE DEF h, stops
  <2>1. c.turn \in 1..n + 1 /\ Cardinality(DOMAIN c.order) = n + 1
    BY <1>1 DEF FightShape
  <2>2. CASE c.turn < h
    <3>1. h \in later
      BY <1>2, <2>2
    <3>2. c.turn < next /\ next <= h
      BY <1>4, <3>1
    <3>3. QED
      BY <1>2, <1>5, <2>1, <2>2, <3>2 DEF Rank, h
  <2>3. CASE c.turn > h /\ later # {}
    <3>1. c.turn < next
      BY <1>4, <2>3
    <3>2. QED
      BY <1>2, <1>5, <2>1, <2>3, <3>1 DEF Rank, h
  <2>4. CASE c.turn > h /\ later = {}
    <3>1. next <= h
      BY <1>2, <1>4, <2>4
    <3>2. QED
      BY <1>2, <1>5, <2>1, <2>4, <3>1 DEF Rank, h
  <2>5. QED
    BY <1>2, <2>1, <2>2, <2>3, <2>4
<1>10. QED
  BY <1>5, <1>7, <1>8, <1>9 DEF Advanced

\* A rank is a number from 1 to the length of the order, which is the hero's.
LEMMA RankRange ==
  ASSUME NEW n \in Nat \ {0}, NEW c \in Fights(n), NEW p \in 1..n + 1
  PROVE  /\ Rank(c, p) \in 1..n + 1
         /\ p # HeroAt(c) => Rank(c, p) <= n
<1>1. Cardinality(DOMAIN c.order) = n + 1
  BY FightFields DEF FightShape
<1>2. HeroAt(c) \in 1..n + 1
  BY HeroPosition
<1>3. QED
  BY <1>1, <1>2 DEF Rank

-----------------------------------------------------------------------------
(* Fights as the game keeps them.                                          *)

\* An active combat record is a fight against the enemies it lists.
LEMMA ActiveFight ==
  ASSUME NEW c, CombatOK(c), c.active
  PROVE  Len(c.tmpl) \in Nat \ {0} /\ c \in Fights(Len(c.tmpl))
<1>1. c # NoCombat
  BY DEF NoCombat
<1>2. c.tmpl \in Seq(Templates) /\ c.tmpl # <<>> /\ c \in Fights(Len(c.tmpl))
  BY <1>1 DEF CombatOK
<1>3. QED
  BY <1>2

\* A fight that goes on: what is true of it at every moment.
Ongoing(c) ==
  /\ c.active /\ CombatOK(c)
  /\ Alive(c) # {}
  /\ c.turn \in TurnStops(c)
  /\ IsHeroTurn(c) => ~c.defending

\* Advancing the turn of a fight with someone left to fight makes it one that
\* goes on, with the same combatants, at a later point of the round.
LEMMA AdvanceGoesOn ==
  ASSUME NEW c, CombatOK(c), c.active, Alive(c) # {}
  PROVE  LET a == AdvanceTurn(c)
         IN  /\ Ongoing(a)
             /\ a.tmpl = c.tmpl /\ a.hp = c.hp /\ a.order = c.order
             /\ ~IsHeroTurn(c) => Rank(a, c.turn) < Rank(a, a.turn)
<1> DEFINE a == AdvanceTurn(c)
           n == Len(c.tmpl)
<1>1. n \in Nat \ {0} /\ c \in Fights(n)
  BY ActiveFight
<1>2. Advanced(n, c, a)
  BY <1>1, AdvanceTurnAdvances
<1> HIDE DEF a, n
<1>3. /\ a \in Fights(n) /\ a.turn \in TurnStops(c)
      /\ a.tmpl = c.tmpl /\ a.hp = c.hp /\ a.order = c.order
      /\ IsHeroTurn(a) => ~a.defending
      /\ c.turn # HeroAt(c) => Rank(c, c.turn) < Rank(c, a.turn)
  BY <1>2 DEF Advanced
<1>4. a.active
  BY <1>1, <1>3, FightFields DEF FightShape
<1>5. Alive(a) = Alive(c) /\ TurnStops(a) = TurnStops(c)
  BY <1>3 DEF Alive, TurnStops
<1>6. c.tmpl \in Seq(Templates) \ {<<>>}
  <2>1. c # NoCombat
    BY DEF NoCombat
  <2>2. QED
    BY <2>1 DEF CombatOK
<1>7. CombatOK(a)
  BY <1>3, <1>6 DEF CombatOK, n
<1>8. \A p : Rank(a, p) = Rank(c, p)
  BY <1>3 DEF Rank, HeroAt
<1>9. ~IsHeroTurn(c) => c.turn # HeroAt(c)
  BY <1>1, HeroPosition
<1>10. QED
  BY <1>3, <1>4, <1>5, <1>7, <1>8, <1>9 DEF Ongoing, a

\* A fight stays one when the stance changes ...
LEMMA StanceChanges ==
  ASSUME NEW c, CombatOK(c), c.active, NEW b \in BOOLEAN
  PROVE  LET x == [c EXCEPT !.defending = b]
         IN  CombatOK(x) /\ x.active /\ Alive(x) = Alive(c)
<1> DEFINE n == Len(c.tmpl)
           x == [c EXCEPT !.defending = b]
<1>1. n \in Nat \ {0} /\ c \in Fights(n)
  BY ActiveFight
<1>2. c.tmpl \in Seq(Templates) \ {<<>>}
  BY DEF CombatOK, NoCombat
<1> HIDE DEF n
<1>3. x \in Fights(n) /\ x.tmpl = c.tmpl /\ x.hp = c.hp /\ x.active
  BY <1>1 DEF Fights
<1>4. QED
  BY <1>2, <1>3 DEF CombatOK, Alive, n

\* ... and when an enemy's hit points do.
LEMMA HitPointsChange ==
  ASSUME NEW c, CombatOK(c), c.active, NEW hp \in [1..Len(c.tmpl) -> Nat],
         NEW x, x = [c EXCEPT !.hp = hp]
  PROVE  /\ CombatOK(x) /\ x.active /\ x.hp = hp
         /\ x.order = c.order /\ x.turn = c.turn /\ x.tmpl = c.tmpl
<1> DEFINE n == Len(c.tmpl)
<1>1. n \in Nat \ {0} /\ c \in Fights(n)
  BY ActiveFight
<1>2. c.tmpl \in Seq(Templates) \ {<<>>}
  BY DEF CombatOK, NoCombat
<1> HIDE DEF n
<1>3. x \in Fights(n) /\ x.tmpl = c.tmpl /\ x.active /\ x.hp = hp
      /\ x.order = c.order /\ x.turn = c.turn
  <2>1. hp \in [1..n -> Nat]
    BY DEF n
  <2>2. QED
    BY <1>1, <2>1 DEF Fights
<1>4. QED
  BY <1>2, <1>3 DEF CombatOK, n

\* Defending is a fight that goes on, and so is losing a turn.
LEMMA TurnPasses ==
  ASSUME NEW c, CombatOK(c), c.active, Alive(c) # {}
  PROVE  Ongoing(Defend(c)) /\ Ongoing(LoseTurn(c))
<1>1. \A b \in BOOLEAN : LET x == [c EXCEPT !.defending = b]
                         IN  CombatOK(x) /\ x.active /\ Alive(x) # {}
  BY StanceChanges
<1>2. \A b \in BOOLEAN : Ongoing(AdvanceTurn([c EXCEPT !.defending = b]))
  BY <1>1, AdvanceGoesOn
<1>3. QED
  BY <1>2 DEF Defend, LoseTurn

\* A blow leaves a well-formed fight, which ends if nobody is left.
LEMMA HitLands ==
  ASSUME NEW c, CombatOK(c), c.active, NEW t \in Alive(c), NEW damage \in Nat
  PROVE  LET x == Hit(c, t, damage)
         IN  /\ IF Alive(x) = {} THEN AfterHit(x) = NoCombat ELSE Ongoing(AfterHit(x))
             /\ XPAwarded(x, t) \in Nat
<1> DEFINE n == Len(c.tmpl)
           k == IF c.hp[t] > damage THEN c.hp[t] - damage ELSE 0
           x == [c EXCEPT !.hp[t] = k]
<1>1. n \in Nat \ {0} /\ c \in Fights(n) /\ FightShape(n, c)
  BY ActiveFight, FightFields
<1>2. t \in 1..n /\ c.hp[t] \in Nat
  BY <1>1 DEF Alive, FightShape
<1>3. k \in Nat
  BY <1>2
<1>4. Hit(c, t, damage) = x
  BY DEF Hit
<1> HIDE DEF k
<1>5. CombatOK(x) /\ x.active
  <2>1. x = [c EXCEPT !.hp = [c.hp EXCEPT ![t] = k]]
    OBVIOUS
  <2>2. [c.hp EXCEPT ![t] = k] \in [1..Len(c.tmpl) -> Nat]
    BY <1>1, <1>2, <1>3 DEF FightShape
  <2>3. QED
    BY <2>1, <2>2, HitPointsChange
<1>6. XPAwarded(x, t) \in Nat
  <2>1. x.tmpl = c.tmpl /\ c.tmpl[t] \in Templates
    BY <1>1, <1>2 DEF FightShape, Fights
  <2>2. EnemyHP[x.tmpl[t]] \in Nat
    BY <2>1, EnemyAssumption
  <2>3. QED
    BY <2>2 DEF XPAwarded
<1> HIDE DEF x
<1>7. IF Alive(x) = {} THEN AfterHit(x) = NoCombat ELSE Ongoing(AfterHit(x))
  BY <1>5, TurnPasses DEF AfterHit, LoseTurn
<1>8. QED
  BY <1>4, <1>6, <1>7

\* The damage an attack does is positive.
LEMMA DefensesPositive ==
  ASSUME NEW p \in Pack, NEW roll \in Int, NEW b \in BOOLEAN
  PROVE  ApplyDefenses(p, roll, b) \in Nat \ {0}
<1> DEFINE a == p.worn["armor"]
           armour == IF a = NoItem THEN 0 ELSE ItemDefense[a]
           halved == IF b THEN roll \div 2 ELSE roll
<1>1. a \in Items \cup {NoItem}
  BY DEF Pack, Slots
<1>2. armour \in Int
  BY <1>1, ItemAssumption
<1>3. halved \in Int
  OBVIOUS
<1>4. ApplyDefenses(p, roll, b) = AtLeastOne(halved - armour)
  BY DEF ApplyDefenses
<1> HIDE DEF armour, halved
<1>5. QED
  BY <1>2, <1>3, <1>4 DEF AtLeastOne

\* The three ways an enemy's turn can go, in a fight that goes on: it is the
\* last one and flees, it flees and leaves others, or it attacks.  Its turn
\* never has to be skipped.
LastFlees(c, turn) ==
  /\ turn.action = "flee" /\ turn.damage = 0 /\ turn.combat = NoCombat
  /\ Alive(c) = {c.order[c.turn]}

OneFlees(c, turn) ==
  /\ turn.action = "flee" /\ turn.damage = 0
  /\ Alive(turn.combat) = Alive(c) \ {c.order[c.turn]}

Attacks(c, turn) ==
  /\ turn.action = "attack" /\ turn.damage \in Nat \ {0}
  /\ Alive(turn.combat) = Alive(c)

RoundGoesOn(c, x) ==
  Ongoing(x) /\ x.order = c.order /\ Rank(x, c.turn) < Rank(x, x.turn)

\* ProcessEnemyTurn has one of these outcomes.
LEMMA EnemyTurnOutcome ==
  ASSUME NEW p \in Pack, NEW c, Ongoing(c), ~IsHeroTurn(c), NEW roll \in Int
  PROVE  LET turn == ProcessEnemyTurn(p, c, roll)
         IN  \/ LastFlees(c, turn)
             \/ RoundGoesOn(c, turn.combat) /\ (OneFlees(c, turn) \/ Attacks(c, turn))
<1> DEFINE n == Len(c.tmpl)
           e == c.order[c.turn]
           left == [c EXCEPT !.hp[e] = 0]
           gone == AdvanceTurn(left)
           turn == ProcessEnemyTurn(p, c, roll)
<1>1. n \in Nat \ {0} /\ c \in Fights(n) /\ FightShape(n, c)
  BY ActiveFight, FightFields DEF Ongoing
<1>2. e \in Alive(c) /\ c.hp[e] # 0 /\ e \in 1..n
  <2>1. c.turn \in DOMAIN c.order /\ (e = HERO \/ e \in Alive(c))
    BY DEF Ongoing, TurnStops
  <2>2. e # HERO
    BY <2>1 DEF IsHeroTurn
  <2>3. QED
    BY <1>1, <2>1, <2>2 DEF Alive, FightShape
<1>3. /\ AdvanceTurn(c).hp = c.hp /\ RoundGoesOn(c, AdvanceTurn(c))
  <2>1. CombatOK(c) /\ c.active /\ Alive(c) # {}
    BY DEF Ongoing
  <2>2. QED
    BY <2>1, AdvanceGoesOn DEF RoundGoesOn
<1>4. CombatOK(left) /\ left.active /\ left.hp = [c.hp EXCEPT ![e] = 0]
      /\ left.order = c.order /\ left.turn = c.turn /\ left.tmpl = c.tmpl
  <2>1. CombatOK(c) /\ c.active
    BY DEF Ongoing
  <2> DEFINE hp == [c.hp EXCEPT ![e] = 0]
  <2>2. left = [c EXCEPT !.hp = hp]
    OBVIOUS
  <2>3. hp \in [1..Len(c.tmpl) -> Nat]
    BY <1>1, <1>2 DEF FightShape
  <2> HIDE DEF left, hp
  <2>4. /\ CombatOK(left) /\ left.active /\ left.hp = hp
        /\ left.order = c.order /\ left.turn = c.turn /\ left.tmpl = c.tmpl
    BY <2>1, <2>2, <2>3, HitPointsChange
  <2>5. QED
    BY <2>4 DEF hp
<1>5. Alive(left) = Alive(c) \ {e}
  <2>1. DOMAIN c.hp = 1..n /\ DOMAIN left.hp = 1..n
    BY <1>1, <1>4 DEF FightShape
  <2>2. \A i \in 1..n : left.hp[i] = IF i = e THEN 0 ELSE c.hp[i]
    BY <1>4, <2>1
  <2>3. QED
    BY <2>1, <2>2 DEF Alive
<1> HIDE DEF left, n
<1>6. gone.hp = left.hp
  <2>1. Len(left.tmpl) \in Nat \ {0} /\ left \in Fights(Len(left.tmpl))
    BY <1>4, ActiveFight
  <2>2. QED
    BY <2>1, AdvanceTurnAdvances DEF Advanced
<1>7. Alive(gone) = Alive(c) \ {e}
  <2> HIDE DEF gone
  <2>1. QED
    BY <1>5, <1>6 DEF Alive
<1>8. Alive(gone) # {} => RoundGoesOn(c, gone)
  <2>1. ASSUME Alive(gone) # {}
        PROVE  /\ Ongoing(gone) /\ gone.order = left.order
               /\ ~IsHeroTurn(left) => Rank(gone, left.turn) < Rank(gone, gone.turn)
    <3>1. Alive(left) # {}
      BY <1>5, <1>7, <2>1
    <3>2. QED
      BY <1>4, <3>1, AdvanceGoesOn
  <2>2. ~IsHeroTurn(left)
    BY <1>4 DEF IsHeroTurn
  <2> HIDE DEF gone
  <2>3. QED
    BY <1>4, <2>1, <2>2 DEF RoundGoesOn
<1>9. CASE Flees(c, e)
  <2>1. turn = [action |-> "flee", damage |-> 0,
                combat |-> IF Alive(gone) = {} THEN NoCombat ELSE gone]
    BY <1>2, <1>9 DEF ProcessEnemyTurn, left
  <2> HIDE DEF turn, gone
  <2>2. CASE Alive(gone) = {}
    <3>1. Alive(c) = {e}
      BY <1>2, <1>7, <2>2
    <3>2. QED
      BY <2>1, <2>2, <3>1 DEF LastFlees, turn
  <2>3. CASE Alive(gone) # {}
    <3>1. turn.action = "flee" /\ turn.damage = 0 /\ turn.combat = gone
      BY <2>1, <2>3
    <3>2. QED
      BY <1>7, <1>8, <2>3, <3>1 DEF OneFlees, turn
  <2>4. QED
    BY <2>2, <2>3
<1>10. CASE ~Flees(c, e)
  <2>1. turn = [action |-> "attack", damage |-> ApplyDefenses(p, roll, c.defending),
                combat |-> AdvanceTurn(c)]
    BY <1>2, <1>10 DEF ProcessEnemyTurn
  <2>2. ApplyDefenses(p, roll, c.defending) \in Nat \ {0}
    BY <1>1, DefensesPositive DEF FightShape
  <2>3. Alive(AdvanceTurn(c)) = Alive(c)
    BY <1>3 DEF Alive
  <2> HIDE DEF turn
  <2>4. turn.action = "attack" /\ turn.combat = AdvanceTurn(c)
        /\ turn.damage \in Nat \ {0}
    BY <2>1, <2>2
  <2>5. QED
    BY <1>3, <2>3, <2>4 DEF Attacks, turn
<1>11. QED
  BY <1>9, <1>10

-----------------------------------------------------------------------------
(* The inductive invariant.                                                *)

HeroOK(h) == h \in Hero /\ h.hp <= h.maxHP /\ h.mp <= h.maxMP /\ h.wonXP <= h.xp

\* What holds of every game, the current one and the saved ones.
Sound(h, p, d, c) ==
  /\ HeroOK(h) /\ p \in Pack /\ d \in Dungeon /\ CombatOK(c)
  /\ c.active => Ongoing(c) /\ d.room \notin d.cleared
  /\ h.hp <= 0 => c.active

\* What holds besides when no handler is running, if the dispatcher is the
\* only driver: the game loop may leave a dead hero in an enemy's turn.
Rested(c) == "loop" \notin Drivers /\ c.active => IsHeroTurn(c)

SoundSave(g) ==
  Sound(g.hero, g.pack, g.dungeon, g.combat) /\ Rested(g.combat)

HandlerInv ==
  /\ pc \in {"ready", "enemies", "levelup"}
  /\ driver \in Drivers \cup {NoDriver} /\ iter \in Nat
  /\ pc # "ready" => driver \in Drivers
  /\ pc = "ready" => Rested(combat)
  /\ pc = "levelup" => ~combat.active

\* Each iteration of processEnemyTurns takes the turn at least one place
\* further in the round, so it cannot outlast the turn order.
CapInv == pc = "enemies" /\ combat.active => iter < Rank(combat, combat.turn)

\* When the enemies go on after the hero's death, the one that struck the
\* blow is alive and has had its turn: it cannot be the last one to flee.
KillerInv ==
  pc = "enemies" /\ combat.active /\ hero.hp <= 0 =>
    \E q \in DOMAIN combat.order :
      combat.order[q] \in Alive(combat) /\ Rank(combat, q) < Rank(combat, combat.turn)

SavesInv ==
  /\ DOMAIN saves = SaveSlots
  /\ \A s \in SaveSlots : saves[s] = NoSave \/ SoundSave(saves[s])

Inv ==
  /\ Sound(hero, pack, dungeon, combat)
  /\ HandlerInv /\ CapInv /\ KillerInv /\ SavesInv

-----------------------------------------------------------------------------
(* Operators on the hero and the initial values.                           *)

\* Healing keeps the hero well formed and within the maximum.
LEMMA HealOK ==
  ASSUME NEW h, HeroOK(h), NEW n \in Int, n >= 1
  PROVE  HeroOK(Heal(h, n)) /\ Heal(h, n).hp >= h.hp
BY DEF HeroOK, Hero, Heal

\* So does a level gained, which also raises the hit points.
LEMMA LevelUpOK ==
  ASSUME NEW h, HeroOK(h), CanLevelUp(h)
  PROVE  HeroOK(LevelUp(h)) /\ LevelUp(h).hp >= h.hp
<1> DEFINE gain == AtLeastOne(HPPerLevel + StatModifier(CON(h.level + 1)))
<1>1. h.level \in 1..MaxLevel /\ h.level + 1 \in 1..MaxLevel
  BY ClassAssumption DEF HeroOK, Hero, CanLevelUp
<1>2. CON(h.level + 1) \in Int
  BY <1>1, ClassAssumption DEF CON
<1>3. StatModifier(CON(h.level + 1)) \in Int
  BY <1>2 DEF StatModifier
<1>4. gain \in Nat /\ gain >= 1
  BY <1>3, ClassAssumption DEF AtLeastOne
<1> HIDE DEF gain
<1>5. LevelUp(h) = [h EXCEPT !.level = h.level + 1,
                             !.maxHP = h.maxHP + gain, !.hp = h.hp + gain,
                             !.maxMP = h.maxMP + MPPerLevel, !.mp = h.mp + MPPerLevel]
  BY DEF LevelUp, gain
<1>6. /\ h.maxHP + gain \in Nat /\ h.hp + gain \in Int
      /\ h.maxMP + MPPerLevel \in Nat /\ h.mp + MPPerLevel \in Nat
      /\ h.hp + gain <= h.maxHP + gain /\ h.mp + MPPerLevel <= h.maxMP + MPPerLevel
      /\ h.hp + gain >= h.hp
  BY <1>4, ClassAssumption DEF HeroOK, Hero
<1>7. LevelUp(h) \in Hero
  BY <1>1, <1>5, <1>6 DEF HeroOK, Hero
<1>8. /\ LevelUp(h).hp = h.hp + gain /\ LevelUp(h).maxHP = h.maxHP + gain
      /\ LevelUp(h).mp = h.mp + MPPerLevel /\ LevelUp(h).maxMP = h.maxMP + MPPerLevel
      /\ LevelUp(h).xp = h.xp /\ LevelUp(h).wonXP = h.wonXP
  BY <1>5 DEF HeroOK, Hero
<1>9. QED
  BY <1>6, <1>7, <1>8 DEF HeroOK

\* Paying for a spell the hero can afford.
LEMMA PayMPOK ==
  ASSUME NEW h, HeroOK(h), NEW s \in Spells, h.mp >= SpellCost[s]
  PROVE  /\ HeroOK(PayMP(h, s)) /\ PayMP(h, s).hp = h.hp
         /\ PayMP(h, s).xp = h.xp /\ PayMP(h, s).wonXP = h.wonXP
BY SpellAssumption DEF HeroOK, Hero, PayMP

\* No fight at all is well formed.
LEMMA NoCombatOK == CombatOK(NoCombat) /\ ~NoCombat.active
BY DEF CombatOK, NoCombat

\* A new game is sound.
LEMMA NewGameSound == Sound(NewCharacter, NewPack, NewDungeon, NoCombat)
<1>1. HeroOK(NewCharacter) /\ NewCharacter.hp > 0
  BY ClassAssumption DEF HeroOK, Hero, NewCharacter
<1>2. NewPack \in Pack
  BY ItemAssumption DEF Pack, NewPack
<1>3. NewDungeon \in Dungeon
  BY WorldAssumption DEF Dungeon, NewDungeon
<1>4. ~(NewCharacter.hp <= 0)
  BY <1>1 DEF HeroOK, Hero
<1>5. QED
  BY <1>1, <1>2, <1>3, <1>4, NoCombatOK DEF Sound

-----------------------------------------------------------------------------
(* The four ways in which a step can preserve the invariant.               *)

\* The combat and the handler are left alone, nobody is hurt or moved.
LEMMA QuietStep ==
  ASSUME Inv, UNCHANGED <<combat, saves, pc, driver, iter>>,
         HeroOK(hero'), hero'.hp >= hero.hp, pack' \in Pack, dungeon' \in Dungeon,
         dungeon'.room = dungeon.room, dungeon'.cleared = dungeon.cleared
  PROVE  Inv'
<1>1. hero.hp \in Int /\ hero'.hp \in Int
  BY DEF Inv, Sound, HeroOK, Hero
<1>2. Sound(hero, pack, dungeon, combat)'
  BY <1>1 DEF Inv, Sound
<1>3. HandlerInv' /\ CapInv' /\ SavesInv'
  BY DEF Inv, HandlerInv, CapInv, SavesInv
<1>4. KillerInv'
  BY <1>1 DEF Inv, KillerInv
<1>5. QED
  BY <1>2, <1>3, <1>4 DEF Inv

\* A living hero is in a fight and the enemies act next.
LEMMA FightGoesOn ==
  ASSUME Inv, NEW d \in Drivers, LetEnemiesAct(d), UNCHANGED saves,
         HeroOK(hero'), hero'.hp > 0, pack' \in Pack, dungeon' \in Dungeon,
         dungeon'.room \notin dungeon'.cleared, Ongoing(combat')
  PROVE  Inv'
<1>1. ~(hero'.hp <= 0)
  BY DEF HeroOK, Hero
<1>2. Sound(hero, pack, dungeon, combat)'
  BY <1>1 DEF Ongoing, Sound
<1>3. HandlerInv'
  BY DEF LetEnemiesAct, HandlerInv
<1>4. CapInv'
  <2> DEFINE n == Len(combat'.tmpl)
  <2>1. n \in Nat \ {0} /\ combat' \in Fights(n)
    BY ActiveFight DEF Ongoing
  <2>2. combat'.turn \in 1..n + 1
    BY <2>1, FightFields DEF FightShape
  <2>3. Rank(combat', combat'.turn) \in 1..n + 1
    BY <2>1, <2>2, RankRange
  <2>4. QED
    BY <2>1, <2>3 DEF CapInv, LetEnemiesAct
<1>5. KillerInv'
  BY <1>1 DEF KillerInv
<1>6. SavesInv'
  BY DEF Inv, SavesInv
<1>7. QED
  BY <1>2, <1>3, <1>4, <1>5, <1>6 DEF Inv

\* There is no fight (any more) and the handler goes on in any way.
LEMMA NoFight ==
  ASSUME Inv, combat' = NoCombat, UNCHANGED saves,
         HeroOK(hero'), hero'.hp > 0, pack' \in Pack, dungeon' \in Dungeon,
         \/ pc' = "ready" /\ driver' \in Drivers \cup {NoDriver}
         \/ pc' \in {"levelup", "enemies"} /\ driver' \in Drivers,
         iter' \in Nat
  PROVE  Inv'
<1>1. ~(hero'.hp <= 0)
  BY DEF HeroOK, Hero
<1>2. Sound(hero, pack, dungeon, combat)'
  BY <1>1, NoCombatOK DEF Sound
<1>3. HandlerInv' /\ CapInv' /\ KillerInv'
  BY NoCombatOK DEF HandlerInv, CapInv, KillerInv, Rested
<1>4. SavesInv'
  BY DEF Inv, SavesInv
<1>5. QED
  BY <1>2, <1>3, <1>4 DEF Inv

\* Only the handler moves, to the end of the command.
LEMMA HandlerEnds ==
  ASSUME Inv, UNCHANGED <<hero, pack, dungeon, combat, saves>>, Return, Rested(combat)
  PROVE  Inv'
<1>1. Sound(hero, pack, dungeon, combat)' /\ SavesInv'
  BY DEF Inv, Sound, SavesInv
<1>2. HandlerInv' /\ CapInv' /\ KillerInv'
  BY DEF HandlerInv, CapInv, KillerInv, Return
<1>3. QED
  BY <1>1, <1>2 DEF Inv

-----------------------------------------------------------------------------
(* The operations.                                                         *)

\* Picking up, dropping, equipping and unequipping move one item.
LEMMA ItemSteps ==
  ASSUME Inv,
         \/ \E i \in Items : PickUp(i) \/ Drop(i) \/ Equip(i)
         \/ \E s \in Slots : Unequip(s)
  PROVE  Inv'
<1> USE DEF handler
<1>1. HeroOK(hero) /\ pack \in Pack /\ dungeon \in Dungeon /\ hero.hp \in Int
  BY DEF Inv, Sound, HeroOK, Hero
<1>2. \A i \in Items : pack.inv[i] \in Nat /\ dungeon.floor[dungeon.room][i] \in Nat
  BY <1>1 DEF Pack, Dungeon
<1>3. ASSUME NEW i \in Items, PickUp(i)
      PROVE  Inv'
  <2>1. pack' \in Pack
    BY <1>1, <1>2, <1>3 DEF PickUp, Pack
  <2>2. dungeon' = [dungeon EXCEPT !.floor[dungeon.room][i] =
                      dungeon.floor[dungeon.room][i] - 1]
        /\ dungeon.floor[dungeon.room][i] - 1 \in Nat
    BY <1>2, <1>3 DEF PickUp, CanPickUp
  <2>3. dungeon' \in Dungeon /\ dungeon'.room = dungeon.room
        /\ dungeon'.cleared = dungeon.cleared
    BY <1>1, <2>2 DEF Dungeon
  <2>4. UNCHANGED <<hero, combat, saves, pc, driver, iter>>
    BY <1>3 DEF PickUp
  <2>5. QED
    BY <1>1, <2>1, <2>3, <2>4, QuietStep
<1>4. ASSUME NEW i \in Items, Drop(i)
      PROVE  Inv'
  <2>1. pack.inv[i] - 1 \in Nat
    BY <1>2, <1>4 DEF Drop
  <2>2. pack' \in Pack
    BY <1>1, <1>4, <2>1 DEF Drop, Pack
  <2>3. dungeon' = [dungeon EXCEPT !.floor[dungeon.room][i] =
                      dungeon.floor[dungeon.room][i] + 1]
        /\ dungeon.floor[dungeon.room][i] + 1 \in Nat
    BY <1>2, <1>4 DEF Drop
  <2>4. dungeon' \in Dungeon /\ dungeon'.room = dungeon.room
        /\ dungeon'.cleared = dungeon.cleared
    BY <1>1, <2>3 DEF Dungeon
  <2>5. UNCHANGED <<hero, combat, saves, pc, driver, iter>>
    BY <1>4 DEF Drop
  <2>6. QED
    BY <1>1, <2>2, <2>4, <2>5, QuietStep
<1>5. ASSUME NEW i \in Items, Equip(i)
      PROVE  Inv'
  <2>1. pack.inv[i] - 1 \in Nat
    <3>1. pack.inv[i] > 0
      BY <1>5, Zenon DEF Equip, CanEquip
    <3>2. QED
      BY <1>2, <3>1
  <2>2. pack' \in Pack
    BY <1>1, <1>5, <2>1 DEF Equip, CanEquip, Pack
  <2>3. UNCHANGED <<hero, dungeon, combat, saves, pc, driver, iter>>
    BY <1>5 DEF Equip
  <2>4. QED
    BY <1>1, <2>2, <2>3, QuietStep
<1>6. ASSUME NEW s \in Slots, Unequip(s)
      PROVE  Inv'
  <2>1. pack.worn[s] \in Items
    BY <1>1, <1>6 DEF Unequip, Pack
  <2>2. pack.inv[pack.worn[s]] + 1 \in Nat
    BY <1>2, <2>1
  <2>3. pack' \in Pack
    BY <1>1, <1>6, <2>1, <2>2 DEF Unequip, Pack
  <2>4. UNCHANGED <<hero, dungeon, combat, saves, pc, driver, iter>>
    BY <1>6 DEF Unequip
  <2>5. QED
    BY <1>1, <2>3, <2>4, QuietStep
<1>7. QED
  BY <1>3, <1>4, <1>5, <1>6

\* A potion heals.
LEMMA UseItemStep ==
  ASSUME Inv, NEW i \in Items, UseItem(i)
  PROVE  Inv'
<1>1. HeroOK(hero) /\ pack \in Pack /\ dungeon \in Dungeon
  BY DEF Inv, Sound
<1>2. PICK roll \in ItemDice[i] : hero' = Heal(hero, AtLeastOne(roll))
  BY DEF UseItem
<1>3. AtLeastOne(roll) \in Int /\ AtLeastOne(roll) >= 1
  BY <1>2, ItemAssumption DEF AtLeastOne
<1>4. HeroOK(hero') /\ hero'.hp >= hero.hp
  BY <1>1, <1>2, <1>3, HealOK
<1>5. pack.inv[i] - 1 \in Nat /\ pack' = [pack EXCEPT !.inv[i] = pack.inv[i] - 1]
  BY <1>1 DEF UseItem, CanUse, Pack
<1>6. pack' \in Pack
  BY <1>1, <1>5 DEF Pack
<1>7. UNCHANGED <<dungeon, combat, saves, pc, driver, iter>>
  BY DEF UseItem, handler
<1>8. QED
  BY <1>1, <1>4, <1>6, <1>7, QuietStep

\* A fight begins sound: every order of the turns starts with the hero or an
\* enemy that has hit points.
LEMMA CombatStarts ==
  ASSUME NEW r \in Rooms, RoomEnemies[r] # <<>>,
         NEW order \in TurnOrders(Len(RoomEnemies[r]))
  PROVE  Ongoing(StartCombat(RoomEnemies[r], order))
<1> DEFINE ts == RoomEnemies[r]
           n == Len(ts)
           c == StartCombat(ts, order)
<1>1. ts \in Seq(Templates) \ {<<>>} /\ n \in Nat \ {0} /\ ts \in [1..n -> Templates]
  BY WorldAssumption
<1>2. \A i \in 1..n : EnemyHP[ts[i]] \in Nat \ {0}
  BY <1>1, EnemyAssumption
<1> HIDE DEF n, ts
<1>3. c \in Fights(n)
  BY <1>1, <1>2 DEF Fights, StartCombat, n, ts
<1>4. c.tmpl = ts /\ c.turn = 1 /\ ~c.defending /\ c.active /\ c.order = order
      /\ \A i \in 1..n : c.hp[i] = EnemyHP[ts[i]]
      /\ DOMAIN c.hp = 1..n
  BY DEF StartCombat, n
<1> HIDE DEF c
<1>5. CombatOK(c)
  BY <1>1, <1>3, <1>4 DEF CombatOK, n
<1>6. \A i \in 1..n : i \in Alive(c)
  <2>1. \A i \in 1..n : c.hp[i] > 0
    BY <1>2, <1>4
  <2>2. QED
    BY <1>4, <2>1, Zenon DEF Alive
<1>7. 1 \in TurnStops(c)
  <2>1. FightShape(n, c)
    BY <1>1, <1>3, FightFields
  <2>2. 1 \in DOMAIN c.order /\ c.order[1] \in 0..n
    BY <1>1, <2>1 DEF FightShape
  <2>3. QED
    BY <1>1, <1>6, <2>2 DEF TurnStops, HERO
<1>8. Alive(c) # {}
  <2>1. 1 \in 1..n
    BY <1>1
  <2>2. QED
    BY <1>6, <2>1
<1>9. QED
  BY <1>4, <1>5, <1>7, <1>8 DEF Ongoing, c, ts

\* Moving is only possible out of combat, so by a living hero.
LEMMA MoveStep ==
  ASSUME Inv, pc = "ready", ~combat.active, NEW d \in Drivers,
         NEW exit \in Exits[dungeon.room], HeroMoves(d, exit)
  PROVE  Inv'
<1>1. /\ HeroOK(hero) /\ pack \in Pack /\ dungeon \in Dungeon /\ CombatOK(combat)
      /\ hero.hp \in Int /\ ~(hero.hp <= 0)
  BY DEF Inv, Sound, HeroOK, Hero
<1>2. combat = NoCombat
  BY <1>1 DEF CombatOK, Fights
<1>3. exit.to \in Rooms
  BY <1>1, WorldAssumption DEF Dungeon
<1>4. /\ dungeon' \in Dungeon /\ dungeon'.room = exit.to
      /\ dungeon'.cleared = dungeon.cleared
  BY <1>1, <1>3 DEF HeroMoves, Dungeon
<1>5. UNCHANGED <<hero, pack, saves>> /\ hero'.hp > 0
  BY <1>1 DEF HeroMoves
<1>6. CASE CanStartCombat(combat, dungeon')
  <2>1. LetEnemiesAct(d)
    BY <1>6 DEF HeroMoves
  <2>2. RoomEnemies[exit.to] # <<>> /\ exit.to \notin dungeon'.cleared
    BY <1>4, <1>6 DEF CanStartCombat
  <2>3. PICK order \in TurnOrders(Len(RoomEnemies[exit.to])) :
          combat' = StartCombat(RoomEnemies[exit.to], order)
    BY <1>6 DEF HeroMoves
  <2>4. Ongoing(combat')
    BY <1>3, <2>2, <2>3, CombatStarts
  <2>5. QED
    BY <1>1, <1>4, <1>5, <2>1, <2>2, <2>4, FightGoesOn
<1>7. CASE ~CanStartCombat(combat, dungeon')
  <2>1. UNCHANGED <<combat, pc, driver, iter>>
    BY <1>7 DEF HeroMoves, handler
  <2>2. driver' \in Drivers \cup {NoDriver} /\ iter' \in Nat
    BY <2>1 DEF Inv, HandlerInv
  <2>3. QED
    BY <1>1, <1>2, <1>4, <1>5, <2>1, <2>2, NoFight
<1>8. QED
  BY <1>6, <1>7

\* A blow or a damage spell, by a living hero in a fight.
LEMMA HitStep ==
  ASSUME Inv, combat.active, hero.hp > 0, NEW d \in Drivers,
         NEW h, HeroOK(h), h.hp = hero.hp, h.xp = hero.xp,
         NEW t \in Alive(combat), NEW damage \in Nat, HeroHits(d, h, t, damage)
  PROVE  Inv'
<1> DEFINE c == Hit(combat, t, damage)
           xp == hero.xp + XPAwarded(c, t)
           won == Alive(c) = {}
<1>1. /\ HeroOK(hero) /\ pack \in Pack /\ dungeon \in Dungeon /\ CombatOK(combat)
      /\ dungeon.room \notin dungeon.cleared /\ dungeon.room \in Rooms
  BY DEF Inv, Sound, Dungeon
<1>2. /\ IF won THEN AfterHit(c) = NoCombat ELSE Ongoing(AfterHit(c))
      /\ XPAwarded(c, t) \in Nat
  BY <1>1, HitLands
<1>3. /\ combat' = AfterHit(c)
      /\ hero' = [h EXCEPT !.xp = xp, !.wonXP = IF won THEN xp ELSE h.wonXP]
      /\ dungeon' = IF won THEN [dungeon EXCEPT !.cleared = dungeon.cleared \cup {dungeon.room}]
                    ELSE dungeon
      /\ IF won THEN CheckLevels(d) ELSE LetEnemiesAct(d)
      /\ UNCHANGED <<pack, saves>>
  BY DEF HeroHits
<1> HIDE DEF c
<1>4. xp \in Nat /\ xp >= h.xp
  BY <1>1, <1>2 DEF HeroOK, Hero
<1> HIDE DEF xp, won
<1>5. HeroOK(hero') /\ hero'.hp > 0
  <2> DEFINE w == IF won THEN xp ELSE h.wonXP
  <2>1. w \in Nat /\ w <= xp
    BY <1>4 DEF HeroOK, Hero
  <2>2. hero' = [h EXCEPT !.xp = xp, !.wonXP = w]
    BY <1>3
  <2> HIDE DEF w
  <2>3. QED
    BY <1>4, <2>1, <2>2 DEF HeroOK, Hero
<1>6. dungeon' \in Dungeon
  BY <1>1, <1>3 DEF Dungeon
<1>7. CASE won
  <2>1. combat' = NoCombat
    BY <1>2, <1>3, <1>7
  <2>2. pc' = "levelup" /\ driver' \in Drivers /\ iter' \in Nat
    BY <1>3, <1>7 DEF CheckLevels
  <2>3. QED
    BY <1>1, <1>3, <1>5, <1>6, <2>1, <2>2, NoFight
<1>8. CASE ~won
  <2>1. Ongoing(combat') /\ LetEnemiesAct(d) /\ dungeon' = dungeon
    BY <1>2, <1>3, <1>8
  <2>2. QED
    BY <1>1, <1>3, <1>5, <1>6, <2>1, FightGoesOn
<1>9. QED
  BY <1>7, <1>8

\* Attacking, defending and fleeing.
LEMMA HeroActs ==
  ASSUME Inv, pc = "ready", NEW d \in Drivers,
         \/ \E t \in Alive(combat) : HeroAttacks(d, t)
         \/ HeroDefends(d)
         \/ HeroFlees(d)
  PROVE  Inv'
<1>1. /\ HeroOK(hero) /\ pack \in Pack /\ dungeon \in Dungeon /\ CombatOK(combat)
      /\ hero.hp \in Int
  BY DEF Inv, Sound, HeroOK, Hero
<1>2. combat.active /\ hero.hp > 0
  BY DEF HeroAttacks, HeroDefends, HeroFlees, HeroMayAct
<1>3. dungeon.room \notin dungeon.cleared /\ Alive(combat) # {}
  BY <1>2 DEF Inv, Sound, Ongoing
<1>4. Ongoing(Defend(combat)) /\ Ongoing(LoseTurn(combat))
  BY <1>1, <1>2, <1>3, TurnPasses
<1>5. ASSUME NEW t \in Alive(combat), HeroAttacks(d, t)
      PROVE  Inv'
  <2>1. PICK damage \in RollHeroDamage(pack) : HeroHits(d, hero, t, damage)
    BY <1>5 DEF HeroAttacks
  <2>2. damage \in Nat
    <3>1. pack.worn["weapon"] \in Items \cup {NoItem}
      BY <1>1 DEF Pack, Slots
    <3>2. QED
      BY <2>1, <3>1, ItemAssumption DEF RollHeroDamage, AtLeastOne
  <2>3. QED
    BY <1>1, <1>2, <2>1, <2>2, HitStep
<1>6. CASE HeroDefends(d)
  <2>1. combat' = Defend(combat) /\ LetEnemiesAct(d)
        /\ UNCHANGED <<hero, pack, dungeon, saves>>
    BY <1>6 DEF HeroDefends
  <2>2. QED
    BY <1>1, <1>2, <1>3, <1>4, <2>1, FightGoesOn
<1>7. CASE HeroFlees(d)
  <2>1. UNCHANGED <<hero, pack, dungeon, saves>>
        /\ \/ combat' = NoCombat /\ UNCHANGED <<pc, driver, iter>>
           \/ combat' = LoseTurn(combat) /\ LetEnemiesAct(d)
    BY <1>7 DEF HeroFlees, handler
  <2>2. CASE combat' = LoseTurn(combat) /\ LetEnemiesAct(d)
    BY <1>1, <1>2, <1>3, <1>4, <2>1, <2>2, FightGoesOn
  <2>3. CASE combat' = NoCombat /\ UNCHANGED <<pc, driver, iter>>
    <3>1. pc' = "ready" /\ driver' \in Drivers \cup {NoDriver} /\ iter' \in Nat
      BY <2>3 DEF Inv, HandlerInv
    <3>2. QED
      BY <1>1, <1>2, <2>1, <2>3, <3>1, NoFight
  <2>4. QED
    BY <2>1, <2>2, <2>3
<1>8. QED
  BY <1>5, <1>6, <1>7

\* Casting a spell.
LEMMA CastStep ==
  ASSUME Inv, pc = "ready", NEW d \in Drivers, NEW s \in Spells,
         \/ CastHeal(d, s)
         \/ \E t \in Alive(combat) : CastDamage(d, s, t)
  PROVE  Inv'
<1>1. /\ HeroOK(hero) /\ pack \in Pack /\ dungeon \in Dungeon /\ CombatOK(combat)
      /\ hero.hp \in Int /\ hero.mp \in Nat /\ SpellCost[s] \in Nat
  BY SpellAssumption DEF Inv, Sound, HeroOK, Hero
<1>2. hero.hp > 0 /\ hero.mp >= SpellCost[s]
  BY DEF CastHeal, CastDamage, CanCast
<1>3. \A roll \in SpellDice[s] : AtLeastOne(roll) \in Nat /\ AtLeastOne(roll) >= 1
  BY SpellAssumption DEF AtLeastOne
<1>4. ASSUME NEW t \in Alive(combat), CastDamage(d, s, t)
      PROVE  Inv'
  <2>1. combat.active
    BY <1>4 DEF CastDamage, CanCast
  <2>2. PICK roll \in SpellDice[s] : HeroHits(d, PayMP(hero, s), t, AtLeastOne(roll))
    BY <1>4 DEF CastDamage
  <2>3. /\ HeroOK(PayMP(hero, s)) /\ PayMP(hero, s).hp = hero.hp
        /\ PayMP(hero, s).xp = hero.xp
    BY <1>1, <1>2, PayMPOK
  <2>4. QED
    BY <1>2, <1>3, <2>1, <2>2, <2>3, HitStep
<1>5. CASE CastHeal(d, s)
  <2>1. PICK roll \in SpellDice[s] : hero' = PayMP(Heal(hero, AtLeastOne(roll)), s)
    BY <1>5 DEF CastHeal
  <2> DEFINE k == AtLeastOne(roll)
             h == Heal(hero, k)
  <2>2. k \in Int /\ k >= 1
    BY <1>3
  <2>3. HeroOK(h) /\ h.hp >= hero.hp
    BY <1>1, <2>2, HealOK
  <2>4. h.mp = hero.mp
    BY <1>1 DEF Heal, HeroOK, Hero
  <2> HIDE DEF h
  <2>5. HeroOK(hero') /\ hero'.hp = h.hp
    BY <1>2, <2>1, <2>3, <2>4, PayMPOK DEF h
  <2>6. HeroOK(hero') /\ hero'.hp >= hero.hp /\ hero'.hp > 0
    BY <1>1, <1>2, <2>3, <2>5 DEF HeroOK, Hero
  <2>7. UNCHANGED <<pack, dungeon, saves>>
    BY <1>5 DEF CastHeal
  <2>8. CASE combat.active
    <3>1. combat' = LoseTurn(combat) /\ LetEnemiesAct(d)
      BY <1>5, <2>8 DEF CastHeal
    <3>2. dungeon.room \notin dungeon.cleared /\ Alive(combat) # {}
      BY <2>8 DEF Inv, Sound, Ongoing
    <3>3. Ongoing(combat')
      BY <1>1, <2>8, <3>1, <3>2, TurnPasses
    <3>4. QED
      BY <1>1, <2>6, <2>7, <3>1, <3>2, <3>3, FightGoesOn
  <2>9. CASE ~combat.active
    <3>1. UNCHANGED <<combat, pc, driver, iter>>
      BY <1>5, <2>9 DEF CastHeal, handler
    <3>2. QED
      BY <1>1, <2>6, <2>7, <3>1, QuietStep
  <2>10. QED
    BY <2>8, <2>9
<1>6. QED
  BY <1>4, <1>5

\* Saving, loading and starting again.
LEMMA SaveLoadSteps ==
  ASSUME Inv, pc = "ready",
         \/ \E s \in SaveSlots : SaveGame(s) \/ LoadGame(s)
         \/ DispatchNewGame
  PROVE  Inv'
<1> USE DEF handler, world
<1>1. /\ Sound(hero, pack, dungeon, combat) /\ Rested(combat) /\ SavesInv
      /\ driver \in Drivers \cup {NoDriver} /\ iter \in Nat
  BY DEF Inv, HandlerInv
<1>2. ASSUME NEW s \in SaveSlots, SaveGame(s)
      PROVE  Inv'
  <2>1. UNCHANGED <<hero, pack, dungeon, combat, pc, driver, iter>>
    BY <1>2 DEF SaveGame
  <2>2. SoundSave(Snapshot)
    BY <1>1 DEF SoundSave, Snapshot
  <2>3. saves' = [saves EXCEPT ![s] = Snapshot]
    BY <1>2 DEF SaveGame
  <2>4. SavesInv'
    <3> HIDE DEF handler, world
    <3>1. DOMAIN saves' = SaveSlots
      BY <1>1, <2>3 DEF SavesInv
    <3>2. ASSUME NEW z \in SaveSlots
          PROVE  saves'[z] = NoSave \/ SoundSave(saves'[z])
      BY <1>1, <2>2, <2>3 DEF SavesInv
    <3>3. QED
      BY <3>1, <3>2 DEF SavesInv, SoundSave, Sound, Rested
  <2>5. Sound(hero, pack, dungeon, combat)' /\ HandlerInv' /\ CapInv' /\ KillerInv'
    BY <2>1 DEF Inv, Sound, HandlerInv, CapInv, KillerInv
  <2>6. QED
    BY <2>4, <2>5 DEF Inv
<1>3. ASSUME NEW s \in SaveSlots, LoadGame(s)
      PROVE  Inv'
  <2>1. SoundSave(saves[s])
    BY <1>1, <1>3 DEF LoadGame, SavesInv
  <2>2. Sound(hero', pack', dungeon', combat') /\ Rested(combat')
    BY <1>3, <2>1 DEF LoadGame, SoundSave
  <2>3. UNCHANGED <<saves, pc, driver, iter>>
    BY <1>3 DEF LoadGame
  <2>4. HandlerInv' /\ CapInv' /\ KillerInv' /\ SavesInv'
    BY <1>1, <2>2, <2>3 DEF HandlerInv, CapInv, KillerInv, SavesInv
  <2>5. QED
    BY <2>2, <2>4 DEF Inv
<1>4. CASE DispatchNewGame
  <2>1. Sound(hero', pack', dungeon', combat') /\ Rested(combat')
    BY <1>4, NewGameSound, NoCombatOK DEF DispatchNewGame, Rested
  <2>2. UNCHANGED <<saves, pc, driver, iter>>
    BY <1>4 DEF DispatchNewGame
  <2>3. HandlerInv' /\ CapInv' /\ KillerInv' /\ SavesInv'
    BY <1>1, <2>1, <2>2 DEF HandlerInv, CapInv, KillerInv, SavesInv
  <2>4. QED
    BY <2>1, <2>3 DEF Inv
<1>5. QED
  BY <1>2, <1>3, <1>4

\* What an enemy's turn can be: the last enemy flees, one of several does, or
\* the enemy attacks.
LEMMA EnemyTurnCases ==
  ASSUME Inv, EnemyTurn,
         NEW roll \in RollEnemyDamage(combat.tmpl[combat.order[combat.turn]])
  PROVE  LET turn == ProcessEnemyTurn(pack, combat, roll)
         IN  \/ LastFlees(combat, turn)
             \/ /\ RoundGoesOn(combat, turn.combat)
                /\ OneFlees(combat, turn) \/ Attacks(combat, turn)
<1>1. ~IsHeroTurn(combat) /\ Ongoing(combat) /\ pack \in Pack
  BY DEF EnemyTurn, EnemiesPending, Inv, Sound
<1>2. roll \in Int
  <2> DEFINE n == Len(combat.tmpl)
             e == combat.order[combat.turn]
  <2>1. n \in Nat \ {0} /\ combat \in Fights(n) /\ FightShape(n, combat)
    BY <1>1, ActiveFight, FightFields DEF Ongoing
  <2>2. e \in 0..n /\ e # HERO
    BY <1>1, <2>1 DEF FightShape, IsHeroTurn
  <2>3. combat.tmpl[e] \in Templates
    BY <2>1, <2>2 DEF FightShape, HERO
  <2>4. RollEnemyDamage(combat.tmpl[e]) \subseteq Int
    BY <2>3, EnemyAssumption DEF RollEnemyDamage, AtLeastOne
  <2>5. QED
    BY <2>4
<1>3. QED
  BY <1>1, <1>2, EnemyTurnOutcome

\* One enemy's turn, in either driver.
LEMMA EnemyTurnStep ==
  ASSUME Inv, EnemyTurn
  PROVE  Inv'
<1>1. PICK roll \in RollEnemyDamage(combat.tmpl[combat.order[combat.turn]]) :
        LET turn == ProcessEnemyTurn(pack, combat, roll)
        IN  DaemonEnemyTurn(turn) \/ LoopEnemyTurn(turn)
  BY DEF EnemyTurn
<1> DEFINE turn == ProcessEnemyTurn(pack, combat, roll)
<1>2. /\ pc = "enemies" /\ combat.active /\ ~IsHeroTurn(combat) /\ Ongoing(combat)
      /\ HeroOK(hero) /\ pack \in Pack /\ dungeon \in Dungeon
      /\ dungeon.room \notin dungeon.cleared /\ hero.hp \in Int
      /\ driver \in Drivers /\ iter \in Nat
  BY DEF EnemyTurn, EnemiesPending, Inv, Sound, HandlerInv, HeroOK, Hero
<1>4. \/ LastFlees(combat, turn)
      \/ RoundGoesOn(combat, turn.combat) /\ (OneFlees(combat, turn) \/ Attacks(combat, turn))
  BY EnemyTurnCases
<1>5. /\ EnemyActs(turn)
      /\ \/ driver = "daemon" /\ iter' = iter + 1 /\ UNCHANGED <<pc, driver>>
         \/ /\ driver = "loop"
            /\ IF turn.action = "attack" /\ hero'.hp <= 0 THEN Return
               ELSE IF ~combat'.active THEN CheckLevels(driver)
               ELSE iter' = iter + 1 /\ UNCHANGED <<pc, driver>>
  BY <1>1 DEF DaemonEnemyTurn, LoopEnemyTurn
<1> HIDE DEF turn
<1>6. /\ combat' = turn.combat /\ UNCHANGED <<pack, saves>>
      /\ hero' = [hero EXCEPT !.hp = hero.hp - turn.damage,
                              !.wonXP = IF ~turn.combat.active THEN hero.xp ELSE hero.wonXP]
      /\ dungeon' = IF ~turn.combat.active
                    THEN [dungeon EXCEPT !.cleared = dungeon.cleared \cup {dungeon.room}]
                    ELSE dungeon
  BY <1>5 DEF EnemyActs
<1>7. CASE LastFlees(combat, turn)
  <2>1. combat' = NoCombat /\ ~turn.combat.active /\ turn.damage = 0 /\ turn.action = "flee"
    BY <1>6, <1>7, NoCombatOK DEF LastFlees
  <2>2. hero.hp > 0
    <3>1. SUFFICES ASSUME hero.hp <= 0
                   PROVE  FALSE
      BY <1>2
    <3>2. PICK q \in DOMAIN combat.order :
            combat.order[q] \in Alive(combat) /\ Rank(combat, q) < Rank(combat, combat.turn)
      BY <1>2, <3>1 DEF Inv, KillerInv
    <3>3. combat.order[q] = combat.order[combat.turn]
      BY <1>7, <3>2 DEF LastFlees
    <3> DEFINE n == Len(combat.tmpl)
    <3>4. n \in Nat \ {0} /\ combat \in Fights(n) /\ FightShape(n, combat)
      BY <1>2, ActiveFight, FightFields DEF Ongoing
    <3>5. q = combat.turn /\ combat.turn \in 1..n + 1
      BY <3>2, <3>3, <3>4 DEF FightShape
    <3>6. Rank(combat, combat.turn) \in 1..n + 1
      BY <3>4, <3>5, RankRange
    <3>7. QED
      BY <3>2, <3>4, <3>5, <3>6
  <2>3. HeroOK(hero') /\ hero'.hp > 0
    <3>1. hero.xp \in Nat /\ hero.hp - 0 = hero.hp
          /\ hero.hp <= hero.hp /\ hero.xp <= hero.xp
      BY <1>2 DEF HeroOK, Hero
    <3>2. hero' = [hero EXCEPT !.hp = hero.hp, !.wonXP = hero.xp]
      BY <1>6, <2>1, <3>1
    <3>3. QED
      BY <1>2, <2>2, <3>1, <3>2 DEF HeroOK, Hero
  <2>4. dungeon' \in Dungeon
    BY <1>2, <1>6, <2>1 DEF Dungeon
  <2>5. pc' \in {"levelup", "enemies"} /\ driver' \in Drivers /\ iter' \in Nat
    BY <1>2, <1>5, <2>1, NoCombatOK DEF CheckLevels
  <2>6. pack' \in Pack
    BY <1>2, <1>6
  <2>7. QED
    BY <1>6, <2>1, <2>3, <2>4, <2>5, <2>6, NoFight
<1>8. CASE RoundGoesOn(combat, turn.combat) /\ (OneFlees(combat, turn) \/ Attacks(combat, turn))
  <2>1. /\ Ongoing(combat') /\ combat'.active /\ combat'.order = combat.order
        /\ Rank(combat', combat.turn) < Rank(combat', combat'.turn)
        /\ dungeon' = dungeon
    BY <1>6, <1>8 DEF RoundGoesOn, Ongoing
  <2>2. turn.damage \in Nat /\ hero' = [hero EXCEPT !.hp = hero.hp - turn.damage,
                                                    !.wonXP = hero.wonXP]
    BY <1>6, <1>8, <2>1 DEF OneFlees, Attacks
  <2>3. HeroOK(hero') /\ hero'.hp = hero.hp - turn.damage
    <3> DEFINE k == hero.hp - turn.damage
    <3>1. /\ hero.wonXP \in Nat /\ hero.wonXP <= hero.xp
          /\ k \in Int /\ k <= hero.hp
      BY <1>2, <2>2 DEF HeroOK, Hero
    <3>2. hero' = [hero EXCEPT !.hp = k, !.wonXP = hero.wonXP]
      BY <2>2
    <3> HIDE DEF k
    <3>3. /\ hero' \in Hero /\ hero'.hp = k /\ hero'.maxHP = hero.maxHP
          /\ hero'.mp = hero.mp /\ hero'.maxMP = hero.maxMP
          /\ hero'.xp = hero.xp /\ hero'.wonXP = hero.wonXP
      BY <1>2, <3>1, <3>2 DEF HeroOK, Hero
    <3>4. HeroOK(hero')
      BY <1>2, <3>1, <3>3 DEF HeroOK, Hero
    <3>5. QED
      BY <3>3, <3>4 DEF k
  <2>4. Sound(hero, pack, dungeon, combat)'
    BY <1>2, <1>6, <2>1, <2>3 DEF Sound, Ongoing
  <2>5. \A p : Rank(combat', p) = Rank(combat, p)
    BY <2>1 DEF Rank, HeroAt
  <2>6. \/ pc' = "ready" /\ driver' = NoDriver /\ iter' = 0 /\ driver = "loop"
        \/ pc' = "enemies" /\ driver' \in Drivers /\ iter' = iter + 1
    BY <1>2, <1>5, <2>1 DEF Return
  <2>7. HandlerInv'
    BY <1>2, <2>6 DEF HandlerInv, Rested
  <2>8. /\ Rank(combat, combat.turn) \in Int /\ Rank(combat', combat'.turn) \in Int
    <3>1. ASSUME NEW c, Ongoing(c) PROVE Rank(c, c.turn) \in Int
      <4>1. Len(c.tmpl) \in Nat \ {0} /\ c \in Fights(Len(c.tmpl))
        BY <3>1, ActiveFight DEF Ongoing
      <4>2. c.turn \in 1..Len(c.tmpl) + 1
        BY <4>1, FightFields DEF FightShape
      <4>3. Rank(c, c.turn) \in 1..Len(c.tmpl) + 1
        BY <4>1, <4>2, RankRange
      <4>4. QED
        BY <4>1, <4>3
    <3>2. QED
      BY <1>2, <2>1, <3>1
  <2>9. CapInv'
    <3>1. iter < Rank(combat, combat.turn)
      BY <1>2 DEF Inv, CapInv
    <3>2. iter + 1 < Rank(combat', combat'.turn)
      BY <1>2, <2>1, <2>5, <2>8, <3>1
    <3>3. QED
      BY <2>6, <3>2 DEF CapInv
  <2>10. KillerInv'
    <3> SUFFICES ASSUME hero'.hp <= 0
                 PROVE  \E q \in DOMAIN combat'.order :
                           /\ combat'.order[q] \in Alive(combat')
                           /\ Rank(combat', q) < Rank(combat', combat'.turn)
      BY DEF KillerInv
    <3> DEFINE e == combat.order[combat.turn]
    <3>1. e \in Alive(combat) /\ combat.turn \in DOMAIN combat.order
      BY <1>2 DEF Ongoing, TurnStops, IsHeroTurn
    <3>2. CASE Attacks(combat, turn)
      <4>1. e \in Alive(combat')
        BY <1>6, <3>1, <3>2 DEF Attacks
      <4>2. QED
        BY <2>1, <3>1, <4>1
    <3>3. CASE OneFlees(combat, turn)
      <4>1. hero.hp <= 0
        BY <1>2, <2>3, <3>3 DEF OneFlees
      <4>2. PICK q \in DOMAIN combat.order :
              combat.order[q] \in Alive(combat) /\ Rank(combat, q) < Rank(combat, combat.turn)
        BY <1>2, <4>1 DEF Inv, KillerInv
      <4>3. combat.order[q] # e
        <5> DEFINE n == Len(combat.tmpl)
        <5>1. n \in Nat \ {0} /\ combat \in Fights(n) /\ FightShape(n, combat)
          BY <1>2, ActiveFight, FightFields DEF Ongoing
        <5>2. q # combat.turn
          BY <2>8, <4>2
        <5>3. QED
          BY <5>1, <5>2 DEF FightShape
      <4>4. combat'.order[q] \in Alive(combat')
        BY <1>6, <2>1, <3>3, <4>2, <4>3 DEF OneFlees
      <4>5. Rank(combat', q) < Rank(combat', combat'.turn)
        <5> DEFINE n == Len(combat.tmpl)
        <5>1. n \in Nat \ {0} /\ combat \in Fights(n) /\ FightShape(n, combat)
          BY <1>2, ActiveFight, FightFields DEF Ongoing
        <5>2. q \in 1..n + 1
          BY <5>1 DEF FightShape
        <5>3. Rank(combat, q) \in Int
          BY <5>1, <5>2, RankRange
        <5>4. QED
          BY <2>1, <2>5, <2>8, <4>2, <5>3
      <4>6. QED
        BY <2>1, <4>4, <4>5
    <3>4. QED
      BY <1>8, <3>2, <3>3
  <2>11. SavesInv'
    BY <1>6 DEF Inv, SavesInv
  <2>12. QED
    BY <2>4, <2>7, <2>9, <2>10, <2>11 DEF Inv
<1>9. QED
  BY <1>4, <1>7, <1>8

\* The cap cannot stop the enemies of a state that satisfies the invariant.
LEMMA CapFromInv == Inv => CapNeverBinds
<1> SUFFICES ASSUME Inv, pc = "enemies", combat.active, ~IsHeroTurn(combat)
             PROVE  iter < MaxIter(driver)
  BY DEF CapNeverBinds
<1> DEFINE n == Len(combat.tmpl)
<1>1. n \in Nat \ {0} /\ combat \in Fights(n)
  BY ActiveFight DEF Inv, Sound
<1>2. FightShape(n, combat)
  BY <1>1, FightFields
<1>3. combat.turn \in 1..n + 1 /\ combat.turn # HeroAt(combat)
  BY <1>1, <1>2, HeroPosition DEF FightShape
<1>4. Rank(combat, combat.turn) \in 1..n + 1
  BY <1>1, <1>3, RankRange
<1>5. iter \in Nat /\ iter < Rank(combat, combat.turn)
  BY DEF Inv, CapInv, HandlerInv
<1>6. Cardinality(DOMAIN combat.order) = n + 1
  BY <1>2 DEF FightShape
<1>7. QED
  BY <1>1, <1>4, <1>5, <1>6 DEF MaxIter, AtLeastOne

\* The other steps of a running handler.
LEMMA HandlerSteps ==
  ASSUME Inv, EnemyTurnsOver \/ LevelStep \/ LevelsChecked
  PROVE  Inv'
<1> USE DEF handler, world
<1>1. /\ HeroOK(hero) /\ pack \in Pack /\ dungeon \in Dungeon /\ CombatOK(combat)
  BY DEF Inv, Sound
<1>2. CASE EnemyTurnsOver
  <2>1. pc = "enemies" /\ ~EnemiesPending /\ Return
        /\ UNCHANGED <<hero, pack, dungeon, combat, saves>>
    BY <1>2 DEF EnemyTurnsOver
  <2>2. Rested(combat)
    <3> SUFFICES ASSUME combat.active
                 PROVE  IsHeroTurn(combat)
      BY DEF Rested
    <3>1. IsHeroTurn(combat) \/ ~(iter < MaxIter(driver))
      BY <2>1 DEF EnemiesPending
    <3>2. ~IsHeroTurn(combat) => iter < MaxIter(driver)
      BY <2>1, CapFromInv DEF CapNeverBinds
    <3>3. QED
      BY <3>1, <3>2
  <2>3. QED
    BY <2>1, <2>2, HandlerEnds
<1>3. CASE LevelStep
  <2>1. CanLevelUp(hero) /\ hero' = LevelUp(hero)
        /\ UNCHANGED <<pack, dungeon, combat, saves, pc, driver, iter>>
    BY <1>3 DEF LevelStep
  <2>2. HeroOK(hero') /\ hero'.hp >= hero.hp
    BY <1>1, <2>1, LevelUpOK
  <2>3. QED
    BY <1>1, <2>1, <2>2, QuietStep
<1>4. CASE LevelsChecked
  <2>1. pc = "levelup" /\ Return /\ UNCHANGED <<hero, pack, dungeon, combat, saves>>
    BY <1>4 DEF LevelsChecked
  <2>2. Rested(combat)
    BY <2>1 DEF Inv, HandlerInv, Rested
  <2>3. QED
    BY <2>1, <2>2, HandlerEnds
<1>5. QED
  BY <1>2, <1>3, <1>4

-----------------------------------------------------------------------------
(* The invariant is inductive, and what follows from it.                   *)

\* Every initial state satisfies the invariant.
LEMMA InitInv == Init => Inv
<1> SUFFICES ASSUME Init PROVE Inv
  OBVIOUS
<1>1. Sound(hero, pack, dungeon, combat)
  BY NewGameSound DEF Init
<1>2. HandlerInv /\ CapInv /\ KillerInv
  BY NoCombatOK DEF Init, HandlerInv, CapInv, KillerInv, Rested
<1>3. SavesInv
  BY DEF Init, SavesInv
<1>4. QED
  BY <1>1, <1>2, <1>3 DEF Inv

\* Every step, of a player or of a running handler, preserves it.
LEMMA NextInv == Inv /\ [Next]_vars => Inv'
<1> SUFFICES ASSUME Inv, [Next]_vars
             PROVE  Inv'
  OBVIOUS
<1>1. CASE Dispatch
  <2>1. "daemon" \in Drivers /\ pc = "ready"
    BY <1>1 DEF Dispatch
  <2>2. CASE DispatchItem
    BY <2>2, ItemSteps DEF DispatchItem
  <2>3. CASE DispatchMove
    BY <2>1, <2>3, MoveStep DEF DispatchMove
  <2>4. CASE DispatchAttack \/ DispatchDefend \/ DispatchFlee
    BY <2>1, <2>4, HeroActs DEF DispatchAttack, DispatchDefend, DispatchFlee
  <2>5. CASE DispatchCastSpell
    BY <2>1, <2>5, CastStep DEF DispatchCastSpell
  <2>6. CASE DispatchUseItem
    BY <2>6, UseItemStep DEF DispatchUseItem
  <2>7. CASE DispatchSaveLoad \/ DispatchNewGame
    BY <2>1, <2>7, SaveLoadSteps DEF DispatchSaveLoad
  <2>8. QED
    BY <1>1, <2>2, <2>3, <2>4, <2>5, <2>6, <2>7 DEF Dispatch
<1>2. CASE LoopDispatch
  <2>1. "loop" \in Drivers /\ pc = "ready"
    BY <1>2 DEF LoopDispatch
  <2>2. CASE LoopItem
    BY <2>2, ItemSteps DEF LoopItem
  <2>3. CASE LoopMove
    BY <2>1, <2>3, MoveStep DEF LoopMove
  <2>4. CASE LoopAttack \/ LoopDefend \/ LoopFlee
    BY <2>1, <2>4, HeroActs DEF LoopAttack, LoopDefend, LoopFlee
  <2>5. CASE LoopCast
    BY <2>1, <2>5, CastStep DEF LoopCast
  <2>6. CASE LoopUse
    BY <2>6, UseItemStep DEF LoopUse
  <2>7. CASE LoopSaveLoad
    BY <2>1, <2>7, SaveLoadSteps DEF LoopSaveLoad
  <2>8. QED
    BY <1>2, <2>2, <2>3, <2>4, <2>5, <2>6, <2>7 DEF LoopDispatch
<1>3. CASE HandlerStep
  BY <1>3, EnemyTurnStep, HandlerSteps DEF HandlerStep
<1>4. CASE UNCHANGED vars
  BY <1>4 DEF vars, Inv, Sound, HandlerInv, CapInv, KillerInv, SavesInv
<1>5. QED
  BY <1>1, <1>2, <1>3, <1>4 DEF Next

\* The invariant holds of every reachable state.
THEOREM Invariant == Spec => []Inv
BY InitInv, NextInv, PTL DEF Spec

\* Every variable and every save keeps its shape: in particular a combat
\* record lists the hero and every enemy of the room exactly once, and its
\* current turn is a position of that list, through every handler and load.
THEOREM TypeCorrect == Spec => []TypeOK
<1>1. Inv => TypeOK
  <2> SUFFICES ASSUME Inv PROVE TypeOK
    OBVIOUS
  <2>1. GameOK(Snapshot)
    BY DEF Inv, Sound, HeroOK, GameOK, Snapshot
  <2>2. DOMAIN saves = SaveSlots /\ \A s \in SaveSlots : saves[s] = NoSave \/ GameOK(saves[s])
    BY DEF Inv, SavesInv, SoundSave, Sound, HeroOK, GameOK
  <2>3. pc \in {"ready", "enemies", "levelup"} /\ driver \in {"daemon", "loop", NoDriver}
        /\ iter \in Nat
    BY PlayAssumption DEF Inv, HandlerInv
  <2>4. QED
    BY <2>1, <2>2, <2>3 DEF TypeOK
<1>2. QED
  BY <1>1, Invariant, PTL

\* Hit and magic points never exceed their maximum.
THEOREM VitalsAlwaysBounded == Spec => []VitalsBounded
<1>1. Inv => VitalsBounded
  BY DEF Inv, Sound, HeroOK, VitalsBounded
<1>2. QED
  BY <1>1, Invariant, PTL

\* A fight always has someone left to fight, in a room not yet cleared, and
\* never waits for a dead enemy.
THEOREM CombatAlwaysSound == Spec => []CombatSound
<1>1. Inv => CombatSound
  BY DEF Inv, Sound, Ongoing, CombatSound
<1>2. QED
  BY <1>1, Invariant, PTL

\* The stance is gone by the hero's next turn.
THEOREM StanceAlwaysExpires == Spec => []StanceExpires
<1>1. Inv => StanceExpires
  BY DEF Inv, Sound, Ongoing, StanceExpires
<1>2. QED
  BY <1>1, Invariant, PTL

\* A dead hero never gets out of the fight, in either driver: no victory is
\* scored for a dead hero.
THEOREM DeadHeroNeverWins == Spec => []DeadHeroStaysInCombat
<1>1. Inv => DeadHeroStaysInCombat
  BY DEF Inv, Sound, DeadHeroStaysInCombat
<1>2. QED
  BY <1>1, Invariant, PTL

\* The iteration cap of processEnemyTurns never cuts a round short.
THEOREM CapIsSlack == Spec => []CapNeverBinds
BY CapFromInv, Invariant, PTL

\* When only the dispatcher drives the game, every command of a fight finds
\* the hero's turn.
THEOREM DispatcherRestsOnHeroTurn ==
  ASSUME "loop" \notin Drivers
  PROVE  Spec => []RestsOnHeroTurn
<1>1. Inv => RestsOnHeroTurn
  BY DEF Inv, HandlerInv, Rested, RestsOnHeroTurn
<1>2. QED
  BY <1>1, Invariant, PTL

-----------------------------------------------------------------------------
(* Level-ups.  The game loop checks for them at every victory; with the    *)
(* dispatcher, a last enemy that flees ends the fight without a check.     *)

\* The hero has every level that the experience held at the last victory
\* buys.
Levelled(h) == \A l \in 2..MaxLevel : h.wonXP >= XPThreshold[l] => h.level >= l

\* So it is of the hero, except while the check is running, and of the saves.
LevelsInv ==
  /\ pc # "levelup" => Levelled(hero)
  /\ \A s \in SaveSlots : saves[s] = NoSave \/ Levelled(saves[s].hero)

\* A step that neither wins a fight nor changes the level.
LEMMA LevelsKept ==
  ASSUME LevelsInv, UNCHANGED saves, pc # "levelup",
         hero'.wonXP = hero.wonXP, hero'.level = hero.level
  PROVE  LevelsInv'
BY DEF LevelsInv, Levelled

\* When CheckLevelUp stops, the hero has every level the experience buys.
LEMMA CheckIsComplete ==
  ASSUME NEW h, HeroOK(h), ~CanLevelUp(h)
  PROVE  Levelled(h)
<1> SUFFICES ASSUME NEW l \in 2..MaxLevel, h.wonXP >= XPThreshold[l], ~(h.level >= l)
             PROVE  FALSE
  BY DEF Levelled
<1>1. /\ h.level \in 1..MaxLevel /\ h.xp \in Nat /\ h.wonXP \in Nat /\ h.wonXP <= h.xp
      /\ MaxLevel \in Nat
  BY ClassAssumption DEF HeroOK, Hero
<1> DEFINE k == h.level + 1
<1>2. k \in 2..MaxLevel /\ k <= l /\ h.level < MaxLevel
  BY <1>1
<1>3. h.xp < XPThreshold[k]
  <2>1. ~(h.xp >= XPThreshold[k])
    BY <1>2 DEF CanLevelUp
  <2>2. XPThreshold[k] \in Nat
    BY <1>2, ClassAssumption
  <2>3. QED
    BY <1>1, <2>1, <2>2
<1>4. XPThreshold[k] <= XPThreshold[l] /\ XPThreshold[k] \in Nat /\ XPThreshold[l] \in Nat
  BY <1>2, ClassAssumption
<1>5. QED
  BY <1>1, <1>3, <1>4

\* A new character has level 1 and no experience.
LEMMA NewCharacterLevelled == Levelled(NewCharacter)
BY ClassAssumption DEF Levelled, NewCharacter

\* Healing, paying for a spell and the items leave the levels alone.
LEMMA HeroLevelFixed ==
  ASSUME NEW h, HeroOK(h)
  PROVE  /\ \A n \in Int : Heal(h, n).wonXP = h.wonXP /\ Heal(h, n).level = h.level
         /\ \A s \in Spells : PayMP(h, s).wonXP = h.wonXP /\ PayMP(h, s).level = h.level
BY DEF HeroOK, Hero, Heal, PayMP

\* A blow that wins the fight starts the check.
LEMMA HitLevels ==
  ASSUME Inv, LevelsInv, pc = "ready", NEW d, NEW h, HeroOK(h), h.level = hero.level,
         h.wonXP = hero.wonXP, NEW t, NEW damage, HeroHits(d, h, t, damage)
  PROVE  LevelsInv'
<1> DEFINE c == Hit(combat, t, damage)
           xp == hero.xp + XPAwarded(c, t)
           won == Alive(c) = {}
<1>1. /\ hero' = [h EXCEPT !.xp = xp, !.wonXP = IF won THEN xp ELSE h.wonXP]
      /\ IF won THEN CheckLevels(d) ELSE LetEnemiesAct(d)
      /\ UNCHANGED saves
  BY DEF HeroHits
<1> HIDE DEF xp, won
<1>2. CASE won
  BY <1>1, <1>2 DEF CheckLevels, LevelsInv
<1>3. CASE ~won
  <2>1. hero' = [h EXCEPT !.xp = xp, !.wonXP = h.wonXP]
    BY <1>1, <1>3
  <2>2. hero'.wonXP = h.wonXP /\ hero'.level = h.level
    BY <2>1 DEF HeroOK, Hero
  <2>3. QED
    BY <1>1, <2>2, LevelsKept
<1>4. QED
  BY <1>2, <1>3

\* One enemy's turn in the game loop: the flight of the last enemy starts the
\* check, any other turn leaves the levels alone.
LEMMA EnemyTurnLevels ==
  ASSUME Inv, LevelsInv, driver # "daemon", EnemyTurn
  PROVE  LevelsInv'
<1>1. PICK roll \in RollEnemyDamage(combat.tmpl[combat.order[combat.turn]]) :
        LoopEnemyTurn(ProcessEnemyTurn(pack, combat, roll))
  BY DEF EnemyTurn, DaemonEnemyTurn
<1> DEFINE turn == ProcessEnemyTurn(pack, combat, roll)
<1>2. pc = "enemies" /\ hero \in Hero
  BY DEF EnemyTurn, Inv, Sound, HeroOK
<1>3. \/ LastFlees(combat, turn)
      \/ RoundGoesOn(combat, turn.combat) /\ (OneFlees(combat, turn) \/ Attacks(combat, turn))
  BY EnemyTurnCases
<1>4. /\ EnemyActs(turn)
      /\ IF turn.action = "attack" /\ hero'.hp <= 0 THEN Return
         ELSE IF ~combat'.active THEN CheckLevels(driver)
         ELSE iter' = iter + 1 /\ UNCHANGED <<pc, driver>>
  BY <1>1 DEF LoopEnemyTurn
<1> HIDE DEF turn
<1>5. /\ combat' = turn.combat /\ UNCHANGED saves
      /\ hero' = [hero EXCEPT !.hp = hero.hp - turn.damage,
                              !.wonXP = IF ~turn.combat.active THEN hero.xp ELSE hero.wonXP]
  BY <1>4 DEF EnemyActs
<1>6. CASE LastFlees(combat, turn)
  <2>1. ~combat'.active /\ turn.action = "flee"
    BY <1>5, <1>6, NoCombatOK DEF LastFlees
  <2>2. pc' = "levelup"
    BY <1>4, <2>1 DEF CheckLevels
  <2>3. QED
    BY <1>5, <2>2 DEF LevelsInv
<1>7. CASE RoundGoesOn(combat, turn.combat)
  <2>1. turn.combat.active
    BY <1>7 DEF RoundGoesOn, Ongoing
  <2>2. hero' = [hero EXCEPT !.hp = hero.hp - turn.damage, !.wonXP = hero.wonXP]
    BY <1>5, <2>1
  <2>3. hero'.wonXP = hero.wonXP /\ hero'.level = hero.level
    BY <1>2, <2>2 DEF Hero
  <2>4. QED
    BY <1>2, <1>5, <2>3, LevelsKept
<1>8. QED
  BY <1>3, <1>6, <1>7

\* Without the dispatcher every step keeps the hero and the saves levelled.
LEMMA NextLevels ==
  ASSUME "daemon" \notin Drivers, Inv, LevelsInv, [Next]_vars
  PROVE  LevelsInv'
<1>1. HeroOK(hero) /\ hero \in Hero
  BY DEF Inv, Sound, HeroOK
<1>2. CASE LoopDispatch
  <2>1. pc = "ready" /\ Levelled(hero)
    BY <1>2 DEF LoopDispatch, LevelsInv
  <2>2. CASE LoopItem \/ LoopMove \/ LoopDefend \/ LoopFlee
    <3>1. UNCHANGED <<hero, saves>>
      BY <2>2 DEF LoopItem, LoopMove, LoopDefend, LoopFlee, PickUp, Drop, Equip, Unequip,
                  HeroMoves, HeroDefends, HeroFlees
    <3>2. QED
      BY <2>1, <3>1, LevelsKept
  <2>3. CASE LoopAttack
    <3>1. PICK t \in Alive(combat), damage \in RollHeroDamage(pack) :
            HeroHits("loop", hero, t, damage)
      BY <2>3 DEF LoopAttack, HeroAttacks
    <3>2. QED
      BY <1>1, <2>1, <3>1, HitLevels
  <2>4. CASE LoopCast
    <3>1. PICK s \in Spells : \/ CastHeal("loop", s)
                              \/ \E t \in Alive(combat) : CastDamage("loop", s, t)
      BY <2>4 DEF LoopCast
    <3>2. ASSUME NEW t \in Alive(combat), CastDamage("loop", s, t)
          PROVE  LevelsInv'
      <4>1. PICK roll \in SpellDice[s] :
              HeroHits("loop", PayMP(hero, s), t, AtLeastOne(roll))
        BY <3>2 DEF CastDamage
      <4>2. HeroOK(PayMP(hero, s))
        <5>1. hero.mp >= SpellCost[s]
          BY <3>2 DEF CastDamage, CanCast
        <5>2. QED
          BY <1>1, <5>1, PayMPOK
      <4>3. PayMP(hero, s).wonXP = hero.wonXP /\ PayMP(hero, s).level = hero.level
        BY <1>1, HeroLevelFixed
      <4>4. QED
        BY <2>1, <4>1, <4>2, <4>3, HitLevels
    <3>3. CASE CastHeal("loop", s)
      <4>1. PICK roll \in SpellDice[s] : hero' = PayMP(Heal(hero, AtLeastOne(roll)), s)
        BY <3>3 DEF CastHeal
      <4> DEFINE n == AtLeastOne(roll)
      <4>2. n \in Int /\ n >= 1
        BY SpellAssumption DEF AtLeastOne
      <4>3. HeroOK(Heal(hero, n)) /\ Heal(hero, n).wonXP = hero.wonXP
            /\ Heal(hero, n).level = hero.level
        BY <1>1, <4>2, HealOK, HeroLevelFixed
      <4>4. hero'.wonXP = hero.wonXP /\ hero'.level = hero.level
        BY <4>1, <4>3, HeroLevelFixed
      <4>5. UNCHANGED saves
        BY <3>3 DEF CastHeal
      <4>6. QED
        BY <2>1, <4>4, <4>5, LevelsKept
    <3>4. QED
      BY <3>1, <3>2, <3>3
  <2>5. CASE LoopUse
    <3>1. PICK i \in Items : UseItem(i)
      BY <2>5 DEF LoopUse
    <3>2. PICK roll \in ItemDice[i] : hero' = Heal(hero, AtLeastOne(roll))
      BY <3>1 DEF UseItem
    <3>3. AtLeastOne(roll) \in Int
      BY <3>2, ItemAssumption DEF AtLeastOne
    <3>4. hero'.wonXP = hero.wonXP /\ hero'.level = hero.level /\ UNCHANGED saves
      BY <1>1, <3>1, <3>2, <3>3, HeroLevelFixed DEF UseItem
    <3>5. QED
      BY <2>1, <3>4, LevelsKept
  <2>6. CASE LoopSaveLoad
    <3>1. PICK s \in SaveSlots : SaveGame(s) \/ LoadGame(s)
      BY <2>6 DEF LoopSaveLoad
    <3>2. CASE SaveGame(s)
      <4>1. UNCHANGED <<hero, pc>> /\ saves' = [saves EXCEPT ![s] = Snapshot]
        BY <3>2 DEF SaveGame, world, handler
      <4>2. DOMAIN saves = SaveSlots /\ Snapshot.hero = hero
        BY DEF Inv, SavesInv, Snapshot
      <4>3. \A z \in SaveSlots : saves'[z] = NoSave \/ Levelled(saves'[z].hero)
        BY <2>1, <4>1, <4>2 DEF LevelsInv
      <4>4. QED
        BY <2>1, <4>1, <4>3 DEF LevelsInv, Levelled
    <3>3. CASE LoadGame(s)
      <4>1. hero' = saves[s].hero /\ Levelled(saves[s].hero) /\ UNCHANGED saves
        BY <3>1, <3>3 DEF LoadGame, LevelsInv
      <4>2. QED
        BY <4>1 DEF LevelsInv, Levelled
    <3>4. QED
      BY <3>1, <3>2, <3>3
  <2>7. QED
    BY <1>2, <2>2, <2>3, <2>4, <2>5, <2>6 DEF LoopDispatch
<1>3. CASE EnemyTurn
  <2>1. driver # "daemon"
    BY <1>3 DEF EnemyTurn, Inv, HandlerInv
  <2>2. QED
    BY <1>3, <2>1, EnemyTurnLevels
<1>4. CASE EnemyTurnsOver
  <2>1. pc # "levelup" /\ UNCHANGED <<hero, saves>>
    BY <1>4 DEF EnemyTurnsOver, world
  <2>2. QED
    BY <2>1, LevelsKept
<1>5. CASE LevelStep
  BY <1>5 DEF LevelStep, handler, LevelsInv
<1>6. CASE LevelsChecked
  <2>1. ~CanLevelUp(hero) /\ UNCHANGED <<hero, saves>>
    BY <1>6 DEF LevelsChecked, world
  <2>2. Levelled(hero)
    BY <1>1, <2>1, CheckIsComplete
  <2>3. QED
    BY <2>1, <2>2 DEF LevelsInv, Levelled
<1>7. CASE UNCHANGED vars
  BY <1>7 DEF vars, LevelsInv, Levelled
<1>8. QED
  BY <1>2, <1>3, <1>4, <1>5, <1>6, <1>7 DEF Next, Dispatch, HandlerStep

\* When the game loop drives the game, the hero has at every command all the
\* levels the experience held at the last victory buys: level-up checks
\* occur after each victory, also one by the flight of the last enemy.
THEOREM LevelsAtVictory ==
  ASSUME "daemon" \notin Drivers
  PROVE  Spec => []VictoryLevels
<1>1. Init => LevelsInv
  BY NewCharacterLevelled DEF Init, LevelsInv
<1>2. Inv /\ LevelsInv /\ [Next]_vars => LevelsInv'
  BY NextLevels
<1>3. LevelsInv => VictoryLevels
  BY DEF LevelsInv, Levelled, VictoryLevels
<1>4. QED
  BY <1>1, <1>2, <1>3, Invariant, PTL DEF Spec

-----------------------------------------------------------------------------
(* Items: the limit on what the hero carries, and their conservation.      *)

Seeded(i) == SumFunction([r \in Rooms |-> RoomItems[r][i]])

\* What holds of the items of every game, the current one and the saved ones.
GoodsOK(p, d) ==
  /\ TotalCarryWeight(p) <= MaxCarryWeight
  /\ \A i \in Items : IF ItemType[i] = "consumable" THEN Count(p, d, i) <= Seeded(i)
                      ELSE Count(p, d, i) = Seeded(i)

GoodsInv ==
  /\ GoodsOK(pack, dungeon)
  /\ \A s \in SaveSlots : saves[s] = NoSave \/ GoodsOK(saves[s].pack, saves[s].dungeon)

\* A new game has nothing in the pack and everything on the floors.
LEMMA NewGoods == GoodsOK(NewPack, NewDungeon)
<1>1. NewPack \in Pack /\ NewDungeon \in Dungeon
  BY NewGameSound DEF Sound
<1>2. TotalCarryWeight(NewPack) = 0
  <2>1. /\ NewPack.inv = [i \in Items |-> 0] /\ NewPack.worn = [s \in Slots |-> NoItem]
    BY DEF NewPack
  <2>2. PackWeights(NewPack) = [i \in Items |-> 0]
    <3>1. \A i \in Items : NewPack.inv[i] * ItemWeight[i] = 0
      BY <2>1, ItemAssumption
    <3>2. QED
      BY <3>1 DEF PackWeights
  <2>3. WornWeights(NewPack) = [s \in Slots |-> 0]
    BY <2>1 DEF WornWeights
  <2>4. QED
    BY <1>1, <2>2, <2>3, ItemAssumption, SlotsFinite, SumOfZeros, GoodsTypes
<1>3. ASSUME NEW i \in Items
      PROVE  Count(NewPack, NewDungeon, i) = Seeded(i) /\ Seeded(i) \in Nat
  <2>1. OnFloors(NewDungeon, i) = [r \in Rooms |-> RoomItems[r][i]]
    BY DEF OnFloors, NewDungeon
  <2>2. WornAt(NewPack, i) = {} /\ NewPack.inv[i] = 0
    BY ItemAssumption DEF WornAt, NewPack
  <2>3. Seeded(i) \in Nat /\ SumFunction(OnFloors(NewDungeon, i)) = Seeded(i)
    BY <1>1, <2>1, GoodsTypes DEF Seeded
  <2>4. Cardinality(WornAt(NewPack, i)) = 0
    BY <2>2, FS_EmptySet
  <2>5. QED
    BY <2>2, <2>3, <2>4 DEF Count
<1>4. QED
  BY <1>2, <1>3 DEF GoodsOK, MaxCarryWeight

\* Only the floors of the dungeon count.
LEMMA GoodsOnFloors ==
  ASSUME NEW p, NEW d, NEW e, GoodsOK(p, d), e.floor = d.floor
  PROVE  GoodsOK(p, e)
BY DEF GoodsOK, Count, OnFloors

\* What ItemMoves says of a step that moves item i, of its weight and of the
\* counts.
WeightMoved(i) ==
  TotalCarryWeight(pack') + pack.inv[i] * ItemWeight[i]
    = TotalCarryWeight(pack) + pack'.inv[i] * ItemWeight[i]
Moved(i) ==
  /\ \A j \in Items : j # i => Count(pack', dungeon', j) = Count(pack, dungeon, j)
  /\ Count(pack', dungeon', i) + pack.inv[i] + dungeon.floor[dungeon.room][i]
       = Count(pack, dungeon, i) + pack'.inv[i] + dungeon'.floor[dungeon.room][i]

\* The weight of n + 1 items is that of n and of one more.
LEMMA WeightOfOne ==
  ASSUME NEW n \in Nat, NEW k \in Nat, NEW t \in Nat, NEW u \in Nat
  PROVE  /\ u + n * k = t + (n + 1) * k => u = t + k
         /\ u + (n + 1) * k = t + n * k => t = u + k
<1>1. n * k \in Nat /\ (n + 1) * k = n * k + k
  OBVIOUS
<1> DEFINE m == n * k
<1>2. m \in Nat /\ (n + 1) * k = m + k
  BY <1>1
<1> HIDE DEF m
<1>3. /\ u + m = t + (m + k) => u = t + k
      /\ u + (m + k) = t + m => t = u + k
  BY <1>2
<1>4. QED
  BY <1>2, <1>3 DEF m

\* The scenario seeds a number of every item.
LEMMA SeededType ==
  ASSUME NEW i \in Items
  PROVE  Seeded(i) \in Nat
<1>1. [r \in Rooms |-> RoomItems[r][i]] \in [Rooms -> Nat]
  BY WorldAssumption
<1>2. QED
  BY <1>1, WorldAssumption, SumType DEF Seeded

\* The item operations, in one step.
LEMMA ItemGoods ==
  ASSUME Inv, GoodsOK(pack, dungeon), pack' \in Pack, dungeon' \in Dungeon,
         \/ \E i \in Items : PickUp(i) \/ Drop(i) \/ Equip(i) \/ UseItem(i)
         \/ \E s \in Slots : Unequip(s)
  PROVE  GoodsOK(pack', dungeon')
<1>1. pack \in Pack /\ dungeon \in Dungeon /\ dungeon.room \in Rooms
  BY DEF Inv, Sound, Dungeon
<1>2. /\ TotalCarryWeight(pack) \in Nat /\ TotalCarryWeight(pack') \in Nat
      /\ \A i \in Items : /\ pack.inv[i] \in Nat /\ pack'.inv[i] \in Nat
                          /\ ItemWeight[i] \in Nat
                          /\ dungeon.floor[dungeon.room][i] \in Nat
                          /\ Count(pack, dungeon, i) \in Nat
                          /\ Count(pack', dungeon', i) \in Nat
  BY <1>1, GoodsTypes, ItemAssumption DEF Count, Dungeon
<1>3. ASSUME NEW i \in Items, PickUp(i)
      PROVE  GoodsOK(pack', dungeon')
  <2> DEFINE k == ItemWeight[i]
             n == pack.inv[i]
  <2>1. /\ pack' = [pack EXCEPT !.inv[i] = n + 1]
        /\ dungeon' = [dungeon EXCEPT !.floor[dungeon.room][i] =
                         dungeon.floor[dungeon.room][i] - 1]
        /\ TotalCarryWeight(pack) + k <= MaxCarryWeight
    BY <1>3 DEF PickUp, CanPickUp
  <2>2. /\ pack'.worn = pack.worn /\ pack'.inv[i] = n + 1
        /\ \A j \in Items : j # i => pack'.inv[j] = pack.inv[j]
    BY <1>1, <2>1 DEF Pack
  <2>3. /\ dungeon'.floor[dungeon.room][i] = dungeon.floor[dungeon.room][i] - 1
        /\ \A z \in Rooms, j \in Items : z # dungeon.room \/ j # i =>
             dungeon'.floor[z][j] = dungeon.floor[z][j]
    BY <1>1, <2>1 DEF Dungeon
  <2>4. Moved(i) /\ WeightMoved(i)
    BY <1>1, <2>2, <2>3, ItemMoves DEF Moved, WeightMoved
  <2>5. TotalCarryWeight(pack') = TotalCarryWeight(pack) + k
    BY <1>2, <2>2, <2>4, WeightOfOne DEF WeightMoved
  <2>6. \A j \in Items : Count(pack', dungeon', j) = Count(pack, dungeon, j)
    <3>1. Count(pack', dungeon', i) = Count(pack, dungeon, i)
      BY <1>2, <2>2, <2>3, <2>4 DEF Moved
    <3>2. QED
      BY <2>4, <3>1 DEF Moved
  <2>7. QED
    BY <2>1, <2>5, <2>6 DEF GoodsOK
<1>4. ASSUME NEW i \in Items, Drop(i)
      PROVE  GoodsOK(pack', dungeon')
  <2> DEFINE k == ItemWeight[i]
             n == pack.inv[i]
  <2>1. /\ pack' = [pack EXCEPT !.inv[i] = n - 1] /\ n - 1 \in Nat
        /\ dungeon' = [dungeon EXCEPT !.floor[dungeon.room][i] =
                         dungeon.floor[dungeon.room][i] + 1]
    BY <1>2, <1>4 DEF Drop
  <2>2. /\ pack'.worn = pack.worn /\ pack'.inv[i] = n - 1
        /\ \A j \in Items : j # i => pack'.inv[j] = pack.inv[j]
    BY <1>1, <2>1 DEF Pack
  <2>3. /\ dungeon'.floor[dungeon.room][i] = dungeon.floor[dungeon.room][i] + 1
        /\ \A z \in Rooms, j \in Items : z # dungeon.room \/ j # i =>
             dungeon'.floor[z][j] = dungeon.floor[z][j]
    BY <1>1, <2>1 DEF Dungeon
  <2>4. Moved(i) /\ WeightMoved(i)
    BY <1>1, <2>2, <2>3, ItemMoves DEF Moved, WeightMoved
  <2>5. TotalCarryWeight(pack) = TotalCarryWeight(pack') + k
    <3>1. n = pack'.inv[i] + 1
      BY <1>2, <2>2
    <3>2. QED
      BY <1>2, <2>4, <3>1, WeightOfOne DEF WeightMoved
  <2>6. \A j \in Items : Count(pack', dungeon', j) = Count(pack, dungeon, j)
    <3>1. Count(pack', dungeon', i) = Count(pack, dungeon, i)
      BY <1>2, <2>2, <2>3, <2>4 DEF Moved
    <3>2. QED
      BY <2>4, <3>1 DEF Moved
  <2>7. TotalCarryWeight(pack') <= MaxCarryWeight
    BY <1>2, <2>5 DEF GoodsOK, MaxCarryWeight
  <2>8. QED
    BY <2>6, <2>7 DEF GoodsOK
<1>5. ASSUME NEW i \in Items, UseItem(i)
      PROVE  GoodsOK(pack', dungeon')
  <2> DEFINE k == ItemWeight[i]
             n == pack.inv[i]
  <2>1. /\ pack' = [pack EXCEPT !.inv[i] = n - 1] /\ n - 1 \in Nat
        /\ dungeon' = dungeon /\ ItemType[i] = "consumable"
    BY <1>2, <1>5 DEF UseItem, CanUse
  <2>2. /\ pack'.worn = pack.worn /\ pack'.inv[i] = n - 1
        /\ \A j \in Items : j # i => pack'.inv[j] = pack.inv[j]
    BY <1>1, <2>1 DEF Pack
  <2>3. Moved(i) /\ WeightMoved(i)
    <3>1. \A z \in Rooms, j \in Items : z # dungeon.room \/ j # i =>
            dungeon'.floor[z][j] = dungeon.floor[z][j]
      BY <2>1
    <3>2. QED
      BY <1>1, <2>2, <3>1, ItemMoves DEF Moved, WeightMoved
  <2>4. TotalCarryWeight(pack) = TotalCarryWeight(pack') + k
    <3>1. n = pack'.inv[i] + 1
      BY <1>2, <2>2
    <3>2. QED
      BY <1>2, <2>3, <3>1, WeightOfOne DEF WeightMoved
  <2>5. Count(pack', dungeon', i) <= Seeded(i)
    <3>1. Count(pack, dungeon, i) = Count(pack', dungeon', i) + 1
      BY <1>2, <2>1, <2>2, <2>3 DEF Moved
    <3>2. Count(pack, dungeon, i) <= Seeded(i)
      BY <2>1 DEF GoodsOK
    <3>3. Seeded(i) \in Nat
      BY SeededType
    <3>4. QED
      BY <1>2, <3>1, <3>2, <3>3
  <2>6. \A j \in Items : j # i => Count(pack', dungeon', j) = Count(pack, dungeon, j)
    BY <2>3 DEF Moved
  <2>7. TotalCarryWeight(pack') <= MaxCarryWeight
    BY <1>2, <2>4 DEF GoodsOK, MaxCarryWeight
  <2>8. QED
    BY <2>1, <2>5, <2>6, <2>7 DEF GoodsOK
<1>6. ASSUME NEW i \in Items, Equip(i)
      PROVE  GoodsOK(pack', dungeon')
  <2>1. pack.inv[i] > 0 /\ ItemType[i] \in Slots /\ pack.worn[ItemType[i]] = NoItem
    BY <1>6, Zenon DEF Equip, CanEquip
  <2> DEFINE s == ItemType[i]
  <2>2. /\ pack' = [pack EXCEPT !.inv[i] = pack.inv[i] - 1, !.worn[s] = i]
        /\ dungeon' = dungeon
    BY <1>6 DEF Equip
  <2> HIDE DEF s
  <2>3. /\ pack'.worn[s] = i /\ pack'.inv[i] = pack.inv[i] - 1
        /\ \A z \in Slots : z # s => pack'.worn[z] = pack.worn[z]
        /\ \A j \in Items : j # i => pack'.inv[j] = pack.inv[j]
    BY <1>1, <2>1, <2>2 DEF Pack, s
  <2>4. pack.inv[i] = pack'.inv[i] + 1
    BY <1>2, <2>3
  <2>5. /\ TotalCarryWeight(pack') = TotalCarryWeight(pack)
        /\ \A j \in Items : Count(pack', dungeon, j) = Count(pack, dungeon, j)
    BY <1>1, <2>1, <2>3, <2>4, ItemWorn DEF s
  <2>6. QED
    BY <2>2, <2>5 DEF GoodsOK
<1>7. ASSUME NEW s \in Slots, Unequip(s)
      PROVE  GoodsOK(pack', dungeon')
  <2> DEFINE i == pack.worn[s]
  <2>1. i \in Items
    BY <1>1, <1>7 DEF Unequip, Pack
  <2>2. /\ pack' = [pack EXCEPT !.worn[s] = NoItem, !.inv[i] = pack.inv[i] + 1]
        /\ dungeon' = dungeon
    BY <1>7 DEF Unequip
  <2>3. pack.worn[s] = i
    OBVIOUS
  <2> HIDE DEF i
  <2>4. /\ pack'.worn[s] = NoItem /\ pack'.inv[i] = pack.inv[i] + 1
        /\ \A z \in Slots : z # s => pack.worn[z] = pack'.worn[z]
        /\ \A j \in Items : j # i => pack.inv[j] = pack'.inv[j]
    BY <1>1, <2>1, <2>2 DEF Pack
  <2>5. /\ TotalCarryWeight(pack) = TotalCarryWeight(pack')
        /\ \A j \in Items : Count(pack, dungeon, j) = Count(pack', dungeon, j)
    BY <1>1, <2>1, <2>3, <2>4, ItemWorn
  <2>6. QED
    BY <2>2, <2>5 DEF GoodsOK
<1>8. QED
  BY <1>3, <1>4, <1>5, <1>6, <1>7

\* Every step keeps the limit and the counts, of the game and of the saves.
LEMMA NextGoods ==
  ASSUME Inv, Inv', GoodsInv, [Next]_vars
  PROVE  GoodsInv'
<1>1. /\ pack \in Pack /\ dungeon \in Dungeon /\ pack' \in Pack /\ dungeon' \in Dungeon
      /\ GoodsOK(pack, dungeon)
  BY DEF Inv, Sound, GoodsInv
<1>2. ASSUME UNCHANGED saves, GoodsOK(pack', dungeon')
      PROVE  GoodsInv'
  BY <1>2 DEF GoodsInv, GoodsOK, Count
<1>3. ASSUME \/ \E i \in Items : PickUp(i) \/ Drop(i) \/ Equip(i) \/ UseItem(i)
             \/ \E s \in Slots : Unequip(s)
      PROVE  GoodsInv'
  <2>1. GoodsOK(pack', dungeon')
    BY <1>1, <1>3, ItemGoods
  <2>2. UNCHANGED saves
    BY <1>3 DEF PickUp, Drop, Equip, UseItem, Unequip
  <2>3. QED
    BY <1>2, <2>1, <2>2
<1>4. ASSUME UNCHANGED <<pack, saves>>, dungeon'.floor = dungeon.floor
      PROVE  GoodsInv'
  <2>1. GoodsOK(pack, dungeon')
    BY <1>1, <1>4, GoodsOnFloors
  <2>2. QED
    BY <1>2, <1>4, <2>1
<1>5. ASSUME NEW d, NEW exit, HeroMoves(d, exit)
      PROVE  GoodsInv'
  <2>1. UNCHANGED <<pack, saves>> /\ dungeon'.floor = dungeon.floor
    BY <1>1, <1>5 DEF HeroMoves, Dungeon
  <2>2. QED
    BY <1>4, <2>1
<1>6. ASSUME NEW d, NEW h, NEW t, NEW damage, HeroHits(d, h, t, damage)
      PROVE  GoodsInv'
  <2>1. /\ UNCHANGED <<pack, saves>>
        /\ \/ dungeon' = [dungeon EXCEPT !.cleared = dungeon.cleared \cup {dungeon.room}]
           \/ dungeon' = dungeon
    BY <1>6 DEF HeroHits
  <2>2. dungeon'.floor = dungeon.floor
    BY <1>1, <2>1 DEF Dungeon
  <2>3. QED
    BY <1>4, <2>1, <2>2
<1>7. ASSUME NEW d, HeroDefends(d) \/ HeroFlees(d) \/ (\E t \in Alive(combat) : HeroAttacks(d, t))
      PROVE  GoodsInv'
  <2>1. CASE HeroDefends(d) \/ HeroFlees(d)
    <3>1. UNCHANGED <<pack, saves, dungeon>>
      BY <2>1 DEF HeroDefends, HeroFlees
    <3>2. QED
      BY <1>4, <3>1
  <2>2. CASE \E t \in Alive(combat) : HeroAttacks(d, t)
    BY <1>6, <2>2 DEF HeroAttacks
  <2>3. QED
    BY <1>7, <2>1, <2>2
<1>8. ASSUME NEW d, NEW s, CastHeal(d, s) \/ (\E t \in Alive(combat) : CastDamage(d, s, t))
      PROVE  GoodsInv'
  <2>1. CASE CastHeal(d, s)
    <3>1. UNCHANGED <<pack, saves, dungeon>>
      BY <2>1 DEF CastHeal
    <3>2. QED
      BY <1>4, <3>1
  <2>2. CASE \E t \in Alive(combat) : CastDamage(d, s, t)
    BY <1>6, <2>2 DEF CastDamage
  <2>3. QED
    BY <1>8, <2>1, <2>2
<1>9. ASSUME NEW s \in SaveSlots, SaveGame(s)
      PROVE  GoodsInv'
  <2>1. UNCHANGED <<pack, dungeon>> /\ saves' = [saves EXCEPT ![s] = Snapshot]
    BY <1>9 DEF SaveGame, world
  <2>2. DOMAIN saves = SaveSlots /\ Snapshot.pack = pack /\ Snapshot.dungeon = dungeon
    BY DEF Inv, SavesInv, Snapshot
  <2>3. \A z \in SaveSlots : saves'[z] = NoSave \/ GoodsOK(saves'[z].pack, saves'[z].dungeon)
    BY <1>1, <2>1, <2>2 DEF GoodsInv
  <2>4. GoodsOK(pack', dungeon')
    BY <1>1, <2>1
  <2>5. QED
    BY <2>3, <2>4 DEF GoodsInv, GoodsOK, Count
<1>10. ASSUME NEW s \in SaveSlots, LoadGame(s)
       PROVE  GoodsInv'
  <2>1. /\ pack' = saves[s].pack /\ dungeon' = saves[s].dungeon /\ UNCHANGED saves
        /\ GoodsOK(saves[s].pack, saves[s].dungeon)
    BY <1>10 DEF LoadGame, GoodsInv
  <2>2. QED
    BY <1>2, <2>1
<1>11. CASE Dispatch
  <2>1. CASE DispatchItem \/ DispatchUseItem
    BY <1>3, <2>1 DEF DispatchItem, DispatchUseItem
  <2>2. CASE DispatchMove
    BY <1>5, <2>2 DEF DispatchMove
  <2>3. CASE DispatchAttack \/ DispatchDefend \/ DispatchFlee
    BY <1>7, <2>3 DEF DispatchAttack, DispatchDefend, DispatchFlee
  <2>4. CASE DispatchCastSpell
    BY <1>8, <2>4 DEF DispatchCastSpell
  <2>5. CASE DispatchSaveLoad
    BY <1>9, <1>10, <2>5 DEF DispatchSaveLoad
  <2>6. CASE DispatchNewGame
    BY <1>2, <2>6, NewGoods DEF DispatchNewGame
  <2>7. QED
    BY <1>11, <2>1, <2>2, <2>3, <2>4, <2>5, <2>6 DEF Dispatch
<1>12. CASE LoopDispatch
  <2>1. CASE LoopItem \/ LoopUse
    BY <1>3, <2>1 DEF LoopItem, LoopUse
  <2>2. CASE LoopMove
    BY <1>5, <2>2 DEF LoopMove
  <2>3. CASE LoopAttack \/ LoopDefend \/ LoopFlee
    BY <1>7, <2>3 DEF LoopAttack, LoopDefend, LoopFlee
  <2>4. CASE LoopCast
    BY <1>8, <2>4 DEF LoopCast
  <2>5. CASE LoopSaveLoad
    BY <1>9, <1>10, <2>5 DEF LoopSaveLoad
  <2>6. QED
    BY <1>12, <2>1, <2>2, <2>3, <2>4, <2>5 DEF LoopDispatch
<1>13. CASE EnemyTurn
  <2>1. PICK turn : EnemyActs(turn)
    BY <1>13 DEF EnemyTurn, DaemonEnemyTurn, LoopEnemyTurn
  <2>2. /\ UNCHANGED <<pack, saves>>
        /\ \/ dungeon' = [dungeon EXCEPT !.cleared = dungeon.cleared \cup {dungeon.room}]
           \/ dungeon' = dungeon
    BY <2>1 DEF EnemyActs
  <2>3. dungeon'.floor = dungeon.floor
    BY <1>1, <2>2 DEF Dungeon
  <2>4. QED
    BY <1>4, <2>2, <2>3
<1>14. CASE EnemyTurnsOver \/ LevelStep \/ LevelsChecked \/ UNCHANGED vars
  <2>1. UNCHANGED <<pack, saves, dungeon>>
    BY <1>14 DEF EnemyTurnsOver, LevelStep, LevelsChecked, world, vars
  <2>2. QED
    BY <1>4, <2>1
<1>15. QED
  BY <1>11, <1>12, <1>13, <1>14 DEF Next, HandlerStep

\* The limit and the counts hold of every reachable state.
LEMMA GoodsInvariant == Spec => []GoodsInv
<1>1. Init => GoodsInv
  BY NewGoods DEF Init, GoodsInv
<1>2. Inv /\ Inv' /\ GoodsInv /\ [Next]_vars => GoodsInv'
  BY NextGoods
<1>3. QED
  BY <1>1, <1>2, Invariant, PTL DEF Spec

\* However items are shuffled between floors, pack and slots, saved and
\* loaded, the hero never carries more than the limit.
THEOREM NeverOverloaded == Spec => []CarryLimit
<1>1. GoodsInv => CarryLimit
  BY DEF GoodsInv, GoodsOK, CarryLimit
<1>2. QED
  BY <1>1, GoodsInvariant, PTL

\* Gear is neither duplicated nor lost, and consumables only get fewer: over
\* all floors, the pack and the slots there are as many as the scenario
\* seeded, in either driver and through every save and load.
THEOREM ItemsAlwaysConserved == Spec => []ItemsConserved
<1>1. GoodsInv => ItemsConserved
  BY DEF GoodsInv, GoodsOK, ItemsConserved, ItemCount, Count, Seeded, OnFloors, WornAt
<1>2. QED
  BY <1>1, GoodsInvariant, PTL

=============================================================================
