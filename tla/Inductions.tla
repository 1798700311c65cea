----------------------------- MODULE Inductions -----------------------------
(***************************************************************************)
(* Facts about the naturals that the proofs of the other modules use: the  *)
(* least element of a set, induction, and, by induction, sums over finite  *)
(* sets.                                                                   *)
(***************************************************************************)
EXTENDS Integers, FiniteSetsExt, Functions, FiniteSetTheorems, WellFoundedInduction, TLAPS

-----------------------------------------------------------------------------
(* The least element, and induction.                                       *)

\* The order of the naturals as a well-founded relation.
LEMMA NatOrder ==
  \E R : IsWellFoundedOn(R, Nat) /\ \A x, y \in Nat : y < x => <<y, x>> \in R
<1>1. \A x, y \in Nat : y < x => <<y, x>> \in OpToRel(<, Nat)
  <2> SUFFICES ASSUME NEW x \in Nat, NEW y \in Nat, y < x
               PROVE  <<y, x>> \in OpToRel(<, Nat)
    BY Zenon
  <2>1. <<y, x>> \in Nat \X Nat /\ <<y, x>>[1] = y /\ <<y, x>>[2] = x
    OBVIOUS
  <2>2. QED
    BY <2>1, Zenon DEF OpToRel
<1>2. QED
  BY <1>1, NatLessThanWellFounded, Zenon

\* Min of a nonempty set of naturals is its least element.
LEMMA MinOfNaturals ==
  ASSUME NEW S \in SUBSET Nat, S # {}
  PROVE  Min(S) \in S /\ \A y \in S : Min(S) <= y
<1>1. PICK R : IsWellFoundedOn(R, Nat) /\ \A x, y \in Nat : y < x => <<y, x>> \in R
  BY NatOrder
<1>2. PICK x \in S : \A y \in S : ~(<<y, x>> \in R)
  BY <1>1, WFMin
<1>3. \A y \in S : ~(y < x)
  BY <1>1, <1>2, Zenon
<1>4. \A y \in S : x <= y
  BY <1>3
<1>5. QED
  BY <1>4, Zenon DEF Min

-----------------------------------------------------------------------------
(* Sums over a finite set.                                                 *)

\* Induction over the naturals: a set with 0 and all successors is Nat.
LEMMA SetInduction ==
  ASSUME NEW T \in SUBSET Nat, 0 \in T, \A n \in T : n + 1 \in T
  PROVE  \A n \in Nat : n \in T
<1> SUFFICES ASSUME Nat \ T # {} PROVE FALSE
  OBVIOUS
<1> DEFINE m == Min(Nat \ T)
<1>1. m \in Nat \ T /\ \A y \in Nat \ T : m <= y
  BY MinOfNaturals
<1> HIDE DEF m
<1>2. m - 1 \in Nat /\ ~(m <= m - 1)
  BY <1>1
<1>3. m - 1 \in T
  BY <1>1, <1>2
<1>4. (m - 1) + 1 = m
  BY <1>1
<1> QED
  BY <1>1, <1>3, <1>4

\* The sum over s, given the sums g over smaller sets, in the order in which
\* SumFunction takes it; and the table of the sums over all subsets of S.
SumStep(f, g, s) ==
  IF s = {} THEN 0 ELSE f[CHOOSE x \in s : TRUE] + g[s \ {CHOOSE x \in s : TRUE}]
SumTable(f, S) == CHOOSE g : g = [s \in SUBSET S |-> SumStep(f, g, s)]

\* A subset loses one element.
LEMMA OneLess ==
  ASSUME NEW S, IsFiniteSet(S), NEW s \in SUBSET S, s # {}
  PROVE  LET x == CHOOSE x \in s : TRUE
         IN  /\ x \in s /\ s \ {x} \in SUBSET S
             /\ Cardinality(s) \in Nat /\ Cardinality(s \ {x}) = Cardinality(s) - 1
<1> DEFINE x == CHOOSE y \in s : TRUE
<1>1. x \in s
  OBVIOUS
<1>2. IsFiniteSet(s)
  BY FS_Subset
<1>3. Cardinality(s) \in Nat
  BY <1>2, FS_CardinalityType
<1> HIDE DEF x
<1>4. Cardinality(s \ {x}) = Cardinality(s) - 1
  BY <1>1, <1>2, FS_RemoveElement
<1> QED
  BY <1>1, <1>3, <1>4 DEF x

\* The recursion has a solution, so the table is one.
LEMMA TableExists ==
  ASSUME NEW S, IsFiniteSet(S), NEW f \in [S -> Nat]
  PROVE  /\ SumTable(f, S) \in [SUBSET S -> Nat]
         /\ \A s \in SUBSET S : SumTable(f, S)[s] = SumStep(f, SumTable(f, S), s)
<1> DEFINE T == {n \in Nat : \E g \in [SUBSET S -> Nat] :
                   \A s \in SUBSET S : Cardinality(s) < n => g[s] = SumStep(f, g, s)}
<1>1. \A s \in SUBSET S : Cardinality(s) \in Nat /\ Cardinality(s) <= Cardinality(S)
  BY FS_Subset, FS_CardinalityType
<1>2. Cardinality(S) \in Nat
  BY FS_CardinalityType
<1>3. 0 \in T
  <2> DEFINE g == [s \in SUBSET S |-> 0]
  <2>1. g \in [SUBSET S -> Nat]
    OBVIOUS
  <2>2. \A s \in SUBSET S : ~(Cardinality(s) < 0)
    BY <1>1
  <2> QED
    BY <2>1, <2>2
<1>4. ASSUME NEW g \in [SUBSET S -> Nat], NEW s \in SUBSET S PROVE SumStep(f, g, s) \in Nat
  <2>1. CASE s = {}
    BY <2>1 DEF SumStep
  <2>2. CASE s # {}
    <3> DEFINE x == CHOOSE y \in s : TRUE
    <3>1. x \in S /\ s \ {x} \in SUBSET S
      BY <2>2
    <3>2. f[x] \in Nat /\ g[s \ {x}] \in Nat
      BY <3>1
    <3>3. SumStep(f, g, s) = f[x] + g[s \ {x}]
      BY <2>2 DEF SumStep
    <3> HIDE DEF x
    <3> QED
      BY <3>2, <3>3
  <2> QED
    BY <2>1, <2>2
<1>5. ASSUME NEW n \in T PROVE n + 1 \in T
  <2>1. PICK g \in [SUBSET S -> Nat] :
          \A s \in SUBSET S : Cardinality(s) < n => g[s] = SumStep(f, g, s)
    OBVIOUS
  <2>2. n \in Nat
    OBVIOUS
  <2> DEFINE h == [s \in SUBSET S |-> IF Cardinality(s) = n THEN SumStep(f, g, s) ELSE g[s]]
  <2>3. h \in [SUBSET S -> Nat]
    BY <1>4
  <2>4. ASSUME NEW s \in SUBSET S, Cardinality(s) < n + 1 PROVE h[s] = SumStep(f, h, s)
    <3>1. h[s] = SumStep(f, g, s)
      <4>1. CASE Cardinality(s) = n
        BY <4>1
      <4>2. CASE Cardinality(s) # n
        <5>1. Cardinality(s) < n
          BY <4>2, <2>2, <2>4, <1>1
        <5> QED
          BY <5>1, <4>2, <2>1
      <4> QED
        BY <4>1, <4>2
    <3>2. SumStep(f, g, s) = SumStep(f, h, s)
      <4>1. CASE s = {}
        BY <4>1 DEF SumStep
      <4>2. CASE s # {}
        <5> DEFINE x == CHOOSE y \in s : TRUE
        <5>1. /\ s \ {x} \in SUBSET S /\ Cardinality(s) \in Nat
              /\ Cardinality(s \ {x}) = Cardinality(s) - 1
          BY <4>2, OneLess
        <5>2. SumStep(f, g, s) = f[x] + g[s \ {x}] /\ SumStep(f, h, s) = f[x] + h[s \ {x}]
          BY <4>2 DEF SumStep
        <5> HIDE DEF x
        <5>3. Cardinality(s \ {x}) # n
          BY <5>1, <2>2, <2>4
        <5>4. h[s \ {x}] = g[s \ {x}]
          BY <5>1, <5>3
        <5> HIDE DEF h
        <5> QED
          BY <5>2, <5>4
      <4> QED
        BY <4>1, <4>2
    <3> QED
      BY <3>1, <3>2
  <2> HIDE DEF h
  <2>5. n + 1 \in Nat
    BY <2>2
  <2> QED
    BY <2>3, <2>4, <2>5
<1>6. Cardinality(S) + 1 \in T
  <2>1. T \in SUBSET Nat
    OBVIOUS
  <2> HIDE DEF T
  <2> QED
    BY <2>1, <1>2, <1>3, <1>5, SetInduction
<1>7. PICK g \in [SUBSET S -> Nat] :
        \A s \in SUBSET S : Cardinality(s) < Cardinality(S) + 1 => g[s] = SumStep(f, g, s)
  BY <1>6
<1>8. \A s \in SUBSET S : g[s] = SumStep(f, g, s)
  <2> TAKE s \in SUBSET S
  <2>1. Cardinality(s) < Cardinality(S) + 1
    BY <1>1, <1>2
  <2> QED
    BY <2>1, <1>7
<1> HIDE DEF T
<1>9. g = [s \in SUBSET S |-> SumStep(f, g, s)]
  BY <1>8
<1>10. SumTable(f, S) = [s \in SUBSET S |-> SumStep(f, SumTable(f, S), s)]
  BY <1>9 DEF SumTable
<1> DEFINE t == SumTable(f, S)
<1> HIDE DEF t
<1>11. \A s \in SUBSET S : t[s] = SumStep(f, t, s)
  BY <1>10 DEF t
<1>12. t = [s \in SUBSET S |-> t[s]]
  BY <1>10 DEF t
<1> DEFINE U == {n \in Nat : \A s \in SUBSET S : Cardinality(s) = n => t[s] \in Nat}
<1>13. 0 \in U
  <2>1. \A s \in SUBSET S : Cardinality(s) = 0 => s = {}
    BY FS_Subset, FS_EmptySet
  <2> QED
    BY <2>1, <1>11 DEF SumStep
<1>14. ASSUME NEW n \in U PROVE n + 1 \in U
  <2>1. n \in Nat /\ n + 1 \in Nat
    OBVIOUS
  <2>2. ASSUME NEW s \in SUBSET S, Cardinality(s) = n + 1 PROVE t[s] \in Nat
    <3>1. Cardinality({}) = 0 /\ n + 1 # 0
      BY <2>1, FS_EmptySet
    <3>2. s # {}
      BY <3>1, <2>2, Zenon
    <3> DEFINE x == CHOOSE y \in s : TRUE
    <3>3. /\ x \in s /\ s \ {x} \in SUBSET S /\ Cardinality(s) \in Nat
          /\ Cardinality(s \ {x}) = Cardinality(s) - 1
      BY <3>2, OneLess
    <3>4. t[s] = f[x] + t[s \ {x}]
      BY <3>2, <1>11 DEF SumStep
    <3> HIDE DEF x
    <3>5. Cardinality(s \ {x}) = n
      BY <3>3, <2>1, <2>2
    <3>6. t[s \ {x}] \in Nat /\ f[x] \in Nat
      BY <3>3, <3>5
    <3> QED
      BY <3>4, <3>6
  <2> QED
    BY <2>1, <2>2
<1>15. \A n \in Nat : n \in U
  <2>1. U \in SUBSET Nat
    OBVIOUS
  <2> HIDE DEF U
  <2> QED
    BY <2>1, <1>13, <1>14, SetInduction
<1>16. \A s \in SUBSET S : t[s] \in Nat
  BY <1>1, <1>15
<1>17. t \in [SUBSET S -> Nat]
  BY <1>12, <1>16
<1> QED
  BY <1>11, <1>17 DEF t

\* A sum of naturals over a finite set is a natural.
LEMMA SumType ==
  ASSUME NEW S, IsFiniteSet(S), NEW f \in [S -> Nat]
  PROVE  SumFunction(f) \in Nat
<1>1. SumTable(f, S) \in [SUBSET S -> Nat]
  BY TableExists
<1>2. SumFunction(f) = SumTable(f, S)[S]
  BY DEF SumFunction, SumFunctionOnSet, FoldFunctionOnSet, MapThenFoldSet, SumTable, SumStep
<1>3. QED
  BY <1>1, <1>2

\* A sum of zeros is zero.
LEMMA SumOfZeros ==
  ASSUME NEW S, IsFiniteSet(S)
  PROVE  SumFunction([x \in S |-> 0]) = 0
<1> DEFINE f == [x \in S |-> 0]
           t == SumTable(f, S)
<1>1. /\ t \in [SUBSET S -> Nat] /\ \A s \in SUBSET S : t[s] = SumStep(f, t, s)
  BY TableExists
<1>2. SumFunction(f) = t[S]
  BY DEF SumFunction, SumFunctionOnSet, FoldFunctionOnSet, MapThenFoldSet, SumTable, SumStep
<1> HIDE DEF t
<1> DEFINE T == {n \in Nat : \A s \in SUBSET S : Cardinality(s) = n => t[s] = 0}
<1>3. 0 \in T
  <2>1. \A s \in SUBSET S : Cardinality(s) = 0 => s = {}
    BY FS_Subset, FS_EmptySet
  <2>2. t[{}] = 0
    BY <1>1 DEF SumStep
  <2>3. QED
    BY <2>1, <2>2
<1>4. ASSUME NEW n \in T
      PROVE  n + 1 \in T
  <2>1. n \in Nat /\ n + 1 \in Nat
    OBVIOUS
  <2>2. ASSUME NEW s \in SUBSET S, Cardinality(s) = n + 1
        PROVE  t[s] = 0
    <3>1. Cardinality({}) = 0 /\ n + 1 # 0
      BY <2>1, FS_EmptySet
    <3>2. s # {}
      BY <2>2, <3>1, Zenon
    <3> DEFINE x == CHOOSE y \in s : TRUE
    <3>3. /\ x \in s /\ s \ {x} \in SUBSET S /\ Cardinality(s) \in Nat
          /\ Cardinality(s \ {x}) = Cardinality(s) - 1
      BY <3>2, OneLess
    <3>4. t[s] = f[x] + t[s \ {x}] /\ f[x] = 0
      BY <1>1, <3>2, <3>3 DEF SumStep
    <3> HIDE DEF x
    <3>5. Cardinality(s \ {x}) = n
      BY <2>1, <2>2, <3>3
    <3>6. t[s \ {x}] = 0
      BY <3>3, <3>5
    <3>7. QED
      BY <3>4, <3>6
  <2>3. QED
    BY <2>1, <2>2
<1>5. \A n \in Nat : n \in T
  <2>1. T \in SUBSET Nat
    OBVIOUS
  <2> HIDE DEF T
  <2>2. QED
    BY <2>1, <1>3, <1>4, SetInduction
<1>6. Cardinality(S) \in Nat
  BY FS_CardinalityType
<1>7. QED
  BY <1>2, <1>5, <1>6

\* When one entry changes, the sum changes by as much.
LEMMA SumChanges ==
  ASSUME NEW S, IsFiniteSet(S), NEW f \in [S -> Nat], NEW g \in [S -> Nat], NEW i \in S,
         \A j \in S : j # i => g[j] = f[j]
  PROVE  /\ SumFunction(f) \in Nat /\ SumFunction(g) \in Nat
         /\ SumFunction(g) + f[i] = SumFunction(f) + g[i]
<1> DEFINE t == SumTable(f, S)
           u == SumTable(g, S)
<1>1. /\ t \in [SUBSET S -> Nat] /\ \A s \in SUBSET S : t[s] = SumStep(f, t, s)
  BY TableExists
<1>2. /\ u \in [SUBSET S -> Nat] /\ \A s \in SUBSET S : u[s] = SumStep(g, u, s)
  BY TableExists
<1>3. SumFunction(f) = t[S] /\ SumFunction(g) = u[S]
  BY DEF SumFunction, SumFunctionOnSet, FoldFunctionOnSet, MapThenFoldSet, SumTable, SumStep
<1> HIDE DEF t, u
<1> DEFINE T == {n \in Nat : \A s \in SUBSET S : Cardinality(s) = n =>
                   IF i \in s THEN u[s] + f[i] = t[s] + g[i] ELSE u[s] = t[s]}
<1>4. 0 \in T
  <2>1. \A s \in SUBSET S : Cardinality(s) = 0 => s = {}
    BY FS_Subset, FS_EmptySet
  <2>2. u[{}] = 0 /\ t[{}] = 0
    BY <1>1, <1>2 DEF SumStep
  <2> QED
    BY <2>1, <2>2
<1>5. ASSUME NEW n \in T PROVE n + 1 \in T
  <2>1. n \in Nat /\ n + 1 \in Nat
    OBVIOUS
  <2>2. ASSUME NEW s \in SUBSET S, Cardinality(s) = n + 1
        PROVE  IF i \in s THEN u[s] + f[i] = t[s] + g[i] ELSE u[s] = t[s]
    <3>1. Cardinality({}) = 0 /\ n + 1 # 0
      BY <2>1, FS_EmptySet
    <3>2. s # {}
      BY <2>2, <3>1, Zenon
    <3> DEFINE x == CHOOSE y \in s : TRUE
               r == s \ {x}
    <3>3. /\ x \in s /\ r \in SUBSET S /\ Cardinality(s) \in Nat
          /\ Cardinality(r) = Cardinality(s) - 1
      BY <3>2, OneLess
    <3>4. t[s] = f[x] + t[r] /\ u[s] = g[x] + u[r]
      BY <3>2, <1>1, <1>2 DEF SumStep
    <3>5. i \in r <=> (i \in s /\ i # x)
      OBVIOUS
    <3> HIDE DEF x, r
    <3>6. Cardinality(r) = n
      BY <3>3, <2>1, <2>2
    <3>7. IF i \in r THEN u[r] + f[i] = t[r] + g[i] ELSE u[r] = t[r]
      BY <3>3, <3>6
    <3>8. /\ t[r] \in Nat /\ u[r] \in Nat /\ f[x] \in Nat /\ g[x] \in Nat /\ f[i] \in Nat
          /\ g[i] \in Nat /\ (x # i => g[x] = f[x])
      BY <3>3, <1>1, <1>2
    <3> HIDE DEF T
    <3> QED
      BY <3>3, <3>4, <3>5, <3>7, <3>8
  <2> QED
    BY <2>1, <2>2
<1>6. \A n \in Nat : n \in T
  <2>1. T \in SUBSET Nat
    OBVIOUS
  <2> HIDE DEF T
  <2> QED
    BY <2>1, <1>4, <1>5, SetInduction
<1>7. Cardinality(S) \in Nat
  BY FS_CardinalityType
<1> QED
  BY <1>1, <1>2, <1>3, <1>6, <1>7

=============================================================================
