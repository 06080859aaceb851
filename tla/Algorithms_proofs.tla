-------------------------- MODULE Algorithms_proofs --------------------------
(***************************************************************************)
(* Proofs about the pure computations among the units.                     *)
(*                                                                         *)
(* The searches of a terrain database find the best there is, for every    *)
(* database, search radius, profile and lattice: each is a fold over a     *)
(* list of candidates, whose best so far is at least as good as all        *)
(* candidates it has been through, because "better" is an order.           *)
(*                                                                         *)
(* The limbs of Poly1305 hold the accumulator, reduced, after every block, *)
(* for all multipliers and blocks and every base of the limbs above five.  *)
(* The argument is that of schoolbook multiplication: the columns make the *)
(* product, what runs over the top limb folded back times five             *)
(* (ColumnsMultiply); carrying moves value and changes none (CarryIs); and *)
(* Past is Prime + 5 (FoldIs).  No column reaches 50 times the base        *)
(* squared (ColumnBound): in the code, less than 2^58.                     *)
(*                                                                         *)
(* A burst of wrong bits leaves one in the checksum's register that no bit *)
(* still to come can reach, because what a step shifts out comes back at   *)
(* the top.                                                                *)
(*                                                                         *)
(* The healthy rotors make the wrench asked for, for every number and      *)
(* placement of them: Cramer's rule, sums of squares for the sign of the   *)
(* determinant, and sums over the rotors taken apart.                      *)
(***************************************************************************)
EXTENDS Units_proofs


Place == Int \X Int
SearchTyped == terrain \in Terrains /\ position \in Place /\ estimate \in Place

(* The smaller and the larger of two, and a number between two stops.       *)
LEMMA SearchMinMax ==
  ASSUME NEW a \in Int, NEW b \in Int
  PROVE  /\ Search!Min({a, b}) = IF a <= b THEN a ELSE b
         /\ Search!Max({a, b}) = IF a <= b THEN b ELSE a
BY DEF Search!Min, Search!Max

LEMMA ClampToIsBetween ==
  ASSUME NEW hi \in Nat, NEW v \in Int
  PROVE  Search!ClampTo(0, hi, v) \in 0 .. hi
<1> DEFINE m == Search!Min({hi, v})
<1>1. m = IF hi <= v THEN hi ELSE v
  BY SearchMinMax
<1> HIDE DEF m
<1>2. m \in Int
  BY <1>1
<1>3. Search!Max({0, m}) = IF 0 <= m THEN m ELSE 0
  BY <1>2 DEF Search!Max
<1> QED
  BY <1>1, <1>3 DEF Search!ClampTo, m

LEMMA SearchCardinality == ASSUME NEW S PROVE Search!Cardinality(S) = Cardinality(S)
BY Zenon DEF Search!Cardinality, Cardinality, Search!IsFiniteSet, IsFiniteSet

LEMMA SearchSum ==
  ASSUME NEW s
  PROVE  Search!SumFunction(s) = SumFunctionOnSet(s, DOMAIN s)
BY Zenon DEF Search!SumFunction, Search!SumFunctionOnSet, Search!FoldFunctionOnSet, Search!MapThenFoldSet,
   SumFunctionOnSet, FoldFunctionOnSet, MapThenFoldSet

(* A database knows a number for every place, the ones off its edges        *)
(* included.                                                                *)
LEMMA SampleIsInt ==
  ASSUME NEW t \in Terrains, NEW p \in Place
  PROVE  Search!Sample(t.grid, p) \in Int
<1> DEFINE g == t.grid
           rows == Len(g)
           columns == Len(g[1])
           n == Search!ClampTo(0, 2 * (rows - 1), p[1])
           e == Search!ClampTo(0, 2 * (columns - 1), p[2])
           cell(r0, c0) == g[Search!Min({r0, rows - 1}) + 1][Search!Min({c0, columns - 1}) + 1]
           between(r0) == (2 - (e % 2)) * cell(r0, e \div 2) + (e % 2) * cell(r0, (e \div 2) + 1)
<1>0. p[1] \in Int /\ p[2] \in Int
  BY DEF Place
<1>1. /\ g \in Seq(Seq(Int)) /\ rows \in Nat /\ rows >= 1 /\ columns \in Nat /\ columns >= 1
      /\ \A i \in 1 .. rows : g[i] \in Seq(Int) /\ Len(g[i]) = columns
  <2>1. g \in Seq(Seq(Int)) /\ g # <<>> /\ g[1] # <<>> /\ \A i \in DOMAIN g : Len(g[i]) = columns
    BY SearchAssumption
  <2>2. rows \in Nat /\ rows >= 1 /\ DOMAIN g = 1 .. rows
    BY <2>1
  <2>3. \A i \in 1 .. rows : g[i] \in Seq(Int)
    BY <2>1, <2>2
  <2>4. columns \in Nat /\ columns >= 1
    BY <2>1, <2>2, <2>3
  <2> QED
    BY <2>1, <2>2, <2>3, <2>4
<1>2. n \in 0 .. 2 * (rows - 1) /\ e \in 0 .. 2 * (columns - 1)
  <2> DEFINE top == 2 * (rows - 1)
             right == 2 * (columns - 1)
  <2>1. top \in Nat /\ right \in Nat
    BY <1>1
  <2> HIDE DEF rows, columns, top, right
  <2>2. Search!ClampTo(0, top, p[1]) \in 0 .. top /\ Search!ClampTo(0, right, p[2]) \in 0 .. right
    BY <1>0, <2>1, ClampToIsBetween
  <2> QED
    BY <2>2 DEF top, right
<1> HIDE DEF g, rows, columns, n, e
<1>3. ASSUME NEW r0 \in Nat, NEW c0 \in Nat PROVE cell(r0, c0) \in Int
  <2>0. rows - 1 \in Int /\ columns - 1 \in Int /\ r0 \in Int /\ c0 \in Int
    BY <1>1
  <2>1. Search!Min({r0, rows - 1}) = IF r0 <= rows - 1 THEN r0 ELSE rows - 1
    BY <2>0, SearchMinMax
  <2>2. Search!Min({c0, columns - 1}) = IF c0 <= columns - 1 THEN c0 ELSE columns - 1
    BY <2>0, SearchMinMax
  <2>3. Search!Min({r0, rows - 1}) + 1 \in 1 .. rows /\ Search!Min({c0, columns - 1}) + 1 \in 1 .. columns
    BY <1>1, <2>1, <2>2
  <2> QED
    BY <1>1, <2>3
<1>4. /\ n % 2 \in 0 .. 1 /\ e % 2 \in 0 .. 1 /\ n \div 2 \in Nat /\ e \div 2 \in Nat
      /\ (n \div 2) + 1 \in Nat /\ (e \div 2) + 1 \in Nat
  BY <1>1, <1>2
<1>5. ASSUME NEW r0 \in Nat PROVE between(r0) \in Int
  <2>1. cell(r0, e \div 2) \in Int /\ cell(r0, (e \div 2) + 1) \in Int
    BY <1>3, <1>4
  <2> HIDE DEF cell
  <2> QED
    BY <1>4, <2>1
<1>6. between(n \div 2) \in Int /\ between((n \div 2) + 1) \in Int
  BY <1>4, <1>5
<1>7. Search!Sample(t.grid, p) = (2 - (n % 2)) * between(n \div 2) + (n % 2) * between((n \div 2) + 1)
  BY Zenon DEF Search!Sample, g, rows, columns, n, e
<1> HIDE DEF between
<1> QED
  BY <1>4, <1>6, <1>7

(* What the database answers: one number, or nothing.                       *)
LEMMA ElevationIs ==
  ASSUME SearchTyped, NEW p \in Place
  PROVE  Search!GetElevation(p) = {} \/ \E v \in Int : Search!GetElevation(p) = {v}
BY SampleIsInt DEF Search!GetElevation, SearchTyped

LEMMA PlacesAdd ==
  ASSUME NEW p \in Place, NEW q \in Place
  PROVE  Search!Plus(p, q) \in Place
BY DEF Search!Plus, Place

LEMMA AlongIsPlace ==
  ASSUME NEW p \in Place, NEW k \in Int
  PROVE  Search!Along(p, k) \in Place
BY SearchAssumption DEF Search!Along, Place

LEMMA ProfileIsInts ==
  ASSUME SearchTyped
  PROVE  Search!Profile \in [1 .. ProfileLen -> Int]
<1>1. ASSUME NEW k \in 1 .. ProfileLen PROVE Search!Sample(terrain.grid, Search!Along(position, k)) \in Int
  BY AlongIsPlace, SampleIsInt, SearchAssumption DEF SearchTyped
<1> QED
  BY <1>1 DEF Search!Profile

(* How many samples are unanswered.                                         *)
LEMMA UnknownCount ==
  ASSUME NEW at
  PROVE  /\ Cardinality(Search!Unknown(at)) \in Nat
         /\ Cardinality(Search!Unknown(at)) = 0 <=> Search!Unknown(at) = {}
<1>1. Search!Unknown(at) \in SUBSET (1 .. ProfileLen)
  BY DEF Search!Unknown
<1>2. IsFiniteSet(1 .. ProfileLen)
  BY SearchAssumption, FS_Interval
<1>3. IsFiniteSet(Search!Unknown(at))
  BY <1>1, <1>2, FS_Subset
<1> QED
  BY <1>3, FS_CardinalityType, FS_EmptySet

(* A residual is not negative. *)
LEMMA ResidualIsNat ==
  ASSUME SearchTyped, NEW profile \in [1 .. ProfileLen -> Int], NEW at \in Place
  PROVE  Search!Residual(profile, at) \in Nat
<1> DEFINE I == 1 .. ProfileLen
           term == [k \in I |->
                     IF k \in Search!Unknown(at) THEN 0
                     ELSE Search!Away(profile[k] - CHOOSE v \in Search!GetElevation(Search!Along(at, k)) : TRUE)]
           none == [k \in I |-> 0]
<1>1. ASSUME NEW k \in I PROVE term[k] \in Int /\ 0 <= term[k]
  <2> DEFINE v == CHOOSE v \in Search!GetElevation(Search!Along(at, k)) : TRUE
  <2>1. CASE k \in Search!Unknown(at)
    BY <2>1
  <2>2. CASE k \notin Search!Unknown(at)
    <3>1. Search!GetElevation(Search!Along(at, k)) # {}
      BY <2>2 DEF Search!Unknown
    <3>2. Search!Along(at, k) \in Place
      BY AlongIsPlace
    <3>3. PICK w \in Int : Search!GetElevation(Search!Along(at, k)) = {w}
      BY <3>1, <3>2, ElevationIs
    <3>4. v \in Int
      BY <3>3
    <3>5. term[k] = Search!Away(profile[k] - v) /\ profile[k] \in Int
      BY <2>2
    <3> HIDE DEF v, term
    <3> QED
      BY <3>4, <3>5 DEF Search!Away
  <2> QED
    BY <2>1, <2>2
<1>2. IsFiniteSet(I) /\ Cardinality(I) \in Nat
  BY SearchAssumption, FS_Interval, FS_CardinalityType
<1>3. DOMAIN term = I /\ \A k \in I : none[k] = 0
  OBVIOUS
<1>4. Search!Residual(profile, at) = Search!SumFunction(term)
  BY Zenon DEF Search!Residual
<1> HIDE DEF term, none, I
<1>5. Search!SumFunction(term) = SumFunctionOnSet(term, I)
  BY <1>3, SearchSum
<1>6. SumFunctionOnSet(none, I) = 0 * Cardinality(I)
  BY <1>2, <1>3, SumConst
<1>7. SumFunctionOnSet(none, I) <= SumFunctionOnSet(term, I)
  <2>1. \A k \in I : none[k] \in Int /\ term[k] \in Int /\ none[k] <= term[k]
    BY <1>1, <1>3
  <2> QED
    BY <1>2, <2>1, SumLe
<1>8. SumFunctionOnSet(term, I) \in Int
  BY <1>1, <1>2, SumType
<1> QED
  BY <1>2, <1>4, <1>5, <1>6, <1>7, <1>8

-----------------------------------------------------------------------------
(* A square walked row by row: every index is a place of it, and every      *)
(* place has an index.                                                      *)
LEMMA WalkOfASquare ==
  ASSUME NEW m \in Nat \ {0}
  PROVE  /\ m * m \in Nat
         /\ \A i \in 1 .. m * m : (i - 1) % m \in 0 .. m - 1 /\ (i - 1) \div m \in 0 .. m - 1
         /\ \A a \in 0 .. m - 1, b \in 0 .. m - 1 :
              \E i \in 1 .. m * m : (i - 1) % m = a /\ (i - 1) \div m = b
<1>0. m * m \in Nat
  OBVIOUS
<1>1. ASSUME NEW i \in 1 .. m * m PROVE (i - 1) % m \in 0 .. m - 1 /\ (i - 1) \div m \in 0 .. m - 1
  <2> DEFINE x == i - 1
             q == x \div m
  <2>1. x \in Nat /\ x < m * m
    BY <1>0
  <2>2. x % m \in 0 .. m - 1 /\ q \in Int /\ x = m * q + (x % m)
    BY <2>1, ModRange
  <2> HIDE DEF x, q
  <2>3. q >= 0
    <3>1. ASSUME q <= -1 PROVE FALSE
      <4>1. m * q = -m - m * (-q - 1) /\ m * (-q - 1) \in Nat
        BY <2>2, <3>1
      <4> QED
        BY <2>1, <2>2, <4>1
    <3> QED
      BY <2>2, <3>1
  <2>4. q < m
    <3>1. ASSUME q >= m PROVE FALSE
      <4>1. m * q = m * m + m * (q - m) /\ m * (q - m) \in Nat
        BY <2>2, <3>1
      <4> QED
        BY <1>0, <2>1, <2>2, <4>1
    <3> QED
      BY <2>2, <3>1
  <2> QED
    BY <2>2, <2>3, <2>4 DEF x, q
<1>2. ASSUME NEW a \in 0 .. m - 1, NEW b \in 0 .. m - 1
      PROVE  \E i \in 1 .. m * m : (i - 1) % m = a /\ (i - 1) \div m = b
  <2> DEFINE x == m * b + a
  <2>1. x \in Nat /\ x < m * m
    <3>1. m * m = m * (b + 1) + m * (m - 1 - b) /\ m * (m - 1 - b) \in Nat /\ m * (b + 1) = m * b + m
      OBVIOUS
    <3>2. m * b \in Nat
      OBVIOUS
    <3> QED
      BY <1>0, <3>1, <3>2
  <2> DEFINE q == x \div m
             c == x % m
  <2>2. c \in 0 .. m - 1 /\ q \in Int /\ x = m * q + c
    BY <2>1, ModRange
  <2>3. m * b + a = m * q + c /\ b \in Int
    BY <2>2
  <2> HIDE DEF x, q, c
  <2>4. a = c
    BY <2>2, <2>3, DivUnique
  <2>5. m * (b - q) = 0
    <3>1. m * (b - q) = m * b - m * q
      BY <2>2, <2>3
    <3>2. m * b \in Int /\ m * q \in Int
      BY <2>2, <2>3
    <3> QED
      BY <2>2, <2>3, <2>4, <3>1, <3>2
  <2>6. b - q = 0
    <3>1. b - q \in Int
      BY <2>2
    <3> QED
      BY <2>5, <3>1, SmallMultiple
  <2>7. x + 1 \in 1 .. m * m /\ (x + 1) - 1 = x
    BY <1>0, <2>1
  <2> QED
    BY <2>2, <2>4, <2>6, <2>7 DEF q, c
<1> QED
  BY <1>0, <1>1, <1>2

(* The offsets of the search are the square of its radius.                  *)
LEMMA OffsetsAre ==
         /\ Search!Side * Search!Side \in Nat
         /\ DOMAIN Search!Offsets = 1 .. Search!Side * Search!Side
         /\ \A i \in DOMAIN Search!Offsets :
              Search!Offsets[i] \in (-SearchRadius .. SearchRadius) \X (-SearchRadius .. SearchRadius)
         /\ \A n \in -SearchRadius .. SearchRadius, e \in -SearchRadius .. SearchRadius :
              \E i \in DOMAIN Search!Offsets : Search!Offsets[i] = <<n, e>>
<1> DEFINE m == Search!Side
<1>1. m \in Nat \ {0} /\ SearchRadius \in Nat /\ m = 2 * SearchRadius + 1
  BY SearchAssumption DEF Search!Side
<1>2. DOMAIN Search!Offsets = 1 .. m * m
  BY DEF Search!Offsets
<1>3. \A i \in 1 .. m * m : Search!Offsets[i] = <<((i - 1) % m) - SearchRadius, ((i - 1) \div m) - SearchRadius>>
  BY DEF Search!Offsets
<1> HIDE DEF m
<1>4. ASSUME NEW i \in 1 .. m * m
      PROVE  Search!Offsets[i] \in (-SearchRadius .. SearchRadius) \X (-SearchRadius .. SearchRadius)
  <2>1. (i - 1) % m \in 0 .. m - 1 /\ (i - 1) \div m \in 0 .. m - 1
    BY <1>1, WalkOfASquare
  <2> QED
    BY <1>1, <1>3, <2>1
<1>5. ASSUME NEW n \in -SearchRadius .. SearchRadius, NEW e \in -SearchRadius .. SearchRadius
      PROVE  \E i \in 1 .. m * m : Search!Offsets[i] = <<n, e>>
  <2> DEFINE a == n + SearchRadius
             b == e + SearchRadius
  <2>1. a \in 0 .. m - 1 /\ b \in 0 .. m - 1 /\ a - SearchRadius = n /\ b - SearchRadius = e
    BY <1>1
  <2> HIDE DEF a, b
  <2>2. PICK i \in 1 .. m * m : (i - 1) % m = a /\ (i - 1) \div m = b
    BY <1>1, <2>1, WalkOfASquare
  <2>3. Search!Offsets[i] = <<a - SearchRadius, b - SearchRadius>>
    BY <1>3, <2>2
  <2> QED
    BY <2>1, <2>3
<1> QED
  BY <1>1, <1>2, <1>4, <1>5, WalkOfASquare DEF m

-----------------------------------------------------------------------------
(* The search.  One step of its fold: the place looked at, if it is better  *)
(* than the best so far.                                                    *)
AtMostOne(S) == {{}} \cup {{x} : x \in S}
Tried(profile, origin, best, o) ==
  IF /\ Search!Eligible(Search!Plus(origin, o))
     /\ \/ best = {}
        \/ \E b \in best : Search!Better(profile, Search!Plus(origin, o), Search!Plus(origin, b))
  THEN {o} ELSE best

(* The best after each of the places.                                       *)
IsSearch(profile, origin, g) ==
  g = [s \in SUBSET (DOMAIN Search!Offsets) |->
        IF s = {} THEN {} ELSE Tried(profile, origin, g[s \ {MaxOf(s)}], Search!Offsets[MaxOf(s)])]

LEMMA SearchExists ==
  ASSUME NEW profile, NEW origin
  PROVE  \E g : IsSearch(profile, origin, g)
<1> DEFINE n == Search!Side * Search!Side
           S == AtMostOne(Search!Square)
           F == [q \in (1 .. n) \X S |-> Tried(profile, origin, q[2], Search!Offsets[q[1]])]
<1>1. n \in Nat /\ DOMAIN Search!Offsets = 1 .. n /\ \A i \in 1 .. n : Search!Offsets[i] \in Search!Square
  BY OffsetsAre DEF Search!Square
<1>2. {} \in S
  BY DEF AtMostOne
<1>3. \A i \in 1 .. n, best \in S : Tried(profile, origin, best, Search!Offsets[i]) \in S
  BY <1>1, Zenon DEF Tried, AtMostOne
<1> HIDE DEF n, S
<1>4. F \in [(1 .. n) \X S -> S]
  BY <1>3
<1>5. \A i \in 1 .. n, best \in S : F[<<i, best>>] = Tried(profile, origin, best, Search!Offsets[i])
  OBVIOUS
<1> HIDE DEF F
<1>6. PICK g \in [SUBSET (1 .. n) -> S] : IsFold(n, {}, F, g)
  BY <1>1, <1>2, <1>4, FoldExists
<1>7. ASSUME NEW s \in SUBSET (1 .. n)
      PROVE  FoldStep({}, F, g, s)
               = IF s = {} THEN {} ELSE Tried(profile, origin, g[s \ {MaxOf(s)}], Search!Offsets[MaxOf(s)])
  <2>1. CASE s = {}
    BY <2>1 DEF FoldStep
  <2>2. CASE s # {}
    <3>1. MaxOf(s) \in 1 .. n
      <4>1. IsFiniteSet(1 .. n)
        BY <1>1, FS_Interval
      <4>2. s \in SUBSET Int
        OBVIOUS
      <4>3. IsFiniteSet(s)
        BY <4>1, FS_Subset
      <4> QED
        BY <2>2, <4>2, <4>3, MaxIs
    <3>2. g[s \ {MaxOf(s)}] \in S
      BY <1>6
    <3> QED
      BY <1>5, <2>2, <3>1, <3>2 DEF FoldStep
  <2> QED
    BY <2>1, <2>2
<1>8. g = [s \in SUBSET (1 .. n) |->
            IF s = {} THEN {} ELSE Tried(profile, origin, g[s \ {MaxOf(s)}], Search!Offsets[MaxOf(s)])]
  BY <1>6, <1>7, Zenon DEF IsFold
<1> QED
  BY <1>1, <1>8, Zenon DEF IsSearch

LEMMA CorrelateIs ==
  ASSUME NEW profile, NEW origin
  PROVE  \E g : /\ IsSearch(profile, origin, g)
                /\ Search!Correlate(profile, origin)
                     = IF g[DOMAIN Search!Offsets] = {} THEN <<0, 0>>
                       ELSE CHOOSE o \in g[DOMAIN Search!Offsets] : TRUE
<1> DEFINE iter == CHOOSE g : IsSearch(profile, origin, g)
<1>1. IsSearch(profile, origin, iter)
  <2>1. \E g : IsSearch(profile, origin, g)
    BY SearchExists
  <2> QED
    BY <2>1, Zenon
<1>2. Search!Correlate(profile, origin)
        = IF iter[DOMAIN Search!Offsets] = {} THEN <<0, 0>>
          ELSE CHOOSE o \in iter[DOMAIN Search!Offsets] : TRUE
  BY Zenon DEF Search!Correlate, Search!FoldLeft, Search!MapThenFoldSet, Search!Max, MaxOf, IsSearch, Tried
<1> HIDE DEF iter
<1> QED
  BY <1>1, <1>2

(* Better is an order. *)
LEMMA BetterIsAnOrder ==
  ASSUME SearchTyped, NEW profile \in [1 .. ProfileLen -> Int],
         NEW x \in Place, NEW y \in Place, NEW z \in Place
  PROVE  /\ ~Search!Better(profile, x, x)
         /\ Search!Better(profile, x, y) /\ Search!Better(profile, y, z) => Search!Better(profile, x, z)
<1> DEFINE u(p) == Cardinality(Search!Unknown(p))
           res(p) == Search!Residual(profile, p)
           better(p, q) == u(p) < u(q) \/ (u(p) = 0 /\ u(q) = 0 /\ res(p) < res(q))
<1>1. \A p \in {x, y, z} : /\ u(p) \in Nat /\ (u(p) = 0 <=> Search!Unknown(p) = {})
                           /\ res(p) \in Nat
  BY UnknownCount, ResidualIsNat
<1>2. \A p, q \in {x, y, z} : Search!Better(profile, p, q) <=> better(p, q)
  BY <1>1, SearchCardinality DEF Search!Better
<1> HIDE DEF u, res
<1>3. ~better(x, x) /\ (better(x, y) /\ better(y, z) => better(x, z))
  BY <1>1
<1> HIDE DEF better
<1> QED
  BY <1>2, <1>3

(* The search ends on a place that is eligible and that no other place is   *)
(* better than, or there is none.                                           *)
Ended(profile, origin, S, o) ==
  /\ o \in Search!Square /\ Search!Eligible(Search!Plus(origin, o))
  /\ \A q \in S : Search!Eligible(Search!Plus(origin, q)) =>
       ~Search!Better(profile, Search!Plus(origin, q), Search!Plus(origin, o))

LEMMA CorrelateIsBest ==
  ASSUME SearchTyped, NEW profile \in [1 .. ProfileLen -> Int], NEW origin \in Place
  PROVE  LET o == Search!Correlate(profile, origin)
         IN  \/ o = <<0, 0>> /\ \A q \in Search!Square : ~Search!Eligible(Search!Plus(origin, q))
             \/ Ended(profile, origin, Search!Square, o)
<1> DEFINE n == Search!Side * Search!Side
           at(q) == Search!Plus(origin, q)
           passed(k) == {Search!Offsets[i] : i \in 1 .. k}
<1>1. n \in Nat /\ DOMAIN Search!Offsets = 1 .. n /\ \A i \in 1 .. n : Search!Offsets[i] \in Search!Square
  BY OffsetsAre DEF Search!Square
<1>2. passed(n) = Search!Square
  <2>1. ASSUME NEW q \in Search!Square PROVE \E i \in 1 .. n : Search!Offsets[i] = q
    <3>1. q[1] \in -SearchRadius .. SearchRadius /\ q[2] \in -SearchRadius .. SearchRadius /\ q = <<q[1], q[2]>>
      BY DEF Search!Square
    <3> QED
      BY <1>1, <3>1, OffsetsAre
  <2> HIDE DEF n
  <2> QED
    BY <1>1, <2>1
<1>3. Search!Square \subseteq Place /\ \A q \in Search!Square : at(q) \in Place
  <2>1. Search!Square \subseteq Place
    BY SearchAssumption DEF Search!Square, Place
  <2> QED
    BY <2>1, PlacesAdd
<1>4. PICK g : /\ IsSearch(profile, origin, g)
               /\ Search!Correlate(profile, origin)
                    = IF g[DOMAIN Search!Offsets] = {} THEN <<0, 0>>
                      ELSE CHOOSE o \in g[DOMAIN Search!Offsets] : TRUE
  BY CorrelateIs
<1> HIDE DEF n
<1>5. g[1 .. 0] = {}
  <2>1. 1 .. 0 = {} /\ {} \in SUBSET (1 .. n)
    OBVIOUS
  <2> QED
    BY <1>1, <1>4, <2>1, Zenon DEF IsSearch
<1>6. ASSUME NEW k \in 1 .. n
      PROVE  g[1 .. k] = Tried(profile, origin, g[1 .. k - 1], Search!Offsets[k])
  <2>1. /\ 1 .. k \in SUBSET (1 .. n) /\ 1 .. k # {} /\ MaxOf(1 .. k) = k /\ (1 .. k) \ {k} = 1 .. k - 1
    BY <1>1, UpTo
  <2> QED
    BY <1>1, <1>4, <2>1, Zenon DEF IsSearch
<1> DEFINE P(k) == \/ g[1 .. k] = {} /\ \A q \in passed(k) : ~Search!Eligible(at(q))
                   \/ \E b : g[1 .. k] = {b} /\ Ended(profile, origin, passed(k), b)
           K == {k \in Nat : k <= n => P(k)}
<1>7. 0 \in K
  BY <1>5
<1>8. ASSUME NEW k \in K PROVE k + 1 \in K
  <2>0. k \in Nat /\ k + 1 \in Nat /\ (k <= n => P(k))
    <3> HIDE DEF P
    <3> QED
      OBVIOUS
  <2> SUFFICES ASSUME k + 1 <= n PROVE P(k + 1)
    <3> HIDE DEF P
    <3> QED
      BY <2>0
  <2> DEFINE o == Search!Offsets[k + 1]
  <2>1. k \in Nat /\ k + 1 \in 1 .. n /\ k <= n /\ (k + 1) - 1 = k
    BY <1>1, <2>0
  <2>2. P(k)
    BY <2>0, <2>1
  <2>3. g[1 .. k + 1] = Tried(profile, origin, g[1 .. k], o)
    BY <1>6, <2>1
  <2>4. passed(k + 1) = passed(k) \cup {o} /\ passed(k) \subseteq Search!Square
    BY <1>1, <2>1
  <2>5. o \in Search!Square
    BY <1>1, <2>1
  <2> HIDE DEF o, passed
  <2>6. CASE g[1 .. k] = {} /\ \A q \in passed(k) : ~Search!Eligible(at(q))
    <3>1. CASE Search!Eligible(at(o))
      <4>1. g[1 .. k + 1] = {o}
        BY <2>3, <2>6, <3>1 DEF Tried
      <4>2. ~Search!Better(profile, at(o), at(o))
        BY <1>3, <2>5, BetterIsAnOrder
      <4>3. Ended(profile, origin, passed(k + 1), o)
        BY <2>4, <2>5, <2>6, <3>1, <4>2 DEF Ended
      <4> QED
        BY <4>1, <4>3
    <3>2. CASE ~Search!Eligible(at(o))
      <4>1. g[1 .. k + 1] = {}
        BY <2>3, <2>6, <3>2 DEF Tried
      <4> QED
        BY <2>4, <2>6, <3>2, <4>1
    <3> QED
      BY <3>1, <3>2
  <2>7. ASSUME NEW b, g[1 .. k] = {b}, Ended(profile, origin, passed(k), b) PROVE P(k + 1)
    <3> DEFINE wins == Search!Eligible(at(o)) /\ Search!Better(profile, at(o), at(b))
    <3>0. b \in Search!Square /\ at(b) \in Place /\ at(o) \in Place
      BY <1>3, <2>5, <2>7 DEF Ended
    <3>1. CASE wins
      <4>1. g[1 .. k + 1] = {o}
        BY <2>3, <2>7, <3>1 DEF Tried
      <4>2. ~Search!Better(profile, at(o), at(o))
        BY <1>3, <2>5, BetterIsAnOrder
      <4>3. ASSUME NEW q \in passed(k), Search!Eligible(at(q)), Search!Better(profile, at(q), at(o))
            PROVE  FALSE
        <5>1. at(q) \in Place
          BY <1>3, <2>4
        <5>2. Search!Better(profile, at(q), at(b))
          BY <3>0, <3>1, <4>3, <5>1, BetterIsAnOrder
        <5> QED
          BY <2>7, <4>3, <5>2 DEF Ended
      <4>4. Ended(profile, origin, passed(k + 1), o)
        BY <2>4, <2>5, <3>1, <4>2, <4>3 DEF Ended
      <4> QED
        BY <4>1, <4>4
    <3>2. CASE ~wins
      <4>1. g[1 .. k + 1] = {b}
        BY <2>3, <2>7, <3>2 DEF Tried
      <4>2. Ended(profile, origin, passed(k + 1), b)
        BY <2>4, <2>7, <3>2 DEF Ended
      <4> QED
        BY <4>1, <4>2
    <3> QED
      BY <3>1, <3>2
  <2> QED
    BY <2>2, <2>6, <2>7
<1>9. P(n)
  <2>1. K = Nat
    <3> HIDE DEF K
    <3>1. K \in SUBSET Nat
      BY DEF K
    <3> QED
      BY <1>7, <1>8, <3>1, NatSetInduction
  <2> HIDE DEF P
  <2> QED
    BY <1>1, <2>1
<1> HIDE DEF K, passed
<1>10. CASE g[1 .. n] = {} /\ \A q \in passed(n) : ~Search!Eligible(at(q))
  BY <1>1, <1>2, <1>4, <1>10
<1>11. ASSUME NEW b, g[1 .. n] = {b}, Ended(profile, origin, passed(n), b)
       PROVE  Ended(profile, origin, Search!Square, Search!Correlate(profile, origin))
  <2>1. Search!Correlate(profile, origin) = b
    BY <1>1, <1>4, <1>11
  <2> QED
    BY <1>2, <1>11, <2>1
<1> QED
  BY <1>9, <1>10, <1>11

(* Contour matching, whatever the database knows.                           *)
LEMMA TercomFindsIt ==
  ASSUME SearchTyped
  PROVE  Search!TercomFindsTheTrack
<1> DEFINE at(q) == Search!Plus(estimate, q)
           places == {at(q) : q \in Search!Square}
           known == {p \in places : Search!Unknown(p) = {}}
           profile == Search!Profile
           o == Search!Correlate(profile, estimate)
           found == at(o)
           alike == {p \in known : Search!Residual(profile, p) = 0}
<1>1. estimate \in Place /\ profile \in [1 .. ProfileLen -> Int]
  BY ProfileIsInts DEF SearchTyped
<1>2. /\ \A p \in places : \E q \in Search!Square : p = at(q)
      /\ \A q \in Search!Square : at(q) \in places /\ at(q) \in Place
  <2>1. Search!Square \subseteq Place
    BY SearchAssumption DEF Search!Square, Place
  <2>2. \A q \in Search!Square : at(q) \in places
    OBVIOUS
  <2>3. \A q \in Search!Square : at(q) \in Place
    BY <1>1, <2>1, PlacesAdd
  <2>4. \A p \in places : \E q \in Search!Square : p = at(q)
    OBVIOUS
  <2> QED
    BY <2>2, <2>3, <2>4
<1>3. at(<<0, 0>>) = estimate
  BY <1>1 DEF Search!Plus, Place
<1>4. \A p \in Place : Search!Unknown(p) = {} => Search!Eligible(p)
  BY UnknownCount, SearchCardinality DEF Search!Eligible
<1>5. \/ o = <<0, 0>> /\ \A q \in Search!Square : ~Search!Eligible(at(q))
      \/ Ended(profile, estimate, Search!Square, o)
  BY <1>1, CorrelateIsBest
<1> HIDE DEF profile, o, places
<1>6. CASE o = <<0, 0>> /\ \A q \in Search!Square : ~Search!Eligible(at(q))
  <2>1. known = {}
    BY <1>2, <1>3, <1>4, <1>6
  <2>2. /\ known # {} => found \in known /\ \A p \in known : Search!Residual(profile, found) <= Search!Residual(profile, p)
        /\ alike = {position} => found = position
    BY <2>1
  <2> QED
    BY <2>2, Zenon DEF Search!TercomFindsTheTrack, profile, o, places
<1>7. CASE Ended(profile, estimate, Search!Square, o)
  <2>1. o \in Search!Square /\ Search!Eligible(found) /\ found \in places /\ found \in Place
    BY <1>2, <1>7 DEF Ended
  <2> HIDE DEF found
  <2>2. ASSUME NEW p \in known
        PROVE  Search!Unknown(found) = {} /\ Search!Residual(profile, found) <= Search!Residual(profile, p)
    <3>1. PICK q \in Search!Square : p = at(q)
      BY <1>2
    <3>2. Search!Unknown(p) = {} /\ p \in Place
      BY <1>2, <3>1
    <3>3. ~Search!Better(profile, p, found)
      BY <1>4, <1>7, <3>1, <3>2 DEF Ended, found
    <3>4. /\ Cardinality(Search!Unknown(p)) = 0 /\ Cardinality(Search!Unknown(found)) \in Nat
          /\ (Cardinality(Search!Unknown(found)) = 0 <=> Search!Unknown(found) = {})
      BY <3>2, UnknownCount
    <3>5. ~(0 < Cardinality(Search!Unknown(found)))
      BY <3>3, <3>4, SearchCardinality DEF Search!Better
    <3>6. Search!Unknown(found) = {}
      BY <3>4, <3>5
    <3>7. ~(Search!Residual(profile, p) < Search!Residual(profile, found))
      BY <3>2, <3>3, <3>6 DEF Search!Better
    <3>8. Search!Residual(profile, p) \in Nat /\ Search!Residual(profile, found) \in Nat
      BY <1>1, <2>1, <3>2, ResidualIsNat
    <3> QED
      BY <3>6, <3>7, <3>8
  <2>3. known # {} => found \in known /\ \A p \in known : Search!Residual(profile, found) <= Search!Residual(profile, p)
    BY <2>1, <2>2
  <2>4. alike = {position} => found = position
    <3> SUFFICES ASSUME alike = {position} PROVE found = position
      OBVIOUS
    <3>1. position \in known /\ Search!Residual(profile, position) = 0
      OBVIOUS
    <3>2. found \in known /\ Search!Residual(profile, found) <= 0
      BY <2>3, <3>1
    <3>3. Search!Residual(profile, found) \in Nat
      BY <1>1, <2>1, ResidualIsNat
    <3>4. found \in alike
      BY <3>2, <3>3
    <3> QED
      BY <3>4
  <2>5. /\ known # {} => found \in known /\ \A p \in known : Search!Residual(profile, found) <= Search!Residual(profile, p)
        /\ alike = {position} => found = position
    BY <2>1, <2>3, <2>4
  <2> QED
    BY <2>5, Zenon DEF Search!TercomFindsTheTrack, profile, o, places, found
<1> QED
  BY <1>5, <1>6, <1>7

-----------------------------------------------------------------------------
(* The landing site.  The places of the lattice, and half of the reach that *)
(* they are within.                                                         *)
LatticeSteps(altitude) == {Search!Step(i, altitude) : i \in 0 .. Lattice}
Looked(altitude) == {Search!Plus(estimate, d) : d \in LatticeSteps(altitude) \X LatticeSteps(altitude)}

LEMMA StepIsHalfTheReach ==
  ASSUME NEW altitude \in Int, altitude > 0, Lattice # 0, NEW i \in 0 .. Lattice
  PROVE  /\ Search!Step(i, altitude) \in Int
         /\ 2 * Search!Away(Search!Step(i, altitude)) <= Search!Reach(altitude) + 1
<1> DEFINE full == Search!Reach(altitude)
           half == full \div 2
           x == i * full
           q == x \div Lattice
<1>1. Lattice \in Nat \ {0} /\ full \in Nat
  <2>1. altitude \in Nat /\ GlideRatio \in Nat
    BY SearchAssumption
  <2>2. altitude * GlideRatio \in Nat
    BY <2>1
  <2> QED
    BY <2>2, SearchAssumption DEF Search!Reach
<1>2. Search!Step(i, altitude) = q - half
  BY DEF Search!Step
<1> HIDE DEF full
<1>3. half \in Nat /\ 2 * half <= full /\ full <= 2 * half + 1
  BY <1>1
<1>4. x \in Nat /\ x <= Lattice * full
  <2>1. Lattice * full = i * full + (Lattice - i) * full /\ (Lattice - i) * full \in Nat /\ i * full \in Nat
    BY <1>1
  <2> QED
    BY <2>1
<1> HIDE DEF x, half
<1>5. x % Lattice \in 0 .. Lattice - 1 /\ q \in Int /\ x = Lattice * q + (x % Lattice)
  BY <1>1, <1>4, ModRange
<1> HIDE DEF q
<1>6. q >= 0
  <2>1. ASSUME q <= -1 PROVE FALSE
    <3>1. Lattice * q = -Lattice - Lattice * (-q - 1) /\ Lattice * (-q - 1) \in Nat
      BY <1>1, <1>5, <2>1
    <3> QED
      BY <1>1, <1>4, <1>5, <3>1
  <2> QED
    BY <1>5, <2>1
<1>7. q <= full
  <2>1. ASSUME q >= full + 1 PROVE FALSE
    <3>1. Lattice * q = Lattice * full + Lattice * (q - full) /\ Lattice * (q - full) = Lattice + Lattice * (q - full - 1)
      BY <1>1, <1>5, <2>1
    <3>2. Lattice * (q - full - 1) \in Nat /\ Lattice * full \in Nat
      BY <1>1, <1>5, <2>1
    <3> QED
      BY <1>1, <1>4, <1>5, <3>1, <3>2
  <2> QED
    BY <1>1, <1>5, <2>1
<1>8. q - half \in Int /\ 2 * Search!Away(q - half) <= full + 1
  BY <1>1, <1>3, <1>5, <1>6, <1>7 DEF Search!Away
<1> QED
  BY <1>2, <1>8 DEF full

(* The sites are the places of the lattice. *)
LEMMA SitesAre ==
  ASSUME SearchTyped, NEW altitude \in Int, altitude > 0, Lattice # 0
  PROVE  LET n == (Lattice + 1) * (Lattice + 1)
             sites == Search!LatticeSites(estimate, altitude)
         IN  /\ n \in Nat /\ DOMAIN sites = 1 .. n
             /\ \A k \in 1 .. n : sites[k] \in Looked(altitude)
             /\ \A p \in Looked(altitude) : p \in Place /\ \E k \in 1 .. n : sites[k] = p
<1> DEFINE m == Lattice + 1
           n == m * m
           sites == Search!LatticeSites(estimate, altitude)
           place(a, b) == Search!Plus(estimate, <<Search!Step(a, altitude), Search!Step(b, altitude)>>)
<1>1. m \in Nat \ {0} /\ 0 .. m - 1 = 0 .. Lattice
  BY SearchAssumption
<1>2. DOMAIN sites = 1 .. n /\ \A k \in 1 .. n : sites[k] = place((k - 1) % m, (k - 1) \div m)
  BY DEF Search!LatticeSites
<1>3. \A a, b \in 0 .. Lattice : place(a, b) \in Looked(altitude)
  BY DEF Looked, LatticeSteps
<1>4. ASSUME NEW p \in Looked(altitude) PROVE \E a, b \in 0 .. Lattice : p = place(a, b)
  <2>1. PICK d \in LatticeSteps(altitude) \X LatticeSteps(altitude) : p = Search!Plus(estimate, d)
    BY DEF Looked
  <2>2. PICK a \in 0 .. Lattice : d[1] = Search!Step(a, altitude)
    BY DEF LatticeSteps
  <2>3. PICK b \in 0 .. Lattice : d[2] = Search!Step(b, altitude)
    BY DEF LatticeSteps
  <2>4. d = <<Search!Step(a, altitude), Search!Step(b, altitude)>>
    BY <2>2, <2>3
  <2> QED
    BY <2>1, <2>4
<1>5. ASSUME NEW a \in 0 .. Lattice, NEW b \in 0 .. Lattice PROVE place(a, b) \in Place
  <2>1. <<Search!Step(a, altitude), Search!Step(b, altitude)>> \in Place
    BY StepIsHalfTheReach DEF Place
  <2> QED
    BY <2>1, PlacesAdd DEF SearchTyped
<1> HIDE DEF m, sites, place
<1>6. \A k \in 1 .. n : (k - 1) % m \in 0 .. Lattice /\ (k - 1) \div m \in 0 .. Lattice
  BY <1>1, WalkOfASquare
<1>7. ASSUME NEW a \in 0 .. Lattice, NEW b \in 0 .. Lattice
      PROVE  \E k \in 1 .. n : (k - 1) % m = a /\ (k - 1) \div m = b
  BY <1>1, WalkOfASquare
<1>8. n \in Nat
  BY <1>1
<1> HIDE DEF n
<1>9. \A k \in 1 .. n : sites[k] \in Looked(altitude)
  BY <1>2, <1>3, <1>6
<1>10. ASSUME NEW p \in Looked(altitude) PROVE p \in Place /\ \E k \in 1 .. n : sites[k] = p
  <2>1. PICK a, b \in 0 .. Lattice : p = place(a, b)
    BY <1>4
  <2>2. PICK k \in 1 .. n : (k - 1) % m = a /\ (k - 1) \div m = b
    BY <1>7
  <2>3. sites[k] = p
    BY <1>2, <2>1, <2>2
  <2> QED
    BY <1>5, <2>1, <2>3
<1> QED
  BY <1>2, <1>8, <1>9, <1>10 DEF n, m, sites

(* One step of the fold: the place looked at, if it is lower than the       *)
(* lowest so far.                                                           *)
Lowered(best, p) ==
  IF \/ Search!GetElevation(p) = {}
     \/ \E b \in best : Search!Min(Search!GetElevation(b)) <= Search!Min(Search!GetElevation(p))
  THEN best ELSE {p}

IsDescent(sites, g) ==
  g = [s \in SUBSET (DOMAIN sites) |-> IF s = {} THEN {} ELSE Lowered(g[s \ {MaxOf(s)}], sites[MaxOf(s)])]

LEMMA DescentExists ==
  ASSUME NEW n \in Nat, NEW sites, DOMAIN sites = 1 .. n
  PROVE  \E g : IsDescent(sites, g)
<1> DEFINE S == AtMostOne({sites[k] : k \in 1 .. n})
           F == [q \in (1 .. n) \X S |-> Lowered(q[2], sites[q[1]])]
<1>1. {} \in S
  BY DEF AtMostOne
<1>2. \A k \in 1 .. n, best \in S : Lowered(best, sites[k]) \in S
  BY Zenon DEF Lowered, AtMostOne
<1> HIDE DEF S
<1>3. F \in [(1 .. n) \X S -> S]
  BY <1>2
<1>4. \A k \in 1 .. n, best \in S : F[<<k, best>>] = Lowered(best, sites[k])
  OBVIOUS
<1> HIDE DEF F
<1>5. PICK g \in [SUBSET (1 .. n) -> S] : IsFold(n, {}, F, g)
  BY <1>1, <1>3, FoldExists
<1>6. ASSUME NEW s \in SUBSET (1 .. n)
      PROVE  FoldStep({}, F, g, s) = IF s = {} THEN {} ELSE Lowered(g[s \ {MaxOf(s)}], sites[MaxOf(s)])
  <2>1. CASE s = {}
    BY <2>1 DEF FoldStep
  <2>2. CASE s # {}
    <3>1. MaxOf(s) \in 1 .. n
      <4>1. IsFiniteSet(1 .. n)
        BY FS_Interval
      <4>2. s \in SUBSET Int
        OBVIOUS
      <4>3. IsFiniteSet(s)
        BY <4>1, FS_Subset
      <4> QED
        BY <2>2, <4>2, <4>3, MaxIs
    <3>2. g[s \ {MaxOf(s)}] \in S
      BY <1>5
    <3> QED
      BY <1>4, <2>2, <3>1, <3>2 DEF FoldStep
  <2> QED
    BY <2>1, <2>2
<1>7. g = [s \in SUBSET (1 .. n) |-> IF s = {} THEN {} ELSE Lowered(g[s \ {MaxOf(s)}], sites[MaxOf(s)])]
  BY <1>5, <1>6, Zenon DEF IsFold
<1> QED
  BY <1>7, Zenon DEF IsDescent

(* The site found is known and no other known place is lower, or none is    *)
(* known.                                                                   *)
Lowest(S, b) ==
  /\ b \in S /\ Search!GetElevation(b) # {}
  /\ \A q \in S : Search!GetElevation(q) # {} =>
       Search!Min(Search!GetElevation(b)) <= Search!Min(Search!GetElevation(q))

LEMMA SiteIsLowest ==
  ASSUME SearchTyped, NEW altitude \in Int, altitude > 0, Lattice # 0
  PROVE  LET site == Search!BestLandingSite(estimate, altitude)
         IN  \/ site = {} /\ \A q \in Looked(altitude) : Search!GetElevation(q) = {}
             \/ \E b : site = {b} /\ Lowest(Looked(altitude), b)
<1> DEFINE n == (Lattice + 1) * (Lattice + 1)
           sites == Search!LatticeSites(estimate, altitude)
           level(q) == Search!Min(Search!GetElevation(q))
           passed(k) == {sites[i] : i \in 1 .. k}
<1>1. /\ n \in Nat /\ DOMAIN sites = 1 .. n
      /\ \A k \in 1 .. n : sites[k] \in Looked(altitude)
      /\ \A p \in Looked(altitude) : p \in Place /\ \E k \in 1 .. n : sites[k] = p
  BY SitesAre
<1>2. ASSUME NEW q \in Looked(altitude), Search!GetElevation(q) # {} PROVE level(q) \in Int
  <2>1. PICK v \in Int : Search!GetElevation(q) = {v}
    BY <1>1, <1>2, ElevationIs
  <2>2. Search!Min({v}) = v
    BY DEF Search!Min
  <2> QED
    BY <2>1, <2>2
<1> DEFINE iter == CHOOSE g : IsDescent(sites, g)
<1>3. Search!BestLandingSite(estimate, altitude) = iter[DOMAIN sites]
  <2>1. Search!BestLandingSite(estimate, altitude)
          = IF altitude <= 0 \/ Lattice = 0 THEN {} ELSE iter[DOMAIN sites]
    BY Zenon DEF Search!BestLandingSite, Search!FoldLeft, Search!MapThenFoldSet, Search!Max, MaxOf, IsDescent,
                 Lowered
  <2>2. ~(altitude <= 0 \/ Lattice = 0)
    OBVIOUS
  <2> QED
    BY <2>1, <2>2, Zenon
<1> HIDE DEF n, sites
<1>4. IsDescent(sites, iter)
  <2>1. \E g : IsDescent(sites, g)
    BY <1>1, DescentExists
  <2> QED
    BY <2>1, Zenon
<1> HIDE DEF iter
<1>5. iter[1 .. 0] = {}
  <2>1. 1 .. 0 = {} /\ {} \in SUBSET (1 .. n)
    OBVIOUS
  <2> QED
    BY <1>1, <1>4, <2>1, Zenon DEF IsDescent
<1>6. ASSUME NEW k \in 1 .. n
      PROVE  iter[1 .. k] = Lowered(iter[1 .. k - 1], sites[k])
  <2>1. /\ 1 .. k \in SUBSET (1 .. n) /\ 1 .. k # {} /\ MaxOf(1 .. k) = k /\ (1 .. k) \ {k} = 1 .. k - 1
    BY <1>1, UpTo
  <2> QED
    BY <1>1, <1>4, <2>1, Zenon DEF IsDescent
<1> DEFINE P(k) == \/ iter[1 .. k] = {} /\ \A q \in passed(k) : Search!GetElevation(q) = {}
                   \/ \E b : iter[1 .. k] = {b} /\ Lowest(passed(k), b)
           K == {k \in Nat : k <= n => P(k)}
<1>7. 0 \in K
  BY <1>5
<1>8. ASSUME NEW k \in K PROVE k + 1 \in K
  <2>0. k \in Nat /\ k + 1 \in Nat /\ (k <= n => P(k))
    <3> HIDE DEF P
    <3> QED
      OBVIOUS
  <2> SUFFICES ASSUME k + 1 <= n PROVE P(k + 1)
    <3> HIDE DEF P
    <3> QED
      BY <2>0
  <2> DEFINE p == sites[k + 1]
  <2>1. k + 1 \in 1 .. n /\ k <= n /\ (k + 1) - 1 = k
    BY <1>1, <2>0
  <2>2. P(k)
    BY <2>0, <2>1
  <2>3. iter[1 .. k + 1] = Lowered(iter[1 .. k], p)
    BY <1>6, <2>1
  <2>4. passed(k + 1) = passed(k) \cup {p} /\ passed(k) \subseteq Looked(altitude)
    BY <1>1, <2>0, <2>1
  <2>5. p \in Looked(altitude)
    BY <1>1, <2>1
  <2> HIDE DEF p, passed
  <2>6. CASE iter[1 .. k] = {} /\ \A q \in passed(k) : Search!GetElevation(q) = {}
    <3>1. CASE Search!GetElevation(p) # {}
      <4>1. iter[1 .. k + 1] = {p}
        BY <2>3, <2>6, <3>1 DEF Lowered
      <4>2. level(p) <= level(p)
        BY <1>2, <2>5, <3>1
      <4>3. Lowest(passed(k + 1), p)
        BY <2>4, <2>6, <3>1, <4>2 DEF Lowest
      <4> QED
        BY <4>1, <4>3
    <3>2. CASE Search!GetElevation(p) = {}
      <4>1. iter[1 .. k + 1] = {}
        BY <2>3, <2>6, <3>2 DEF Lowered
      <4> QED
        BY <2>4, <2>6, <3>2, <4>1
    <3> QED
      BY <3>1, <3>2
  <2>7. ASSUME NEW b, iter[1 .. k] = {b}, Lowest(passed(k), b) PROVE P(k + 1)
    <3>0. b \in Looked(altitude) /\ level(b) \in Int
      BY <1>2, <2>4, <2>7 DEF Lowest
    <3>1. CASE Search!GetElevation(p) # {} /\ ~(level(b) <= level(p))
      <4>1. iter[1 .. k + 1] = {p}
        BY <2>3, <2>7, <3>1 DEF Lowered
      <4>2. level(p) \in Int
        BY <1>2, <2>5, <3>1
      <4>3. ASSUME NEW q \in passed(k), Search!GetElevation(q) # {} PROVE level(p) <= level(q)
        <5>1. level(q) \in Int /\ level(b) <= level(q)
          BY <1>2, <2>4, <2>7, <4>3 DEF Lowest
        <5> HIDE DEF level
        <5> QED
          BY <3>0, <3>1, <4>2, <5>1
      <4>4. level(p) <= level(p)
        BY <4>2
      <4>5. Lowest(passed(k + 1), p)
        BY <2>4, <3>1, <4>3, <4>4 DEF Lowest
      <4> QED
        BY <4>1, <4>5
    <3>2. CASE Search!GetElevation(p) = {} \/ level(b) <= level(p)
      <4>1. iter[1 .. k + 1] = {b}
        BY <2>3, <2>7, <3>2 DEF Lowered
      <4>2. Lowest(passed(k + 1), b)
        BY <2>4, <2>7, <3>2 DEF Lowest
      <4> QED
        BY <4>1, <4>2
    <3> QED
      BY <3>1, <3>2
  <2> QED
    BY <2>2, <2>6, <2>7
<1>9. P(n)
  <2>1. K = Nat
    <3> HIDE DEF K
    <3>1. K \in SUBSET Nat
      BY DEF K
    <3> QED
      BY <1>7, <1>8, <3>1, NatSetInduction
  <2> HIDE DEF P
  <2> QED
    BY <1>1, <2>1
<1>10. passed(n) = Looked(altitude)
  BY <1>1
<1> HIDE DEF K, passed
<1> QED
  BY <1>1, <1>3, <1>9, <1>10

(* Within the still-air reach of the vehicle, rounded to a half cell.       *)
InReach(p, altitude) ==
  LET n == Search!Away(p[1] - estimate[1])
      e == Search!Away(p[2] - estimate[2])
  IN  n * n + e * e <= (Search!Reach(altitude) + 1) * (Search!Reach(altitude) + 1)

(* Half of m on either axis is less than m away.                            *)
LEMMA HalvesAreWithin ==
  ASSUME NEW n \in Nat, NEW e \in Nat, NEW m \in Nat, 2 * n <= m, 2 * e <= m
  PROVE  n * n + e * e <= m * m
<1>1. n * n <= n * m /\ e * e <= e * m
  <2>1. n <= m /\ e <= m
    OBVIOUS
  <2>2. ASSUME NEW x \in Nat, NEW y \in Nat, x <= y PROVE x * x <= x * y
    <3>1. x * (y - x) \in Nat /\ x * y = x * x + x * (y - x)
      BY <2>2
    <3>2. x * x \in Int /\ x * y \in Int
      OBVIOUS
    <3> QED
      BY <3>1, <3>2
  <2> QED
    BY <2>1, <2>2
<1>2. n * m + e * m <= m * m
  <2>1. (m - n - e) \in Nat
    OBVIOUS
  <2>2. (m - n - e) * m \in Nat /\ m * m = n * m + e * m + (m - n - e) * m
    BY <2>1
  <2>3. n * m \in Int /\ e * m \in Int /\ m * m \in Int
    OBVIOUS
  <2> QED
    BY <2>2, <2>3
<1>3. n * n \in Int /\ e * e \in Int /\ n * m \in Int /\ e * m \in Int /\ m * m \in Int
  OBVIOUS
<1> QED
  BY <1>1, <1>2, <1>3

LEMMA LatticeIsInReach ==
  ASSUME SearchTyped, NEW altitude \in Int, altitude > 0, Lattice # 0, NEW p \in Looked(altitude)
  PROVE  InReach(p, altitude)
<1> DEFINE n == Search!Away(p[1] - estimate[1])
           e == Search!Away(p[2] - estimate[2])
           m == Search!Reach(altitude) + 1
<1>1. PICK d \in LatticeSteps(altitude) \X LatticeSteps(altitude) : p = Search!Plus(estimate, d)
  BY DEF Looked
<1>2. PICK i \in 0 .. Lattice, j \in 0 .. Lattice :
        d[1] = Search!Step(i, altitude) /\ d[2] = Search!Step(j, altitude)
  <2>1. d[1] \in LatticeSteps(altitude) /\ d[2] \in LatticeSteps(altitude)
    OBVIOUS
  <2> QED
    BY <2>1 DEF LatticeSteps
<1>3. /\ d[1] \in Int /\ 2 * Search!Away(d[1]) <= m
      /\ d[2] \in Int /\ 2 * Search!Away(d[2]) <= m
  BY <1>2, StepIsHalfTheReach
<1>4. p[1] - estimate[1] = d[1] /\ p[2] - estimate[2] = d[2]
  <2>1. estimate[1] \in Int /\ estimate[2] \in Int
    BY DEF SearchTyped, Place
  <2>2. p[1] = estimate[1] + d[1] /\ p[2] = estimate[2] + d[2]
    BY <1>1 DEF Search!Plus
  <2> QED
    BY <1>3, <2>1, <2>2
<1>5. n \in Nat /\ e \in Nat
  BY <1>3, <1>4 DEF Search!Away
<1>6. m \in Nat
  <2>1. GlideRatio \in Nat /\ altitude \in Nat
    BY SearchAssumption
  <2> QED
    BY <2>1 DEF Search!Reach
<1>7. 2 * n <= m /\ 2 * e <= m
  BY <1>3, <1>4
<1> HIDE DEF n, e, m
<1>8. n * n + e * e <= m * m
  BY <1>5, <1>6, <1>7, HalvesAreWithin
<1> QED
  BY <1>8 DEF InReach, n, e, m

(* The search for a landing site, whatever the lattice and the altitude.    *)
LEMMA LandingSiteIsFound ==
  ASSUME SearchTyped
  PROVE  Search!LandsOnTheLowest
<1> SUFFICES ASSUME NEW altitude \in Altitudes
             PROVE  LET looked == Looked(altitude)
                        known == {p \in looked : Search!GetElevation(p) # {}}
                        site == Search!BestLandingSite(estimate, altitude)
                    IN  /\ site = {} <=> altitude <= 0 \/ Lattice = 0 \/ known = {}
                        /\ \A p \in site :
                             /\ p \in known
                             /\ \A q \in known : Search!Min(Search!GetElevation(p)) <= Search!Min(Search!GetElevation(q))
                             /\ InReach(p, altitude)
  BY Zenon DEF Search!LandsOnTheLowest, Looked, LatticeSteps, InReach
<1>0. altitude \in Int
  BY SearchAssumption
<1> DEFINE known == {p \in Looked(altitude) : Search!GetElevation(p) # {}}
           site == Search!BestLandingSite(estimate, altitude)
<1>1. CASE altitude <= 0 \/ Lattice = 0
  <2>1. site = {}
    BY <1>1, Zenon DEF Search!BestLandingSite
  <2> QED
    BY <1>1, <2>1, Zenon
<1>2. CASE ~(altitude <= 0 \/ Lattice = 0)
  <2>0. altitude > 0 /\ Lattice # 0
    BY <1>0, <1>2
  <2>1. \/ site = {} /\ \A q \in Looked(altitude) : Search!GetElevation(q) = {}
        \/ \E b : site = {b} /\ Lowest(Looked(altitude), b)
    BY <1>0, <2>0, SiteIsLowest
  <2>2. ASSUME NEW p \in Looked(altitude) PROVE InReach(p, altitude)
    BY <1>0, <2>0, <2>2, LatticeIsInReach
  <2>3. ASSUME site = {}, \A q \in Looked(altitude) : Search!GetElevation(q) = {}
        PROVE  /\ site = {} <=> altitude <= 0 \/ Lattice = 0 \/ known = {}
               /\ \A p \in site :
                    /\ p \in known
                    /\ \A q \in known : Search!Min(Search!GetElevation(p)) <= Search!Min(Search!GetElevation(q))
                    /\ InReach(p, altitude)
    <3> HIDE DEF site
    <3>1. known = {}
      BY <2>3
    <3> HIDE DEF known
    <3>2. site = {}
      BY <2>3
    <3>3. \A p \in site :
            /\ p \in known
            /\ \A q \in known : Search!Min(Search!GetElevation(p)) <= Search!Min(Search!GetElevation(q))
            /\ InReach(p, altitude)
      BY <3>2, Zenon
    <3> QED
      BY <3>1, <3>2, <3>3, Zenon
  <2>4. ASSUME NEW b, site = {b}, Lowest(Looked(altitude), b)
        PROVE  /\ site = {} <=> altitude <= 0 \/ Lattice = 0 \/ known = {}
               /\ \A p \in site :
                    /\ p \in known
                    /\ \A q \in known : Search!Min(Search!GetElevation(p)) <= Search!Min(Search!GetElevation(q))
                    /\ InReach(p, altitude)
    <3> HIDE DEF site
    <3>1. b \in known /\ \A q \in known : Search!Min(Search!GetElevation(b)) <= Search!Min(Search!GetElevation(q))
      BY <2>4 DEF Lowest
    <3>2. InReach(b, altitude)
      BY <2>2, <3>1
    <3> HIDE DEF known
    <3> QED
      BY <1>2, <2>4, <3>1, <3>2
  <2> QED
    BY <2>1, <2>3, <2>4
<1> QED
  BY <1>1, <1>2

(* Places stay places.                                                      *)
LEMMA SearchTypedHolds ==
  ASSUME SearchTyped, [Search!SearchNext]_(Search!searchVars)
  PROVE  SearchTyped'
<1>1. ASSUME NEW d \in {<<1, 0>>, <<-1, 0>>, <<0, 1>>, <<0, -1>>}, Search!Drift(d) PROVE SearchTyped'
  <2>1. d \in Place
    BY DEF Place
  <2> QED
    BY <1>1, <2>1, PlacesAdd DEF Search!Drift, SearchTyped
<1>2. ASSUME NEW p \in Track, Search!Fly(p) PROVE SearchTyped'
  <2>1. p \in Place /\ <<-position[1], -position[2]>> \in Place
    BY SearchAssumption DEF SearchTyped, Place
  <2>2. Search!Plus(p, <<-position[1], -position[2]>>) \in Place
    BY <2>1, PlacesAdd
  <2> QED
    BY <1>2, <2>1, <2>2, PlacesAdd DEF Search!Fly, SearchTyped
<1>3. CASE Search!Fix
  <2> DEFINE o == Search!Correlate(Search!Profile, estimate)
  <2>1. o \in Place
    <3>1. o = <<0, 0>> \/ o \in Search!Square
      BY CorrelateIsBest, ProfileIsInts DEF Ended, SearchTyped
    <3>2. Search!Square \subseteq Place /\ <<0, 0>> \in Place
      BY SearchAssumption DEF Search!Square, Place
    <3> QED
      BY <3>1, <3>2
  <2>2. estimate' = Search!Plus(estimate, o) /\ UNCHANGED <<terrain, position>>
    BY <1>3, Zenon DEF Search!Fix
  <2> HIDE DEF o
  <2> QED
    BY <2>1, <2>2, PlacesAdd DEF SearchTyped
<1>4. CASE UNCHANGED Search!searchVars
  BY <1>4 DEF Search!searchVars, SearchTyped
<1> QED
  BY <1>1, <1>2, <1>3, <1>4 DEF Search!SearchNext

(* Both searches of a terrain database find the best of the places they     *)
(* look at and the database knows, whatever the terrain, where the vehicle  *)
(* is and takes itself to be, the search radius, the length of the profile  *)
(* and the lattice (tan/mod.rs, glide.rs).                                  *)
THEOREM SearchesFindTheBest == UnitsSpec => []TerrainIsMatched
<1>1. UnitsInit => SearchTyped
  BY SearchAssumption DEF UnitsInit, Search!SearchInit, SearchTyped, Place
<1>2. SearchTyped /\ [UnitsNext]_unitVars => SearchTyped'
  BY UnitsSteps, SearchTypedHolds
<1>3. SearchTyped => TerrainIsMatched
  BY TercomFindsIt, LandingSiteIsFound DEF TerrainIsMatched, Search!TerrainIsMatched
<1> QED
  BY <1>1, <1>2, <1>3, PTL DEF UnitsSpec

-----------------------------------------------------------------------------
(* Poly1305.                                                               *)

(* What five limbs of the base hold. *)
Digits == [Poly!L -> 0 .. Base - 1]

LEMMA LimbIndices == Poly!L = {0, 1, 2, 3, 4} /\ 0 .. 5 = Poly!L \cup {5}
  BY DEF Poly!L

(* One step of a carry: quotient and remainder. *)
LEMMA Shift ==
  ASSUME NEW x \in Nat, NEW bound \in Nat, x <= bound * Base
  PROVE  /\ x \div Base \in Nat /\ x % Base \in 0 .. Base - 1
         /\ x = Base * (x \div Base) + (x % Base)
         /\ x \div Base <= bound
<1> DEFINE q == x \div Base
           m == x % Base
<1>1. q \in Int /\ m \in 0 .. Base - 1 /\ x = Base * q + m
  BY PolyAssumption, ModRange
<1> HIDE DEF q, m
<1>2. q >= 0
  <2>1. SUFFICES ASSUME q <= -1 PROVE FALSE
    BY <1>1
  <2>2. Base * q <= -Base
    BY <1>1, <2>1, PolyAssumption
  <2> QED
    BY <1>1, <2>2, PolyAssumption
<1>3. q <= bound
  <2>1. SUFFICES ASSUME q >= bound + 1 PROVE FALSE
    BY <1>1
  <2>2. Base * q >= Base * bound + Base
    BY <1>1, <2>1, PolyAssumption
  <2> QED
    BY <1>1, <2>2, PolyAssumption
<1> QED
  BY <1>1, <1>2, <1>3 DEF q, m

(* A carry through the limbs changes nothing of the number: what is left    *)
(* over at the top counts Past.  Nothing carried exceeds the bound.         *)
LEMMA CarryIs ==
  ASSUME NEW x \in [Poly!L -> Nat], NEW bound \in Nat,
         \A i \in Poly!L : x[i] <= bound * (Base - 1)
  PROVE  /\ Poly!Carry(x).limbs \in Digits
         /\ Poly!Carry(x).out \in 0 .. bound
         /\ Poly!Value(x) = Poly!Value(Poly!Carry(x).limbs) + Poly!Past * Poly!Carry(x).out
<1> DEFINE IsRun(c) == c = [i \in 0 .. 5 |-> IF i = 0 THEN 0 ELSE (x[i - 1] + c[i - 1]) \div Base]
           run == CHOOSE c : IsRun(c)
<1>1. \E c : IsRun(c)
  <2> DEFINE c1 == (x[0] + 0) \div Base
             c2 == (x[1] + c1) \div Base
             c3 == (x[2] + c2) \div Base
             c4 == (x[3] + c3) \div Base
             c5 == (x[4] + c4) \div Base
             c == [i \in 0 .. 5 |-> IF i = 0 THEN 0 ELSE IF i = 1 THEN c1 ELSE IF i = 2 THEN c2
                                    ELSE IF i = 3 THEN c3 ELSE IF i = 4 THEN c4 ELSE c5]
  <2>1. c[0] = 0 /\ c[1] = c1 /\ c[2] = c2 /\ c[3] = c3 /\ c[4] = c4 /\ c[5] = c5
    OBVIOUS
  <2>2. \A i \in 0 .. 5 : c[i] = IF i = 0 THEN 0 ELSE (x[i - 1] + c[i - 1]) \div Base
    <3>1. c[1] = (x[0] + c[0]) \div Base /\ c[2] = (x[1] + c[1]) \div Base /\ c[3] = (x[2] + c[2]) \div Base
          /\ c[4] = (x[3] + c[3]) \div Base /\ c[5] = (x[4] + c[4]) \div Base
      BY <2>1
    <3> HIDE DEF c
    <3> QED
      BY <2>1, <3>1
  <2>3. IsRun(c)
    <3>1. DOMAIN c = 0 .. 5 /\ c = [i \in 0 .. 5 |-> c[i]]
      OBVIOUS
    <3> HIDE DEF c
    <3> QED
      BY <2>2, <3>1
  <2> QED
    BY <2>3
<1>2. IsRun(run)
  BY <1>1
<1>3. Poly!Carry(x) = [limbs |-> [i \in Poly!L |-> (x[i] + run[i]) % Base], out |-> run[5]]
  BY Zenon DEF Poly!Carry
<1> HIDE DEF run
<1>4. /\ run[0] = 0 /\ run[1] = (x[0] + run[0]) \div Base /\ run[2] = (x[1] + run[1]) \div Base
      /\ run[3] = (x[2] + run[2]) \div Base /\ run[4] = (x[3] + run[3]) \div Base
      /\ run[5] = (x[4] + run[4]) \div Base
  BY <1>2
<1> HIDE DEF IsRun
<1>5. ASSUME NEW i \in Poly!L, NEW c \in 0 .. bound
      PROVE  /\ (x[i] + c) \div Base \in 0 .. bound /\ (x[i] + c) % Base \in 0 .. Base - 1
             /\ x[i] + c = Base * ((x[i] + c) \div Base) + ((x[i] + c) % Base)
  <2>1. x[i] + c \in Nat /\ x[i] + c <= bound * Base
    <3>1. bound * (Base - 1) + bound = bound * Base
      BY PolyAssumption
    <3> QED
      BY <3>1, PolyAssumption
  <2> DEFINE y == x[i] + c
  <2> HIDE DEF y
  <2>2. y \in Nat /\ y <= bound * Base
    BY <2>1 DEF y
  <2>3. y \div Base \in Nat /\ y % Base \in 0 .. Base - 1 /\ y = Base * (y \div Base) + (y % Base) /\ y \div Base <= bound
    BY <2>2, Shift
  <2> QED
    BY <2>3 DEF y
<1> DEFINE d == [i \in Poly!L |-> (x[i] + run[i]) % Base]
<1>6. /\ run[0] \in 0 .. bound
      /\ run[1] \in 0 .. bound /\ d[0] \in 0 .. Base - 1 /\ x[0] + run[0] = Base * run[1] + d[0]
  BY <1>4, <1>5, LimbIndices
<1>7. run[2] \in 0 .. bound /\ d[1] \in 0 .. Base - 1 /\ x[1] + run[1] = Base * run[2] + d[1]
  BY <1>4, <1>5, <1>6, LimbIndices
<1>8. run[3] \in 0 .. bound /\ d[2] \in 0 .. Base - 1 /\ x[2] + run[2] = Base * run[3] + d[2]
  BY <1>4, <1>5, <1>7, LimbIndices
<1>9. run[4] \in 0 .. bound /\ d[3] \in 0 .. Base - 1 /\ x[3] + run[3] = Base * run[4] + d[3]
  BY <1>4, <1>5, <1>8, LimbIndices
<1>10. run[5] \in 0 .. bound /\ d[4] \in 0 .. Base - 1 /\ x[4] + run[4] = Base * run[5] + d[4]
  BY <1>4, <1>5, <1>9, LimbIndices
<1>11. d \in Digits
  <2>1. d \in [Poly!L -> 0 .. Base - 1]
    BY <1>6, <1>7, <1>8, <1>9, <1>10, LimbIndices
  <2> QED
    BY <2>1 DEF Digits
<1> HIDE DEF d
<1>12. Poly!Value(x) = Poly!Value(d) + Poly!Past * run[5]
  <2> DEFINE x0 == x[0]  x1 == x[1]  x2 == x[2]  x3 == x[3]  x4 == x[4]
             d0 == d[0]  d1 == d[1]  d2 == d[2]  d3 == d[3]  d4 == d[4]
             r1 == run[1]  r2 == run[2]  r3 == run[3]  r4 == run[4]  r5 == run[5]
  <2>1. /\ x0 \in Int /\ x1 \in Int /\ x2 \in Int /\ x3 \in Int /\ x4 \in Int
        /\ d0 \in Int /\ d1 \in Int /\ d2 \in Int /\ d3 \in Int /\ d4 \in Int
        /\ r1 \in Int /\ r2 \in Int /\ r3 \in Int /\ r4 \in Int /\ r5 \in Int
        /\ Base \in Int
    BY <1>6, <1>7, <1>8, <1>9, <1>10, LimbIndices, PolyAssumption
  <2>2. /\ x0 = Base * r1 + d0 /\ x1 = Base * r2 + d1 - r1 /\ x2 = Base * r3 + d2 - r2
        /\ x3 = Base * r4 + d3 - r3 /\ x4 = Base * r5 + d4 - r4
    <3>1. run[0] = 0
      BY <1>4
    <3>2. /\ x0 + run[0] = Base * r1 + d0 /\ x1 + r1 = Base * r2 + d1 /\ x2 + r2 = Base * r3 + d2
          /\ x3 + r3 = Base * r4 + d3 /\ x4 + r4 = Base * r5 + d4
      BY <1>6, <1>7, <1>8, <1>9, <1>10
    <3> HIDE DEF x0, x1, x2, x3, x4, d0, d1, d2, d3, d4, r1, r2, r3, r4, r5
    <3> QED
      BY <2>1, <3>1, <3>2
  <2>3. Poly!Value(x) = x0 + Base * (x1 + Base * (x2 + Base * (x3 + Base * x4)))
        /\ Poly!Value(d) = d0 + Base * (d1 + Base * (d2 + Base * (d3 + Base * d4)))
        /\ Poly!Past * run[5] = Base * Base * Base * Base * Base * r5
    BY DEF Poly!Value, Poly!Past
  <2> HIDE DEF x0, x1, x2, x3, x4, d0, d1, d2, d3, d4, r1, r2, r3, r4, r5
  <2>4. (Base * r1 + d0) + Base * ((Base * r2 + d1 - r1) + Base * ((Base * r3 + d2 - r2)
           + Base * ((Base * r4 + d3 - r3) + Base * (Base * r5 + d4 - r4))))
        = (d0 + Base * (d1 + Base * (d2 + Base * (d3 + Base * d4)))) + Base * Base * Base * Base * Base * r5
    BY <2>1
  <2> QED
    BY <2>2, <2>3, <2>4
<1>13. Poly!Carry(x).limbs = d /\ Poly!Carry(x).out = run[5]
  BY <1>3 DEF d
<1> QED
  BY <1>10, <1>11, <1>12, <1>13

(* Five digits are a number below Past.                                     *)
LEMMA ValueRange ==
  ASSUME NEW x \in Digits
  PROVE  Poly!Value(x) \in 0 .. Poly!Past - 1 /\ Poly!Past \in Nat
<1> DEFINE x0 == x[0]  x1 == x[1]  x2 == x[2]  x3 == x[3]  x4 == x[4]
           v4 == x4
           v3 == x3 + Base * v4
           v2 == x2 + Base * v3
           v1 == x1 + Base * v2
           v0 == x0 + Base * v1
<1>1. /\ x0 \in 0 .. Base - 1 /\ x1 \in 0 .. Base - 1 /\ x2 \in 0 .. Base - 1 /\ x3 \in 0 .. Base - 1
      /\ x4 \in 0 .. Base - 1
  BY LimbIndices DEF Digits
<1>2. Poly!Value(x) = v0
  BY DEF Poly!Value
<1> DEFINE p1 == Base
           p2 == p1 * Base
           p3 == p2 * Base
           p4 == p3 * Base
           p5 == p4 * Base
<1>3. Poly!Past = p5
  BY DEF Poly!Past
<1> HIDE DEF x0, x1, x2, x3, x4
<1>4. ASSUME NEW d \in 0 .. Base - 1, NEW p \in Nat, NEW v \in 0 .. p - 1
      PROVE  d + Base * v \in 0 .. p * Base - 1 /\ p * Base \in Nat
  <2>1. Base * v >= 0 /\ Base * v <= Base * (p - 1)
    BY PolyAssumption
  <2>2. Base * (p - 1) = p * Base - Base /\ Base * v \in Int /\ p * Base \in Nat
    BY PolyAssumption
  <2> QED
    BY <2>1, <2>2, PolyAssumption
<1>5. v4 \in 0 .. p1 - 1 /\ p1 \in Nat
  BY <1>1, PolyAssumption
<1> HIDE DEF v4, p1
<1>6. v3 \in 0 .. p2 - 1 /\ p2 \in Nat
  BY <1>1, <1>4, <1>5
<1> HIDE DEF v3, p2
<1>7. v2 \in 0 .. p3 - 1 /\ p3 \in Nat
  BY <1>1, <1>4, <1>6
<1> HIDE DEF v2, p3
<1>8. v1 \in 0 .. p4 - 1 /\ p4 \in Nat
  BY <1>1, <1>4, <1>7
<1> HIDE DEF v1, p4
<1>9. v0 \in 0 .. p5 - 1 /\ p5 \in Nat
  BY <1>1, <1>4, <1>8
<1> QED
  BY <1>2, <1>3, <1>9

(* The limbs of a number below Past are its digits. *)
LEMMA LimbsAre ==
  ASSUME NEW n \in 0 .. Poly!Past - 1
  PROVE  Poly!Limbs(n) \in Digits /\ Poly!Value(Poly!Limbs(n)) = n
<1> DEFINE IsRun(c) == c = [i \in Poly!L |-> IF i = 0 THEN n ELSE c[i - 1] \div Base]
           run == CHOOSE c : IsRun(c)
<1>1. \E c : IsRun(c)
  <2> DEFINE c1 == n \div Base
             c2 == c1 \div Base
             c3 == c2 \div Base
             c4 == c3 \div Base
             c == [i \in Poly!L |-> IF i = 0 THEN n ELSE IF i = 1 THEN c1 ELSE IF i = 2 THEN c2
                                    ELSE IF i = 3 THEN c3 ELSE c4]
  <2>1. c[0] = n /\ c[1] = c1 /\ c[2] = c2 /\ c[3] = c3 /\ c[4] = c4
    BY LimbIndices
  <2>2. \A i \in Poly!L : c[i] = IF i = 0 THEN n ELSE c[i - 1] \div Base
    <3>1. c[1] = c[0] \div Base /\ c[2] = c[1] \div Base /\ c[3] = c[2] \div Base /\ c[4] = c[3] \div Base
      BY <2>1
    <3> HIDE DEF c
    <3> QED
      BY <2>1, <3>1, LimbIndices
  <2>3. IsRun(c)
    <3>1. c = [i \in Poly!L |-> c[i]]
      OBVIOUS
    <3> HIDE DEF c
    <3> QED
      BY <2>2, <3>1
  <2> QED
    BY <2>3
<1>2. IsRun(run)
  BY <1>1
<1>3. Poly!Limbs(n) = [i \in Poly!L |-> run[i] % Base]
  BY Zenon DEF Poly!Limbs
<1> HIDE DEF run
<1>4. /\ run[0] = n /\ run[1] = run[0] \div Base /\ run[2] = run[1] \div Base
      /\ run[3] = run[2] \div Base /\ run[4] = run[3] \div Base
  BY <1>2, LimbIndices
<1> HIDE DEF IsRun
<1>5. ASSUME NEW y \in Nat
      PROVE  y \div Base \in Nat /\ y % Base \in 0 .. Base - 1 /\ y = Base * (y \div Base) + (y % Base)
  <2>1. y <= y * Base
    BY PolyAssumption
  <2> QED
    BY <2>1, Shift
<1> DEFINE d == [i \in Poly!L |-> run[i] % Base]
<1>6. run[0] \in Nat /\ d[0] \in 0 .. Base - 1 /\ run[0] = Base * run[1] + d[0]
  <2>1. Poly!Past \in Int
    BY PolyAssumption DEF Poly!Past
  <2>2. n \in Nat
    BY <2>1
  <2> QED
    BY <2>2, <1>4, <1>5, LimbIndices
<1>7. run[1] \in Nat /\ d[1] \in 0 .. Base - 1 /\ run[1] = Base * run[2] + d[1]
  BY <1>4, <1>5, <1>6, LimbIndices
<1>8. run[2] \in Nat /\ d[2] \in 0 .. Base - 1 /\ run[2] = Base * run[3] + d[2]
  BY <1>4, <1>5, <1>7, LimbIndices
<1>9. run[3] \in Nat /\ d[3] \in 0 .. Base - 1 /\ run[3] = Base * run[4] + d[3]
  BY <1>4, <1>5, <1>8, LimbIndices
<1>10. PICK q \in Nat : run[4] \in Nat /\ d[4] \in 0 .. Base - 1 /\ run[4] = Base * q + d[4]
  BY <1>4, <1>5, <1>9, LimbIndices
<1>11. d \in Digits
  <2>1. d \in [Poly!L -> 0 .. Base - 1]
    BY <1>6, <1>7, <1>8, <1>9, <1>10, LimbIndices
  <2> QED
    BY <2>1 DEF Digits
<1> HIDE DEF d
<1>12. n = Poly!Value(d) + Poly!Past * q
  <2> DEFINE d0 == d[0]  d1 == d[1]  d2 == d[2]  d3 == d[3]  d4 == d[4]
             r1 == run[1]  r2 == run[2]  r3 == run[3]  r4 == run[4]
  <2>1. /\ d0 \in Int /\ d1 \in Int /\ d2 \in Int /\ d3 \in Int /\ d4 \in Int /\ Base \in Int /\ q \in Int
    BY <1>6, <1>7, <1>8, <1>9, <1>10, PolyAssumption
  <2>2. n = Base * r1 + d0 /\ r1 = Base * r2 + d1 /\ r2 = Base * r3 + d2 /\ r3 = Base * r4 + d3 /\ r4 = Base * q + d4
    BY <1>4, <1>6, <1>7, <1>8, <1>9, <1>10
  <2>3. Poly!Value(d) = d0 + Base * (d1 + Base * (d2 + Base * (d3 + Base * d4)))
        /\ Poly!Past * q = Base * Base * Base * Base * Base * q
    BY DEF Poly!Value, Poly!Past
  <2> HIDE DEF d0, d1, d2, d3, d4, r1, r2, r3, r4
  <2>4. Base * (Base * (Base * (Base * (Base * q + d4) + d3) + d2) + d1) + d0
        = (d0 + Base * (d1 + Base * (d2 + Base * (d3 + Base * d4)))) + Base * Base * Base * Base * Base * q
    BY <2>1
  <2> QED
    BY <2>2, <2>3, <2>4
<1>13. q = 0
  <2> DEFINE v == Poly!Value(d)
             p == Poly!Past
  <2>1. v \in 0 .. p - 1 /\ p \in Nat
    BY <1>11, ValueRange
  <2>2. n = v + p * q /\ n < p
    BY <1>12, <2>1
  <2> HIDE DEF v, p
  <2>3. SUFFICES ASSUME q >= 1 PROVE FALSE
    OBVIOUS
  <2>4. p * q >= p
    BY <2>1, <2>3
  <2> QED
    BY <2>1, <2>2, <2>4
<1>14. Poly!Limbs(n) = d
  BY <1>3 DEF d
<1>15. Poly!Value(d) \in Int /\ Poly!Past \in Int
  BY <1>11, ValueRange
<1> QED
  BY <1>11, <1>12, <1>13, <1>14, <1>15

(* The columns in full. *)
LEMMA ColumnsAre ==
  ASSUME NEW x, NEW y
  PROVE  /\ Poly!Column(x, y, 0) = x[0] * y[0] + x[1] * (5 * y[4]) + x[2] * (5 * y[3]) + x[3] * (5 * y[2]) + x[4] * (5 * y[1])
         /\ Poly!Column(x, y, 1) = x[0] * y[1] + x[1] * y[0] + x[2] * (5 * y[4]) + x[3] * (5 * y[3]) + x[4] * (5 * y[2])
         /\ Poly!Column(x, y, 2) = x[0] * y[2] + x[1] * y[1] + x[2] * y[0] + x[3] * (5 * y[4]) + x[4] * (5 * y[3])
         /\ Poly!Column(x, y, 3) = x[0] * y[3] + x[1] * y[2] + x[2] * y[1] + x[3] * y[0] + x[4] * (5 * y[4])
         /\ Poly!Column(x, y, 4) = x[0] * y[4] + x[1] * y[3] + x[2] * y[2] + x[3] * y[1] + x[4] * y[0]
  BY DEF Poly!Column

(* Two digits added up, times a digit or five: no column is above 50 times  *)
(* the square of the largest digit.  With 26 bits that is below 2^58, and   *)
(* what is carried into it below 2^32.                                      *)
LEMMA ColumnBound ==
  ASSUME NEW x \in [Poly!L -> 0 .. 2 * (Base - 1)], NEW y \in Digits, NEW k \in Poly!L
  PROVE  Poly!Column(x, y, k) \in Nat /\ Poly!Column(x, y, k) <= (50 * (Base - 1)) * (Base - 1)
<1> DEFINE m == Base - 1
           t == m * m
<1>1. m \in Nat /\ t \in Nat
  BY PolyAssumption
<1>2. ASSUME NEW i \in Poly!L, NEW j \in Poly!L
      PROVE  /\ x[i] * y[j] \in Nat /\ x[i] * y[j] <= 10 * t
             /\ x[i] * (5 * y[j]) \in Nat /\ x[i] * (5 * y[j]) <= 10 * t
  <2> DEFINE a == x[i]
             b == y[j]
  <2>1. a \in 0 .. 2 * m /\ b \in 0 .. m
    BY DEF Digits
  <2> HIDE DEF a, b, m
  <2>2. a * b \in Nat /\ a * b <= (2 * m) * b
    BY <1>1, <2>1
  <2>3. (2 * m) * b <= (2 * m) * m
    BY <1>1, <2>1
  <2>4. a * (5 * b) = 5 * (a * b) /\ (2 * m) * m = 2 * t
    BY <1>1, <2>1
  <2> HIDE DEF t
  <2>5. a * b <= 2 * t
    BY <1>1, <2>1, <2>2, <2>3, <2>4
  <2>6. a * b \in Nat /\ a * b <= 10 * t /\ a * (5 * b) \in Nat /\ a * (5 * b) <= 10 * t
    BY <1>1, <2>2, <2>4, <2>5
  <2> QED
    BY <2>6 DEF a, b
<1>3. (50 * (Base - 1)) * (Base - 1) = 50 * t
  BY PolyAssumption
<1> HIDE DEF t, m
<1> DEFINE p(i, j) == x[i] * y[j]
           f(i, j) == x[i] * (5 * y[j])
<1>4. \A i, j \in Poly!L : p(i, j) \in Nat /\ p(i, j) <= 10 * t /\ f(i, j) \in Nat /\ f(i, j) <= 10 * t
  BY <1>2
<1>5. /\ Poly!Column(x, y, 0) = p(0, 0) + f(1, 4) + f(2, 3) + f(3, 2) + f(4, 1)
      /\ Poly!Column(x, y, 1) = p(0, 1) + p(1, 0) + f(2, 4) + f(3, 3) + f(4, 2)
      /\ Poly!Column(x, y, 2) = p(0, 2) + p(1, 1) + p(2, 0) + f(3, 4) + f(4, 3)
      /\ Poly!Column(x, y, 3) = p(0, 3) + p(1, 2) + p(2, 1) + p(3, 0) + f(4, 4)
      /\ Poly!Column(x, y, 4) = p(0, 4) + p(1, 3) + p(2, 2) + p(3, 1) + p(4, 0)
  BY ColumnsAre
<1> HIDE DEF p, f
<1>6. CASE k = 0
  BY <1>1, <1>3, <1>4, <1>5, <1>6, LimbIndices
<1>7. CASE k = 1
  BY <1>1, <1>3, <1>4, <1>5, <1>7, LimbIndices
<1>8. CASE k = 2
  BY <1>1, <1>3, <1>4, <1>5, <1>8, LimbIndices
<1>9. CASE k = 3
  BY <1>1, <1>3, <1>4, <1>5, <1>9, LimbIndices
<1>10. CASE k = 4
  BY <1>1, <1>3, <1>4, <1>5, <1>10, LimbIndices
<1> QED
  BY <1>6, <1>7, <1>8, <1>9, <1>10, LimbIndices

(* A number turned by one limb, the highest digit brought back as five of   *)
(* the lowest: Base times the number, but for a multiple of the prime.      *)
LEMMA Turn ==
  ASSUME NEW a \in Int, NEW b \in Int, NEW c \in Int, NEW d \in Int, NEW e \in Int
  PROVE  Base * (a + Base * (b + Base * (c + Base * (d + Base * e))))
         = (5 * e + Base * (a + Base * (b + Base * (c + Base * d)))) + e * Poly!Prime
  BY PolyAssumption DEF Poly!Prime, Poly!Past

(* The columns are the product, but for a multiple of the prime.            *)
LEMMA ColumnsMultiply ==
  ASSUME NEW x \in [Poly!L -> Nat], NEW y \in Digits
  PROVE  \E q \in Int : Poly!Value(x) * Poly!Value(y)
                        = Poly!Value([k \in Poly!L |-> Poly!Column(x, y, k)]) + Poly!Prime * q
<1> DEFINE a == x[0]  b == x[1]  c == x[2]  d == x[3]  e == x[4]
           s == y[0]  t == y[1]  u == y[2]  v == y[3]  w == y[4]
           P == Poly!Prime
           Y0 == s + Base * (t + Base * (u + Base * (v + Base * w)))
           Y1 == 5 * w + Base * (s + Base * (t + Base * (u + Base * v)))
           Y2 == 5 * v + Base * (5 * w + Base * (s + Base * (t + Base * u)))
           Y3 == 5 * u + Base * (5 * v + Base * (5 * w + Base * (s + Base * t)))
           Y4 == 5 * t + Base * (5 * u + Base * (5 * v + Base * (5 * w + Base * s)))
           cols == [k \in Poly!L |-> Poly!Column(x, y, k)]
<1>1. /\ a \in Int /\ b \in Int /\ c \in Int /\ d \in Int /\ e \in Int
      /\ s \in Int /\ t \in Int /\ u \in Int /\ v \in Int /\ w \in Int /\ Base \in Int /\ P \in Int
  BY LimbIndices, PolyAssumption DEF Digits, Poly!Prime, Poly!Past
<1>2. /\ cols[0] = a * s + b * (5 * w) + c * (5 * v) + d * (5 * u) + e * (5 * t)
      /\ cols[1] = a * t + b * s + c * (5 * w) + d * (5 * v) + e * (5 * u)
      /\ cols[2] = a * u + b * t + c * s + d * (5 * w) + e * (5 * v)
      /\ cols[3] = a * v + b * u + c * t + d * s + e * (5 * w)
      /\ cols[4] = a * w + b * v + c * u + d * t + e * s
  <2>1. /\ cols[0] = Poly!Column(x, y, 0) /\ cols[1] = Poly!Column(x, y, 1) /\ cols[2] = Poly!Column(x, y, 2)
        /\ cols[3] = Poly!Column(x, y, 3) /\ cols[4] = Poly!Column(x, y, 4)
    BY LimbIndices
  <2> QED
    BY <2>1, ColumnsAre
<1>3. /\ Poly!Value(x) = a + Base * (b + Base * (c + Base * (d + Base * e)))
      /\ Poly!Value(y) = Y0
      /\ Poly!Value(cols) = cols[0] + Base * (cols[1] + Base * (cols[2] + Base * (cols[3] + Base * cols[4])))
  BY Zenon DEF Poly!Value
<1> HIDE DEF a, b, c, d, e, s, t, u, v, w, cols, P
<1>4. /\ Base * Y0 = Y1 + w * P /\ Base * Y1 = Y2 + v * P
      /\ Base * Y2 = Y3 + u * P /\ Base * Y3 = Y4 + t * P
  <2>1. 5 * w \in Int /\ 5 * v \in Int /\ 5 * u \in Int
    BY <1>1
  <2>2. Base * Y0 = Y1 + w * P
    BY <1>1, <2>1, Turn DEF P
  <2>3. Base * Y1 = Y2 + v * P
    BY <1>1, <2>1, Turn DEF P
  <2>4. Base * Y2 = Y3 + u * P
    BY <1>1, <2>1, Turn DEF P
  <2>5. Base * Y3 = Y4 + t * P
    BY <1>1, <2>1, Turn DEF P
  <2> QED
    BY <2>2, <2>3, <2>4, <2>5
<1>5. Poly!Value(cols) = a * Y0 + b * Y1 + c * Y2 + d * Y3 + e * Y4
  <2>1. a * Y0 + b * Y1 + c * Y2 + d * Y3 + e * Y4
        = (a * s + b * (5 * w) + c * (5 * v) + d * (5 * u) + e * (5 * t))
          + Base * ((a * t + b * s + c * (5 * w) + d * (5 * v) + e * (5 * u))
          + Base * ((a * u + b * t + c * s + d * (5 * w) + e * (5 * v))
          + Base * ((a * v + b * u + c * t + d * s + e * (5 * w))
          + Base * (a * w + b * v + c * u + d * t + e * s))))
    BY <1>1
  <2> HIDE DEF Y0, Y1, Y2, Y3, Y4
  <2> QED
    BY <1>2, <1>3, <2>1
<1>6. Y0 \in Int /\ Y1 \in Int /\ Y2 \in Int /\ Y3 \in Int /\ Y4 \in Int
  BY <1>1
<1> HIDE DEF Y0, Y1, Y2, Y3, Y4
<1> DEFINE W4 == e
           W3 == d + Base * W4
           W2 == c + Base * W3
           W1 == b + Base * W2
<1>7. W1 \in Int /\ W2 \in Int /\ W3 \in Int /\ W4 \in Int
  BY <1>1
<1>8. Poly!Value(x) = a + Base * W1 /\ W1 = b + Base * W2 /\ W2 = c + Base * W3 /\ W3 = d + Base * e /\ W4 = e
  BY <1>3
<1> HIDE DEF W1, W2, W3, W4
<1>9. ASSUME NEW Y \in Int, NEW Z \in Int, NEW W \in Int, NEW g \in Int, Base * Y = Z + g * P
      PROVE  (Base * W) * Y = W * Z + P * (W * g)
  <2>1. (Base * W) * Y = W * (Base * Y)
    BY <1>1
  <2>2. W * (Z + g * P) = W * Z + P * (W * g)
    BY <1>1
  <2> QED
    BY <1>9, <2>1, <2>2
<1>10. Poly!Value(x) * Poly!Value(y) = a * Y0 + W1 * Y1 + P * (W1 * w)
  <2>1. (a + Base * W1) * Y0 = a * Y0 + (Base * W1) * Y0
    BY <1>1, <1>6, <1>7
  <2>2. (Base * W1) * Y0 = W1 * Y1 + P * (W1 * w)
    BY <1>1, <1>4, <1>6, <1>7, <1>9
  <2>3. a * Y0 \in Int /\ W1 * Y1 \in Int /\ P * (W1 * w) \in Int
    BY <1>1, <1>6, <1>7
  <2> QED
    BY <1>3, <1>8, <2>1, <2>2, <2>3
<1>11. W1 * Y1 = b * Y1 + W2 * Y2 + P * (W2 * v)
  <2>1. (b + Base * W2) * Y1 = b * Y1 + (Base * W2) * Y1
    BY <1>1, <1>6, <1>7
  <2>2. (Base * W2) * Y1 = W2 * Y2 + P * (W2 * v)
    BY <1>1, <1>4, <1>6, <1>7, <1>9
  <2>3. b * Y1 \in Int /\ W2 * Y2 \in Int /\ P * (W2 * v) \in Int
    BY <1>1, <1>6, <1>7
  <2> QED
    BY <1>8, <2>1, <2>2, <2>3
<1>12. W2 * Y2 = c * Y2 + W3 * Y3 + P * (W3 * u)
  <2>1. (c + Base * W3) * Y2 = c * Y2 + (Base * W3) * Y2
    BY <1>1, <1>6, <1>7
  <2>2. (Base * W3) * Y2 = W3 * Y3 + P * (W3 * u)
    BY <1>1, <1>4, <1>6, <1>7, <1>9
  <2>3. c * Y2 \in Int /\ W3 * Y3 \in Int /\ P * (W3 * u) \in Int
    BY <1>1, <1>6, <1>7
  <2> QED
    BY <1>8, <2>1, <2>2, <2>3
<1>13. W3 * Y3 = d * Y3 + e * Y4 + P * (e * t)
  <2>1. (d + Base * e) * Y3 = d * Y3 + (Base * e) * Y3
    BY <1>1, <1>6, <1>7
  <2>2. (Base * e) * Y3 = e * Y4 + P * (e * t)
    BY <1>1, <1>4, <1>6, <1>7, <1>9
  <2>3. d * Y3 \in Int /\ e * Y4 \in Int /\ P * (e * t) \in Int
    BY <1>1, <1>6, <1>7
  <2> QED
    BY <1>8, <2>1, <2>2, <2>3
<1> DEFINE q1 == W1 * w  q2 == W2 * v  q3 == W3 * u  q4 == e * t
           q == q1 + q2 + q3 + q4
<1>14. q1 \in Int /\ q2 \in Int /\ q3 \in Int /\ q4 \in Int
  BY <1>1, <1>7
<1>15. P * q = P * q1 + P * q2 + P * q3 + P * q4
  <2> HIDE DEF q1, q2, q3, q4
  <2> QED
    BY <1>1, <1>14
<1>16. Poly!Value(x) * Poly!Value(y) = Poly!Value(cols) + P * q
  <2> DEFINE s0 == a * Y0  s1 == b * Y1  s2 == c * Y2  s3 == d * Y3  s4 == e * Y4
             t1 == P * q1  t2 == P * q2  t3 == P * q3  t4 == P * q4
  <2>1. /\ s0 \in Int /\ s1 \in Int /\ s2 \in Int /\ s3 \in Int /\ s4 \in Int
        /\ t1 \in Int /\ t2 \in Int /\ t3 \in Int /\ t4 \in Int
    BY <1>1, <1>6, <1>14
  <2>2. /\ Poly!Value(x) * Poly!Value(y) = s0 + (s1 + (s2 + (s3 + s4 + t4) + t3) + t2) + t1
        /\ Poly!Value(cols) = s0 + s1 + s2 + s3 + s4
        /\ P * q = t1 + t2 + t3 + t4
    BY <1>5, <1>10, <1>11, <1>12, <1>13, <1>15, Zenon
  <2> HIDE DEF s0, s1, s2, s3, s4, t1, t2, t3, t4, q
  <2> QED
    BY <2>1, <2>2
<1>17. q \in Int
  BY <1>14
<1> QED
  BY <1>16, <1>17, Zenon DEF P, cols

(* A carry into the lowest limb changes the number by as much. *)
LEMMA LowestLimb ==
  ASSUME NEW x \in [Poly!L -> Nat], NEW n \in Nat
  PROVE  /\ [x EXCEPT ![0] = @ + n] \in [Poly!L -> Nat]
         /\ Poly!Value([x EXCEPT ![0] = @ + n]) = Poly!Value(x) + n
         /\ [x EXCEPT ![0] = @ + n][0] = x[0] + n
         /\ \A i \in Poly!L : i # 0 => [x EXCEPT ![0] = @ + n][i] = x[i]
<1> DEFINE y == [x EXCEPT ![0] = @ + n]
<1>1. y \in [Poly!L -> Nat] /\ y[0] = x[0] + n /\ y[1] = x[1] /\ y[2] = x[2] /\ y[3] = x[3] /\ y[4] = x[4]
  BY LimbIndices
<1> HIDE DEF y
<1> DEFINE a == x[0]
           t == Base * (x[1] + Base * (x[2] + Base * (x[3] + Base * x[4])))
<1>2. Poly!Value(x) = a + t /\ Poly!Value(y) = (a + n) + t
  BY <1>1 DEF Poly!Value
<1>3. a \in Int /\ t \in Int
  BY LimbIndices, PolyAssumption
<1> HIDE DEF a, t
<1>4. Poly!Value(y) = Poly!Value(x) + n
  BY <1>2, <1>3
<1>5. \A i \in Poly!L : i # 0 => y[i] = x[i]
  BY <1>1, LimbIndices
<1> QED
  BY <1>1, <1>4, <1>5 DEF y

(* Past is greater than what the columns can carry round. *)
LEMMA PastIsLarge == 5 * (50 * (Base - 1)) + 5 <= Poly!Past /\ Poly!Past \in Nat /\ Poly!Prime \in Nat \ {0}
                     /\ Poly!Prime = Poly!Past - 5 /\ 2 * Base <= Poly!Past
<1> DEFINE s == Base * Base
<1>1. s \in Nat /\ s >= 36 /\ s >= 6 * Base
  BY PolyAssumption
<1>2. Poly!Past = s * s * Base
  BY PolyAssumption DEF Poly!Past
<1> HIDE DEF s
<1>3. s * s >= 36 * s /\ s * s \in Nat
  BY <1>1
<1>4. s * s >= 1296
  BY <1>1, <1>3
<1> DEFINE t == s * s
<1> HIDE DEF t
<1>5. t \in Nat /\ t >= 1296
  BY <1>3, <1>4 DEF t
<1>6. t * Base >= 1296 * Base /\ t * Base \in Nat
  BY <1>5, PolyAssumption
<1>7. Poly!Past >= 1296 * Base /\ Poly!Past \in Nat
  BY <1>2, <1>6 DEF t
<1> QED
  BY <1>7, PolyAssumption DEF Poly!Prime

(* What a carry left over comes back five times into the lowest limb; what  *)
(* that carries out comes back once more, and then nothing is left.         *)
LEMMA FoldIs ==
  ASSUME NEW c, c.limbs \in Digits, c.out \in 0 .. 50 * (Base - 1)
  PROVE  /\ Poly!Fold(c) \in Digits
         /\ \E q \in Int : Poly!Value(c.limbs) + Poly!Past * c.out = Poly!Value(Poly!Fold(c)) + Poly!Prime * q
<1> DEFINE n == 5 * c.out
           x == [c.limbs EXCEPT ![0] = @ + n]
           once == Poly!Carry(x)
           v == Poly!Value(c.limbs)
           v1 == Poly!Value(once.limbs)
<1>1. n \in Nat /\ n + 5 <= Poly!Past /\ Poly!Past \in Nat /\ c.out \in Nat
  BY PastIsLarge, PolyAssumption
<1>2. c.limbs \in [Poly!L -> Nat] /\ \A i \in Poly!L : c.limbs[i] <= Base - 1
  BY PolyAssumption DEF Digits
<1> HIDE DEF n
<1>3. /\ x \in [Poly!L -> Nat] /\ Poly!Value(x) = v + n
      /\ x[0] = c.limbs[0] + n /\ \A i \in Poly!L : i # 0 => x[i] = c.limbs[i]
  BY <1>1, <1>2, LowestLimb
<1>4. n <= 250 * (Base - 1) /\ 251 \in Nat
  BY PolyAssumption DEF n
<1>5. \A i \in Poly!L : x[i] <= 251 * (Base - 1)
  BY <1>1, <1>2, <1>3, <1>4, PolyAssumption
<1> HIDE DEF x
<1>6. /\ once.limbs \in Digits /\ once.out \in 0 .. 251
      /\ Poly!Value(x) = v1 + Poly!Past * once.out
  BY <1>3, <1>4, <1>5, CarryIs
<1>7. v \in 0 .. Poly!Past - 1 /\ v1 \in 0 .. Poly!Past - 1
  BY <1>6, ValueRange
<1>8. v + Poly!Past * c.out = (v + n) + Poly!Prime * c.out
  BY <1>1, <1>7, PastIsLarge DEF n
<1>9. CASE once.out = 0
  <2>1. Poly!Fold(c) = once.limbs
    BY <1>9, Zenon DEF Poly!Fold, x, n
  <2>2. v + n = v1
    <3> DEFINE o == once.out
    <3>1. v + n = v1 + Poly!Past * o /\ o = 0
      BY <1>3, <1>6, <1>9
    <3> HIDE DEF v, v1, o
    <3> QED
      BY <1>1, <1>7, <3>1
  <2> HIDE DEF v, v1
  <2>3. v + Poly!Past * c.out = v1 + Poly!Prime * c.out /\ c.out \in Int
    BY <1>1, <1>8, <2>2
  <2> QED
    BY <1>6, <2>1, <2>3 DEF v, v1
<1>10. CASE once.out # 0
  <2> DEFINE m == 5 * once.out
             y == [once.limbs EXCEPT ![0] = @ + m]
             twice == Poly!Carry(y)
             v2 == Poly!Value(twice.limbs)
  <2>1. Poly!Fold(c) = twice.limbs
    BY <1>10, Zenon DEF Poly!Fold, x, n
  <2>2. once.out = 1 /\ v + n = v1 + Poly!Past
    <3> DEFINE o == once.out
               p == Poly!Past
    <3>1. o \in Nat /\ o # 0 /\ v + n = v1 + p * o /\ v \in 0 .. p - 1 /\ v1 \in 0 .. p - 1 /\ n \in Nat /\ n + 5 <= p /\ p \in Nat
      BY <1>1, <1>3, <1>6, <1>7, <1>10
    <3> HIDE DEF v, v1, o, p
    <3>2. o < 2
      <4>1. SUFFICES ASSUME o >= 2 PROVE FALSE
        BY <3>1
      <4>2. p * o >= 2 * p
        BY <3>1, <4>1
      <4> QED
        BY <3>1, <4>2
    <3> QED
      BY <3>1, <3>2 DEF o, p
  <2>3. m = 5 /\ m \in Nat
    BY <2>2
  <2> HIDE DEF m
  <2>4. once.limbs \in [Poly!L -> Nat] /\ \A i \in Poly!L : once.limbs[i] <= Base - 1
    BY <1>6, PolyAssumption DEF Digits
  <2>5. /\ y \in [Poly!L -> Nat] /\ Poly!Value(y) = v1 + m
        /\ y[0] = once.limbs[0] + m /\ \A i \in Poly!L : i # 0 => y[i] = once.limbs[i]
    BY <2>3, <2>4, LowestLimb
  <2>6. \A i \in Poly!L : y[i] <= 2 * (Base - 1)
    BY <2>3, <2>4, <2>5, PolyAssumption
  <2> HIDE DEF y
  <2>7. twice.limbs \in Digits /\ twice.out \in 0 .. 2 /\ Poly!Value(y) = v2 + Poly!Past * twice.out
    <3>1. 2 \in Nat
      OBVIOUS
    <3> QED
      BY <2>5, <2>6, <3>1, CarryIs
  <2>8. v2 \in 0 .. Poly!Past - 1
    BY <2>7, ValueRange
  <2>9. v2 = v1 + 5
    <3> DEFINE o == twice.out
               p == Poly!Past
    <3>1. o \in Nat /\ v1 + 5 = v2 + p * o /\ v2 \in 0 .. p - 1 /\ v + n = v1 + p /\ v \in 0 .. p - 1
          /\ n + 5 <= p /\ p \in Nat /\ n \in Nat /\ v1 \in Int
      BY <1>1, <1>7, <2>2, <2>3, <2>5, <2>7, <2>8
    <3> HIDE DEF v, v1, v2, o, p
    <3>2. v1 + 5 < p
      BY <3>1
    <3>3. o = 0
      <4>1. SUFFICES ASSUME o >= 1 PROVE FALSE
        BY <3>1
      <4>2. p * o >= p
        BY <3>1, <4>1
      <4> QED
        BY <3>1, <3>2, <4>2
    <3> QED
      BY <3>1, <3>3
  <2> DEFINE q == c.out + 1
  <2>10. q \in Int /\ v + Poly!Past * c.out = v2 + Poly!Prime * q
    <3> DEFINE p == Poly!Prime
    <3>1. Poly!Past = p + 5 /\ p \in Int
      BY PastIsLarge
    <3>2. p * q = p * c.out + p
      BY <1>1, <3>1
    <3> HIDE DEF v, v1, v2, p, q
    <3> QED
      BY <1>1, <1>7, <1>8, <2>2, <2>8, <2>9, <3>1, <3>2 DEF q, p
  <2> QED
    BY <2>1, <2>7, <2>10
<1> QED
  BY <1>9, <1>10

(* One subtraction makes five digits a remainder. *)
LEMMA ReduceIs ==
  ASSUME NEW x \in Digits
  PROVE  /\ Poly!Reduce(x) \in Digits
         /\ Poly!Value(Poly!Reduce(x)) \in 0 .. Poly!Prime - 1
         /\ \E q \in Int : Poly!Value(x) = Poly!Value(Poly!Reduce(x)) + Poly!Prime * q
<1> DEFINE x0 == x[0]  x1 == x[1]  x2 == x[2]  x3 == x[3]  x4 == x[4]
           top == x1 = Base - 1 /\ x2 = Base - 1 /\ x3 = Base - 1 /\ x4 = Base - 1
<1>1. /\ x0 \in 0 .. Base - 1 /\ x1 \in 0 .. Base - 1 /\ x2 \in 0 .. Base - 1 /\ x3 \in 0 .. Base - 1
      /\ x4 \in 0 .. Base - 1
  BY LimbIndices DEF Digits
<1>2. Poly!Value(x) = x0 + Base * (x1 + Base * (x2 + Base * (x3 + Base * x4)))
  BY DEF Poly!Value
<1>3. Poly!Value(x) \in 0 .. Poly!Past - 1
  BY ValueRange
<1>4. Poly!Past = Base * (Base * (Base * (Base * Base))) /\ Poly!Prime = Poly!Past - 5
  BY PolyAssumption DEF Poly!Past, Poly!Prime
<1>5. Poly!PLimbs[0] = Base - 5 /\ Poly!PLimbs[1] = Base - 1 /\ Poly!PLimbs[2] = Base - 1
      /\ Poly!PLimbs[3] = Base - 1 /\ Poly!PLimbs[4] = Base - 1
  BY LimbIndices DEF Poly!PLimbs
<1>6. CASE Poly!AtLeastP(x)
  <2>1. top /\ x0 >= Base - 5
    <3> DEFINE differ == {i \in Poly!L : x[i] # Poly!PLimbs[i]}
    <3>1. differ = {} \/ \E i \in differ : x[i] > Poly!PLimbs[i] /\ \A j \in differ : j <= i
      BY <1>6 DEF Poly!AtLeastP
    <3>2. CASE differ = {}
      BY <1>1, <1>5, <3>2, LimbIndices, PolyAssumption
    <3>3. ASSUME NEW i \in differ, x[i] > Poly!PLimbs[i], \A j \in differ : j <= i
          PROVE  top /\ x0 >= Base - 5
      <4>1. i = 0 /\ x0 >= Base - 5
        BY <1>1, <1>5, <3>3, LimbIndices, PolyAssumption
      <4>2. \A j \in Poly!L : j # 0 => j \notin differ
        BY <3>3, <4>1, LimbIndices
      <4> QED
        BY <1>5, <4>1, <4>2, LimbIndices
    <3> QED
      BY <3>1, <3>2, <3>3
  <2> DEFINE s == Poly!Subtract(x)
             IsRun(b) == b = [i \in 0 .. 5 |-> IF i = 0 THEN 0
                              ELSE IF x[i - 1] - Poly!PLimbs[i - 1] - b[i - 1] < 0 THEN 1 ELSE 0]
             run == CHOOSE b : IsRun(b)
  <2>2. \E b : IsRun(b)
    <3> DEFINE b == [i \in 0 .. 5 |-> 0]
    <3>1. \A i \in 1 .. 5 : ~(x[i - 1] - Poly!PLimbs[i - 1] - b[i - 1] < 0)
      <4>1. \A i \in 1 .. 5 : b[i - 1] = 0
        OBVIOUS
      <4>2. ASSUME NEW i \in 1 .. 5 PROVE x[i - 1] \in Int /\ Poly!PLimbs[i - 1] \in Int /\ x[i - 1] - Poly!PLimbs[i - 1] >= 0
        <5>1. i - 1 \in Poly!L /\ (i - 1 = 0 \/ i - 1 = 1 \/ i - 1 = 2 \/ i - 1 = 3 \/ i - 1 = 4)
          BY DEF Poly!L
        <5> DEFINE j == i - 1
        <5> HIDE DEF j
        <5>2. j = 0 \/ j = 1 \/ j = 2 \/ j = 3 \/ j = 4
          BY <5>1 DEF j
        <5>3. x[j] \in Int /\ Poly!PLimbs[j] \in Int /\ x[j] - Poly!PLimbs[j] >= 0
          BY <1>1, <1>5, <2>1, <5>2, PolyAssumption
        <5> QED
          BY <5>3 DEF j
      <4> QED
        BY <4>1, <4>2
    <3>2. IsRun(b)
      BY <3>1
    <3> QED
      BY <3>2
  <2>3. IsRun(run)
    BY <2>2
  <2>4. s = [i \in Poly!L |-> (x[i] - Poly!PLimbs[i] - run[i]) % Base]
    BY Zenon DEF Poly!Subtract
  <2> HIDE DEF run
  <2>5. run[0] = 0 /\ run[1] = (IF x[0] - Poly!PLimbs[0] - run[0] < 0 THEN 1 ELSE 0)
        /\ run[2] = (IF x[1] - Poly!PLimbs[1] - run[1] < 0 THEN 1 ELSE 0)
        /\ run[3] = (IF x[2] - Poly!PLimbs[2] - run[2] < 0 THEN 1 ELSE 0)
        /\ run[4] = (IF x[3] - Poly!PLimbs[3] - run[3] < 0 THEN 1 ELSE 0)
    BY <2>3
  <2> HIDE DEF IsRun
  <2>6. x[0] = x0 /\ x[1] = x1 /\ x[2] = x2 /\ x[3] = x3 /\ x[4] = x4
    OBVIOUS
  <2> HIDE DEF x0, x1, x2, x3, x4
  <2>7. run[1] = 0
    BY <1>1, <1>5, <2>1, <2>5, <2>6, PolyAssumption
  <2>8. run[2] = 0
    BY <1>1, <1>5, <2>1, <2>5, <2>6, <2>7, PolyAssumption
  <2>9. run[3] = 0
    BY <1>1, <1>5, <2>1, <2>5, <2>6, <2>8, PolyAssumption
  <2>10. run[4] = 0
    BY <1>1, <1>5, <2>1, <2>5, <2>6, <2>9, PolyAssumption
  <2>11. \A n \in 0 .. 4 : n % Base = n
    <3> TAKE n \in 0 .. 4
    <3>1. n \in Nat /\ Base \in Nat \ {0}
      BY PolyAssumption
    <3>2. n % Base \in 0 .. Base - 1 /\ n \div Base \in Int /\ Base * 0 + n = Base * (n \div Base) + (n % Base)
      BY <3>1, ModRange
    <3>3. n \in 0 .. Base - 1 /\ 0 \in Int
      BY PolyAssumption
    <3> QED
      BY <3>1, <3>2, <3>3, DivUnique
  <2> DEFINE e == x0 - (Base - 5)
  <2>12. e \in 0 .. 4
    BY <1>1, <2>1, PolyAssumption
  <2>13. s[0] = e % Base /\ s[1] = 0 % Base /\ s[2] = 0 % Base /\ s[3] = 0 % Base /\ s[4] = 0 % Base
    <3>1. x[0] - Poly!PLimbs[0] - run[0] = e
      BY <1>1, <1>5, <2>5, <2>6, PolyAssumption
    <3>2. Base - 1 - (Base - 1) - 0 = 0
      BY PolyAssumption
    <3>3. /\ x[1] - Poly!PLimbs[1] - run[1] = 0 /\ x[2] - Poly!PLimbs[2] - run[2] = 0
          /\ x[3] - Poly!PLimbs[3] - run[3] = 0 /\ x[4] - Poly!PLimbs[4] - run[4] = 0
      BY <1>5, <2>1, <2>6, <2>7, <2>8, <2>9, <2>10, <3>2
    <3> HIDE DEF e
    <3> QED
      BY <2>4, <3>1, <3>3, LimbIndices
  <2>14. s[0] = e /\ s[1] = 0 /\ s[2] = 0 /\ s[3] = 0 /\ s[4] = 0
    <3>1. 0 % Base = 0 /\ e % Base = e
      BY <2>11, <2>12
    <3> QED
      BY <2>13, <3>1
  <2>15. s \in Digits
    <3>1. s \in [Poly!L -> 0 .. Base - 1]
      <4>1. \A i \in Poly!L : s[i] \in 0 .. Base - 1
        BY <2>12, <2>14, LimbIndices, PolyAssumption
      <4> QED
        BY <2>4, <4>1
    <3> QED
      BY <3>1 DEF Digits
  <2> HIDE DEF s
  <2>16. Poly!Value(s) = e
    <3>1. Poly!Value(s) = e + Base * (0 + Base * (0 + Base * (0 + Base * 0)))
      BY <2>14 DEF Poly!Value
    <3> HIDE DEF e
    <3> QED
      BY <2>12, <3>1, PolyAssumption
  <2>17. Poly!Value(x) = e + Poly!Prime
    <3>1. x0 + Base * ((Base - 1) + Base * ((Base - 1) + Base * ((Base - 1) + Base * (Base - 1))))
          = (x0 - (Base - 5)) + (Base * (Base * (Base * (Base * Base))) - 5)
      BY <1>1, PolyAssumption
    <3> QED
      BY <1>2, <1>4, <2>1, <3>1
  <2>18. Poly!Reduce(x) = s
    BY <1>6 DEF Poly!Reduce, s
  <2>19. Poly!Value(x) = Poly!Value(s) + Poly!Prime * 1 /\ Poly!Value(s) \in 0 .. Poly!Prime - 1
    <3> HIDE DEF e
    <3> QED
      BY <2>12, <2>16, <2>17, PastIsLarge, PolyAssumption
  <2> QED
    BY <2>15, <2>18, <2>19
<1>7. CASE ~Poly!AtLeastP(x)
  <2>1. ~top \/ x0 < Base - 5
    <3> SUFFICES ASSUME top, x0 >= Base - 5 PROVE Poly!AtLeastP(x)
      BY <1>1, <1>7, PolyAssumption
    <3> DEFINE differ == {i \in Poly!L : x[i] # Poly!PLimbs[i]}
    <3>1. \A i \in differ : i = 0
      BY <1>5, LimbIndices
    <3>2. x[0] # Poly!PLimbs[0] => x[0] > Poly!PLimbs[0]
      BY <1>1, <1>5, PolyAssumption
    <3>3. differ = {} \/ \E i \in differ : x[i] > Poly!PLimbs[i] /\ \A j \in differ : j <= i
      BY <3>1, <3>2
    <3> QED
      BY <3>3 DEF Poly!AtLeastP
  <2>2. Poly!Value(x) < Poly!Prime
    <3> DEFINE v4 == x4
               v3 == x3 + Base * v4
               v2 == x2 + Base * v3
               v1 == x1 + Base * v2
               p1 == Base
               p2 == Base * p1
               p3 == Base * p2
               p4 == Base * p3
    <3>1. Poly!Value(x) = x0 + Base * v1 /\ Poly!Past = Base * p4
      BY <1>2, <1>4
    <3> HIDE DEF x0, x1, x2, x3, x4
    <3>2. ASSUME NEW d \in 0 .. Base - 1, NEW p \in Nat, NEW v \in 0 .. p - 1, d < Base - 1 \/ v < p - 1
          PROVE  d + Base * v < Base * p - 1
      <4>1. CASE v < p - 1
        <5>1. Base * v <= Base * (p - 2)
          BY <4>1, PolyAssumption
        <5>2. Base * (p - 2) = Base * p - 2 * Base /\ Base * v \in Int /\ Base * p \in Int
          BY PolyAssumption
        <5> QED
          BY <5>1, <5>2, PolyAssumption
      <4>2. CASE v = p - 1 /\ d < Base - 1
        <5>1. Base * (p - 1) = Base * p - Base /\ Base * p \in Int
          BY PolyAssumption
        <5> QED
          BY <4>2, <5>1, PolyAssumption
      <4> QED
        BY <3>2, <4>1, <4>2
    <3>3. ASSUME NEW d \in 0 .. Base - 1, NEW p \in Nat, NEW v \in 0 .. p - 1
          PROVE  d + Base * v \in 0 .. Base * p - 1 /\ Base * p \in Nat
      <4>1. Base * v >= 0 /\ Base * v <= Base * (p - 1)
        BY PolyAssumption
      <4>2. Base * (p - 1) = Base * p - Base /\ Base * v \in Int /\ Base * p \in Nat
        BY PolyAssumption
      <4> QED
        BY <4>1, <4>2, PolyAssumption
    <3>4. v4 \in 0 .. p1 - 1 /\ p1 \in Nat /\ (x4 # Base - 1 => v4 < p1 - 1)
      BY <1>1, PolyAssumption
    <3> HIDE DEF v4, p1
    <3>5. v3 \in 0 .. p2 - 1 /\ p2 \in Nat /\ (x4 # Base - 1 \/ x3 # Base - 1 => v3 < p2 - 1)
      BY <1>1, <3>2, <3>3, <3>4, PolyAssumption
    <3> HIDE DEF v3, p2
    <3>6. v2 \in 0 .. p3 - 1 /\ p3 \in Nat /\ (x4 # Base - 1 \/ x3 # Base - 1 \/ x2 # Base - 1 => v2 < p3 - 1)
      BY <1>1, <3>2, <3>3, <3>5, PolyAssumption
    <3> HIDE DEF v2, p3
    <3>7. v1 \in 0 .. p4 - 1 /\ p4 \in Nat /\ (~top => v1 < p4 - 1)
      BY <1>1, <3>2, <3>3, <3>6, PolyAssumption
    <3> HIDE DEF v1, p4
    <3>8. CASE ~top
      <4>1. v1 <= p4 - 2
        BY <3>7, <3>8
      <4>2. Base * v1 <= Base * (p4 - 2)
        BY <3>7, <4>1, PolyAssumption
      <4>3. Base * (p4 - 2) = Base * p4 - 2 * Base /\ Base * v1 \in Int /\ Base * p4 \in Int
        BY <3>7, PolyAssumption
      <4> HIDE DEF top
      <4> QED
        BY <1>1, <1>4, <3>1, <4>2, <4>3, PolyAssumption
    <3>9. CASE x0 < Base - 5
      <4>1. Base * v1 <= Base * (p4 - 1)
        BY <3>7, PolyAssumption
      <4>2. Base * (p4 - 1) = Base * p4 - Base /\ Base * v1 \in Int /\ Base * p4 \in Int
        BY <3>7, PolyAssumption
      <4> HIDE DEF top
      <4> QED
        BY <1>1, <1>4, <3>1, <3>9, <4>1, <4>2, PolyAssumption
    <3> QED
      BY <2>1, <3>8, <3>9 DEF x0
  <2>3. Poly!Reduce(x) = x
    BY <1>7 DEF Poly!Reduce
  <2>4. Poly!Value(x) = Poly!Value(x) + Poly!Prime * 0
    BY <1>3, PastIsLarge
  <2>5. Poly!Value(x) \in 0 .. Poly!Prime - 1
    BY <1>3, <2>2, PastIsLarge
  <2> QED
    BY <2>3, <2>4, <2>5
<1> QED
  BY <1>6, <1>7

(* One multiplication and its reduction: the remainder of the product.      *)
LEMMA MulModIs ==
  ASSUME NEW x \in Digits, NEW v \in Digits, NEW y \in Digits
  PROVE  /\ Poly!MulMod(x, v, y) \in Digits
         /\ Poly!Value(Poly!MulMod(x, v, y))
            = ((Poly!Value(x) + Poly!Value(v)) * Poly!Value(y)) % Poly!Prime
<1> DEFINE sum == [i \in Poly!L |-> x[i] + v[i]]
           cols == [k \in Poly!L |-> Poly!Column(sum, y, k)]
           c == Poly!Carry(cols)
           f == Poly!Fold(c)
           z == Poly!Reduce(f)
           bound == 50 * (Base - 1)
<1>1. sum \in [Poly!L -> 0 .. 2 * (Base - 1)] /\ sum \in [Poly!L -> Nat]
  <2>1. \A i \in Poly!L : x[i] \in 0 .. Base - 1 /\ v[i] \in 0 .. Base - 1
    BY DEF Digits
  <2> QED
    BY <2>1, PolyAssumption
<1>2. Poly!Value(sum) = Poly!Value(x) + Poly!Value(v) /\ Poly!Value(x) \in Int /\ Poly!Value(v) \in Int
  <2> DEFINE x0 == x[0]  x1 == x[1]  x2 == x[2]  x3 == x[3]  x4 == x[4]
             v0 == v[0]  v1 == v[1]  v2 == v[2]  v3 == v[3]  v4 == v[4]
  <2>1. sum[0] = x0 + v0 /\ sum[1] = x1 + v1 /\ sum[2] = x2 + v2 /\ sum[3] = x3 + v3 /\ sum[4] = x4 + v4
    BY LimbIndices
  <2>2. /\ x0 \in Int /\ x1 \in Int /\ x2 \in Int /\ x3 \in Int /\ x4 \in Int
        /\ v0 \in Int /\ v1 \in Int /\ v2 \in Int /\ v3 \in Int /\ v4 \in Int
    BY LimbIndices, PolyAssumption DEF Digits
  <2>3. /\ Poly!Value(sum) = sum[0] + Base * (sum[1] + Base * (sum[2] + Base * (sum[3] + Base * sum[4])))
        /\ Poly!Value(x) = x0 + Base * (x1 + Base * (x2 + Base * (x3 + Base * x4)))
        /\ Poly!Value(v) = v0 + Base * (v1 + Base * (v2 + Base * (v3 + Base * v4)))
    BY Zenon DEF Poly!Value
  <2> HIDE DEF sum, x0, x1, x2, x3, x4, v0, v1, v2, v3, v4
  <2>4. (x0 + v0) + Base * ((x1 + v1) + Base * ((x2 + v2) + Base * ((x3 + v3) + Base * (x4 + v4))))
        = (x0 + Base * (x1 + Base * (x2 + Base * (x3 + Base * x4))))
          + (v0 + Base * (v1 + Base * (v2 + Base * (v3 + Base * v4))))
    BY <2>2, PolyAssumption
  <2>5. Poly!Value(sum) = Poly!Value(x) + Poly!Value(v)
    BY <2>1, <2>3, <2>4
  <2> QED
    BY <2>5, ValueRange, PolyAssumption DEF Poly!Past
<1> HIDE DEF sum
<1>3. PICK q1 \in Int : Poly!Value(sum) * Poly!Value(y) = Poly!Value(cols) + Poly!Prime * q1
  BY <1>1, ColumnsMultiply
<1>4. \A k \in Poly!L : Poly!Column(sum, y, k) \in Nat /\ Poly!Column(sum, y, k) <= bound * (Base - 1)
  BY <1>1, ColumnBound
<1>5. cols \in [Poly!L -> Nat] /\ bound \in Nat /\ \A k \in Poly!L : cols[k] <= bound * (Base - 1)
  BY <1>4, PolyAssumption
<1> HIDE DEF cols
<1>6. /\ c.limbs \in Digits /\ c.out \in 0 .. 50 * (Base - 1)
      /\ Poly!Value(cols) = Poly!Value(c.limbs) + Poly!Past * c.out
  <2> HIDE DEF bound
  <2>1. /\ c.limbs \in Digits /\ c.out \in 0 .. bound
        /\ Poly!Value(cols) = Poly!Value(c.limbs) + Poly!Past * c.out
    BY <1>5, CarryIs
  <2> QED
    BY <2>1 DEF bound
<1> HIDE DEF c
<1>7. f \in Digits /\ \E q \in Int : Poly!Value(c.limbs) + Poly!Past * c.out = Poly!Value(f) + Poly!Prime * q
  BY <1>6, FoldIs
<1>8. PICK q2 \in Int : Poly!Value(cols) = Poly!Value(f) + Poly!Prime * q2
  BY <1>6, <1>7
<1> HIDE DEF f
<1>9. z \in Digits /\ Poly!Value(z) \in 0 .. Poly!Prime - 1
  BY <1>7, ReduceIs
<1>10. PICK q3 \in Int : Poly!Value(f) = Poly!Value(z) + Poly!Prime * q3
  BY <1>7, ReduceIs
<1>11. Poly!MulMod(x, v, y) = z
  BY Zenon DEF Poly!MulMod, sum, cols, c, f, z
<1> HIDE DEF z
<1> DEFINE p == Poly!Prime
           w == Poly!Value(z)
           product == (Poly!Value(x) + Poly!Value(v)) * Poly!Value(y)
           a == product \div p
           b == product % p
<1>12. product \in Nat /\ p \in Nat \ {0}
  <2>1. Poly!Value(x) \in Nat /\ Poly!Value(v) \in Nat /\ Poly!Value(y) \in Nat
    <3>1. Poly!Past \in Nat
      BY PastIsLarge
    <3> QED
      BY <3>1, ValueRange
  <2> QED
    BY <2>1, PastIsLarge
<1>13. p * a + b = product /\ a \in Int /\ b \in 0 .. p - 1
  <2> HIDE DEF product, p
  <2> QED
    BY <1>12, ModRange
<1>14. product = w + p * q3 + p * q2 + p * q1 /\ w \in Int
  <2>1. product = Poly!Value(cols) + p * q1
    BY <1>2, <1>3
  <2>2. w \in Int /\ p * q1 \in Int /\ p * q2 \in Int /\ p * q3 \in Int
    BY <1>9, <1>12
  <2> HIDE DEF product
  <2> QED
    BY <1>8, <1>10, <2>1, <2>2
<1> HIDE DEF product, p, a, b
<1>15. w \in 0 .. p - 1
  BY <1>9 DEF p
<1> HIDE DEF w
<1> DEFINE q == q1 + q2 + q3
<1>16. p * q = p * q3 + p * q2 + p * q1 /\ q \in Int
  BY <1>12
<1>17. p * a + b = p * q + w
  <2>1. p * q1 \in Int /\ p * q2 \in Int /\ p * q3 \in Int
    BY <1>12
  <2> HIDE DEF q
  <2> QED
    BY <1>13, <1>14, <1>16, <2>1
<1> HIDE DEF q
<1>18. b = w
  BY <1>12, <1>13, <1>15, <1>16, <1>17, DivUnique
<1> QED
  BY <1>9, <1>11, <1>18 DEF w, b, product, p

(* What the arithmetic needs to know of the state, and what it promises.    *)
PolyInv ==
  /\ r \in Digits /\ h \in Digits
  /\ Poly!Value(h) = acc

LEMMA PolyStarts ==
  ASSUME Poly!PolyInit
  PROVE  PolyInv
<1>1. PICK n \in Rs : r = Poly!Limbs(n) /\ h = Poly!Limbs(0) /\ acc = 0
  BY DEF Poly!PolyInit
<1>2. n \in 0 .. Poly!Past - 1
  BY PolyAssumption
<1>3. 0 \in 0 .. Poly!Past - 1
  BY PastIsLarge, PolyAssumption
<1> DEFINE zero == 0
<1>4. zero \in 0 .. Poly!Past - 1 /\ h = Poly!Limbs(zero) /\ acc = zero
  BY <1>1, <1>3
<1> HIDE DEF zero
<1>5. h \in Digits /\ Poly!Value(h) = acc
  BY <1>4, LimbsAre
<1> QED
  BY <1>1, <1>2, <1>5, LimbsAre DEF PolyInv

LEMMA PolyInvHolds ==
  ASSUME PolyInv, [Poly!PolyNext]_(Poly!polyVars)
  PROVE  PolyInv'
<1>1. ASSUME NEW n \in Blocks, Poly!Absorb(n) PROVE PolyInv'
  <2>1. Poly!Limbs(n) \in Digits /\ Poly!Value(Poly!Limbs(n)) = n
    BY LimbsAre, PolyAssumption
  <2> DEFINE v == Poly!Limbs(n)
  <2>2. h' = Poly!MulMod(h, v, r) /\ acc' = ((acc + n) * Poly!Value(r)) % Poly!Prime /\ r' = r
    BY <1>1 DEF Poly!Absorb
  <2> HIDE DEF v
  <2>3. v \in Digits /\ Poly!Value(v) = n
    BY <2>1 DEF v
  <2>4. /\ Poly!MulMod(h, v, r) \in Digits
        /\ Poly!Value(Poly!MulMod(h, v, r)) = ((Poly!Value(h) + Poly!Value(v)) * Poly!Value(r)) % Poly!Prime
    BY <2>3, MulModIs DEF PolyInv
  <2>5. Poly!Value(h)' = Poly!Value(h')
    BY DEF Poly!Value
  <2>6. h' \in Digits /\ r' \in Digits /\ Poly!Value(h') = acc'
    BY <2>2, <2>3, <2>4 DEF PolyInv
  <2> QED
    BY <2>5, <2>6, Zenon DEF PolyInv, Digits
<1>2. CASE UNCHANGED Poly!polyVars
  BY <1>2 DEF Poly!polyVars, PolyInv, Poly!Value
<1> QED
  BY <1>1, <1>2 DEF Poly!PolyNext

(* The limbs of the authenticator are exact, in a run of whatever base,     *)
(* multipliers and blocks.                                                  *)
LEMMA LimbsStayExact ==
  ASSUME PolyInv
  PROVE  Poly!LimbsAreExact
  BY DEF PolyInv, Poly!LimbsAreExact, Digits
-----------------------------------------------------------------------------
(* The checksum.                                                           *)

Register == 0 .. 12
AtLeast(a, m) == \E b \in a : b >= m

(* The smaller and the larger of two. *)
LEMMA CrcMinMax ==
  ASSUME NEW a \in Int, NEW b \in Int
  PROVE  /\ Crc!Min({a, b}) = IF a <= b THEN a ELSE b
         /\ Crc!Max({a, b}) = IF a <= b THEN b ELSE a
<1>1. CASE a <= b
  BY <1>1 DEF Crc!Min, Crc!Max
<1>2. CASE b < a
  BY <1>2 DEF Crc!Min, Crc!Max
<1> QED
  BY <1>1, <1>2

(* A step on a register of thirteen bits: what is shifted moves down by     *)
(* one, and what is shifted out comes back at the top.                      *)
LEMMA StepIs ==
  ASSUME NEW a \in SUBSET Register
  PROVE  /\ Crc!Step(a) \subseteq Register
         /\ 0 \in a => 12 \in Crc!Step(a)
         /\ 0 \notin a => Crc!Step(a) = {i - 1 : i \in a}
<1>1. Crc!Shift(a) \subseteq 0 .. 11
  BY DEF Crc!Shift, Register
<1>2. Crc!Poly \subseteq Register /\ 12 \in Crc!Poly
  BY DEF Crc!Poly, Register
<1>3. CASE 0 \in a
  <2>1. Crc!Step(a) = (Crc!Shift(a) \ Crc!Poly) \cup (Crc!Poly \ Crc!Shift(a))
    BY <1>3 DEF Crc!Step, Crc!SymDiff
  <2>2. Crc!Shift(a) \subseteq Register /\ 12 \notin Crc!Shift(a)
    BY <1>1 DEF Register
  <2> QED
    BY <1>2, <1>3, <2>1, <2>2
<1>4. CASE 0 \notin a
  <2>1. Crc!Step(a) = Crc!Shift(a) /\ a \ {0} = a
    BY <1>4 DEF Crc!Step
  <2> QED
    BY <1>1, <1>4, <2>1 DEF Register, Crc!Shift
<1> QED
  BY <1>3, <1>4

(* So the highest bit falls by no more than one. *)
LEMMA StepLosesOne ==
  ASSUME NEW a \in SUBSET Register, NEW m \in Int, AtLeast(a, m)
  PROVE  Crc!Step(a) \in SUBSET Register /\ AtLeast(Crc!Step(a), m - 1)
<1>1. PICK b \in a : b >= m
  BY DEF AtLeast
<1>2. b \in Register /\ b - 1 >= m - 1 /\ 12 >= m - 1
  BY <1>1 DEF Register
<1>3. CASE 0 \in a
  BY <1>2, <1>3, StepIs DEF AtLeast
<1>4. CASE 0 \notin a
  BY <1>1, <1>2, <1>4, StepIs DEF AtLeast
<1> QED
  BY <1>3, <1>4, StepIs

(* Where the lowest bit f of a byte is after n steps: on its way down, and  *)
(* then, as it falls out, at the top again.                                 *)
Led(a, f, n) ==
  \/ n <= f /\ f - n \in a /\ \A b \in a : b >= f - n
  \/ n > f /\ AtLeast(a, 13 + f - n)

LEMMA StepLeads ==
  ASSUME NEW a \in SUBSET Register, NEW f \in 0 .. 7, NEW n \in 0 .. 7, Led(a, f, n)
  PROVE  Crc!Step(a) \in SUBSET Register /\ Led(Crc!Step(a), f, n + 1)
<1>1. CASE n > f
  <2>1. AtLeast(a, 13 + f - n) /\ 13 + f - n \in Int
    BY <1>1 DEF Led
  <2>2. Crc!Step(a) \in SUBSET Register /\ AtLeast(Crc!Step(a), (13 + f - n) - 1)
    BY <2>1, StepLosesOne
  <2>3. (13 + f - n) - 1 = 13 + f - (n + 1) /\ n + 1 > f
    BY <1>1
  <2> QED
    BY <2>2, <2>3 DEF Led
<1>2. CASE n = f
  <2>1. 0 \in a
    BY <1>2 DEF Led
  <2>2. Crc!Step(a) \in SUBSET Register /\ 12 \in Crc!Step(a)
    BY <2>1, StepIs
  <2>3. 13 + f - (n + 1) = 12 /\ n + 1 > f
    BY <1>2
  <2> QED
    BY <2>2, <2>3 DEF Led, AtLeast
<1>3. CASE n < f
  <2>1. f - n \in a /\ f - n > 0 /\ \A b \in a : b >= f - n
    BY <1>3 DEF Led
  <2>2. 0 \notin a
    BY <2>1
  <2>3. Crc!Step(a) = {i - 1 : i \in a} /\ Crc!Step(a) \in SUBSET Register
    BY <2>2, StepIs
  <2>4. f - (n + 1) = (f - n) - 1 /\ n + 1 <= f
    BY <1>3
  <2>5. f - (n + 1) \in Crc!Step(a)
    BY <2>1, <2>3, <2>4
  <2>6. ASSUME NEW b \in Crc!Step(a) PROVE b >= f - (n + 1)
    BY <2>1, <2>3, <2>4 DEF Register
  <2> QED
    BY <2>3, <2>4, <2>5, <2>6 DEF Led
<1> QED
  BY <1>1, <1>2, <1>3

(* Eight steps, from a register that has a bit of at least m, and from one  *)
(* whose lowest bit is f.                                                   *)
LEMMA ByteLosesEight ==
  ASSUME NEW a \in SUBSET Register, NEW m \in Int, AtLeast(a, m)
  PROVE  LET z == Crc!Step(Crc!Step(Crc!Step(Crc!Step(Crc!Step(Crc!Step(Crc!Step(Crc!Step(a))))))))
         IN  z \in SUBSET Register /\ AtLeast(z, m - 8)
<1> DEFINE s1 == Crc!Step(a)
           s2 == Crc!Step(s1)
           s3 == Crc!Step(s2)
           s4 == Crc!Step(s3)
           s5 == Crc!Step(s4)
           s6 == Crc!Step(s5)
           s7 == Crc!Step(s6)
           s8 == Crc!Step(s7)
<1>0. /\ m - 1 \in Int /\ m - 2 = (m - 1) - 1 /\ m - 2 \in Int /\ m - 3 = (m - 2) - 1 /\ m - 3 \in Int
      /\ m - 4 = (m - 3) - 1 /\ m - 4 \in Int /\ m - 5 = (m - 4) - 1 /\ m - 5 \in Int
      /\ m - 6 = (m - 5) - 1 /\ m - 6 \in Int /\ m - 7 = (m - 6) - 1 /\ m - 7 \in Int /\ m - 8 = (m - 7) - 1
  OBVIOUS
<1>1. s1 \in SUBSET Register /\ AtLeast(s1, m - 1)
  BY StepLosesOne
<1> HIDE DEF s1
<1>2. s2 \in SUBSET Register /\ AtLeast(s2, m - 2)
  BY <1>0, <1>1, StepLosesOne
<1> HIDE DEF s2
<1>3. s3 \in SUBSET Register /\ AtLeast(s3, m - 3)
  BY <1>0, <1>2, StepLosesOne
<1> HIDE DEF s3
<1>4. s4 \in SUBSET Register /\ AtLeast(s4, m - 4)
  BY <1>0, <1>3, StepLosesOne
<1> HIDE DEF s4
<1>5. s5 \in SUBSET Register /\ AtLeast(s5, m - 5)
  BY <1>0, <1>4, StepLosesOne
<1> HIDE DEF s5
<1>6. s6 \in SUBSET Register /\ AtLeast(s6, m - 6)
  BY <1>0, <1>5, StepLosesOne
<1> HIDE DEF s6
<1>7. s7 \in SUBSET Register /\ AtLeast(s7, m - 7)
  BY <1>0, <1>6, StepLosesOne
<1> HIDE DEF s7
<1>8. s8 \in SUBSET Register /\ AtLeast(s8, m - 8)
  BY <1>0, <1>7, StepLosesOne
<1> QED
  BY <1>8 DEF s1, s2, s3, s4, s5, s6, s7, s8

LEMMA FirstByteLeads ==
  ASSUME NEW a \in SUBSET Register, NEW f \in 0 .. 7, f \in a, \A b \in a : b >= f
  PROVE  LET z == Crc!Step(Crc!Step(Crc!Step(Crc!Step(Crc!Step(Crc!Step(Crc!Step(Crc!Step(a))))))))
         IN  z \in SUBSET Register /\ AtLeast(z, f + 5)
<1> DEFINE s1 == Crc!Step(a)
           s2 == Crc!Step(s1)
           s3 == Crc!Step(s2)
           s4 == Crc!Step(s3)
           s5 == Crc!Step(s4)
           s6 == Crc!Step(s5)
           s7 == Crc!Step(s6)
           s8 == Crc!Step(s7)
<1>0. Led(a, f, 0)
  BY DEF Led
<1>1. s1 \in SUBSET Register /\ Led(s1, f, 1)
  BY <1>0, StepLeads
<1> HIDE DEF s1
<1>2. s2 \in SUBSET Register /\ Led(s2, f, 2)
  BY <1>1, StepLeads
<1> HIDE DEF s2
<1>3. s3 \in SUBSET Register /\ Led(s3, f, 3)
  BY <1>2, StepLeads
<1> HIDE DEF s3
<1>4. s4 \in SUBSET Register /\ Led(s4, f, 4)
  BY <1>3, StepLeads
<1> HIDE DEF s4
<1>5. s5 \in SUBSET Register /\ Led(s5, f, 5)
  BY <1>4, StepLeads
<1> HIDE DEF s5
<1>6. s6 \in SUBSET Register /\ Led(s6, f, 6)
  BY <1>5, StepLeads
<1> HIDE DEF s6
<1>7. s7 \in SUBSET Register /\ Led(s7, f, 7)
  BY <1>6, StepLeads
<1> HIDE DEF s7
<1>8. s8 \in SUBSET Register /\ Led(s8, f, 8)
  BY <1>7, StepLeads
<1>9. AtLeast(s8, f + 5)
  <2>1. 13 + f - 8 = f + 5
    OBVIOUS
  <2> HIDE DEF s8
  <2> QED
    BY <1>8, <2>1 DEF Led
<1> QED
  BY <1>8, <1>9 DEF s1, s2, s3, s4, s5, s6, s7, s8

(* While the burst lasts, the register has a bit that none of the wrong     *)
(* bits still to come can reach.                                            *)
CrcInv ==
  /\ crc \in SUBSET Register /\ begun \in BOOLEAN /\ span \in Register \cup {Burst}
  /\ ~begun => crc = {} /\ span = Burst
  /\ begun => span \in Register /\ AtLeast(crc, span)

LEMMA CrcInvHolds ==
  ASSUME CrcInv, [Crc!NextByte]_(Crc!crcVars)
  PROVE  CrcInv'
<1>1. CASE Crc!NextByte /\ ~begun
  <2>1. PICK f \in 0 .. 7 : \E more \in SUBSET (f + 1 .. 7) :
          crc' = Crc!ByteIn(crc, {f} \cup more) /\ span' = Burst - (8 - f) /\ begun' = TRUE
    BY <1>1 DEF Crc!NextByte
  <2>2. PICK more \in SUBSET (f + 1 .. 7) :
          crc' = Crc!ByteIn(crc, {f} \cup more) /\ span' = Burst - (8 - f) /\ begun' = TRUE
    BY <2>1
  <2> DEFINE a == Crc!SymDiff(crc, {f} \cup more)
             z == Crc!Step(Crc!Step(Crc!Step(Crc!Step(Crc!Step(Crc!Step(Crc!Step(Crc!Step(a))))))))
  <2>3. a = {f} \cup more
    BY <1>1 DEF CrcInv, Crc!SymDiff
  <2>4. crc' = z
    BY <2>2 DEF Crc!ByteIn
  <2> HIDE DEF a
  <2>5. a \in SUBSET Register /\ f \in a /\ \A b \in a : b >= f
    BY <2>3 DEF Register
  <2>6. z \in SUBSET Register /\ AtLeast(z, f + 5)
    BY <2>5, FirstByteLeads, Zenon
  <2> HIDE DEF z
  <2>7. span' \in Register /\ span' <= f + 5
    BY <2>2, CrcAssumption DEF Register
  <2>8. AtLeast(z, span')
    BY <2>6, <2>7 DEF AtLeast, Register
  <2>9. AtLeast(crc, span)' /\ crc' \in SUBSET Register
    BY <2>4, <2>6, <2>8 DEF AtLeast
  <2> QED
    BY <2>2, <2>7, <2>9, Zenon DEF CrcInv
<1>2. CASE Crc!NextByte /\ begun
  <2>1. PICK byte \in SUBSET (0 .. Crc!Min({8, span}) - 1) : crc' = Crc!ByteIn(crc, byte)
    BY <1>2 DEF Crc!NextByte
  <2>2. span' = Crc!Max({0, span - 8}) /\ begun' = begun
    BY <1>2 DEF Crc!NextByte
  <2>3. crc \in SUBSET Register /\ span \in Register /\ AtLeast(crc, span)
    BY <1>2 DEF CrcInv
  <2>4. Crc!Min({8, span}) = IF 8 <= span THEN 8 ELSE span
    BY <2>3, CrcMinMax DEF Register
  <2>5. span' = IF 0 <= span - 8 THEN span - 8 ELSE 0
    BY <2>2, <2>3, CrcMinMax DEF Register
  <2> DEFINE a == Crc!SymDiff(crc, byte)
             z == Crc!Step(Crc!Step(Crc!Step(Crc!Step(Crc!Step(Crc!Step(Crc!Step(Crc!Step(a))))))))
  <2>6. crc' = z
    BY <2>1 DEF Crc!ByteIn
  <2>7. a = (crc \ byte) \cup (byte \ crc)
    BY DEF Crc!SymDiff
  <2> HIDE DEF a
  <2>8. byte \in SUBSET Register /\ \A b \in byte : b < span
    BY <2>1, <2>3, <2>4 DEF Register
  <2>9. a \in SUBSET Register /\ AtLeast(a, span)
    BY <2>3, <2>7, <2>8 DEF AtLeast, Register
  <2>10. z \in SUBSET Register /\ AtLeast(z, span - 8)
    BY <2>3, <2>9, ByteLosesEight DEF Register
  <2> HIDE DEF z
  <2>11. span' \in Register
    BY <2>3, <2>5 DEF Register
  <2>12. AtLeast(z, span')
    <3>1. PICK b \in z : b >= span - 8
      BY <2>10 DEF AtLeast
    <3>2. b \in Register
      BY <2>10
    <3>3. b >= span'
      BY <2>3, <2>5, <3>1, <3>2 DEF Register
    <3> QED
      BY <3>3 DEF AtLeast
  <2>13. AtLeast(crc, span)' /\ crc' \in SUBSET Register
    BY <2>6, <2>10, <2>12 DEF AtLeast
  <2> QED
    BY <1>2, <2>2, <2>11, <2>13, Zenon DEF CrcInv
<1>3. CASE UNCHANGED Crc!crcVars
  BY <1>3 DEF Crc!crcVars, CrcInv, AtLeast
<1> QED
  BY <1>1, <1>2, <1>3

(* No burst of wrong bits of a length the assumption allows leaves the      *)
(* checksum as it was, wherever in a frame of whatever length it is.        *)
THEOREM BurstsAreDetected == UnitsSpec => []BurstIsDetected
<1>1. UnitsInit => CrcInv
  BY CrcAssumption DEF UnitsInit, Crc!CrcInit, CrcInv
<1>2. CrcInv /\ [UnitsNext]_unitVars => CrcInv'
  BY UnitsSteps, CrcInvHolds
<1>3. CrcInv => BurstIsDetected
  BY DEF CrcInv, AtLeast, BurstIsDetected, Crc!BurstIsDetected
<1> QED
  BY <1>1, <1>2, <1>3, PTL DEF UnitsSpec

-----------------------------------------------------------------------------
(* The mixers.                                                             *)

Quadruple == Int \X Int \X Int \X Int

(* A determinant of sixteen numbers, and Cramer's rule for its four rows    *)
(* and a fifth.                                                             *)
Det(a1, a2, a3, a4, b1, b2, b3, b4, c1, c2, c3, c4, d1, d2, d3, d4) ==
    (a1 * b2 - a2 * b1) * (c3 * d4 - c4 * d3) - (a1 * b3 - a3 * b1) * (c2 * d4 - c4 * d2)
  + (a1 * b4 - a4 * b1) * (c2 * d3 - c3 * d2) + (a2 * b3 - a3 * b2) * (c1 * d4 - c4 * d1)
  - (a2 * b4 - a4 * b2) * (c1 * d3 - c3 * d1) + (a3 * b4 - a4 * b3) * (c1 * d2 - c2 * d1)

Cramer(a1, a2, a3, a4, b1, b2, b3, b4, c1, c2, c3, c4, d1, d2, d3, d4, w1, w2, w3, w4) ==
  LET v1 == Det(w1, w2, w3, w4, b1, b2, b3, b4, c1, c2, c3, c4, d1, d2, d3, d4)
      v2 == Det(a1, a2, a3, a4, w1, w2, w3, w4, c1, c2, c3, c4, d1, d2, d3, d4)
      v3 == Det(a1, a2, a3, a4, b1, b2, b3, b4, w1, w2, w3, w4, d1, d2, d3, d4)
      v4 == Det(a1, a2, a3, a4, b1, b2, b3, b4, c1, c2, c3, c4, w1, w2, w3, w4)
      det == Det(a1, a2, a3, a4, b1, b2, b3, b4, c1, c2, c3, c4, d1, d2, d3, d4)
  IN  /\ v1 * a1 + v2 * b1 + v3 * c1 + v4 * d1 = det * w1
      /\ v1 * a2 + v2 * b2 + v3 * c2 + v4 * d2 = det * w2
      /\ v1 * a3 + v2 * b3 + v3 * c3 + v4 * d3 = det * w3
      /\ v1 * a4 + v2 * b4 + v3 * c4 + v4 * d4 = det * w4

LEMMA CramersRule ==
  ASSUME NEW a1 \in Int, NEW a2 \in Int, NEW a3 \in Int, NEW a4 \in Int,
         NEW b1 \in Int, NEW b2 \in Int, NEW b3 \in Int, NEW b4 \in Int,
         NEW c1 \in Int, NEW c2 \in Int, NEW c3 \in Int, NEW c4 \in Int,
         NEW d1 \in Int, NEW d2 \in Int, NEW d3 \in Int, NEW d4 \in Int,
         NEW w1 \in Int, NEW w2 \in Int, NEW w3 \in Int, NEW w4 \in Int
  PROVE  Cramer(a1, a2, a3, a4, b1, b2, b3, b4, c1, c2, c3, c4, d1, d2, d3, d4, w1, w2, w3, w4)
BY SMTT(60) DEF Cramer, Det

LEMMA DetIs ==
  ASSUME NEW a, NEW b, NEW c, NEW d
  PROVE  Rotors!Determinant(a, b, c, d) =
           Det(a[1], a[2], a[3], a[4], b[1], b[2], b[3], b[4], c[1], c[2], c[3], c[4], d[1], d[2], d[3], d[4])
BY Zenon DEF Rotors!Determinant, Rotors!Minor, Det

LEMMA QuadrupleIs ==
  ASSUME NEW a \in Quadruple
  PROVE  a[1] \in Int /\ a[2] \in Int /\ a[3] \in Int /\ a[4] \in Int
BY DEF Quadruple

LEMMA DeterminantIsInt ==
  ASSUME NEW a \in Quadruple, NEW b \in Quadruple, NEW c \in Quadruple, NEW d \in Quadruple
  PROVE  Rotors!Determinant(a, b, c, d) \in Int
BY QuadrupleIs DEF Rotors!Determinant, Rotors!Minor

(* The rows, multiplied by the solution, make the fifth times the           *)
(* determinant.                                                             *)
Combines(a, b, c, d, w) ==
  \A k \in 1 .. 4 :
    Rotors!Determinant(w, b, c, d) * a[k] + Rotors!Determinant(a, w, c, d) * b[k]
      + Rotors!Determinant(a, b, w, d) * c[k] + Rotors!Determinant(a, b, c, w) * d[k]
    = Rotors!Determinant(a, b, c, d) * w[k]

LEMMA SolvedIs ==
  ASSUME NEW a \in Quadruple, NEW b \in Quadruple, NEW c \in Quadruple, NEW d \in Quadruple,
         NEW w \in Quadruple
  PROVE  Combines(a, b, c, d, w)
<1>1. /\ a[1] \in Int /\ a[2] \in Int /\ a[3] \in Int /\ a[4] \in Int
      /\ b[1] \in Int /\ b[2] \in Int /\ b[3] \in Int /\ b[4] \in Int
      /\ c[1] \in Int /\ c[2] \in Int /\ c[3] \in Int /\ c[4] \in Int
      /\ d[1] \in Int /\ d[2] \in Int /\ d[3] \in Int /\ d[4] \in Int
      /\ w[1] \in Int /\ w[2] \in Int /\ w[3] \in Int /\ w[4] \in Int
  BY QuadrupleIs
<1>2. Cramer(a[1], a[2], a[3], a[4], b[1], b[2], b[3], b[4], c[1], c[2], c[3], c[4],
             d[1], d[2], d[3], d[4], w[1], w[2], w[3], w[4])
  BY <1>1, CramersRule, Zenon
<1> DEFINE Row(k) ==
             Rotors!Determinant(w, b, c, d) * a[k] + Rotors!Determinant(a, w, c, d) * b[k]
               + Rotors!Determinant(a, b, w, d) * c[k] + Rotors!Determinant(a, b, c, w) * d[k]
             = Rotors!Determinant(a, b, c, d) * w[k]
<1>3. Row(1) /\ Row(2) /\ Row(3) /\ Row(4)
  BY <1>2, DetIs, Zenon DEF Cramer
<1> HIDE DEF Row
<1>4. \A k \in 1 .. 4 : Row(k)
  BY <1>3
<1> QED
  BY <1>4, Zenon DEF Row, Combines

-----------------------------------------------------------------------------
(* Sums over the rotors, and the columns of the failed and the healthy.     *)
LEMMA RotorSum ==
  ASSUME NEW s
  PROVE  Rotors!SumFunction(s) = SumFunctionOnSet(s, DOMAIN s)
BY Zenon DEF Rotors!SumFunction, Rotors!SumFunctionOnSet, Rotors!FoldFunctionOnSet, Rotors!MapThenFoldSet,
   SumFunctionOnSet, FoldFunctionOnSet, MapThenFoldSet

LEMMA RotorCardinality == ASSUME NEW S PROVE Rotors!Cardinality(S) = Cardinality(S)
BY Zenon DEF Rotors!Cardinality, Cardinality, Rotors!IsFiniteSet, IsFiniteSet

LEMMA RotorsAre ==
  /\ IsFiniteSet(Rotors!Rotors)
  /\ \A i \in Rotors!Rotors : Columns[i] \in Quadruple /\ Columns[i][1] = 1
<1>1. Rotors!Rotors = 1 .. Len(Columns) /\ Len(Columns) \in Nat
  BY RotorAssumption DEF Rotors!Rotors
<1>2. IsFiniteSet(1 .. Len(Columns))
  BY <1>1, FS_Interval
<1> QED
  BY <1>1, <1>2, RotorAssumption DEF Quadruple, Rotors!Rotors

LEMMA ColumnIs ==
  ASSUME NEW i \in Rotors!Rotors
  PROVE  /\ Rotors!Column(i) \in Quadruple
         /\ \A k \in 1 .. 4 : Rotors!Column(i)[k] \in Int
<1>1. Rotors!Column(i) \in Quadruple
  BY RotorsAre DEF Rotors!Column, Quadruple
<1> QED
  BY <1>1, QuadrupleIs

(* The entries of M = A A^T. *)
LEMMA GramIs ==
  /\ \A j \in 1 .. 4 : Rotors!Gram[j] \in Quadruple
  /\ \A j \in 1 .. 4 : \A k \in 1 .. 4 :
       Rotors!Gram[j][k] =
         SumFunctionOnSet([i \in Rotors!Rotors |-> Rotors!Column(i)[j] * Rotors!Column(i)[k]], Rotors!Rotors)
<1> DEFINE Entry(j, k) ==
      SumFunctionOnSet([i \in Rotors!Rotors |-> Rotors!Column(i)[j] * Rotors!Column(i)[k]], Rotors!Rotors)
<1>1. ASSUME NEW j \in 1 .. 4, NEW k \in 1 .. 4 PROVE Entry(j, k) \in Int
  <2> DEFINE f == [i \in Rotors!Rotors |-> Rotors!Column(i)[j] * Rotors!Column(i)[k]]
  <2>1. \A i \in Rotors!Rotors : f[i] \in Int
    BY ColumnIs
  <2> HIDE DEF f
  <2>2. SumFunctionOnSet(f, Rotors!Rotors) \in Int
    BY <2>1, RotorsAre, SumType
  <2> QED
    BY <2>2 DEF f
<1>2. ASSUME NEW j \in 1 .. 4
      PROVE  Rotors!GramRow(j) = <<Entry(j, 1), Entry(j, 2), Entry(j, 3), Entry(j, 4)>>
  BY RotorSum, Zenon DEF Rotors!GramRow
<1> HIDE DEF Entry
<1>3. Rotors!Gram = <<Rotors!GramRow(1), Rotors!GramRow(2), Rotors!GramRow(3), Rotors!GramRow(4)>>
  BY DEF Rotors!Gram
<1>4. \A j \in 1 .. 4 : Rotors!Gram[j] = <<Entry(j, 1), Entry(j, 2), Entry(j, 3), Entry(j, 4)>>
  BY <1>2, <1>3
<1>5. \A j \in 1 .. 4 : Rotors!Gram[j] \in Quadruple
  BY <1>1, <1>4 DEF Quadruple
<1>6. \A j \in 1 .. 4 : \A k \in 1 .. 4 : Rotors!Gram[j][k] = Entry(j, k)
  BY <1>4
<1> QED
  BY <1>5, <1>6, Zenon DEF Entry

(* What the rotors make in row k when each has the product of its column    *)
(* and x for thrust.                                                        *)
Made(x, k) == x[1] * Rotors!Gram[1][k] + x[2] * Rotors!Gram[2][k]
                + x[3] * Rotors!Gram[3][k] + x[4] * Rotors!Gram[4][k]

LEMMA DotIs ==
  ASSUME NEW x \in Quadruple, NEW i \in Rotors!Rotors
  PROVE  /\ Rotors!Dot(Rotors!Column(i), x) \in Int
         /\ Rotors!Dot(Rotors!Column(i), x) =
              x[1] * Rotors!Column(i)[1] + x[2] * Rotors!Column(i)[2]
                + x[3] * Rotors!Column(i)[3] + x[4] * Rotors!Column(i)[4]
<1> DEFINE c == Rotors!Column(i)
<1>1. c[1] \in Int /\ c[2] \in Int /\ c[3] \in Int /\ c[4] \in Int
  BY ColumnIs
<1>2. x[1] \in Int /\ x[2] \in Int /\ x[3] \in Int /\ x[4] \in Int
  BY QuadrupleIs
<1> HIDE DEF c
<1>3. Rotors!Dot(c, x) = x[1] * c[1] + x[2] * c[2] + x[3] * c[3] + x[4] * c[4]
  BY <1>1, <1>2 DEF Rotors!Dot
<1>4. Rotors!Dot(c, x) \in Int
  BY <1>1, <1>2, <1>3
<1> QED
  BY <1>3, <1>4 DEF c

LEMMA MadeIs ==
  ASSUME NEW x \in Quadruple, NEW k \in 1 .. 4
  PROVE  SumFunctionOnSet([i \in Rotors!Rotors |-> Rotors!Column(i)[k] * Rotors!Dot(Rotors!Column(i), x)],
                          Rotors!Rotors) = Made(x, k)
<1> DEFINE I == Rotors!Rotors
           C(i) == Rotors!Column(i)
           f1 == [i \in I |-> C(i)[1] * C(i)[k]]
           f2 == [i \in I |-> C(i)[2] * C(i)[k]]
           f3 == [i \in I |-> C(i)[3] * C(i)[k]]
           f4 == [i \in I |-> C(i)[4] * C(i)[k]]
           g == [i \in I |-> C(i)[k] * Rotors!Dot(C(i), x)]
           x1 == x[1]
           x2 == x[2]
           x3 == x[3]
           x4 == x[4]
<1>1. x1 \in Int /\ x2 \in Int /\ x3 \in Int /\ x4 \in Int
  BY QuadrupleIs
<1>2. ASSUME NEW i \in I
      PROVE  /\ f1[i] \in Int /\ f2[i] \in Int /\ f3[i] \in Int /\ f4[i] \in Int
             /\ g[i] = x1 * f1[i] + x2 * f2[i] + x3 * f3[i] + x4 * f4[i]
  <2> DEFINE c1 == C(i)[1]
             c2 == C(i)[2]
             c3 == C(i)[3]
             c4 == C(i)[4]
             e == C(i)[k]
             d == Rotors!Dot(C(i), x)
  <2>1. c1 \in Int /\ c2 \in Int /\ c3 \in Int /\ c4 \in Int /\ e \in Int
    BY ColumnIs
  <2>2. d = x1 * c1 + x2 * c2 + x3 * c3 + x4 * c4
    BY DotIs
  <2>3. f1[i] = c1 * e /\ f2[i] = c2 * e /\ f3[i] = c3 * e /\ f4[i] = c4 * e /\ g[i] = e * d
    OBVIOUS
  <2> HIDE DEF c1, c2, c3, c4, e, d, x1, x2, x3, x4, f1, f2, f3, f4, g
  <2>4. e * d = x1 * (c1 * e) + x2 * (c2 * e) + x3 * (c3 * e) + x4 * (c4 * e)
    BY <1>1, <2>1, <2>2
  <2> QED
    BY <2>1, <2>3, <2>4
<1>3. /\ SumFunctionOnSet(f1, I) = Rotors!Gram[1][k] /\ SumFunctionOnSet(f2, I) = Rotors!Gram[2][k]
      /\ SumFunctionOnSet(f3, I) = Rotors!Gram[3][k] /\ SumFunctionOnSet(f4, I) = Rotors!Gram[4][k]
  <2>1. 1 \in 1 .. 4 /\ 2 \in 1 .. 4 /\ 3 \in 1 .. 4 /\ 4 \in 1 .. 4
    OBVIOUS
  <2> QED
    BY <2>1, GramIs, Zenon
<1>4. IsFiniteSet(I)
  BY RotorsAre
<1> HIDE DEF x1, x2, x3, x4, f1, f2, f3, f4, g, I
<1>5. SumFunctionOnSet(g, I) = x1 * SumFunctionOnSet(f1, I) + x2 * SumFunctionOnSet(f2, I)
                                + x3 * SumFunctionOnSet(f3, I) + x4 * SumFunctionOnSet(f4, I)
  <2>1. IsBlend(g, I, x1, f1, x2, f2, x3, f3, x4, f4)
    BY <1>1, <1>2 DEF IsBlend
  <2> QED
    BY ONLY <1>4, <2>1, SumOfFour
<1>6. SumFunctionOnSet(g, I) = Made(x, k)
  BY <1>3, <1>5, Zenon DEF Made, x1, x2, x3, x4
<1> QED
  BY <1>6, Zenon DEF g, I

(* A step up the leading minors of M: x makes only row m of the first m     *)
(* rows, and x M x, a sum of squares, is the product of two minors.  If the *)
(* lower one is zero so are all the squares, and then x makes nothing.      *)
LEMMA Rising ==
  ASSUME NEW x \in Quadruple, NEW m \in 1 .. 4, NEW low \in Nat, NEW high \in Int,
         Made(x, m) = high,
         x[1] * Made(x, 1) + x[2] * Made(x, 2) + x[3] * Made(x, 3) + x[4] * Made(x, 4) = low * high
  PROVE  high \in Nat
<1> DEFINE I == Rotors!Rotors
           C(i) == Rotors!Column(i)
           D(i) == Rotors!Dot(C(i), x)
           f(k) == [i \in I |-> C(i)[k] * D(i)]
           g == [i \in I |-> D(i) * D(i)]
           s == SumFunctionOnSet(g, I)
<1>1. /\ x[1] \in Int /\ x[2] \in Int /\ x[3] \in Int /\ x[4] \in Int
      /\ 1 \in 1 .. 4 /\ 2 \in 1 .. 4 /\ 3 \in 1 .. 4 /\ 4 \in 1 .. 4
  BY QuadrupleIs
<1>2. \A k \in 1 .. 4 : SumFunctionOnSet(f(k), I) = Made(x, k)
  BY MadeIs, Zenon
<1>3. IsFiniteSet(I)
  BY RotorsAre
<1>4. \A i \in I : /\ D(i) \in Int /\ C(i)[1] \in Int /\ C(i)[2] \in Int /\ C(i)[3] \in Int /\ C(i)[4] \in Int
                   /\ D(i) = x[1] * C(i)[1] + x[2] * C(i)[2] + x[3] * C(i)[3] + x[4] * C(i)[4]
  BY DotIs, ColumnIs
<1>5. IsBlend(g, I, x[1], f(1), x[2], f(2), x[3], f(3), x[4], f(4))
  <2>1. ASSUME NEW i \in I
        PROVE  /\ f(1)[i] \in Int /\ f(2)[i] \in Int /\ f(3)[i] \in Int /\ f(4)[i] \in Int
               /\ g[i] = x[1] * f(1)[i] + x[2] * f(2)[i] + x[3] * f(3)[i] + x[4] * f(4)[i]
    <3> DEFINE d == D(i)
               c1 == C(i)[1]
               c2 == C(i)[2]
               c3 == C(i)[3]
               c4 == C(i)[4]
               x1 == x[1]
               x2 == x[2]
               x3 == x[3]
               x4 == x[4]
    <3>1. /\ d \in Int /\ c1 \in Int /\ c2 \in Int /\ c3 \in Int /\ c4 \in Int
          /\ x1 \in Int /\ x2 \in Int /\ x3 \in Int /\ x4 \in Int
          /\ d = x1 * c1 + x2 * c2 + x3 * c3 + x4 * c4
      BY <1>1, <1>4
    <3>2. f(1)[i] = c1 * d /\ f(2)[i] = c2 * d /\ f(3)[i] = c3 * d /\ f(4)[i] = c4 * d /\ g[i] = d * d
      OBVIOUS
    <3> DEFINE y1 == f(1)[i]
               y2 == f(2)[i]
               y3 == f(3)[i]
               y4 == f(4)[i]
               y == g[i]
    <3>3. y1 = c1 * d /\ y2 = c2 * d /\ y3 = c3 * d /\ y4 = c4 * d /\ y = d * d
      BY <3>2
    <3>4. y1 \in Int /\ y2 \in Int /\ y3 \in Int /\ y4 \in Int /\ y = x1 * y1 + x2 * y2 + x3 * y3 + x4 * y4
      <4> HIDE DEF d, c1, c2, c3, c4, x1, x2, x3, x4, y1, y2, y3, y4, y
      <4>1. d * d = x1 * (c1 * d) + x2 * (c2 * d) + x3 * (c3 * d) + x4 * (c4 * d)
        BY <3>1
      <4> QED
        BY <3>1, <3>3, <4>1
    <3> QED
      BY <3>4
  <2> QED
    BY <1>1, <2>1, Zenon DEF IsBlend
<1>6. s = low * high
  <2> HIDE DEF g, f, I
  <2>1. s = x[1] * SumFunctionOnSet(f(1), I) + x[2] * SumFunctionOnSet(f(2), I)
              + x[3] * SumFunctionOnSet(f(3), I) + x[4] * SumFunctionOnSet(f(4), I)
    BY ONLY <1>3, <1>5, SumOfFour
  <2>2. /\ SumFunctionOnSet(f(1), I) = Made(x, 1) /\ SumFunctionOnSet(f(2), I) = Made(x, 2)
        /\ SumFunctionOnSet(f(3), I) = Made(x, 3) /\ SumFunctionOnSet(f(4), I) = Made(x, 4)
    BY <1>1, <1>2, Zenon
  <2> QED
    BY <2>1, <2>2, Zenon
<1>7. \A i \in I : g[i] \in Nat /\ (g[i] = 0 => D(i) = 0)
  <2>1. ASSUME NEW i \in I PROVE g[i] \in Nat /\ (g[i] = 0 => D(i) = 0)
    <3> DEFINE d == D(i)
    <3>1. d \in Int /\ g[i] = d * d
      BY <1>4
    <3> HIDE DEF d, g
    <3>2. d * d \in Nat /\ (d * d = 0 => d = 0)
      <4>1. CASE d >= 0
        BY <3>1, <4>1
      <4>2. CASE d < 0
        <5>1. d * d = (-d) * (-d) /\ -d \in Nat /\ -d > 0
          BY <3>1, <4>2
        <5> QED
          BY <5>1
      <4> QED
        BY <3>1, <4>1, <4>2
    <3> QED
      BY <3>1, <3>2 DEF d
  <2> QED
    BY <2>1
<1>8. s \in Nat /\ (s = 0 => \A i \in I : g[i] = 0)
  <2> HIDE DEF g, I
  <2> QED
    BY <1>3, <1>7, SumOfNats
<1>9. CASE low = 0
  <2>1. \A i \in I : D(i) = 0
    <3>1. s = 0
      BY <1>6, <1>9
    <3> QED
      BY <1>7, <1>8, <3>1
  <2>2. \A i \in I : f(m)[i] = 0
    <3>1. ASSUME NEW i \in I PROVE f(m)[i] = 0
      <4>1. C(i)[m] \in Int /\ f(m)[i] = C(i)[m] * D(i)
        BY ColumnIs
      <4> QED
        BY <2>1, <4>1
    <3> QED
      BY <3>1
  <2>3. SumFunctionOnSet(f(m), I) = 0
    <3> DEFINE z == 0
               u == f(m)
    <3>1. z \in Int /\ \A i \in I : u[i] = z
      BY <2>2
    <3> HIDE DEF z, u, I
    <3>2. SumFunctionOnSet(u, I) = z * Cardinality(I)
      BY <1>3, <3>1, SumConst
    <3>3. Cardinality(I) \in Nat
      BY <1>3, FS_CardinalityType
    <3> QED
      BY <3>2, <3>3 DEF z, u
  <2> QED
    BY <1>2, <2>3
<1>10. CASE low > 0
  <2>1. low * high >= 0
    BY <1>6, <1>8
  <2> QED
    BY ONLY <1>10, <2>1, low \in Nat, high \in Int
<1> QED
  BY <1>9, <1>10

(* The unit vectors. *)
E1 == <<1, 0, 0, 0>>
E2 == <<0, 1, 0, 0>>
E3 == <<0, 0, 1, 0>>
E4 == <<0, 0, 0, 1>>

(* So the determinant of M is not negative. *)
LEMMA VolumeIsNat == Rotors!Volume(Rotors!Gram) \in Nat
<1> DEFINE g1 == Rotors!Gram[1]
           g2 == Rotors!Gram[2]
           g3 == Rotors!Gram[3]
           g4 == Rotors!Gram[4]
           d1 == Rotors!Determinant(g1, E2, E3, E4)
           d2 == Rotors!Determinant(g1, g2, E3, E4)
           d3 == Rotors!Determinant(g1, g2, g3, E4)
           d4 == Rotors!Determinant(g1, g2, g3, g4)
<1>1. g1 \in Quadruple /\ g2 \in Quadruple /\ g3 \in Quadruple /\ g4 \in Quadruple
  BY GramIs
<1>2. E1 \in Quadruple /\ E2 \in Quadruple /\ E3 \in Quadruple /\ E4 \in Quadruple
  BY DEF Quadruple, E1, E2, E3, E4
<1>3. \A x \in Quadruple : \A k \in 1 .. 4 : Made(x, k) = x[1] * g1[k] + x[2] * g2[k] + x[3] * g3[k] + x[4] * g4[k]
  BY Zenon DEF Made
<1> HIDE DEF g1, g2, g3, g4
<1>4. d1 \in Int /\ d2 \in Int /\ d3 \in Int /\ d4 \in Int
  BY <1>1, <1>2, DeterminantIsInt
<1>5. \A k \in 1 .. 4 : g1[k] \in Int /\ g2[k] \in Int /\ g3[k] \in Int /\ g4[k] \in Int
  BY <1>1 DEF Quadruple
<1>6. d1 \in Nat
  <2>1. d1 = g1[1]
    BY <1>5 DEF Rotors!Determinant, Rotors!Minor, E2, E3, E4
  <2>2. E1[1] = 1 /\ E1[2] = 0 /\ E1[3] = 0 /\ E1[4] = 0
    BY DEF E1
  <2> HIDE DEF d1
  <2>3. \A k \in 1 .. 4 : Made(E1, k) = g1[k]
    BY <1>2, <1>3, <1>5, <2>2
  <2>4. E1[1] * Made(E1, 1) + E1[2] * Made(E1, 2) + E1[3] * Made(E1, 3) + E1[4] * Made(E1, 4) = 1 * d1
    BY <1>5, <2>1, <2>2, <2>3
  <2>5. Made(E1, 1) = d1
    BY <2>1, <2>3
  <2> DEFINE m == 1
             low == 1
  <2>6. m \in 1 .. 4 /\ low \in Nat /\ Made(E1, m) = d1
    BY <2>5
  <2>7. E1[1] * Made(E1, 1) + E1[2] * Made(E1, 2) + E1[3] * Made(E1, 3) + E1[4] * Made(E1, 4) = low * d1
    BY <2>4
  <2> HIDE DEF m, low
  <2> QED
    BY <1>2, <1>4, <2>6, <2>7, Rising
<1>7. d2 \in Nat
  <2> DEFINE s1 == Rotors!Determinant(E2, g2, E3, E4)
             s3 == Rotors!Determinant(g1, g2, E2, E4)
             s4 == Rotors!Determinant(g1, g2, E3, E2)
             x == <<s1, d1, 0, 0>>
             m == 2
  <2>1. s1 \in Int /\ s3 \in Int /\ s4 \in Int
    BY <1>1, <1>2, DeterminantIsInt
  <2>2. \A k \in 1 .. 4 : s1 * g1[k] + d1 * g2[k] + s3 * E3[k] + s4 * E4[k] = d2 * E2[k]
    <3>1. Combines(g1, g2, E3, E4, E2)
      BY <1>1, <1>2, SolvedIs
    <3> QED
      BY <3>1, Zenon DEF Combines
  <2> HIDE DEF d1, d2, s1, s3, s4
  <2>3. x \in Quadruple /\ x[1] = s1 /\ x[2] = d1 /\ x[3] = 0 /\ x[4] = 0
    BY <1>4, <2>1 DEF Quadruple
  <2> HIDE DEF x
  <2>4. \A k \in 1 .. 4 : Made(x, k) = s1 * g1[k] + d1 * g2[k]
    BY <1>3, <1>4, <1>5, <2>1, <2>3
  <2>5. Made(x, 1) = 0 /\ Made(x, 2) = d2 /\ Made(x, 3) \in Int /\ Made(x, 4) \in Int
    <3>1. /\ s1 * g1[1] + d1 * g2[1] + s3 * 0 + s4 * 0 = d2 * 0
          /\ s1 * g1[2] + d1 * g2[2] + s3 * 0 + s4 * 0 = d2 * 1
      BY <2>2 DEF E2, E3, E4
    <3>2. s3 * 0 = 0 /\ s4 * 0 = 0 /\ d2 * 0 = 0 /\ d2 * 1 = d2
      BY <1>4, <2>1
    <3>3. \A k \in 1 .. 4 : s1 * g1[k] + d1 * g2[k] \in Int
      BY <1>4, <1>5, <2>1
    <3> QED
      BY <2>4, <3>1, <3>2, <3>3
  <2>6. x[1] * Made(x, 1) + x[2] * Made(x, 2) + x[3] * Made(x, 3) + x[4] * Made(x, 4) = d1 * d2
    BY <1>4, <2>1, <2>3, <2>5
  <2>7. m \in 1 .. 4 /\ Made(x, m) = d2
    BY <2>5
  <2> HIDE DEF m
  <2> QED
    BY <1>4, <1>6, <2>3, <2>6, <2>7, Rising
<1>8. d3 \in Nat
  <2> DEFINE s1 == Rotors!Determinant(E3, g2, g3, E4)
             s2 == Rotors!Determinant(g1, E3, g3, E4)
             s4 == Rotors!Determinant(g1, g2, g3, E3)
             x == <<s1, s2, d2, 0>>
             m == 3
  <2>1. s1 \in Int /\ s2 \in Int /\ s4 \in Int
    BY <1>1, <1>2, DeterminantIsInt
  <2>2. \A k \in 1 .. 4 : s1 * g1[k] + s2 * g2[k] + d2 * g3[k] + s4 * E4[k] = d3 * E3[k]
    <3>1. Combines(g1, g2, g3, E4, E3)
      BY <1>1, <1>2, SolvedIs
    <3> QED
      BY <3>1, Zenon DEF Combines
  <2> HIDE DEF d2, d3, s1, s2, s4
  <2>3. x \in Quadruple /\ x[1] = s1 /\ x[2] = s2 /\ x[3] = d2 /\ x[4] = 0
    BY <1>4, <2>1 DEF Quadruple
  <2> HIDE DEF x
  <2>4. \A k \in 1 .. 4 : Made(x, k) = s1 * g1[k] + s2 * g2[k] + d2 * g3[k]
    BY <1>3, <1>4, <1>5, <2>1, <2>3
  <2>5. Made(x, 1) = 0 /\ Made(x, 2) = 0 /\ Made(x, 3) = d3 /\ Made(x, 4) \in Int
    <3>1. /\ s1 * g1[1] + s2 * g2[1] + d2 * g3[1] + s4 * 0 = d3 * 0
          /\ s1 * g1[2] + s2 * g2[2] + d2 * g3[2] + s4 * 0 = d3 * 0
          /\ s1 * g1[3] + s2 * g2[3] + d2 * g3[3] + s4 * 0 = d3 * 1
      BY <2>2 DEF E3, E4
    <3>2. s4 * 0 = 0 /\ d3 * 0 = 0 /\ d3 * 1 = d3
      BY <1>4, <2>1
    <3>3. \A k \in 1 .. 4 : s1 * g1[k] + s2 * g2[k] + d2 * g3[k] \in Int
      BY <1>4, <1>5, <2>1
    <3> QED
      BY <2>4, <3>1, <3>2, <3>3
  <2>6. x[1] * Made(x, 1) + x[2] * Made(x, 2) + x[3] * Made(x, 3) + x[4] * Made(x, 4) = d2 * d3
    BY <1>4, <2>1, <2>3, <2>5
  <2>7. m \in 1 .. 4 /\ Made(x, m) = d3
    BY <2>5
  <2> HIDE DEF m
  <2> QED
    BY <1>4, <1>7, <2>3, <2>6, <2>7, Rising
<1>9. d4 \in Nat
  <2> DEFINE s1 == Rotors!Determinant(E4, g2, g3, g4)
             s2 == Rotors!Determinant(g1, E4, g3, g4)
             s3 == Rotors!Determinant(g1, g2, E4, g4)
             x == <<s1, s2, s3, d3>>
             m == 4
  <2>1. s1 \in Int /\ s2 \in Int /\ s3 \in Int
    BY <1>1, <1>2, DeterminantIsInt
  <2>2. \A k \in 1 .. 4 : s1 * g1[k] + s2 * g2[k] + s3 * g3[k] + d3 * g4[k] = d4 * E4[k]
    <3>1. Combines(g1, g2, g3, g4, E4)
      BY <1>1, <1>2, SolvedIs
    <3> QED
      BY <3>1, Zenon DEF Combines
  <2> HIDE DEF d3, d4, s1, s2, s3
  <2>3. x \in Quadruple /\ x[1] = s1 /\ x[2] = s2 /\ x[3] = s3 /\ x[4] = d3
    BY <1>4, <2>1 DEF Quadruple
  <2> HIDE DEF x
  <2>4. \A k \in 1 .. 4 : Made(x, k) = s1 * g1[k] + s2 * g2[k] + s3 * g3[k] + d3 * g4[k]
    BY <1>3, <1>4, <1>5, <2>1, <2>3
  <2>5. Made(x, 1) = 0 /\ Made(x, 2) = 0 /\ Made(x, 3) = 0 /\ Made(x, 4) = d4
    <3>1. E4[1] = 0 /\ E4[2] = 0 /\ E4[3] = 0 /\ E4[4] = 1
      BY DEF E4
    <3> QED
      BY <1>4, <2>2, <2>4, <3>1
  <2>6. x[1] * Made(x, 1) + x[2] * Made(x, 2) + x[3] * Made(x, 3) + x[4] * Made(x, 4) = d3 * d4
    BY <1>4, <2>1, <2>3, <2>5
  <2>7. m \in 1 .. 4 /\ Made(x, m) = d4
    BY <2>5
  <2> HIDE DEF m
  <2> QED
    BY <1>4, <1>8, <2>3, <2>6, <2>7, Rising
<1> QED
  BY <1>9 DEF Rotors!Volume, g1, g2, g3, g4

(* A thrust between its stops.                                              *)
LEMMA ThrustIs ==
  ASSUME NEW v \in Int, NEW hi \in Nat
  PROVE  /\ Rotors!Clamp(v, hi) \in 0 .. hi
         /\ Rotors!Clamp(v, hi) \notin {0, hi} => Rotors!Clamp(v, hi) = v
         /\ v \in 0 .. hi => Rotors!Clamp(v, hi) = v
         /\ v = 0 => Rotors!Clamp(v, hi) = 0
<1> DEFINE m == Rotors!Min({hi, v})
<1>1. m = IF hi <= v THEN hi ELSE v
  <2>1. CASE hi <= v
    BY <2>1 DEF Rotors!Min
  <2>2. CASE v < hi
    BY <2>2 DEF Rotors!Min
  <2> QED
    BY <2>1, <2>2
<1> HIDE DEF m
<1>2. m \in Int
  BY <1>1
<1>3. Rotors!Max({0, m}) = IF 0 <= m THEN m ELSE 0
  <2>1. CASE 0 <= m
    BY <1>2, <2>1 DEF Rotors!Max
  <2>2. CASE m < 0
    BY <1>2, <2>2 DEF Rotors!Max
  <2> QED
    BY <1>2, <2>1, <2>2
<1> QED
  BY <1>1, <1>3 DEF Rotors!Clamp, m

(* A quadcopter's motors, as long as the moments leave them room. *)
LEMMA QuadDecouples == Rotors!QuadIsDecoupled
<1> SUFFICES ASSUME NEW w \in Wrenches,
                    (LET size(v) == IF v < 0 THEN -v ELSE v
                     IN  size(w[2]) + size(w[3]) + size(w[4])
                           <= Rotors!MomentScale * Rotors!Min({w[1], 4 * Full - w[1]}))
             PROVE  /\ Rotors!Dot(<<1, 1, 1, 1>>, Rotors!QuadX(w)) = 4 * Rotors!MomentScale * w[1]
                    /\ Rotors!Dot(Rotors!Roll, Rotors!QuadX(w)) = 4 * w[2]
                    /\ Rotors!Dot(Rotors!Pitch, Rotors!QuadX(w)) = 4 * w[3]
                    /\ Rotors!Dot(Rotors!Yaw, Rotors!QuadX(w)) = 4 * w[4]
  BY Zenon DEF Rotors!QuadIsDecoupled
<1> DEFINE w1 == w[1]
           w2 == w[2]
           w3 == w[3]
           w4 == w[4]
           q == Rotors!QuadX(w)
           t1 == 7 * w1 + w2 + w3 + w4
           t2 == 7 * w1 - w2 - w3 + w4
           t3 == 7 * w1 - w2 + w3 - w4
           t4 == 7 * w1 + w2 - w3 - w4
           hi == 28 * Full
           m == Rotors!Min({w1, 4 * Full - w1})
<1>1. w1 \in Int /\ w2 \in Int /\ w3 \in Int /\ w4 \in Int /\ Full \in Nat /\ hi \in Nat
  BY RotorAssumption
<1>2. m \in Int /\ m <= w1 /\ m <= 4 * Full - w1
  <2>1. CASE w1 <= 4 * Full - w1
    BY <1>1, <2>1 DEF Rotors!Min
  <2>2. CASE 4 * Full - w1 < w1
    BY <1>1, <2>2 DEF Rotors!Min
  <2> QED
    BY <1>1, <2>1, <2>2
<1>3. /\ t1 \in 0 .. hi /\ t2 \in 0 .. hi /\ t3 \in 0 .. hi /\ t4 \in 0 .. hi
  <2>1. (IF w2 < 0 THEN -w2 ELSE w2) + (IF w3 < 0 THEN -w3 ELSE w3) + (IF w4 < 0 THEN -w4 ELSE w4) <= 7 * m
    BY DEF Rotors!MomentScale
  <2> HIDE DEF m, w1, w2, w3, w4
  <2> QED
    BY <1>1, <1>2, <2>1
<1>4. q[1] = t1 /\ q[2] = t2 /\ q[3] = t3 /\ q[4] = t4
  <2>1. \A i \in 1 .. 4 :
          q[i] = Rotors!Clamp(7 * w1 + Rotors!Roll[i] * w2 + Rotors!Pitch[i] * w3 + Rotors!Yaw[i] * w4,
                              4 * 7 * Full)
    BY DEF Rotors!QuadX, Rotors!Rows, Rotors!MomentScale
  <2> HIDE DEF q, w1, w2, w3, w4
  <2>2. /\ 7 * w1 + Rotors!Roll[1] * w2 + Rotors!Pitch[1] * w3 + Rotors!Yaw[1] * w4 = t1
        /\ 7 * w1 + Rotors!Roll[2] * w2 + Rotors!Pitch[2] * w3 + Rotors!Yaw[2] * w4 = t2
        /\ 7 * w1 + Rotors!Roll[3] * w2 + Rotors!Pitch[3] * w3 + Rotors!Yaw[3] * w4 = t3
        /\ 7 * w1 + Rotors!Roll[4] * w2 + Rotors!Pitch[4] * w3 + Rotors!Yaw[4] * w4 = t4
        /\ 4 * 7 * Full = hi
    BY <1>1 DEF Rotors!Roll, Rotors!Pitch, Rotors!Yaw
  <2> HIDE DEF t1, t2, t3, t4, hi
  <2>3. q[1] = Rotors!Clamp(t1, hi) /\ q[2] = Rotors!Clamp(t2, hi) /\ q[3] = Rotors!Clamp(t3, hi) /\ q[4] = Rotors!Clamp(t4, hi)
    BY <2>1, <2>2
  <2>4. \A v \in 0 .. hi : Rotors!Clamp(v, hi) = v
    BY <1>1, ThrustIs
  <2> QED
    BY <1>3, <2>3, <2>4
<1> HIDE DEF q, w1, w2, w3, w4
<1>5. /\ Rotors!Dot(<<1, 1, 1, 1>>, q) = 28 * w1 /\ Rotors!Dot(Rotors!Roll, q) = 4 * w2
      /\ Rotors!Dot(Rotors!Pitch, q) = 4 * w3 /\ Rotors!Dot(Rotors!Yaw, q) = 4 * w4
  BY <1>1, <1>4 DEF Rotors!Dot, Rotors!Roll, Rotors!Pitch, Rotors!Yaw
<1> QED
  BY <1>1, <1>5 DEF q, w1, w2, w3, w4, Rotors!MomentScale

(* Few rotors left, or columns that depend on one another. *)
LEMMA EqualSplitAbsorbs ==
  ASSUME healthy \subseteq Rotors!Rotors, NEW w \in Wrenches
  PROVE  Rotors!Absorbed(Rotors!EqualSplit(w), healthy)
<1> DEFINE a == Rotors!EqualSplit(w)
           I == Rotors!Rotors
           n == Rotors!Cardinality(healthy)
           alive == Rotors!Max({1, n})
           t == Rotors!Clamp(w[1], Full * alive)
           f == [i \in I |-> Columns[i][1] * a.out[i]]
<1>1. n = Cardinality(healthy) /\ n \in Nat /\ IsFiniteSet(I)
  BY RotorCardinality, RotorsAre, FS_Subset, FS_CardinalityType
<1>2. alive = IF 1 <= n THEN n ELSE 1
  <2> HIDE DEF n
  <2>1. CASE 1 <= n
    BY <1>1, <2>1 DEF Rotors!Max
  <2>2. CASE n < 1
    BY <1>1, <2>2 DEF Rotors!Max
  <2> QED
    BY <1>1, <2>1, <2>2
<1>3. /\ a.den = alive /\ a.of = w /\ a.ok = FALSE
      /\ a.out = [i \in I |-> IF i \in healthy THEN t ELSE 0]
  BY DEF Rotors!EqualSplit
<1> HIDE DEF a, n, alive
<1>4. alive \in Nat \ {0} /\ Full \in Nat /\ w[1] \in Nat /\ Full * alive \in Nat
  <2>1. alive \in Nat \ {0}
    BY <1>1, <1>2
  <2>2. Full \in Nat /\ w[1] \in Nat
    BY RotorAssumption
  <2> QED
    BY <2>1, <2>2
<1>5. t \in 0 .. Full * alive /\ (w[1] <= Full => t = w[1])
  <2> DEFINE v == w[1]
             hi == Full * alive
  <2>1. v \in Nat /\ hi \in Nat /\ Full <= hi
    <3>1. hi = Full + Full * (alive - 1) /\ alive - 1 \in Nat
      BY <1>4
    <3>2. Full * (alive - 1) \in Nat
      BY <1>4, <3>1
    <3> QED
      BY <1>4, <3>1, <3>2
  <2> HIDE DEF v, hi
  <2>2. Rotors!Clamp(v, hi) \in 0 .. hi /\ (v <= Full => Rotors!Clamp(v, hi) = v)
    BY <1>4, <2>1, ThrustIs
  <2> QED
    BY <2>2 DEF v, hi
<1> HIDE DEF t
<1>6. \A i \in I : a.out[i] \in 0 .. Full * a.den
  BY <1>3, <1>4, <1>5
<1>7. \A i \in I \ healthy : a.out[i] = 0
  BY <1>3
<1>8. ASSUME a.of[1] <= Full
      PROVE  Rotors!SumFunction([i \in Rotors!Rotors |-> Columns[i][1] * a.out[i]]) = a.of[1] * n
  <2>1. \A i \in I : f[i] = IF i \in healthy THEN t ELSE 0
    BY <1>3, <1>4, <1>5, RotorsAre
  <2>2. t = a.of[1] /\ t \in Int
    BY <1>3, <1>4, <1>5, <1>8
  <2>3. Rotors!SumFunction(f) = SumFunctionOnSet(f, I)
    BY RotorSum
  <2> HIDE DEF f, I
  <2>4. SumFunctionOnSet(f, I) = t * Cardinality(healthy)
    BY <1>1, <2>1, <2>2, SumOfSome DEF I
  <2>5. Rotors!SumFunction(f) = a.of[1] * n
    BY <1>1, <2>2, <2>3, <2>4
  <2> QED
    BY <2>5, Zenon DEF f, I
<1>9. ~a.ok /\ (a.ok = FALSE)
  BY <1>3
<1>10. Rotors!Absorbed(a, healthy)
  BY <1>6, <1>7, <1>8, <1>9, Zenon DEF Rotors!Absorbed, n
<1> QED
  BY <1>10 DEF a

(* The pseudo-inverse.  Its determinant is positive; and a rotor that is    *)
(* not at a stop has the product of its column and the solution for thrust, *)
(* so that together they make what Cramer's rule says.                      *)
LEMMA PseudoInverseAbsorbs ==
  ASSUME healthy \subseteq Rotors!Rotors, NEW w \in Wrenches, Rotors!Volume(Rotors!Gram) # 0
  PROVE  Rotors!Absorbed(Rotors!PseudoInverse(Rotors!Gram, w), healthy)
<1> DEFINE a == Rotors!PseudoInverse(Rotors!Gram, w)
           I == Rotors!Rotors
           det == Rotors!Volume(Rotors!Gram)
           v == Rotors!Solved(Rotors!Gram, w)
           hi == Full * det
           D(i) == Rotors!Dot(Rotors!Column(i), v)
<1>1. det \in Nat
  BY VolumeIsNat
<1>2. /\ a.den = det /\ a.of = w /\ a.ok = TRUE /\ a.rounded = FALSE
      /\ a.out = [i \in I |-> Rotors!Clamp(D(i), hi)]
  BY DEF Rotors!PseudoInverse
<1>3. w \in Quadruple
  BY RotorAssumption DEF Quadruple
<1>4. v \in Quadruple /\ \A k \in 1 .. 4 : Made(v, k) = w[k] * det
  <2> DEFINE g1 == Rotors!Gram[1]
             g2 == Rotors!Gram[2]
             g3 == Rotors!Gram[3]
             g4 == Rotors!Gram[4]
             v1 == Rotors!Determinant(w, g2, g3, g4)
             v2 == Rotors!Determinant(g1, w, g3, g4)
             v3 == Rotors!Determinant(g1, g2, w, g4)
             v4 == Rotors!Determinant(g1, g2, g3, w)
  <2>1. g1 \in Quadruple /\ g2 \in Quadruple /\ g3 \in Quadruple /\ g4 \in Quadruple
    BY GramIs
  <2>2. v = <<v1, v2, v3, v4>> /\ det = Rotors!Determinant(g1, g2, g3, g4)
    BY Zenon DEF Rotors!Solved, Rotors!Volume
  <2>3. \A x : \A k : Made(x, k) = x[1] * g1[k] + x[2] * g2[k] + x[3] * g3[k] + x[4] * g4[k]
    BY Zenon DEF Made
  <2> HIDE DEF g1, g2, g3, g4, v, det
  <2>4. v1 \in Int /\ v2 \in Int /\ v3 \in Int /\ v4 \in Int
    BY <1>3, <2>1, DeterminantIsInt
  <2>5. \A k \in 1 .. 4 : v1 * g1[k] + v2 * g2[k] + v3 * g3[k] + v4 * g4[k] = det * w[k]
    <3>1. Combines(g1, g2, g3, g4, w)
      BY <1>3, <2>1, SolvedIs
    <3> QED
      BY <2>2, <3>1, Zenon DEF Combines
  <2> HIDE DEF v1, v2, v3, v4
  <2>6. v \in Quadruple /\ v[1] = v1 /\ v[2] = v2 /\ v[3] = v3 /\ v[4] = v4
    BY <2>2, <2>4 DEF Quadruple
  <2>7. \A k \in 1 .. 4 : Made(v, k) = det * w[k]
    BY <2>3, <2>5, <2>6, Zenon
  <2>8. \A k \in 1 .. 4 : w[k] \in Int /\ det * w[k] = w[k] * det
    BY <1>1, <1>3 DEF Quadruple
  <2> QED
    BY <2>6, <2>7, <2>8
<1> HIDE DEF a, v, det
<1>5. hi \in Nat
  BY <1>1, RotorAssumption
<1>6. \A i \in I : D(i) \in Int
  BY <1>4, DotIs
<1>7. \A i \in I : /\ a.out[i] \in 0 .. hi
                   /\ a.out[i] \notin {0, hi} => a.out[i] = D(i)
                   /\ D(i) = 0 => a.out[i] = 0
  <2>1. \A x \in Int : /\ Rotors!Clamp(x, hi) \in 0 .. hi
                       /\ Rotors!Clamp(x, hi) \notin {0, hi} => Rotors!Clamp(x, hi) = x
                       /\ x = 0 => Rotors!Clamp(x, hi) = 0
    <3> HIDE DEF hi
    <3> QED
      BY <1>5, ThrustIs
  <2>2. \A i \in I : a.out[i] = Rotors!Clamp(D(i), hi)
    BY <1>2
  <2> HIDE DEF hi, D, I
  <2> QED
    BY <1>6, <2>1, <2>2, Zenon
<1>8. \A i \in I \ healthy : a.out[i] = 0 /\ D(i) = 0
  <2>1. ASSUME NEW i \in I \ healthy PROVE D(i) = 0
    <3>1. Rotors!Column(i) = <<0, 0, 0, 0>>
      BY DEF Rotors!Column
    <3>2. v[1] \in Int /\ v[2] \in Int /\ v[3] \in Int /\ v[4] \in Int
      BY <1>4, QuadrupleIs
    <3> QED
      BY <3>1, <3>2 DEF Rotors!Dot
  <2> QED
    BY <1>7, <2>1
<1>9. ASSUME {i \in healthy : a.out[i] \in {0, Full * a.den}} = {}, NEW k \in Rotors!Rows
      PROVE  Rotors!SumFunction([i \in Rotors!Rotors |-> Columns[i][k] * a.out[i]]) = a.of[k] * a.den
  <2> DEFINE f == [i \in I |-> Columns[i][k] * a.out[i]]
             g == [i \in I |-> Rotors!Column(i)[k] * D(i)]
  <2>1. k \in 1 .. 4
    BY DEF Rotors!Rows
  <2>2. ASSUME NEW i \in I PROVE f[i] = g[i]
    <3>1. CASE i \in healthy
      <4>1. a.out[i] = D(i)
        BY <1>2, <1>7, <1>9, <3>1
      <4>2. Rotors!Column(i) = Columns[i]
        BY <3>1 DEF Rotors!Column
      <4> QED
        BY <4>1, <4>2
    <3>2. CASE i \notin healthy
      <4>1. a.out[i] = 0 /\ D(i) = 0
        BY <1>8, <3>2
      <4>2. Columns[i][k] \in Int /\ Rotors!Column(i)[k] \in Int
        BY <2>1, ColumnIs, RotorsAre DEF Quadruple
      <4>3. f[i] = Columns[i][k] * 0 /\ g[i] = Rotors!Column(i)[k] * 0
        BY <4>1
      <4> QED
        BY <4>2, <4>3
    <3> QED
      BY <3>1, <3>2
  <2>3. f = g
    BY <2>2
  <2>4. Rotors!SumFunction(f) = SumFunctionOnSet(f, I)
    BY RotorSum
  <2>5. SumFunctionOnSet(g, I) = Made(v, k)
    BY <1>4, <2>1, MadeIs, Zenon
  <2> HIDE DEF f, g
  <2>6. Rotors!SumFunction(f) = w[k] * det
    BY <1>4, <2>1, <2>3, <2>4, <2>5
  <2> QED
    BY <1>2, <2>6, Zenon DEF f, I
<1>10. a.ok /\ \A i \in I : a.out[i] \in 0 .. Full * a.den
  BY <1>2, <1>7
<1>11. Rotors!Absorbed(a, healthy)
  BY <1>8, <1>9, <1>10, Zenon DEF Rotors!Absorbed
<1> QED
  BY <1>11 DEF a

(* A rounding error in place of the inverse: every rotor at a stop. *)
LEMMA RoundedAbsorbs ==
  ASSUME healthy \subseteq Rotors!Rotors, NEW w \in Wrenches, NEW a \in Rotors!Rounded(w)
  PROVE  Rotors!Absorbed(a, healthy)
<1>1. PICK up \in {{}, healthy} :
        a = [of |-> w, den |-> 1, ok |-> TRUE, rounded |-> TRUE,
             out |-> [i \in Rotors!Rotors |-> IF i \in up THEN Full ELSE 0]]
  BY DEF Rotors!Rounded
<1>2. a.den = 1 /\ a.ok /\ a.rounded /\ \A i \in Rotors!Rotors : a.out[i] = IF i \in up THEN Full ELSE 0
  BY <1>1
<1>3. Full \in Nat /\ Full * a.den = Full
  BY <1>2, RotorAssumption
<1>4. \A i \in Rotors!Rotors : a.out[i] \in 0 .. Full * a.den
  BY <1>2, <1>3
<1>5. \A i \in Rotors!Rotors \ healthy : a.out[i] = 0
  BY <1>2
<1> QED
  BY <1>2, <1>4, <1>5, Zenon DEF Rotors!Absorbed

(* The healthy ones are rotors, and the last allocation is sound. *)
RotorInv ==
  /\ healthy \subseteq Rotors!Rotors
  /\ \A a \in order : Rotors!Absorbed(a, healthy)

LEMMA RotorInvHolds ==
  ASSUME RotorInv, [Rotors!RotorNext]_(Rotors!rotorVars)
  PROVE  RotorInv'
<1>0. healthy \subseteq Rotors!Rotors
  BY DEF RotorInv
<1>1. ASSUME NEW i \in Rotors!Rotors, Rotors!Fail(i) \/ Rotors!Restore(i) PROVE RotorInv'
  <2>1. healthy' \subseteq Rotors!Rotors /\ order' = {}
    BY <1>0, <1>1 DEF Rotors!Fail, Rotors!Restore
  <2> QED
    BY <2>1 DEF RotorInv, Rotors!Rotors
<1>2. ASSUME NEW w \in Wrenches, Rotors!Allocate(w) PROVE RotorInv'
  <2>1. PICK a : /\ order' = {a}
                 /\ \/ a = Rotors!EqualSplit(w)
                    \/ a \in Rotors!Rounded(w)
                    \/ Rotors!Volume(Rotors!Gram) # 0 /\ a = Rotors!PseudoInverse(Rotors!Gram, w)
    BY <1>2, Zenon DEF Rotors!Allocate
  <2>2. Rotors!Absorbed(a, healthy)
    BY <1>0, <2>1, EqualSplitAbsorbs, RoundedAbsorbs, PseudoInverseAbsorbs
  <2>3. healthy' = healthy
    BY <1>2 DEF Rotors!Allocate
  <2>4. Rotors!Absorbed(a, healthy')
    BY <2>2, <2>3
  <2>5. \A b \in order' : Rotors!Absorbed(b, healthy')
    BY <2>1, <2>4
  <2>6. healthy' \subseteq Rotors!Rotors
    BY <1>0, <2>3
  <2> QED
    BY <2>5, <2>6, Zenon DEF RotorInv, Rotors!Rotors, Rotors!Absorbed
<1>3. CASE UNCHANGED Rotors!rotorVars
  BY <1>3 DEF RotorInv, Rotors!rotorVars, Rotors!Rotors, Rotors!Absorbed
<1> QED
  BY <1>1, <1>2, <1>3 DEF Rotors!RotorNext

(* Whichever rotors fail and come back, wherever they are and whatever is   *)
(* asked for: no failed rotor is commanded a thrust, and unless one is at a *)
(* stop the others make exactly the wrench, or its collective thrust.       *)
THEOREM RotorFaultsAreAbsorbed == UnitsSpec => []FaultsAreAbsorbed
<1>1. UnitsInit => RotorInv
  BY DEF UnitsInit, Rotors!RotorInit, RotorInv
<1>2. RotorInv /\ [UnitsNext]_unitVars => RotorInv'
  BY UnitsSteps, RotorInvHolds
<1>3. RotorInv => FaultsAreAbsorbed
  BY QuadDecouples, Zenon DEF RotorInv, FaultsAreAbsorbed, Rotors!FaultsAreAbsorbed
<1> QED
  BY <1>1, <1>2, <1>3, PTL DEF UnitsSpec
=============================================================================
