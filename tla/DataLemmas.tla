----------------------------- MODULE DataLemmas -----------------------------
(***************************************************************************)
(* Facts about data that several proofs need: remainders (the rate divisor *)
(* of the navigation loop, the index arithmetic of the ring buffers), and  *)
(* induction over numbers and finite sets, from which sums and extremes    *)
(* follow (the voters' scores and averages).                               *)
(***************************************************************************)
EXTENDS Integers, Functions, WellFoundedInduction, FiniteSetTheorems, TLAPS

(* Remainder and quotient. *)
LEMMA ModRange ==
  ASSUME NEW x \in Nat, NEW d \in Nat \ {0}
  PROVE  x % d \in 0 .. d - 1 /\ x \div d \in Int /\ x = d * (x \div d) + (x % d)
  OBVIOUS

(* A multiple of d smaller than d is zero. *)
LEMMA SmallMultiple ==
  ASSUME NEW c \in Int, NEW d \in Nat \ {0}, -d < d * c, d * c < d
  PROVE  c = 0
<1>1. CASE c >= 1
  <2>1. d * c = d + d * (c - 1) /\ c - 1 \in Nat
    BY <1>1
  <2>2. d * (c - 1) \in Nat
    BY <2>1
  <2> QED
    BY <2>1, <2>2
<1>2. CASE c <= -1
  <2>1. d * c = -d - d * (-c - 1) /\ -c - 1 \in Nat
    BY <1>2
  <2>2. d * (-c - 1) \in Nat
    BY <2>1
  <2> QED
    BY <2>1, <2>2
<1> QED
  BY <1>1, <1>2

(* Division with remainder is unique. *)
LEMMA DivUnique ==
  ASSUME NEW d \in Nat \ {0}, NEW a \in Int, NEW b \in Int,
         NEW r \in 0 .. d - 1, NEW s \in 0 .. d - 1, d * a + r = d * b + s
  PROVE  r = s
<1>1. d * (a - b) = d * a - d * b
  OBVIOUS
<1>2. d * (a - b) = s - r
  BY <1>1
<1>3. a - b = 0
  BY <1>2, SmallMultiple
<1> QED
  BY <1>2, <1>3

(* The remainder of the next number. *)
LEMMA ModStep ==
  ASSUME NEW x \in Nat, NEW d \in Nat \ {0}
  PROVE  (x + 1) % d = IF (x % d) + 1 = d THEN 0 ELSE (x % d) + 1
<1>1. /\ x % d \in 0 .. d - 1 /\ x \div d \in Int
      /\ x = d * (x \div d) + (x % d)
  BY ModRange
<1>2. /\ (x + 1) % d \in 0 .. d - 1 /\ (x + 1) \div d \in Int
      /\ x + 1 = d * ((x + 1) \div d) + ((x + 1) % d)
  BY ModRange
<1>3. CASE (x % d) + 1 = d
  <2>1. d * (x \div d + 1) = d * (x \div d) + d
    BY <1>1
  <2>2. d * (x \div d + 1) + 0 = d * ((x + 1) \div d) + ((x + 1) % d)
    BY <1>1, <1>2, <1>3, <2>1
  <2>3. x \div d + 1 \in Int /\ 0 \in 0 .. d - 1
    BY <1>1
  <2>4. (x + 1) % d = 0
    BY <1>2, <2>2, <2>3, DivUnique
  <2> QED
    BY <1>3, <2>4
<1>4. CASE (x % d) + 1 # d
  <2>1. (x % d) + 1 \in 0 .. d - 1
    BY <1>1, <1>4
  <2>2. d * (x \div d) + ((x % d) + 1) = d * ((x + 1) \div d) + ((x + 1) % d)
    BY <1>1, <1>2
  <2>3. (x + 1) % d = (x % d) + 1
    BY <1>1, <1>2, <2>1, <2>2, DivUnique
  <2> QED
    BY <1>4, <2>3
<1> QED
  BY <1>3, <1>4

(* The remainder of a number one division away from being one. *)
LEMMA WrapOnce ==
  ASSUME NEW d \in Nat \ {0}, NEW h \in 0 .. d - 1, NEW k \in 0 .. d
  PROVE  (h + k) % d = IF h + k < d THEN h + k ELSE h + k - d
<1>1. /\ (h + k) % d \in 0 .. d - 1 /\ (h + k) \div d \in Int
      /\ h + k = d * ((h + k) \div d) + ((h + k) % d)
  BY ModRange
<1>2. CASE h + k < d
  <2>1. d * 0 + (h + k) = d * ((h + k) \div d) + ((h + k) % d) /\ h + k \in 0 .. d - 1
    BY <1>1, <1>2
  <2>2. (h + k) % d = h + k
    BY <1>1, <2>1, DivUnique
  <2> QED
    BY <1>2, <2>2
<1>3. CASE ~(h + k < d)
  <2>1. /\ d * 1 + (h + k - d) = d * ((h + k) \div d) + ((h + k) % d)
        /\ h + k - d \in 0 .. d - 1
    BY <1>1, <1>3
  <2>2. (h + k) % d = h + k - d
    BY <1>1, <2>1, DivUnique
  <2> QED
    BY <1>3, <2>2
<1> QED
  BY <1>2, <1>3

-----------------------------------------------------------------------------
(* A nonempty set of natural numbers has a least member.                    *)
LEMMA Least ==
  ASSUME NEW T \in SUBSET Nat, T # {}
  PROVE  \E n \in T : \A m \in T : n <= m
<1>1. IsWellFoundedOn(OpToRel(<, Nat), Nat)
  BY NatLessThanWellFounded, Zenon
<1>2. PICK x \in T : \A y \in T : ~ (<<y, x>> \in OpToRel(<, Nat))
  BY <1>1, WFMin, Zenon
<1>3. ASSUME NEW y \in T PROVE x <= y
  <2>1. <<y, x>> \notin {ss \in Nat \X Nat : ss[1] < ss[2]}
    BY <1>2, Zenon DEF OpToRel
  <2> QED
    BY <2>1
<1> QED
  BY <1>3

(* Induction, for a set: the library's theorems take a predicate, which     *)
(* the provers cannot instantiate.                                          *)
LEMMA NatSetInduction ==
  ASSUME NEW S \in SUBSET Nat, 0 \in S, \A n \in S : n + 1 \in S
  PROVE  S = Nat
<1> SUFFICES ASSUME Nat \ S # {} PROVE FALSE
  OBVIOUS
<1>1. PICK n \in Nat \ S : \A m \in Nat \ S : n <= m
  BY Least
<1>2. n # 0 /\ n - 1 \in Nat
  BY <1>1
<1>3. n - 1 \in S
  BY <1>1, <1>2
<1>4. (n - 1) + 1 \in S
  BY <1>3
<1> QED
  BY <1>1, <1>4

-----------------------------------------------------------------------------
(* The member that the folds of the community modules take from s first,    *)
(* and one step of the sum they build.                                      *)
PickOf(s) == CHOOSE x \in s : TRUE
SumStep(f, g, s) == IF s = {} THEN 0 ELSE f[PickOf(s)] + g[s \ {PickOf(s)}]

(* Induction over a finite set, in the order in which the folds consume it. *)
LEMMA SubsetInduction ==
  ASSUME NEW I, IsFiniteSet(I), NEW Q \in SUBSET (SUBSET I), {} \in Q,
         \A s \in SUBSET I : s # {} /\ s \ {PickOf(s)} \in Q => s \in Q
  PROVE  I \in Q
<1> DEFINE K == {n \in Nat : \A s \in SUBSET I : Cardinality(s) = n => s \in Q}
<1>0. \A s \in SUBSET I : IsFiniteSet(s) /\ Cardinality(s) \in Nat
  BY FS_Subset, FS_CardinalityType
<1>1. 0 \in K
  BY <1>0, FS_EmptySet
<1>2. ASSUME NEW n \in K PROVE n + 1 \in K
  <2> SUFFICES ASSUME NEW s \in SUBSET I, Cardinality(s) = n + 1 PROVE s \in Q
    OBVIOUS
  <2>1. IsFiniteSet(s)
    BY <1>0
  <2>2. n \in Nat /\ s # {}
    <3>1. n \in Nat /\ Cardinality({}) = 0
      BY FS_EmptySet
    <3> QED
      BY <3>1
  <2>3. PickOf(s) \in s
    BY <2>2 DEF PickOf
  <2>4. Cardinality(s \ {PickOf(s)}) = n
    <3>1. Cardinality(s \ {PickOf(s)}) = Cardinality(s) - 1
      BY <2>1, <2>3, FS_RemoveElement
    <3> QED
      BY <2>2, <3>1
  <2>5. s \ {PickOf(s)} \in Q
    BY <2>4
  <2> QED
    BY <2>2, <2>5
<1>3. K = Nat
  <2> HIDE DEF K
  <2>1. K \in SUBSET Nat
    BY DEF K
  <2> QED
    BY <1>1, <1>2, <2>1, NatSetInduction
<1> QED
  BY <1>0, <1>3

(* g is the table of the sums of f over the subsets of I.                   *)
IsSum(f, I, g) == g = [s \in SUBSET I |-> SumStep(f, g, s)]

(* There is such a table, by induction on the size of the subsets.          *)
LEMMA SumExists ==
  ASSUME NEW I, IsFiniteSet(I), NEW f
  PROVE  \E g : IsSum(f, I, g)
<1> DEFINE Lvl(k) == {s \in SUBSET I : Cardinality(s) <= k}
           K == {k \in Nat : \E g : g = [s \in Lvl(k) |-> SumStep(f, g, s)]}
<1>0. \A s \in SUBSET I : IsFiniteSet(s) /\ Cardinality(s) \in Nat
  BY FS_Subset, FS_CardinalityType
<1>1. 0 \in K
  <2> DEFINE g == [s \in Lvl(0) |-> 0]
  <2>1. \A s \in Lvl(0) : s = {}
    BY <1>0, FS_EmptySet
  <2>2. \A s \in Lvl(0) : SumStep(f, g, s) = 0
    BY <2>1 DEF SumStep
  <2>3. g = [s \in Lvl(0) |-> SumStep(f, g, s)]
    BY <2>2
  <2> QED
    BY <2>3
<1>2. ASSUME NEW k \in K PROVE k + 1 \in K
  <2>1. PICK g : g = [s \in Lvl(k) |-> SumStep(f, g, s)]
    OBVIOUS
  <2> DEFINE h == [s \in Lvl(k + 1) |-> SumStep(f, g, s)]
  <2>2. \A s \in Lvl(k) : s \in Lvl(k + 1) /\ h[s] = g[s]
    <3> SUFFICES ASSUME NEW s \in Lvl(k) PROVE s \in Lvl(k + 1) /\ h[s] = g[s]
      OBVIOUS
    <3>1. s \in Lvl(k + 1)
      BY <1>0
    <3>2. h[s] = SumStep(f, g, s)
      BY <3>1
    <3>3. g[s] = SumStep(f, g, s)
      <4> HIDE DEF Lvl
      <4> QED BY <2>1
    <3> QED
      BY <3>1, <3>2, <3>3
  <2>3. ASSUME NEW s \in Lvl(k + 1) PROVE SumStep(f, g, s) = SumStep(f, h, s)
    <3>1. CASE s = {}
      BY <3>1 DEF SumStep
    <3>2. CASE s # {}
      <4>1. PickOf(s) \in s
        BY <3>2 DEF PickOf
      <4>2. Cardinality(s \ {PickOf(s)}) = Cardinality(s) - 1
        BY <1>0, <4>1, FS_RemoveElement
      <4>3. s \ {PickOf(s)} \in Lvl(k)
        BY <1>0, <4>2
      <4>4. h[s \ {PickOf(s)}] = g[s \ {PickOf(s)}]
        BY <2>2, <4>3
      <4> QED
        BY <3>2, <4>4, Zenon DEF SumStep
    <3> QED
      BY <3>1, <3>2
  <2>4. h = [s \in Lvl(k + 1) |-> SumStep(f, h, s)]
    <3> HIDE DEF Lvl
    <3>1. \A s \in Lvl(k + 1) : SumStep(f, g, s) = SumStep(f, h, s)
      BY <2>3
    <3> QED
      BY <3>1, Zenon
  <2> QED
    <3>1. \E q : q = [s \in Lvl(k + 1) |-> SumStep(f, q, s)]
      <4> HIDE DEF Lvl
      <4> QED
        BY <2>4, Zenon
    <3>2. k + 1 \in Nat
      OBVIOUS
    <3> HIDE DEF Lvl
    <3> QED
      BY <3>1, <3>2, Zenon
<1>3. K = Nat
  <2> HIDE DEF K
  <2>1. K \in SUBSET Nat
    BY DEF K
  <2> QED
    BY <1>1, <1>2, <2>1, NatSetInduction
<1>4. Cardinality(I) \in Nat /\ Lvl(Cardinality(I)) = SUBSET I
  BY <1>0, FS_Subset
<1>5. \E g : g = [s \in Lvl(Cardinality(I)) |-> SumStep(f, g, s)]
  <2> HIDE DEF Lvl
  <2> QED
    BY <1>3, <1>4
<1> HIDE DEF Lvl, K
<1> QED
  BY <1>4, <1>5, Zenon DEF IsSum

(* What a proof by induction needs of that table.                           *)
SumTable(f, I, g) ==
  /\ SumFunctionOnSet(f, I) = g[I]
  /\ g[{}] = 0
  /\ \A s \in SUBSET I : s # {} => g[s] = f[PickOf(s)] + g[s \ {PickOf(s)}]

(* The community modules' sum is read off such a table.                     *)
LEMMA SumUnfolds ==
  ASSUME NEW I, IsFiniteSet(I), NEW f
  PROVE  \E g : SumTable(f, I, g)
<1> DEFINE iter == CHOOSE g : IsSum(f, I, g)
<1>1. IsSum(f, I, iter)
  <2>1. \E g : IsSum(f, I, g)
    BY SumExists
  <2> QED
    BY <2>1, Zenon
<1>2. SumFunctionOnSet(f, I) = iter[I]
  BY Zenon DEF SumFunctionOnSet, FoldFunctionOnSet, MapThenFoldSet, SumStep, PickOf, IsSum
<1> HIDE DEF iter
<1>3. \A s \in SUBSET I : iter[s] = SumStep(f, iter, s)
  BY <1>1, Zenon DEF IsSum
<1>4. iter[{}] = 0
  BY <1>3 DEF SumStep
<1>5. \A s \in SUBSET I : s # {} => iter[s] = f[PickOf(s)] + iter[s \ {PickOf(s)}]
  BY <1>3 DEF SumStep
<1> QED
  BY <1>2, <1>4, <1>5, Zenon DEF SumTable

(* A sum of integers is an integer.                                         *)
LEMMA SumType ==
  ASSUME NEW I, IsFiniteSet(I), NEW f, \A i \in I : f[i] \in Int
  PROVE  SumFunctionOnSet(f, I) \in Int
<1>1. PICK g : SumTable(f, I, g)
  BY SumUnfolds, Zenon
<1> DEFINE Q == {s \in SUBSET I : g[s] \in Int}
<1>2. {} \in Q
  BY <1>1 DEF SumTable
<1>3. ASSUME NEW s \in SUBSET I, s # {}, s \ {PickOf(s)} \in Q PROVE s \in Q
  <2>1. PickOf(s) \in s
    BY <1>3 DEF PickOf
  <2>2. g[s] = f[PickOf(s)] + g[s \ {PickOf(s)}]
    BY <1>1, <1>3 DEF SumTable
  <2> QED
    BY <1>3, <2>1, <2>2
<1>4. I \in Q
  <2> HIDE DEF Q
  <2>1. Q \in SUBSET (SUBSET I)
    BY DEF Q
  <2> QED
    BY <1>2, <1>3, <2>1, SubsetInduction
<1> QED
  BY <1>1, <1>4 DEF SumTable

(* Sums compare as their terms do.                                          *)
LEMMA SumLe ==
  ASSUME NEW I, IsFiniteSet(I), NEW f, NEW h,
         \A i \in I : f[i] \in Int /\ h[i] \in Int /\ f[i] <= h[i]
  PROVE  SumFunctionOnSet(f, I) <= SumFunctionOnSet(h, I)
<1>1. PICK g : SumTable(f, I, g)
  BY SumUnfolds, Zenon
<1>2. PICK k : SumTable(h, I, k)
  BY SumUnfolds, Zenon
<1> DEFINE Q == {s \in SUBSET I : g[s] \in Int /\ k[s] \in Int /\ g[s] <= k[s]}
<1>3. {} \in Q
  BY <1>1, <1>2 DEF SumTable
<1>4. ASSUME NEW s \in SUBSET I, s # {}, s \ {PickOf(s)} \in Q PROVE s \in Q
  <2>1. PickOf(s) \in s
    BY <1>4 DEF PickOf
  <2>2. /\ g[s] = f[PickOf(s)] + g[s \ {PickOf(s)}]
        /\ k[s] = h[PickOf(s)] + k[s \ {PickOf(s)}]
    BY <1>1, <1>2, <1>4 DEF SumTable
  <2> QED
    BY <1>4, <2>1, <2>2
<1>5. I \in Q
  <2> HIDE DEF Q
  <2>1. Q \in SUBSET (SUBSET I)
    BY DEF Q
  <2> QED
    BY <1>3, <1>4, <2>1, SubsetInduction
<1> QED
  BY <1>1, <1>2, <1>5 DEF SumTable

(* The sum of the sums of two functions.                                    *)
LEMMA SumAdd ==
  ASSUME NEW I, IsFiniteSet(I), NEW f, NEW e, NEW h,
         \A i \in I : f[i] \in Int /\ e[i] \in Int /\ h[i] = f[i] + e[i]
  PROVE  SumFunctionOnSet(h, I) = SumFunctionOnSet(f, I) + SumFunctionOnSet(e, I)
<1>1. PICK g : SumTable(f, I, g)
  BY SumUnfolds, Zenon
<1>2. PICK d : SumTable(e, I, d)
  BY SumUnfolds, Zenon
<1>3. PICK k : SumTable(h, I, k)
  BY SumUnfolds, Zenon
<1> DEFINE Q == {s \in SUBSET I : g[s] \in Int /\ d[s] \in Int /\ k[s] = g[s] + d[s]}
<1>4. {} \in Q
  BY <1>1, <1>2, <1>3 DEF SumTable
<1>5. ASSUME NEW s \in SUBSET I, s # {}, s \ {PickOf(s)} \in Q PROVE s \in Q
  <2>1. PickOf(s) \in s
    BY <1>5 DEF PickOf
  <2>2. /\ g[s] = f[PickOf(s)] + g[s \ {PickOf(s)}]
        /\ d[s] = e[PickOf(s)] + d[s \ {PickOf(s)}]
        /\ k[s] = h[PickOf(s)] + k[s \ {PickOf(s)}]
    BY <1>1, <1>2, <1>3, <1>5 DEF SumTable
  <2> QED
    BY <1>5, <2>1, <2>2
<1>6. I \in Q
  <2> HIDE DEF Q
  <2>1. Q \in SUBSET (SUBSET I)
    BY DEF Q
  <2> QED
    BY <1>4, <1>5, <2>1, SubsetInduction
<1> QED
  BY <1>1, <1>2, <1>3, <1>6 DEF SumTable

(* A sum of equal terms. *)
LEMMA SumConst ==
  ASSUME NEW I, IsFiniteSet(I), NEW c \in Int, NEW f, \A i \in I : f[i] = c
  PROVE  SumFunctionOnSet(f, I) = c * Cardinality(I)
<1>0. \A s \in SUBSET I : IsFiniteSet(s) /\ Cardinality(s) \in Nat
  BY FS_Subset, FS_CardinalityType
<1>1. PICK g : SumTable(f, I, g)
  BY SumUnfolds, Zenon
<1> DEFINE Q == {s \in SUBSET I : g[s] = c * Cardinality(s)}
<1>2. {} \in Q
  <2>1. Cardinality({}) = 0
    BY FS_EmptySet
  <2> QED
    BY <1>1, <2>1 DEF SumTable
<1>3. ASSUME NEW s \in SUBSET I, s # {}, s \ {PickOf(s)} \in Q PROVE s \in Q
  <2>1. PickOf(s) \in s
    BY <1>3 DEF PickOf
  <2>2. g[s] = f[PickOf(s)] + g[s \ {PickOf(s)}]
    BY <1>1, <1>3 DEF SumTable
  <2>3. Cardinality(s \ {PickOf(s)}) = Cardinality(s) - 1
    BY <1>0, <2>1, FS_RemoveElement
  <2>4. g[s] = c + c * (Cardinality(s) - 1)
    BY <1>3, <2>1, <2>2, <2>3
  <2>5. c + c * (Cardinality(s) - 1) = c * Cardinality(s)
    BY <1>0
  <2> QED
    BY <2>4, <2>5
<1>4. I \in Q
  <2> HIDE DEF Q
  <2>1. Q \in SUBSET (SUBSET I)
    BY DEF Q
  <2> QED
    BY <1>2, <1>3, <2>1, SubsetInduction
<1> QED
  BY <1>1, <1>4 DEF SumTable

(* A sum with a single term that is not zero. *)
LEMMA SumSpike ==
  ASSUME NEW I, IsFiniteSet(I), NEW c \in Int, NEW x \in I, NEW f,
         \A i \in I : f[i] = IF i = x THEN c ELSE 0
  PROVE  SumFunctionOnSet(f, I) = c
<1>1. PICK g : SumTable(f, I, g)
  BY SumUnfolds, Zenon
<1> DEFINE Q == {s \in SUBSET I : g[s] = IF x \in s THEN c ELSE 0}
<1>2. {} \in Q
  BY <1>1 DEF SumTable
<1>3. ASSUME NEW s \in SUBSET I, s # {}, s \ {PickOf(s)} \in Q PROVE s \in Q
  <2>1. PickOf(s) \in s
    BY <1>3 DEF PickOf
  <2>2. g[s] = f[PickOf(s)] + g[s \ {PickOf(s)}]
    BY <1>1, <1>3 DEF SumTable
  <2> QED
    BY <1>3, <2>1, <2>2
<1>4. I \in Q
  <2> HIDE DEF Q
  <2>1. Q \in SUBSET (SUBSET I)
    BY DEF Q
  <2> QED
    BY <1>2, <1>3, <2>1, SubsetInduction
<1> QED
  BY <1>1, <1>4 DEF SumTable

(* A multiple of a sum. *)
LEMMA SumScale ==
  ASSUME NEW I, IsFiniteSet(I), NEW c \in Int, NEW f, NEW h,
         \A i \in I : f[i] \in Int /\ h[i] = c * f[i]
  PROVE  SumFunctionOnSet(h, I) = c * SumFunctionOnSet(f, I)
<1>1. PICK g : SumTable(f, I, g)
  BY SumUnfolds, Zenon
<1>2. PICK k : SumTable(h, I, k)
  BY SumUnfolds, Zenon
<1> DEFINE Q == {s \in SUBSET I : g[s] \in Int /\ k[s] = c * g[s]}
<1>3. {} \in Q
  BY <1>1, <1>2 DEF SumTable
<1>4. ASSUME NEW s \in SUBSET I, s # {}, s \ {PickOf(s)} \in Q PROVE s \in Q
  <2>1. PickOf(s) \in s
    BY <1>4 DEF PickOf
  <2>2. /\ g[s] = f[PickOf(s)] + g[s \ {PickOf(s)}]
        /\ k[s] = h[PickOf(s)] + k[s \ {PickOf(s)}]
    BY <1>1, <1>2, <1>4 DEF SumTable
  <2> DEFINE x == f[PickOf(s)]
             y == g[s \ {PickOf(s)}]
  <2>3. x \in Int /\ y \in Int /\ g[s] = x + y /\ k[s] = c * x + c * y
    BY <1>4, <2>1, <2>2
  <2> HIDE DEF x, y
  <2>4. c * x + c * y = c * (x + y)
    BY <2>3
  <2> QED
    BY <2>3, <2>4
<1>5. I \in Q
  <2> HIDE DEF Q
  <2>1. Q \in SUBSET (SUBSET I)
    BY DEF Q
  <2> QED
    BY <1>3, <1>4, <2>1, SubsetInduction
<1> QED
  BY <1>1, <1>2, <1>5 DEF SumTable

(* A sum of four multiples. *)
IsBlend(h, I, x1, f1, x2, f2, x3, f3, x4, f4) ==
  /\ x1 \in Int /\ x2 \in Int /\ x3 \in Int /\ x4 \in Int
  /\ \A i \in I : /\ f1[i] \in Int /\ f2[i] \in Int /\ f3[i] \in Int /\ f4[i] \in Int
                  /\ h[i] = x1 * f1[i] + x2 * f2[i] + x3 * f3[i] + x4 * f4[i]

LEMMA SumOfFour ==
  ASSUME NEW I, IsFiniteSet(I), NEW x1, NEW x2, NEW x3, NEW x4,
         NEW f1, NEW f2, NEW f3, NEW f4, NEW h,
         IsBlend(h, I, x1, f1, x2, f2, x3, f3, x4, f4)
  PROVE  SumFunctionOnSet(h, I) = x1 * SumFunctionOnSet(f1, I) + x2 * SumFunctionOnSet(f2, I)
                                    + x3 * SumFunctionOnSet(f3, I) + x4 * SumFunctionOnSet(f4, I)
<1>0. /\ x1 \in Int /\ x2 \in Int /\ x3 \in Int /\ x4 \in Int
      /\ \A i \in I : /\ f1[i] \in Int /\ f2[i] \in Int /\ f3[i] \in Int /\ f4[i] \in Int
                      /\ h[i] = x1 * f1[i] + x2 * f2[i] + x3 * f3[i] + x4 * f4[i]
  BY DEF IsBlend
<1> DEFINE m1 == [i \in I |-> x1 * f1[i]]
           m2 == [i \in I |-> x2 * f2[i]]
           m3 == [i \in I |-> x3 * f3[i]]
           m4 == [i \in I |-> x4 * f4[i]]
           s2 == [i \in I |-> m1[i] + m2[i]]
           s3 == [i \in I |-> s2[i] + m3[i]]
<1>1. \A i \in I : /\ m1[i] = x1 * f1[i] /\ m2[i] = x2 * f2[i] /\ m3[i] = x3 * f3[i] /\ m4[i] = x4 * f4[i]
                   /\ s2[i] = m1[i] + m2[i] /\ s3[i] = s2[i] + m3[i]
  OBVIOUS
<1> HIDE DEF m1, m2, m3, m4, s2, s3
<1>2. \A i \in I : m1[i] \in Int /\ m2[i] \in Int /\ m3[i] \in Int /\ m4[i] \in Int
  BY <1>0, <1>1
<1>3. \A i \in I : s2[i] \in Int /\ s3[i] \in Int
  BY <1>1, <1>2
<1>4. \A i \in I : h[i] = s3[i] + m4[i]
  BY <1>0, <1>1, <1>2, <1>3
<1>5. SumFunctionOnSet(m1, I) = x1 * SumFunctionOnSet(f1, I)
  BY <1>0, <1>1, SumScale
<1>6. SumFunctionOnSet(m2, I) = x2 * SumFunctionOnSet(f2, I)
  BY <1>0, <1>1, SumScale
<1>7. SumFunctionOnSet(m3, I) = x3 * SumFunctionOnSet(f3, I)
  BY <1>0, <1>1, SumScale
<1>8. SumFunctionOnSet(m4, I) = x4 * SumFunctionOnSet(f4, I)
  BY <1>0, <1>1, SumScale
<1>9. SumFunctionOnSet(s2, I) = SumFunctionOnSet(m1, I) + SumFunctionOnSet(m2, I)
  BY <1>1, <1>2, SumAdd
<1>10. SumFunctionOnSet(s3, I) = SumFunctionOnSet(s2, I) + SumFunctionOnSet(m3, I)
  BY <1>1, <1>2, <1>3, SumAdd
<1>11. SumFunctionOnSet(h, I) = SumFunctionOnSet(s3, I) + SumFunctionOnSet(m4, I)
  BY <1>2, <1>3, <1>4, SumAdd
<1> QED
  BY ONLY <1>5, <1>6, <1>7, <1>8, <1>9, <1>10, <1>11

(* A sum of which some terms are equal and the others zero. *)
LEMMA SumOfSome ==
  ASSUME NEW I, IsFiniteSet(I), NEW c \in Int, NEW S \in SUBSET I, NEW f,
         \A i \in I : f[i] = IF i \in S THEN c ELSE 0
  PROVE  SumFunctionOnSet(f, I) = c * Cardinality(S)
<1>1. PICK g : SumTable(f, I, g)
  BY SumUnfolds, Zenon
<1>0. \A s \in SUBSET I : IsFiniteSet(s \cap S) /\ Cardinality(s \cap S) \in Nat
  BY FS_Subset, FS_CardinalityType
<1> DEFINE Q == {s \in SUBSET I : g[s] = c * Cardinality(s \cap S)}
<1>2. {} \in Q
  <2>1. Cardinality({}) = 0 /\ {} \cap S = {}
    BY FS_EmptySet
  <2> QED
    BY <1>1, <2>1 DEF SumTable
<1>3. ASSUME NEW s \in SUBSET I, s # {}, s \ {PickOf(s)} \in Q PROVE s \in Q
  <2> DEFINE p == PickOf(s)
             n == Cardinality(s \cap S)
             m == Cardinality((s \ {p}) \cap S)
  <2>1. p \in s
    BY <1>3 DEF PickOf
  <2>2. g[s] = f[p] + g[s \ {p}] /\ g[s \ {p}] = c * m
    BY <1>1, <1>3 DEF SumTable
  <2>3. n \in Nat /\ m \in Nat
    BY <1>0
  <2>4. CASE p \in S
    <3>1. (s \ {p}) \cap S = (s \cap S) \ {p} /\ p \in s \cap S
      BY <2>1, <2>4
    <3>6. Cardinality((s \cap S) \ {p}) = Cardinality(s \cap S) - 1
      <4> HIDE DEF p
      <4> QED
        BY <1>0, <3>1, FS_RemoveElement
    <3>2. m = n - 1
      BY <3>1, <3>6
    <3>3. f[p] = c
      BY <2>1, <2>4
    <3> HIDE DEF n, m, p
    <3>4. c + c * (n - 1) = c * n
      BY <2>3
    <3>5. g[s] = c * n
      BY <2>2, <3>2, <3>3, <3>4
    <3> QED
      BY <3>5 DEF n
  <2>5. CASE p \notin S
    <3>1. (s \ {p}) \cap S = s \cap S
      BY <2>5
    <3>2. f[p] = 0 /\ m = n
      BY <2>1, <2>5, <3>1
    <3> HIDE DEF n, m, p
    <3>3. g[s] = c * n
      BY <2>2, <2>3, <3>2
    <3> QED
      BY <3>3 DEF n
  <2> QED
    BY <2>4, <2>5
<1>4. I \in Q
  <2> HIDE DEF Q
  <2>1. Q \in SUBSET (SUBSET I)
    BY DEF Q
  <2> QED
    BY <1>2, <1>3, <2>1, SubsetInduction
<1>5. I \cap S = S
  OBVIOUS
<1> QED
  BY <1>1, <1>4, <1>5 DEF SumTable

(* A sum of natural numbers is one, and is zero only if they all are. *)
LEMMA SumOfNats ==
  ASSUME NEW I, IsFiniteSet(I), NEW f, \A i \in I : f[i] \in Nat
  PROVE  /\ SumFunctionOnSet(f, I) \in Nat
         /\ SumFunctionOnSet(f, I) = 0 => \A i \in I : f[i] = 0
<1>1. PICK g : SumTable(f, I, g)
  BY SumUnfolds, Zenon
<1> DEFINE Q == {s \in SUBSET I : g[s] \in Nat /\ \A i \in s : f[i] <= g[s]}
<1>2. {} \in Q
  BY <1>1 DEF SumTable
<1>3. ASSUME NEW s \in SUBSET I, s # {}, s \ {PickOf(s)} \in Q PROVE s \in Q
  <2> DEFINE p == PickOf(s)
             y == g[s \ {p}]
  <2>1. p \in s
    BY <1>3 DEF PickOf
  <2>2. g[s] = f[p] + y
    BY <1>1, <1>3 DEF SumTable
  <2>3. y \in Nat /\ f[p] \in Nat /\ \A i \in s \ {p} : f[i] \in Nat /\ f[i] <= y
    BY <1>3, <2>1
  <2> HIDE DEF p, y
  <2>4. \A i \in s : f[i] <= f[p] + y
    BY <2>3
  <2> QED
    BY <1>3, <2>2, <2>3, <2>4
<1>4. I \in Q
  <2> HIDE DEF Q
  <2>1. Q \in SUBSET (SUBSET I)
    BY DEF Q
  <2> QED
    BY <1>2, <1>3, <2>1, SubsetInduction
<1>5. SumFunctionOnSet(f, I) = g[I]
  BY <1>1 DEF SumTable
<1>6. g[I] \in Nat /\ \A i \in I : f[i] <= g[I]
  BY <1>4
<1> QED
  BY <1>5, <1>6

(* A finite set of integers has a greatest and a least member. *)
LEMMA Extremes ==
  ASSUME NEW S \in SUBSET Int, IsFiniteSet(S), S # {}
  PROVE  /\ \E m \in S : \A x \in S : x <= m
         /\ \E m \in S : \A x \in S : m <= x
<1> DEFINE Q == {s \in SUBSET S : s # {} => /\ \E m \in s : \A x \in s : x <= m
                                            /\ \E m \in s : \A x \in s : m <= x}
<1>1. {} \in Q
  OBVIOUS
<1>2. ASSUME NEW s \in SUBSET S, s # {}, s \ {PickOf(s)} \in Q PROVE s \in Q
  <2>1. PickOf(s) \in s
    BY <1>2 DEF PickOf
  <2>2. CASE s \ {PickOf(s)} = {}
    <3>1. s = {PickOf(s)} /\ PickOf(s) \in Int
      BY <2>1, <2>2
    <3>2. \A x \in s : x = PickOf(s)
      BY <3>1
    <3> QED
      BY <2>1, <3>1, <3>2
  <2>3. CASE s \ {PickOf(s)} # {}
    <3>1. PICK m \in s \ {PickOf(s)} : \A x \in s \ {PickOf(s)} : x <= m
      BY <1>2, <2>3
    <3>2. PICK n \in s \ {PickOf(s)} : \A x \in s \ {PickOf(s)} : n <= x
      BY <1>2, <2>3
    <3>3. \E k \in s : \A x \in s : x <= k
      <4>1. CASE PickOf(s) <= m
        BY <2>1, <3>1, <4>1
      <4>2. CASE ~(PickOf(s) <= m)
        <5>1. ASSUME NEW x \in s PROVE x <= PickOf(s)
          <6>1. x = PickOf(s) \/ x <= m
            BY <3>1
          <6>2. x \in Int /\ m \in Int /\ PickOf(s) \in Int
            BY <2>1
          <6> QED
            BY <4>2, <6>1, <6>2
        <5> QED
          BY <2>1, <5>1
      <4> QED
        BY <4>1, <4>2
    <3>4. \E k \in s : \A x \in s : k <= x
      <4>1. CASE n <= PickOf(s)
        BY <2>1, <3>2, <4>1
      <4>2. CASE ~(n <= PickOf(s))
        <5>1. ASSUME NEW x \in s PROVE PickOf(s) <= x
          <6>1. x = PickOf(s) \/ n <= x
            BY <3>2
          <6>2. x \in Int /\ n \in Int /\ PickOf(s) \in Int
            BY <2>1
          <6> QED
            BY <4>2, <6>1, <6>2
        <5> QED
          BY <2>1, <5>1
      <4> QED
        BY <4>1, <4>2
    <3> QED
      BY <3>3, <3>4
  <2> QED
    BY <2>2, <2>3
<1>3. S \in Q
  <2> HIDE DEF Q
  <2>1. Q \in SUBSET (SUBSET S)
    BY DEF Q
  <2> QED
    BY <1>1, <1>2, <2>1, SubsetInduction
<1> QED
  BY <1>3

(* The values of a function on a finite set are finitely many. *)
LEMMA ImageIsFinite ==
  ASSUME NEW I, IsFiniteSet(I), NEW f
  PROVE  IsFiniteSet({f[i] : i \in I})
<1> DEFINE g == [i \in I |-> f[i]]
<1>1. g \in Surjection(I, {f[i] : i \in I})
  BY DEF Surjection
<1> HIDE DEF g
<1> QED
  BY <1>1, FS_Surjection, Zenon

-----------------------------------------------------------------------------
(* Folds over sequences.  The community modules take the last element off   *)
(* and fold the rest; F is the step, a function of the index and of what    *)
(* the rest came to.                                                        *)
MaxOf(s) == CHOOSE x \in s : \A y \in s : x >= y
FoldStep(base, F, g, s) == IF s = {} THEN base ELSE F[<<MaxOf(s), g[s \ {MaxOf(s)}]>>]
IsFold(n, base, F, g) == g = [s \in SUBSET (1 .. n) |-> FoldStep(base, F, g, s)]

LEMMA MaxIs ==
  ASSUME NEW s \in SUBSET Int, IsFiniteSet(s), s # {}
  PROVE  MaxOf(s) \in s /\ \A y \in s : MaxOf(s) >= y
<1>1. \E m \in s : \A y \in s : m >= y
  <2>1. PICK m \in s : \A y \in s : y <= m
    BY Extremes
  <2>2. \A y \in s : m >= y
    BY <2>1
  <2> QED
    BY <2>2
<1> QED
  BY <1>1 DEF MaxOf

(* The prefixes of the indices: the last of them, and those before it.      *)
LEMMA UpTo ==
  ASSUME NEW n \in Nat, NEW k \in 1 .. n
  PROVE  /\ 1 .. k \in SUBSET (1 .. n) /\ 1 .. k # {}
         /\ MaxOf(1 .. k) = k /\ (1 .. k) \ {k} = 1 .. k - 1
<1>1. k \in 1 .. k /\ \A y \in 1 .. k : k >= y
  OBVIOUS
<1>2. MaxOf(1 .. k) \in 1 .. k /\ \A y \in 1 .. k : MaxOf(1 .. k) >= y
  BY <1>1 DEF MaxOf
<1>3. MaxOf(1 .. k) = k
  BY <1>1, <1>2
<1> QED
  BY <1>1, <1>3

(* There is a table of what the folds of all subsets come to.               *)
LEMMA FoldExists ==
  ASSUME NEW n \in Nat, NEW S, NEW base \in S, NEW F \in [(1 .. n) \X S -> S]
  PROVE  \E g \in [SUBSET (1 .. n) -> S] : IsFold(n, base, F, g)
<1> DEFINE I == 1 .. n
           Lvl(k) == {s \in SUBSET I : Cardinality(s) <= k}
           K == {k \in Nat : \E g \in [Lvl(k) -> S] : g = [s \in Lvl(k) |-> FoldStep(base, F, g, s)]}
<1>0. IsFiniteSet(I) /\ \A s \in SUBSET I : IsFiniteSet(s) /\ Cardinality(s) \in Nat
  <2>1. IsFiniteSet(I)
    BY FS_Interval
  <2> HIDE DEF I
  <2> QED
    BY <2>1, FS_Subset, FS_CardinalityType
<1>1. 0 \in K
  <2> DEFINE g == [s \in Lvl(0) |-> base]
  <2>1. \A s \in Lvl(0) : s = {}
    BY <1>0, FS_EmptySet
  <2>2. \A s \in Lvl(0) : FoldStep(base, F, g, s) = base
    BY <2>1 DEF FoldStep
  <2>3. g = [s \in Lvl(0) |-> FoldStep(base, F, g, s)]
    BY <2>2
  <2>4. g \in [Lvl(0) -> S]
    OBVIOUS
  <2> HIDE DEF g, Lvl
  <2> QED
    BY <2>3, <2>4
<1>2. ASSUME NEW k \in K PROVE k + 1 \in K
  <2>1. PICK g \in [Lvl(k) -> S] : g = [s \in Lvl(k) |-> FoldStep(base, F, g, s)]
    OBVIOUS
  <2> DEFINE h == [s \in Lvl(k + 1) |-> FoldStep(base, F, g, s)]
  <2>0. k \in Nat /\ k + 1 \in Nat
    OBVIOUS
  <2>2. \A s \in Lvl(k) : s \in Lvl(k + 1) /\ h[s] = g[s]
    <3> SUFFICES ASSUME NEW s \in Lvl(k) PROVE s \in Lvl(k + 1) /\ h[s] = g[s]
      OBVIOUS
    <3>1. s \in Lvl(k + 1)
      BY <1>0, <2>0
    <3>2. h[s] = FoldStep(base, F, g, s)
      BY <3>1
    <3>3. g[s] = FoldStep(base, F, g, s)
      <4> HIDE DEF Lvl
      <4> QED BY <2>1
    <3> QED
      BY <3>1, <3>2, <3>3
  <2>3. ASSUME NEW s \in Lvl(k + 1)
        PROVE  FoldStep(base, F, g, s) = FoldStep(base, F, h, s) /\ FoldStep(base, F, g, s) \in S
    <3>1. CASE s = {}
      BY <3>1 DEF FoldStep
    <3>2. CASE s # {}
      <4>0. s \in SUBSET Int /\ IsFiniteSet(s)
        BY <1>0
      <4>1. MaxOf(s) \in s /\ MaxOf(s) \in I
        BY <3>2, <4>0, MaxIs
      <4>2. Cardinality(s \ {MaxOf(s)}) = Cardinality(s) - 1
        BY <1>0, <4>1, FS_RemoveElement
      <4>3. s \ {MaxOf(s)} \in Lvl(k)
        <5>1. s \ {MaxOf(s)} \in SUBSET I /\ Cardinality(s) <= k + 1 /\ Cardinality(s) \in Nat
          BY <1>0
        <5> HIDE DEF I
        <5> QED
          BY <2>0, <4>2, <5>1
      <4>4. h[s \ {MaxOf(s)}] = g[s \ {MaxOf(s)}]
        BY <2>2, <4>3
      <4>5. g[s \ {MaxOf(s)}] \in S
        BY <2>1, <4>3
      <4>6. FoldStep(base, F, g, s) \in S
        <5>1. F[<<MaxOf(s), g[s \ {MaxOf(s)}]>>] \in S
          BY <4>1, <4>5
        <5> QED
          BY <3>2, <5>1 DEF FoldStep
      <4>7. FoldStep(base, F, g, s) = FoldStep(base, F, h, s)
        BY <3>2, <4>4, Zenon DEF FoldStep
      <4> QED
        BY <4>6, <4>7
    <3> QED
      BY <3>1, <3>2
  <2>4. h = [s \in Lvl(k + 1) |-> FoldStep(base, F, h, s)] /\ h \in [Lvl(k + 1) -> S]
    <3> HIDE DEF Lvl
    <3>1. \A s \in Lvl(k + 1) : FoldStep(base, F, g, s) = FoldStep(base, F, h, s)
      BY <2>3
    <3>2. \A s \in Lvl(k + 1) : FoldStep(base, F, g, s) \in S
      BY <2>3
    <3>3. h \in [Lvl(k + 1) -> S]
      BY <3>2
    <3> QED
      BY <3>1, <3>3, Zenon
  <2> QED
    <3> HIDE DEF h, Lvl
    <3> QED
      BY <2>0, <2>4
<1>3. K = Nat
  <2> HIDE DEF K
  <2>1. K \in SUBSET Nat
    BY DEF K
  <2> QED
    BY <1>1, <1>2, <2>1, NatSetInduction
<1>4. Cardinality(I) \in Nat /\ Lvl(Cardinality(I)) = SUBSET I
  BY <1>0, FS_Subset
<1>5. \E g \in [Lvl(Cardinality(I)) -> S] : g = [s \in Lvl(Cardinality(I)) |-> FoldStep(base, F, g, s)]
  <2> HIDE DEF Lvl
  <2> QED
    BY <1>3, <1>4
<1> HIDE DEF Lvl, K
<1> QED
  BY <1>4, <1>5, Zenon DEF IsFold

=============================================================================
