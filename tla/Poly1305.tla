------------------------------ MODULE Poly1305 ------------------------------
(***************************************************************************)
(* The arithmetic of Poly1305 (tpt-protocols/src/chacha.rs): numbers modulo *)
(* 2^130 - 5 held in five 26-bit limbs, multiplied schoolbook with the      *)
(* upper half folded back, carried and reduced.  Base scales the limbs      *)
(* down; p, the fifth power of Base less five, keeps its shape.             *)
(***************************************************************************)
EXTENDS Integers, Sequences, Folds

CONSTANTS
  Base,       \* 2^26, a limb's range
  Rs,         \* clamped multipliers to start from
  Blocks,     \* message blocks, with their high bit
  MaxBlocks   \* bound of the model: blocks in a message

VARIABLES
  r,     \* the multiplier, as limbs
  h,     \* the accumulator, as limbs
  acc,   \* history: the accumulator as RFC 8439 defines it, an integer
  taken  \* blocks so far

polyVars == <<r, h, acc, taken>>

Past == Base * Base * Base * Base * Base
Prime == Past - 5
L == 0 .. 4

(* The limbs of a number: shifted down one limb at a time, masked.          *)
Limbs(n) ==
  LET q[i \in L] == IF i = 0 THEN n ELSE q[i - 1] \div Base
  IN  [i \in L |-> q[i] % Base]
Value(x) == x[0] + Base * (x[1] + Base * (x[2] + Base * (x[3] + Base * x[4])))

-----------------------------------------------------------------------------
(* Carry a run of limbs upwards from limb 0: the limbs below Base, and what *)
(* is left over at the top.                                                 *)
Carry(x) ==
  LET c[i \in 0 .. 5] == IF i = 0 THEN 0 ELSE (x[i - 1] + c[i - 1]) \div Base
  IN  [limbs |-> [i \in L |-> (x[i] + c[i]) % Base], out |-> c[5]]

(* Column k of the product: s_limbs (5 r) above the diagonal.               *)
Column(x, y, k) ==
  LET term(i) == x[i] * (IF i <= k THEN y[k - i] ELSE 5 * y[5 + k - i])
  IN  term(0) + term(1) + term(2) + term(3) + term(4)

Mut_FoldOnce(c) == Carry([c.limbs EXCEPT ![0] = @ + 5 * c.out]).limbs

(* The carry past the top limb, times five, goes into limb 0 - once more if *)
(* that carries out again.                                                  *)
Fold(c) ==
  LET once == Carry([c.limbs EXCEPT ![0] = @ + 5 * c.out])
  IN  IF once.out = 0 THEN once.limbs
      ELSE Carry([once.limbs EXCEPT ![0] = @ + 5 * once.out]).limbs

PLimbs == [i \in L |-> IF i = 0 THEN Base - 5 ELSE Base - 1]

(* The first limb from the top that differs decides. *)
AtLeastP(x) ==
  LET differ == {i \in L : x[i] # PLimbs[i]}
  IN  differ = {} \/ \E i \in differ : x[i] > PLimbs[i] /\ \A j \in differ : j <= i

Subtract(x) ==
  LET b[i \in 0 .. 5] ==
        IF i = 0 THEN 0 ELSE IF x[i - 1] - PLimbs[i - 1] - b[i - 1] < 0 THEN 1 ELSE 0
  IN  [i \in L |-> (x[i] - PLimbs[i] - b[i]) % Base]

(* reduce(): a number below 2^130 is less than two p, so the loop runs once. *)
Reduce(x) == IF AtLeastP(x) THEN Subtract(x) ELSE x

MulMod(x, v, y) ==
  LET sum == [i \in L |-> x[i] + v[i]]
  IN  Reduce(Fold(Carry([k \in L |-> Column(sum, y, k)])))

PolyInit == \E n \in Rs : r = Limbs(n) /\ h = Limbs(0) /\ acc = 0 /\ taken = 0

Absorb(n) ==
  /\ taken < MaxBlocks
  /\ taken' = taken + 1
  /\ h' = MulMod(h, Limbs(n), r)
  /\ acc' = ((acc + n) * Value(r)) % Prime
  /\ UNCHANGED r

PolyNext == \E n \in Blocks : Absorb(n)

-----------------------------------------------------------------------------
(* The limbs hold exactly the number the RFC defines, reduced: no carry is  *)
(* lost on the way up or on the way round, and no value from p to           *)
(* 2^130 - 1 is left as it is.                                              *)
LimbsAreExact ==
  /\ \A i \in L : h[i] \in 0 .. Base - 1
  /\ Value(h) = acc

=============================================================================
