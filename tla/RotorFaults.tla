---------------------------- MODULE RotorFaults ----------------------------
(***************************************************************************)
(* The mixers: that of the quadcopter X (tpt-mixer/src/quad_x.rs), a fixed  *)
(* table, and the fault-tolerant one of distributed propulsion (dep.rs):    *)
(* rotors fail and come back, and every allocation spreads the commanded    *)
(* wrench over the healthy ones by the pseudo-inverse of their columns.     *)
(* Thrusts are fractions, kept as numerators over one denominator; the      *)
(* arithmetic is exact where the code's is floating point.                  *)
(***************************************************************************)
EXTENDS Integers, FiniteSetsExt, Functions

CONSTANTS
  Columns,    \* rotor -> <<1, pos.y, -pos.x, spin * yaw_coeff>>, yaw in its own unit
  Wrenches,   \* forces and moments <<thrust, roll, pitch, yaw>> that are asked for
  Full        \* full thrust of a rotor, in the unit of the commands

VARIABLES
  healthy,    \* rotors that are healthy
  order       \* the last allocation, until a rotor changes: a set of at most one

rotorVars == <<healthy, order>>

Rotors == DOMAIN Columns
Rows == 1 .. 4
Clamp(v, hi) == Max({0, Min({hi, v})})
Dot(a, b) == a[1] * b[1] + a[2] * b[2] + a[3] * b[3] + a[4] * b[4]

(* The determinant of four rows, by the minors of the upper and the lower two. *)
Minor(a, b, j, k) == a[j] * b[k] - a[k] * b[j]
Determinant(a, b, c, d) ==
    Minor(a, b, 1, 2) * Minor(c, d, 3, 4) - Minor(a, b, 1, 3) * Minor(c, d, 2, 4)
  + Minor(a, b, 1, 4) * Minor(c, d, 2, 3) + Minor(a, b, 2, 3) * Minor(c, d, 1, 4)
  - Minor(a, b, 2, 4) * Minor(c, d, 1, 3) + Minor(a, b, 3, 4) * Minor(c, d, 1, 2)

-----------------------------------------------------------------------------
Mut_Column(i) == Columns[i]

(* build_a: the column of a failed rotor is zero. *)
Column(i) == IF i \in healthy THEN Columns[i] ELSE <<0, 0, 0, 0>>

(* M = A A^T, symmetric, and the numerators of M^-1 w over its determinant. *)
GramRow(j) ==
  LET entry(k) == SumFunction([i \in Rotors |-> Column(i)[j] * Column(i)[k]])
  IN  <<entry(1), entry(2), entry(3), entry(4)>>
Gram == <<GramRow(1), GramRow(2), GramRow(3), GramRow(4)>>
Volume(m) == Determinant(m[1], m[2], m[3], m[4])
Solved(m, w) ==
  <<Determinant(w, m[2], m[3], m[4]), Determinant(m[1], w, m[3], m[4]),
    Determinant(m[1], m[2], w, m[4]), Determinant(m[1], m[2], m[3], w)>>

(* The collective thrust alone, split over the healthy rotors. *)
EqualSplit(w) ==
  LET alive == Max({1, Cardinality(healthy)})
  IN  [of |-> w, den |-> alive, ok |-> FALSE, rounded |-> FALSE,
       out |-> [i \in Rotors |-> IF i \in healthy THEN Clamp(w[1], Full * alive) ELSE 0]]

PseudoInverse(gram, w) ==
  LET det == Volume(gram)
      v == Solved(gram, w)
  IN  [of |-> w, den |-> det, ok |-> TRUE, rounded |-> FALSE,
       out |-> [i \in Rotors |-> Clamp(Dot(Column(i), v), Full * det)]]

(* A determinant that is zero comes out of the floating-point product as    *)
(* zero or as a rounding error, and then its "inverse" commands anything.   *)
Rounded(w) ==
  {[of |-> w, den |-> 1, ok |-> TRUE, rounded |-> TRUE,
    out |-> [i \in Rotors |-> IF i \in up THEN Full ELSE 0]] :
   up \in {{}, healthy}}

Allocate(w) ==
  LET gram == Gram
      answers == IF Cardinality(healthy) < 4 THEN {EqualSplit(w)}
                 ELSE IF Volume(gram) = 0 THEN {EqualSplit(w)} \cup Rounded(w)
                 ELSE {PseudoInverse(gram, w)}
  IN  /\ \E a \in answers : order' = {a}
      /\ UNCHANGED healthy

(* The signs of a moment on the four motors of a quadcopter. *)
Roll  == <<1, -1, -1, 1>>
Pitch == <<1, -1, 1, -1>>
Yaw   == <<1, 1, -1, -1>>
MomentScale == 7

(* QuadXMixer::mix_into, times 4 MomentScale. *)
QuadX(w) ==
  [i \in Rows |-> Clamp(MomentScale * w[1] + Roll[i] * w[2] + Pitch[i] * w[3] + Yaw[i] * w[4],
                        4 * MomentScale * Full)]

Fail(i) == healthy' = healthy \ {i} /\ order' = {}
Restore(i) == healthy' = healthy \cup {i} /\ order' = {}

RotorInit == healthy = Rotors /\ order = {}
RotorNext ==
  \/ \E i \in Rotors : Fail(i) \/ Restore(i)
  \/ \E w \in Wrenches : Allocate(w)

-----------------------------------------------------------------------------
(* A quadcopter's motors make the thrust and the moments asked for, each    *)
(* undisturbed by the others, as long as the moments leave every motor      *)
(* between its stops; past that the sum is distorted.                       *)
QuadIsDecoupled ==
  \A w \in Wrenches :
    LET made(row) == Dot(row, QuadX(w))
        size(v) == IF v < 0 THEN -v ELSE v
        moments == size(w[2]) + size(w[3]) + size(w[4])
    IN  moments <= MomentScale * Min({w[1], 4 * Full - w[1]}) =>
          /\ made(<<1, 1, 1, 1>>) = 4 * MomentScale * w[1]
          /\ made(Roll) = 4 * w[2] /\ made(Pitch) = 4 * w[3] /\ made(Yaw) = 4 * w[4]

(* No rotor that is not up is commanded a thrust, and the others have the   *)
(* thrust they are commanded; and unless one of them is at a stop, together *)
(* they make exactly the wrench asked for - or, when the answer is false,   *)
(* exactly its collective thrust.                                           *)
Absorbed(a, up) ==
  LET made(k) == SumFunction([i \in Rotors |-> Columns[i][k] * a.out[i]])
      stopped == {i \in up : a.out[i] \in {0, Full * a.den}}
  IN  /\ \A i \in Rotors : a.out[i] \in 0 .. Full * a.den
      /\ \A i \in Rotors \ up : a.out[i] = 0
      /\ stopped = {} /\ ~a.rounded /\ a.ok => \A k \in Rows : made(k) = a.of[k] * a.den
      /\ ~a.ok /\ a.of[1] <= Full /\ up # {} => made(1) = a.of[1] * Cardinality(up)

(* Whichever rotors have failed, the healthy ones absorb it. *)
FaultsAreAbsorbed == QuadIsDecoupled /\ \A a \in order : Absorbed(a, healthy)
=============================================================================
