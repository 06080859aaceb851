------------------------------- MODULE Crc16 -------------------------------
(***************************************************************************)
(* crc16_x25 of tpt-protocols/src/mavlink.rs, the checksum of TPT-Link,    *)
(* MAVLink and AFDX frames.  The checksum is linear, so the register of a  *)
(* damaged frame differs from that of the intact one by the register of    *)
(* the damage alone, started at zero: this module runs that difference,    *)
(* over a burst of wrong bits and then right bytes without end.  A word is *)
(* the set of its bits that are one.                                       *)
(***************************************************************************)
EXTENDS Integers, FiniteSetsExt

CONSTANT Burst   \* bits from the first wrong bit to the last

VARIABLES
  crc,     \* crc of the damage
  begun,   \* whether the burst has begun
  span     \* bits of it that may still come

crcVars == <<crc, begun, span>>

Mut_Poly == {0, 3}

(* 0x1021 *)
Poly == {0, 5, 12}

Shift(a) == {i - 1 : i \in a \ {0}}

Step(a) == IF 0 \in a THEN SymDiff(Shift(a), Poly) ELSE Shift(a)

(* One byte: eight steps. *)
ByteIn(a, byte) == LET s == SymDiff(a, byte)
                   IN  Step(Step(Step(Step(Step(Step(Step(Step(s))))))))

CrcInit == crc = {} /\ begun = FALSE /\ span = Burst

(* The next byte of the frame: the burst may begin at any of its bits, and  *)
(* goes on with any bits until its span is over.                            *)
NextByte ==
  \/ /\ ~begun
     /\ \E first \in 0 .. 7 : \E more \in SUBSET (first + 1 .. 7) :
          /\ crc' = ByteIn(crc, {first} \cup more)
          /\ span' = Burst - (8 - first)
     /\ begun' = TRUE
  \/ /\ begun
     /\ \E byte \in SUBSET (0 .. Min({8, span}) - 1) : crc' = ByteIn(crc, byte)
     /\ span' = Max({0, span - 8})
     /\ UNCHANGED begun

-----------------------------------------------------------------------------
(* Damage within Burst bits changes the checksum, wherever in a frame of    *)
(* any length it is: after the last wrong bit the difference never becomes  *)
(* zero again.                                                              *)
BurstIsDetected == begun /\ span = 0 => crc # {}

=============================================================================
