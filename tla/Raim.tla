-------------------------------- MODULE Raim --------------------------------
(***************************************************************************)
(* The consistency check on independent position solutions                 *)
(* (tpt-protocols/src/antispoof.rs, RaimMonitor) and the board latch it     *)
(* feeds (tpt-backend-bare-metal/src/board.rs).  Solutions are points of a  *)
(* line with the vehicle at 0; distances to the centroid are kept           *)
(* multiplied by the number of solutions.                                   *)
(***************************************************************************)
EXTENDS Integers, Sequences, FiniteSetsExt, Functions

CONSTANTS
  Honest,        \* errors an honest receiver makes
  Spoofed,       \* where a spoofer claims the vehicle is
  MaxReceivers,
  Threshold      \* threshold_m

VARIABLES
  alarmed,       \* RaimMonitor::alarmed
  compromised,   \* Stm32Board::gnss_compromised
  judged,        \* history: the last solutions that could be compared
  rejected       \* what check() returned for them: the index, or 0

raimVars == <<alarmed, compromised, judged, rejected>>

Distance(solutions, i) ==
  LET off == Len(solutions) * solutions[i] - SumFunction(solutions)
  IN  Max({off, -off})

Mut_Worst(solutions) == Len(solutions)

(* The first of the farthest ones. *)
Worst(solutions) ==
  Min({i \in DOMAIN solutions :
         \A j \in DOMAIN solutions : Distance(solutions, j) <= Distance(solutions, i)})

IsJammedOrSpoofed == alarmed \/ compromised

(* check() by way of update_integrity(): fewer than two solutions change    *)
(* nothing, the alarm of an earlier call included.                          *)
UpdateIntegrity(solutions) ==
  LET n == Len(solutions)
      outlier == Distance(solutions, Worst(solutions)) > Threshold * n
  IN  IF n < 2 THEN /\ compromised' = alarmed
                    /\ UNCHANGED <<alarmed, judged, rejected>>
      ELSE /\ alarmed' = outlier /\ compromised' = outlier
           /\ judged' = solutions
           /\ rejected' = IF outlier THEN Worst(solutions) ELSE 0

RaimInit == alarmed = FALSE /\ compromised = FALSE /\ judged = <<>> /\ rejected = 0

RaimNext ==
  \E n \in 0 .. MaxReceivers : \E solutions \in [1 .. n -> Honest \cup Spoofed] :
    UpdateIntegrity(solutions)

-----------------------------------------------------------------------------
(* One spoofed receiver among honest ones raises the alarm, and from three  *)
(* on it is the one that is blamed; honest receivers raise none; and what   *)
(* the board reports is the verdict on the last solutions that could be     *)
(* compared, however many calls had too few to say anything since.          *)
RaimBlamesTheLiar ==
  LET liars == {i \in DOMAIN judged : judged[i] \in Spoofed}
  IN  /\ liars = {} => ~IsJammedOrSpoofed
      /\ Cardinality(liars) = 1 /\ Len(judged) >= 2 => IsJammedOrSpoofed
      /\ Cardinality(liars) = 1 /\ Len(judged) >= 3 => rejected \in liars
=============================================================================
