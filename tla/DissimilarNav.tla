---------------------------- MODULE DissimilarNav ----------------------------
(***************************************************************************)
(* DissimilarNavMonitor of tpt-sensor-fusion/src/dissimilar.rs: GNSS is    *)
(* cross-checked against visual-inertial odometry and terrain-aided        *)
(* navigation.  Samples replace each other as they arrive and carry no     *)
(* time, so the verdict compares positions of different ages.              *)
(*                                                                         *)
(* Positions are kept along one axis, in units in which the monitor's      *)
(* floor of 1e-6 on an uncertainty is below one.                           *)
(***************************************************************************)
EXTENDS Integers

CONSTANTS
  Positions,   \* positions a source may report, and the vehicle may take
  Uncerts,     \* 1-sigma uncertainties
  Drifts,      \* INS drifts the owner may record
  MaxTanDrift  \* drift from which terrain aiding is not trusted (25 m)

ASSUME DissimilarAssumption ==
  /\ Positions \subseteq Int /\ 0 \in Positions
  /\ Uncerts \subseteq Nat /\ 1 \in Uncerts
  /\ Drifts \subseteq Nat /\ 0 \in Drifts
  /\ MaxTanDrift \in Nat

VARIABLES
  sample,    \* gps, vio, tan
  insDrift,  \* ins_drift_m
  truth      \* where the vehicle is

vars == <<sample, insDrift, truth>>

NavSource == {"gps", "vio", "tan"}
NavSample == [pos : Positions, uncert : Uncerts, available : BOOLEAN]

-----------------------------------------------------------------------------
Distance(a, b) == IF a >= b THEN a - b ELSE b - a

(* disagreement_sigma, as new() sets it. *)
DisagreementSigma == 3

Mut_ContradictsGpsSigma(src) ==
  /\ sample["gps"].available /\ sample[src].available
  /\ Distance(sample["gps"].pos, sample[src].pos)
       > DisagreementSigma * sample["gps"].uncert

Mut_ContradictsSigmaSquared(src) ==
  /\ sample["gps"].available /\ sample[src].available
  /\ Distance(sample["gps"].pos, sample[src].pos)
       > DisagreementSigma * DisagreementSigma * (sample["gps"].uncert + sample[src].uncert)

(* gps_dissimilarity(): the distance to a dissimilar source exceeds what    *)
(* the uncertainties of the two explain.                                    *)
Contradicts(src) ==
  /\ sample["gps"].available /\ sample[src].available
  /\ Distance(sample["gps"].pos, sample[src].pos)
       > DisagreementSigma * (sample["gps"].uncert + sample[src].uncert)

(* gps_distrusted of the verdict. *)
GpsDistrusted == Contradicts("vio") \/ Contradicts("tan")

TanUsable == insDrift < MaxTanDrift

Mut_RecommendedTanUnchecked ==
  IF ~sample["gps"].available
  THEN IF TanUsable THEN "TerrainAided"
       ELSE IF sample["vio"].available THEN "VisualAided" ELSE "Coast"
  ELSE IF GpsDistrusted
       THEN IF Contradicts("tan") /\ TanUsable THEN "TerrainAided" ELSE "VisualAided"
       ELSE "GpsAided"

(* evaluate(): the recommended fusion mode. *)
Recommended ==
  IF ~sample["gps"].available
  THEN IF sample["tan"].available /\ TanUsable THEN "TerrainAided"
       ELSE IF sample["vio"].available THEN "VisualAided" ELSE "Coast"
  ELSE IF GpsDistrusted
       THEN IF Contradicts("tan") /\ TanUsable THEN "TerrainAided" ELSE "VisualAided"
       ELSE "GpsAided"

-----------------------------------------------------------------------------
(* new(): nothing is available. *)
Init ==
  /\ sample = [src \in NavSource |-> [pos |-> 0, uncert |-> 1, available |-> FALSE]]
  /\ insDrift = 0
  /\ truth \in Positions

Mut_SubmitClearsLost(src, s) ==
  /\ sample' = [sample EXCEPT ![src] = IF s.available THEN s ELSE [s EXCEPT !.uncert = 0]]
  /\ UNCHANGED <<insDrift, truth>>

(* submit(): a source reports, or reports that it is lost. *)
Submit(src, s) ==
  /\ sample' = [sample EXCEPT ![src] = s]
  /\ UNCHANGED <<insDrift, truth>>

(* set_ins_drift(). *)
SetInsDrift(d) ==
  /\ insDrift' = d
  /\ UNCHANGED <<sample, truth>>

(* The vehicle moves, and every sample held grows stale. *)
Move(p) ==
  /\ truth' = p
  /\ UNCHANGED <<sample, insDrift>>

Next ==
  \/ \E src \in NavSource, s \in NavSample : Submit(src, s)
  \/ \E d \in Drifts : SetInsDrift(d)
  \/ \E p \in Positions : Move(p)

Spec == Init /\ [][Next]_vars

-----------------------------------------------------------------------------
(* Types of the variables. *)
TypeOK ==
  /\ sample \in [NavSource -> NavSample]
  /\ insDrift \in Drifts
  /\ truth \in Positions

(* The sample a source last submitted is within three sigma of where the    *)
(* vehicle is now.                                                          *)
Accurate(src) ==
  /\ sample[src].available
  /\ Distance(sample[src].pos, truth) <= 3 * sample[src].uncert

(* No false alarm: if GNSS and every dissimilar source that is available    *)
(* are accurate, GNSS is trusted and followed, whatever their errors are    *)
(* and whichever sides of the true position they are on.                    *)
AccurateGpsIsTrusted ==
  Accurate("gps") /\ (\A src \in {"vio", "tan"} : sample[src].available => Accurate(src))
  => ~GpsDistrusted /\ Recommended = "GpsAided"

(* No missed spoof: a GNSS position too far from the truth for the two      *)
(* uncertainties together is not followed as long as one accurate           *)
(* dissimilar source is there, even if the other one agrees with GNSS.      *)
GrossGpsErrorIsCaught ==
  \A src \in {"vio", "tan"} :
    /\ Accurate(src) /\ sample["gps"].available
    /\ Distance(sample["gps"].pos, truth)
         > 3 * sample["gps"].uncert + 6 * sample[src].uncert
    => Recommended # "GpsAided"

(* Once GNSS is gone or undisputed, the source recommended is one that is   *)
(* there, and terrain aiding only while the INS drift allows it.            *)
SourceIsThere ==
  /\ Recommended = "GpsAided" => sample["gps"].available
  /\ Recommended = "VisualAided" => sample["vio"].available
  /\ Recommended = "TerrainAided" => sample["tan"].available /\ TanUsable

UndisputedSourceIsThere == ~GpsDistrusted => SourceIsThere

(* Documented (tpt-sensor-fusion/src/dissimilar.rs:15): when GNSS is        *)
(* contradicted, the mode yields to the dissimilar source, one that is      *)
(* available.                                                               *)
YieldsToAnAvailableSource == GpsDistrusted => SourceIsThere

=============================================================================
