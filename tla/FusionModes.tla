----------------------------- MODULE FusionModes -----------------------------
(***************************************************************************)
(* FusionMode, SourceStatus and FusionStateMachine of                      *)
(* tpt-sensor-fusion/src/nav_health.rs: which aiding source the navigation *)
(* filter follows, and how old the aiding it reports is.  Time is counted  *)
(* in control steps.                                                       *)
(***************************************************************************)
EXTENDS Integers

CONSTANT
  AidingLimit   \* age at which NavHealth::is_navigable gives up (5 s)

ASSUME FusionAssumption == AidingLimit \in Nat

VARIABLES
  fusion,      \* mode
  status,      \* gps, vio, depth, terrain
  lastAiding,  \* last_aiding_ts
  fusionNow    \* now

fusionVars == <<fusion, status, lastAiding, fusionNow>>

Source == {"gps", "vio", "depth", "terrain"}
SourceStatus == {"Healthy", "Degraded", "Lost"}
FusionMode == {"GpsAided", "Coast", "VisualAided", "TerrainAided"}

-----------------------------------------------------------------------------
(* FusionMode::select: the first usable source in order of preference.  A   *)
(* degraded GPS ranks below the dissimilar sources; driftLow stands for an  *)
(* INS drift under 25 m.                                                    *)
Select(s, driftLow) ==
  CASE s["gps"] = "Healthy" -> "GpsAided"
    [] s["gps"] # "Healthy" /\ s["terrain"] = "Healthy" /\ driftLow -> "TerrainAided"
    [] OTHER -> IF "Healthy" \in {s["vio"], s["depth"]} THEN "VisualAided"
                ELSE IF s["gps"] = "Degraded" THEN "GpsAided" ELSE "Coast"

(* FusionStateMachine::new. *)
FusionInit ==
  /\ fusion = "GpsAided"
  /\ status = [s \in Source |-> IF s \in {"gps", "vio"} THEN "Healthy" ELSE "Lost"]
  /\ lastAiding = 0
  /\ fusionNow = 0

Mut_NotedEarly == fusionNow - 1

(* The time note_aiding records: the clock of the previous tick, since the  *)
(* owner notes the aiding before it ticks the machine.                      *)
NotedAt == fusionNow

Mut_FusionCycleNotesAnyFix(t, s, aided, driftLow) ==
  /\ status' = s
  /\ lastAiding' = IF s["gps"] # "Lost" THEN NotedAt ELSE lastAiding
  /\ fusionNow' = t
  /\ fusion' = Select(s, driftLow)

(* One navigation cycle of the owner: set_gps, set_vio, set_depth and       *)
(* set_terrain, note_aiding if a measurement was fused, then tick.          *)
FusionCycle(t, s, aided, driftLow) ==
  /\ status' = s
  /\ lastAiding' = IF aided THEN NotedAt ELSE lastAiding
  /\ fusionNow' = t
  /\ fusion' = Select(s, driftLow)

(* NavHealth::time_since_aiding_s, as health() computes it. *)
ReportedAge == IF fusionNow >= lastAiding THEN fusionNow - lastAiding ELSE 0

(* NavHealth::is_navigable, for an estimate whose uncertainty is in bounds. *)
IsNavigable == fusion # "Coast" /\ ReportedAge < AidingLimit

FusionTypeOK ==
  /\ fusion \in FusionMode
  /\ status \in [Source -> SourceStatus]
  /\ lastAiding \in Nat /\ fusionNow \in Nat

=============================================================================
