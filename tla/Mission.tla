------------------------------ MODULE Mission ------------------------------
(***************************************************************************)
(* The autopilot blocks of tpt-core/src/autopilot.rs - waypoint sequencer,  *)
(* geofence monitor, failsafe manager - in the loop the module describes:   *)
(* the outer loop advances the mission, asks the failsafe for a target,     *)
(* mitigates it by the fence, and the vehicle flies towards the result.     *)
(* That loop and the vehicle are not in src/.  The module lists the steps   *)
(* as advance, mitigate, and drop to the failsafe on a fault; that what the *)
(* failsafe asks for is mitigated too is one reading of it, on which the    *)
(* fence depends while the failsafe is on.  Positions are on a grid.        *)
(***************************************************************************)
EXTENDS Integers, Sequences, Folds, Functions

CONSTANTS
  Axes,        \* {"x", "y", "z"}, or fewer horizontal ones
  FenceMin,    \* fence.min
  FenceMax,    \* fence.max
  Margin,      \* warning_margin
  Step,        \* how far the vehicle flies between two turns of the loop
  Radius,      \* of capture, horizontal
  ZRadius,     \* of capture, vertical
  SafeZs,      \* safe_z it may be configured with
  Store,       \* M: waypoints the store holds
  Waypoints,   \* targets the operator may add
  Starts,      \* where the vehicle may be when the loop starts
  MaxCalls     \* bound of the model: calls of the operator

ASSUME MissionAssumption ==
  /\ "z" \in Axes
  /\ FenceMin \in [Axes -> Int] /\ FenceMax \in [Axes -> Int]
  /\ Margin \in Nat /\ Step \in Nat
  /\ SafeZs \subseteq Int
  /\ Waypoints \subseteq [Axes -> Int] /\ Starts \subseteq [Axes -> Int]

(* The warning band is no narrower than a step of the vehicle, and the      *)
(* fence no narrower than the band on both sides.                           *)
FenceIsWide == Step <= Margin /\ \A a \in Axes : 2 * Margin <= FenceMax[a] - FenceMin[a]

VARIABLES
  waypoints,   \* waypoints[..count]
  index,
  armed,
  strategy,
  safeZ,       \* safe_z
  triggered,
  lastGood,    \* last_good
  pos,         \* position of the vehicle
  calls        \* calls of the operator so far

missionVars == <<waypoints, index, armed, strategy, safeZ, triggered, lastGood, pos, calls>>
sequencer == <<waypoints, index, armed>>
failsafe == <<strategy, safeZ, triggered, lastGood>>

Distance(a, b) == IF a < b THEN b - a ELSE a - b

-----------------------------------------------------------------------------
(* Fence *)
InsideGeofence(p) == \A a \in Axes : FenceMin[a] <= p[a] /\ p[a] <= FenceMax[a]

Mut_NearFence(p) == \E a \in Axes : Distance(p[a], FenceMin[a]) < Margin

NearFence(p) ==
  \E a \in Axes : Distance(p[a], FenceMin[a]) < Margin \/ Distance(FenceMax[a], p[a]) < Margin

Status(p) ==
  CASE ~InsideGeofence(p) -> "Breach"
    [] InsideGeofence(p) /\ NearFence(p) -> "Warning"
    [] OTHER -> "Inside"

ClampBetween(lo, hi, v) == IF v < lo THEN lo ELSE IF v > hi THEN hi ELSE v

PullToward(lo, hi, v) ==
  IF v - lo < Margin THEN lo + Margin ELSE IF hi - v < Margin THEN hi - Margin ELSE v

Pulled(t) == [a \in Axes |-> PullToward(FenceMin[a], FenceMax[a], t[a])]

(* On a breach the position, not the target, is clamped; the height is the  *)
(* middle of the fence.                                                     *)
Recovery(p) ==
  [a \in Axes |-> IF a = "z" THEN (FenceMin["z"] + FenceMax["z"]) \div 2
                  ELSE ClampBetween(FenceMin[a], FenceMax[a], p[a])]

Mitigate(p, desired) ==
  CASE Status(p) = "Inside"  -> desired
    [] Status(p) = "Warning" -> Pulled(desired)
    [] Status(p) = "Breach"  -> Recovery(p)

(* FailsafeManager::target, once triggered *)
FailsafeTarget(p) ==
  [(IF strategy = "RtlToLastGood" THEN lastGood ELSE p) EXCEPT !["z"] = safeZ]

-----------------------------------------------------------------------------
IsActive == armed /\ waypoints # <<>>
Current == IsActive /\ index < Len(waypoints)    \* current() is Some
Waypoint == waypoints[index + 1]

Captured(p, w) ==
  /\ FoldFunctionOnSet(+, 0, [a \in Axes |-> (p[a] - w[a]) ^ 2], Axes \ {"z"}) <= Radius ^ 2
  /\ Distance(p["z"], w["z"]) <= ZRadius

Mut_Advanced == IF IsActive /\ Captured(pos, waypoints[1]) THEN index + 1 ELSE index

(* advance *)
Advanced == IF Current /\ Captured(pos, Waypoint) THEN index + 1 ELSE index

MissionInit ==
  /\ waypoints = <<>> /\ index = 0 /\ armed = FALSE
  /\ strategy \in {"RtlToLastGood", "LandInPlace"} /\ safeZ \in SafeZs
  /\ triggered = FALSE
  /\ lastGood = [a \in Axes |-> 0]
  /\ pos \in Starts
  /\ calls = 0

Call == calls < MaxCalls /\ calls' = calls + 1

(* add: beyond the store's size the call is refused. *)
Add(w) ==
  /\ Call
  /\ waypoints' = IF Len(waypoints) >= Store THEN waypoints ELSE Append(waypoints, w)
  /\ UNCHANGED <<index, armed, failsafe, pos>>

Reset ==
  /\ Call
  /\ waypoints' = <<>> /\ index' = 0 /\ armed' = FALSE
  /\ UNCHANGED <<failsafe, pos>>

(* arm: from the first waypoint, whatever was flown before. *)
Arm ==
  /\ Call
  /\ armed' = TRUE /\ index' = 0
  /\ UNCHANGED <<waypoints, failsafe, pos>>

Disarm ==
  /\ Call
  /\ armed' = FALSE
  /\ UNCHANGED <<waypoints, index, failsafe, pos>>

NoteGoodPosition ==
  /\ Call
  /\ lastGood' = IF triggered THEN lastGood ELSE pos
  /\ UNCHANGED <<sequencer, strategy, safeZ, triggered, pos>>

Trigger ==
  /\ Call
  /\ triggered' = TRUE
  /\ UNCHANGED <<sequencer, strategy, safeZ, lastGood, pos>>

ClearFailsafe ==
  /\ Call
  /\ triggered' = FALSE
  /\ UNCHANGED <<sequencer, strategy, safeZ, lastGood, pos>>

(* Fly one step at most towards t on every axis. *)
Towards(p, t) ==
  [a \in Axes |-> IF Distance(p[a], t[a]) <= Step THEN t[a]
                  ELSE IF p[a] < t[a] THEN p[a] + Step ELSE p[a] - Step]

Desired ==
  IF triggered THEN FailsafeTarget(pos)
  ELSE IF armed /\ Advanced < Len(waypoints) THEN waypoints[Advanced + 1] ELSE pos

(* One turn of the outer loop. *)
Turn ==
  /\ index' = Advanced
  /\ pos' = Towards(pos, Mitigate(pos, Desired))
  /\ UNCHANGED <<waypoints, armed, failsafe, calls>>

MissionNext ==
  \/ Turn
  \/ \E w \in Waypoints : Add(w)
  \/ Reset \/ Arm \/ Disarm
  \/ NoteGoodPosition \/ Trigger \/ ClearFailsafe

(* The loop turns for ever. *)
MissionSpec == MissionInit /\ [][MissionNext]_missionVars /\ WF_missionVars(Turn)

-----------------------------------------------------------------------------
(* A vehicle inside the fence stays inside, whatever it is asked to fly to: *)
(* waypoints outside, a last-good position outside, a safe height outside.  *)
(* The monitor only bends the target once the vehicle is in the warning     *)
(* band, so this needs FenceIsWide.                                         *)
FenceIsNeverCrossed == [][InsideGeofence(pos) => InsideGeofence(pos')]_missionVars

(* A waypoint the fence leaves within reach: pulled out of the warning band *)
(* it is still captured.  Any other one is chased for ever.                 *)
WithinReach(w) == Captured(Pulled(w), w)

(* Left alone, an armed mission flies on to its end, or up to a waypoint    *)
(* out of reach; a triggered failsafe brings the vehicle over its last good *)
(* position if that is clear of the warning band, and out of any breach.    *)
TargetsAreReached ==
  /\ <>[](IsActive /\ ~triggered) => <>[](~Current \/ ~WithinReach(Waypoint))
  /\ <>[]triggered =>
       <>[](/\ InsideGeofence(pos)
            /\ strategy = "RtlToLastGood" /\ Pulled(FailsafeTarget(pos)) = FailsafeTarget(pos)
                 => pos = FailsafeTarget(pos))
=============================================================================
