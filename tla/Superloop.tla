----------------------------- MODULE Superloop -----------------------------
(***************************************************************************)
(* Supervisor of tpt-backend-bare-metal/src/superloop.rs: one tick reads   *)
(* the sensors, updates the attitude estimate, polls the scheduler, runs   *)
(* guidance if the 200 Hz group is due, and on every tick the attitude     *)
(* controller, the envelope protector and the mixer.                       *)
(*                                                                         *)
(* Of the control data the model keeps the yaw axis, the one whose command *)
(* guidance does not limit itself: angles in radians, rates in 0.1 rad/s,  *)
(* as integers.                                                            *)
(***************************************************************************)
EXTENDS RateTiming, FlightModes

CONSTANTS
  OuterLoop,   \* the rate group guidance runs in (R200Hz)
  Targets,     \* yaw of the targets an operator may set
  Yaws,        \* yaw estimates the AHRS may produce
  KpYaw,       \* PositionGains::kp_yaw
  MaxYawRate   \* EnvelopeConfig::max_yaw_rate

ASSUME SuperloopAssumption ==
  /\ OuterLoop \in Group
  /\ Targets \subseteq Int /\ 0 \in Targets
  /\ Yaws \subseteq Int /\ 0 \in Yaws
  /\ KpYaw \in Nat /\ MaxYawRate \in Nat

VARIABLES
  mode,          \* fsm
  target,        \* target
  estimate,      \* the attitude the AHRS holds
  lastSetpoint,  \* last_setpoint, with the target it was computed for
  command,       \* yaw rate the controller tracked, and the protector's output
  targetAt       \* history: clock reading when the target was set

loopVars == <<mode, target, estimate, lastSetpoint, command, targetAt>>
vars == <<timingVars, loopVars>>

-----------------------------------------------------------------------------
Clamp(x, limit) == IF x > limit THEN limit ELSE IF x < -limit THEN -limit ELSE x

(* PositionController::update. *)
Guidance(t, yaw) == [yawRate |-> KpYaw * (t - yaw), for |-> {t}]

(* AttitudeSetpoint::default, computed for no target. *)
NoSetpoint == [yawRate |-> 0, for |-> {}]

Mut_SetpointOfPreviousPoll(g) ==
  IF OuterLoop \in due THEN Guidance(target, estimate) ELSE lastSetpoint

(* The setpoint of a tick in which the groups g are due. *)
SetpointOf(g) ==
  IF OuterLoop \in g THEN Guidance(target, estimate) ELSE lastSetpoint

(* EnvelopeProtector::protect. *)
Protect(sp) == [sp EXCEPT !.yawRate = Clamp(sp.yawRate, MaxYawRate)]

(* The end of a tick: arm and take off as soon as the loop runs. *)
Progress(m) ==
  IF m = "Disarmed" THEN Handle(Handle(m, "Arm"), "CommandTakeoff") ELSE m

Init ==
  /\ TimingInit
  /\ mode = "Disarmed"
  /\ target = 0
  /\ estimate = 0
  /\ lastSetpoint = NoSetpoint
  /\ command = [tracked |-> 0, protected |-> NoSetpoint]
  /\ targetAt = now

(* Supervisor::set_target, between two ticks. *)
SetTarget(t) ==
  /\ target' = t
  /\ targetAt' = IF t = target THEN targetAt ELSE now
  /\ UNCHANGED <<timingVars, mode, estimate, lastSetpoint, command>>

(* Supervisor::tick.  The control laws get the attitude the AHRS held       *)
(* before this tick's sample; the attitude controller gets the setpoint as  *)
(* guidance made it, the protector's output goes to the mixer.              *)
Tick(gap, yaw) ==
  /\ TimedPass(gap)
  /\ LET sp == SetpointOf(DueAt(ReadClock(gap))) IN
     /\ lastSetpoint' = sp
     /\ command' = [tracked |-> sp.yawRate, protected |-> Protect(sp)]
  /\ estimate' = yaw
  /\ mode' = Progress(mode)
  /\ UNCHANGED <<target, targetAt>>

Next ==
  \/ \E gap \in Gaps, yaw \in Yaws : Tick(gap, yaw)
  \/ \E t \in Targets : SetTarget(t)

Spec == Init /\ [][Next]_vars

-----------------------------------------------------------------------------
Setpoint == [yawRate : Int, for : SUBSET Targets]

(* Types of the variables. *)
TypeOK ==
  /\ TimingTypeOK
  /\ mode \in FlightMode
  /\ target \in Targets /\ estimate \in Yaws
  /\ lastSetpoint \in Setpoint
  /\ command \in [tracked : Int, protected : Setpoint]
  /\ targetAt \in 0 .. Horizon

(* The vehicle is flown toward the target the operator set: the default     *)
(* setpoint is never flown, and one computed for an older target is         *)
(* replaced before a period of the outer loop is over, however unevenly     *)
(* the loop ticks.                                                          *)
NewTargetTakesEffect ==
  started => /\ lastSetpoint.for # {}
             /\ lastSetpoint.for # {target} => now - targetAt < Period[OuterLoop]

(* Documented: no control law reaches the actuators around the envelope     *)
(* (tpt-core/src/envelope.rs:3, and the tick's own doc comment), so the yaw *)
(* rate the attitude controller is made to track is inside it.              *)
EnvelopeIsNonBypassable ==
  -MaxYawRate <= command.tracked /\ command.tracked <= MaxYawRate

=============================================================================
