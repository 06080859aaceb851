---------------------------- MODULE GpsDeniedLoop ----------------------------
(***************************************************************************)
(* GpsDeniedSim of tpt-sim/src/scenarios.rs, the one owner of a            *)
(* FusionStateMachine: a control step applies a batch of sensor readings;  *)
(* every OuterDiv-th step also fuses the aiding measurements of the batch, *)
(* selects the fusion mode and runs guidance.                              *)
(*                                                                         *)
(* The batches of a live run are sensed at the step that applies them.     *)
(* Those of a replay (tpt-sim/src/replay.rs) come from a log that may have *)
(* been started on a simulator already running, and whose unreadable lines *)
(* from_csv drops: "recorded" is the step the next batch was sensed at.    *)
(***************************************************************************)
EXTENDS FusionModes, FlightModes

CONSTANTS
  OuterDiv,    \* control steps per navigation cycle
  Scenarios,   \* the (gps, vio) statuses of Scenario::sources
  MaxTick,     \* bound: length of a run
  MaxLost      \* bound: unreadable lines of a log

ASSUME LoopAssumption ==
  /\ OuterDiv \in Nat \ {0}
  /\ Scenarios \subseteq SourceStatus \X SourceStatus
  /\ MaxTick \in Nat /\ MaxLost \in Nat

VARIABLES
  scenario,    \* scenario
  tick,        \* tick
  recorded,    \* tick of the simulator that sensed the last batch
  lost,        \* history: lines dropped so far
  mode,        \* fsm
  faulted,     \* faulted
  setpoint,    \* last_setpoint: "default", "hover" or "guidance"
  aidedAt      \* history: step at which a measurement was last fused

loopVars == <<scenario, tick, recorded, lost, mode, faulted, setpoint, aidedAt>>
vars == <<fusionVars, loopVars>>

-----------------------------------------------------------------------------
(* outer_tick of sense() and of apply(). *)
IsOuter(t) == t % OuterDiv = 0

(* Scenario::sources: depth and terrain aiding are never simulated. *)
Sources(sc) ==
  [s \in Source |-> CASE s = "gps" -> sc[1] [] s = "vio" -> sc[2] [] OTHER -> "Lost"]

Mut_BatchAidsGpsOnly(t) == IsOuter(t) /\ scenario[1] # "Lost"

(* sense(): whether the batch sensed at step t holds an aiding measurement. *)
BatchAids(t) == IsOuter(t) /\ \E i \in 1 .. 2 : scenario[i] # "Lost"

(* The mode progression of apply(); "climbed" is the altitude test. *)
Progress(m, climbed) ==
  CASE m = "Disarmed" -> Handle(Handle(m, "Arm"), "CommandTakeoff")
    [] m = "Takeoff" /\ climbed -> Handle(m, "ReachedTargetAltitude")
    [] OTHER -> m

Mut_CoastModeFromHold(m, fmode) ==
  IF fmode = "Coast" /\ m = "PositionHold" THEN Handle(m, "Fault") ELSE m

(* The flight mode after the guidance section, which declares the first     *)
(* loss of all aiding a fault.                                              *)
CoastMode(m, fmode) ==
  IF fmode = "Coast" /\ ~faulted THEN Handle(m, "Fault") ELSE m

SetpointFor(fmode) == IF fmode = "Coast" THEN "hover" ELSE "guidance"

-----------------------------------------------------------------------------
(* record(): a recording may start on a simulator that has already run, its *)
(* step count at that moment modulo the navigation divisor.  Zero is also   *)
(* the live run.                                                            *)
RecordedFrom == 0 .. OuterDiv - 1

(* from_csv(): lines with a wrong number of columns or a malformed first    *)
(* column are skipped, and what follows them moves up.                      *)
CanDrop(lines) == lost + lines <= MaxLost

(* GpsDeniedSim::new, in a live run or in replay(). *)
Init ==
  /\ FusionInit
  /\ scenario \in Scenarios
  /\ tick = 0
  /\ recorded \in RecordedFrom
  /\ lost = 0
  /\ mode = "Disarmed"
  /\ faulted = FALSE
  /\ setpoint = "default"
  /\ aidedAt = 0

(* The sections of apply() that run at the outer rate: aiding and mode      *)
(* selection, then, after the flight-mode progression, guidance.            *)
NavCycle(t, batch, climbed, driftLow) ==
  LET s == Sources(scenario) IN
  /\ FusionCycle(t, s, BatchAids(batch), driftLow)
  /\ aidedAt' = IF BatchAids(batch) THEN t ELSE aidedAt
  /\ mode' = CoastMode(Progress(mode, climbed), Select(s, driftLow))
  /\ faulted' = (faulted \/ Select(s, driftLow) = "Coast")
  /\ setpoint' = SetpointFor(Select(s, driftLow))

(* advance_tick() and apply() on the next readable batch, "dropped" lines   *)
(* after the last one.                                                      *)
Step(dropped, climbed, driftLow) ==
  /\ tick < MaxTick /\ CanDrop(dropped)
  /\ tick' = tick + 1
  /\ recorded' = recorded + dropped + 1
  /\ lost' = lost + dropped
  /\ \/ /\ IsOuter(tick + 1)
        /\ NavCycle(tick + 1, recorded + dropped + 1, climbed, driftLow)
     \/ /\ ~IsOuter(tick + 1)
        /\ mode' = Progress(mode, climbed)
        /\ UNCHANGED <<fusionVars, faulted, setpoint, aidedAt>>
  /\ UNCHANGED scenario

Next ==
  \E dropped \in 0 .. MaxLost, climbed, driftLow \in BOOLEAN :
    Step(dropped, climbed, driftLow)

Spec == Init /\ [][Next]_vars

-----------------------------------------------------------------------------
(* Types of the variables. *)
TypeOK ==
  /\ FusionTypeOK
  /\ scenario \in Scenarios
  /\ tick \in 0 .. MaxTick
  /\ recorded \in Nat /\ lost \in 0 .. MaxLost
  /\ mode \in FlightMode
  /\ faulted \in BOOLEAN
  /\ setpoint \in {"default", "hover", "guidance"}
  /\ aidedAt \in 0 .. MaxTick

(* While no source aids the estimate the vehicle hovers level and is in     *)
(* Failsafe, at every control step and not just at the one that noticed.    *)
CoastIsDeclared ==
  fusion = "Coast" => mode = "Failsafe" /\ setpoint = "hover"

(* The gate the flight manager relies on is never optimistic: as of the     *)
(* last navigation cycle, a navigable estimate was aided less than the      *)
(* limit ago, or the run is younger than that; and it is pessimistic by one *)
(* navigation cycle at the most.                                            *)
NavigableMeansAided ==
  /\ IsNavigable => fusionNow - aidedAt < AidingLimit
  /\ fusion # "Coast" /\ fusionNow - aidedAt + OuterDiv < AidingLimit => IsNavigable

(* In a live run, and in a replay whose batches are applied at the steps    *)
(* they were sensed at, a mode that names a source is aided every cycle.    *)
AlignedRunIsAided ==
  recorded % OuterDiv = tick % OuterDiv /\ lost = 0
     /\ tick >= OuterDiv /\ fusion # "Coast"
  => tick - aidedAt < OuterDiv

=============================================================================
