------------------------ MODULE GpsDeniedLoop_proofs ------------------------
(***************************************************************************)
(* Proofs about the GPS-denied loop, for every navigation divisor, aiding  *)
(* limit and set of scenarios, and for live runs and replays alike.        *)
(***************************************************************************)
EXTENDS GpsDeniedLoop, DataLemmas

-----------------------------------------------------------------------------
(* The modes the loop visits: it arms on its first step, a loss of all      *)
(* aiding ends in Failsafe, and nothing recovers from it.                   *)
Modes ==
  /\ mode \in {"Disarmed", "Takeoff", "PositionHold", "Failsafe"}
  /\ fusion = "Coast" => faulted /\ setpoint = "hover"
  /\ faulted => mode = "Failsafe"

(* Where the clocks stand between steps: the last navigation cycle is less  *)
(* than a cycle ago, and the noted time of the last aiding is the time of   *)
(* the cycle before it.                                                     *)
Clocks ==
  /\ fusionNow <= tick /\ tick - fusionNow = tick % OuterDiv
  /\ lastAiding <= aidedAt /\ aidedAt <= fusionNow
  /\ aidedAt - lastAiding <= OuterDiv

(* With batches applied at the steps they were sensed at, every navigation  *)
(* cycle that found a source also fused one.                                *)
Aligned == recorded % OuterDiv = tick % OuterDiv /\ lost = 0
AlignedIsAided ==
  Aligned /\ tick >= OuterDiv /\ fusion # "Coast" => aidedAt = fusionNow

IInv == TypeOK /\ Modes /\ Clocks /\ AlignedIsAided

(* handle() on the events the loop sends. *)
LEMMA HandleOnce ==
  ASSUME NEW m \in FlightMode, NEW ev, NEW n \in FlightMode,
         <<m, ev, n>> \in Transition,
         \A k \in FlightMode : <<m, ev, k>> \in Transition => k = n
  PROVE  Handle(m, ev) = n
<1> DEFINE P(k) == <<m, ev, k>> \in Transition
<1>1. Accepts(m, ev)
  BY DEF Accepts
<1>2. (CHOOSE k \in FlightMode : P(k)) = n
  BY Zenon
<1> QED
  BY <1>1, <1>2 DEF Handle

(* What the mode machine does with each of the loop's events.               *)
LEMMA LoopEvents ==
  /\ Handle(Handle("Disarmed", "Arm"), "CommandTakeoff") = "Takeoff"
  /\ Handle("Takeoff", "ReachedTargetAltitude") = "PositionHold"
  /\ Handle("Takeoff", "Fault") = "Failsafe"
  /\ Handle("PositionHold", "Fault") = "Failsafe"
  /\ Handle("Failsafe", "Fault") = "Failsafe"
<1>1. Handle("Disarmed", "Arm") = "Armed"
  BY HandleOnce DEF FlightMode, Transition
<1>2. Handle("Armed", "CommandTakeoff") = "Takeoff"
  BY HandleOnce DEF FlightMode, Transition
<1>3. Handle("Takeoff", "ReachedTargetAltitude") = "PositionHold"
  BY HandleOnce DEF FlightMode, Transition
<1>4. Handle("Takeoff", "Fault") = "Failsafe"
  BY HandleOnce DEF FlightMode, Transition
<1>5. Handle("PositionHold", "Fault") = "Failsafe"
  BY HandleOnce DEF FlightMode, Transition
<1>6. Handle("Failsafe", "Fault") = "Failsafe"
  BY HandleOnce DEF FlightMode, Transition
<1> QED
  BY <1>1, <1>2, <1>3, <1>4, <1>5, <1>6

(* Whatever the altitude, the progression leaves a flying mode, and never   *)
(* leaves Failsafe.                                                         *)
LEMMA ProgressModes ==
  ASSUME NEW m \in {"Disarmed", "Takeoff", "PositionHold", "Failsafe"}, NEW climbed
  PROVE  /\ Progress(m, climbed) \in {"Takeoff", "PositionHold", "Failsafe"}
         /\ m = "Failsafe" => Progress(m, climbed) = "Failsafe"
  BY LoopEvents DEF Progress

(* select() coasts only if neither source of the scenario is usable. *)
LEMMA CoastHasNoSource ==
  ASSUME NEW sc \in SourceStatus \X SourceStatus, NEW driftLow,
         Select(Sources(sc), driftLow) # "Coast"
  PROVE  \E i \in 1 .. 2 : sc[i] # "Lost"
<1>1. /\ Sources(sc)["gps"] = sc[1] /\ Sources(sc)["vio"] = sc[2]
      /\ Sources(sc)["depth"] = "Lost" /\ Sources(sc)["terrain"] = "Lost"
  BY DEF Sources, Source
<1>2. sc[1] # "Lost" \/ sc[2] # "Lost"
  BY <1>1 DEF Select
<1> QED
  BY <1>2

(* The source ranking answers with one of the fusion modes.                 *)
LEMMA SelectType ==
  ASSUME NEW s, NEW driftLow
  PROVE  Select(s, driftLow) \in FusionMode
  BY DEF Select, FusionMode

-----------------------------------------------------------------------------
(* The start of the loop satisfies the invariant.                           *)
LEMMA InitHasIInv == Init => IInv
<1> SUFFICES ASSUME Init PROVE IInv
  OBVIOUS
<1>1. TypeOK
  <2>1. status \in [Source -> SourceStatus]
    BY DEF Init, FusionInit, SourceStatus
  <2>2. FusionTypeOK
    BY <2>1 DEF Init, FusionInit, FusionTypeOK, FusionMode
  <2>3. recorded \in Nat
    BY LoopAssumption DEF Init, RecordedFrom
  <2>4. faulted \in BOOLEAN /\ scenario \in Scenarios
    BY Zenon DEF Init
  <2>5. tick \in 0 .. MaxTick /\ lost \in 0 .. MaxLost /\ aidedAt \in 0 .. MaxTick
    BY LoopAssumption DEF Init
  <2>6. mode \in FlightMode /\ setpoint \in {"default", "hover", "guidance"}
    BY DEF Init, FlightMode
  <2> QED
    BY <2>2, <2>3, <2>4, <2>5, <2>6 DEF TypeOK
<1>2. Modes
  BY DEF Init, FusionInit, Modes
<1>3. Clocks
  BY LoopAssumption DEF Init, FusionInit, Clocks
<1>4. AlignedIsAided
  BY LoopAssumption DEF Init, AlignedIsAided
<1> QED
  BY <1>1, <1>2, <1>3, <1>4 DEF IInv

(* What every step does to the counters. *)
LEMMA StepCounts ==
  ASSUME IInv, NEW dropped \in 0 .. MaxLost, NEW climbed \in BOOLEAN,
         NEW driftLow \in BOOLEAN, Step(dropped, climbed, driftLow)
  PROVE  /\ tick \in Nat /\ recorded \in Nat /\ fusionNow \in Nat /\ OuterDiv \in Nat \ {0}
         /\ lastAiding \in Nat /\ aidedAt \in Nat
         /\ tick' = tick + 1 /\ tick' \in 0 .. MaxTick
         /\ recorded' \in Nat /\ lost' \in 0 .. MaxLost
         /\ scenario' = scenario
         /\ Aligned' => Aligned /\ dropped = 0 /\ recorded' = recorded + 1
<1>1. /\ tick \in Nat /\ recorded \in Nat /\ fusionNow \in Nat /\ OuterDiv \in Nat \ {0}
      /\ lastAiding \in Nat /\ aidedAt \in Nat /\ lost \in Nat
      /\ dropped \in Nat /\ MaxTick \in Nat /\ MaxLost \in Nat
  BY LoopAssumption DEF IInv, TypeOK, FusionTypeOK
<1>2. /\ tick < MaxTick /\ lost + dropped <= MaxLost /\ tick' = tick + 1
      /\ recorded' = recorded + dropped + 1 /\ lost' = lost + dropped
      /\ scenario' = scenario
  BY DEF Step, CanDrop
<1>3. ASSUME Aligned' PROVE Aligned /\ dropped = 0 /\ recorded' = recorded + 1
  <2>1. lost = 0 /\ dropped = 0 /\ recorded' = recorded + 1
    BY <1>1, <1>2, <1>3 DEF Aligned
  <2>2. (recorded + 1) % OuterDiv = (tick + 1) % OuterDiv
    BY <1>2, <1>3, <2>1 DEF Aligned
  <2>3. /\ recorded % OuterDiv \in 0 .. OuterDiv - 1
        /\ tick % OuterDiv \in 0 .. OuterDiv - 1
    BY <1>1, ModRange
  <2>4. recorded % OuterDiv = tick % OuterDiv
    <3> DEFINE r == recorded % OuterDiv
    <3> DEFINE t == tick % OuterDiv
    <3>1. (recorded + 1) % OuterDiv = IF r + 1 = OuterDiv THEN 0 ELSE r + 1
      BY <1>1, ModStep
    <3>2. (tick + 1) % OuterDiv = IF t + 1 = OuterDiv THEN 0 ELSE t + 1
      BY <1>1, ModStep
    <3>3. (IF r + 1 = OuterDiv THEN 0 ELSE r + 1) = (IF t + 1 = OuterDiv THEN 0 ELSE t + 1)
      BY <2>2, <3>1, <3>2, Zenon
    <3>4. r \in Nat /\ t \in Nat
      BY <1>1, <2>3
    <3> HIDE DEF r, t
    <3>5. r = t
      BY <3>3, <3>4
    <3> QED
      BY <3>5 DEF r, t
  <2> QED
    BY <2>1, <2>4 DEF Aligned
<1> QED
  BY <1>1, <1>2, <1>3

(* A step between two navigation cycles. *)
LEMMA PlainStep ==
  ASSUME IInv, NEW dropped \in 0 .. MaxLost, NEW climbed \in BOOLEAN,
         NEW driftLow \in BOOLEAN, Step(dropped, climbed, driftLow), ~IsOuter(tick + 1)
  PROVE  IInv'
<1>1. /\ mode' = Progress(mode, climbed)
      /\ UNCHANGED <<fusionVars, faulted, setpoint, aidedAt>>
  BY DEF Step
<1>2. TypeOK' /\ Modes'
  <2>1. mode' \in {"Takeoff", "PositionHold", "Failsafe"}
        /\ (mode = "Failsafe" => mode' = "Failsafe")
    BY <1>1, ProgressModes DEF IInv, Modes
  <2>2. FusionTypeOK'
    BY <1>1 DEF IInv, TypeOK, FusionTypeOK, fusionVars
  <2>3. TypeOK'
    BY <1>1, <2>1, <2>2, StepCounts DEF IInv, TypeOK, FlightMode
  <2> QED
    BY <1>1, <2>1, <2>3 DEF IInv, Modes, fusionVars
<1>3. tick % OuterDiv \in 0 .. OuterDiv - 1 /\ tick' % OuterDiv = (tick % OuterDiv) + 1
  <2>1. tick' = tick + 1 /\ tick \in Nat /\ OuterDiv \in Nat \ {0}
    BY StepCounts
  <2>2. tick % OuterDiv \in 0 .. OuterDiv - 1
    BY <2>1, ModRange
  <2>3. (tick + 1) % OuterDiv
          = IF (tick % OuterDiv) + 1 = OuterDiv THEN 0 ELSE (tick % OuterDiv) + 1
    BY <2>1, ModStep
  <2>4. (tick + 1) % OuterDiv # 0
    BY DEF IsOuter
  <2>5. (tick + 1) % OuterDiv = (tick % OuterDiv) + 1
    BY <2>3, <2>4, Zenon
  <2> QED
    BY <2>1, <2>2, <2>5
<1>4. Clocks'
  BY <1>1, <1>3, StepCounts DEF IInv, Clocks, fusionVars
<1>5. AlignedIsAided'
  <2> SUFFICES ASSUME Aligned', tick' >= OuterDiv, fusion' # "Coast"
               PROVE  aidedAt' = fusionNow'
    BY DEF AlignedIsAided
  <2>1. tick' # OuterDiv
    <3>1. OuterDiv % OuterDiv = 0
      BY LoopAssumption
    <3> QED
      BY <3>1, StepCounts DEF IsOuter
  <2>2. Aligned /\ tick >= OuterDiv
    BY <2>1, StepCounts
  <2> QED
    BY <1>1, <2>2 DEF IInv, AlignedIsAided, fusionVars
<1> QED
  BY <1>2, <1>4, <1>5 DEF IInv

(* A step with a navigation cycle. *)
LEMMA OuterStep ==
  ASSUME IInv, NEW dropped \in 0 .. MaxLost, NEW climbed \in BOOLEAN,
         NEW driftLow \in BOOLEAN, Step(dropped, climbed, driftLow), IsOuter(tick + 1)
  PROVE  IInv'
<1> DEFINE s == Sources(scenario)
<1>1. NavCycle(tick + 1, recorded + dropped + 1, climbed, driftLow)
  BY DEF Step
<1>2. /\ status' = s /\ fusionNow' = tick + 1 /\ fusion' = Select(s, driftLow)
      /\ lastAiding' = IF BatchAids(recorded') THEN fusionNow ELSE lastAiding
      /\ aidedAt' = IF BatchAids(recorded') THEN tick + 1 ELSE aidedAt
      /\ mode' = CoastMode(Progress(mode, climbed), fusion')
      /\ faulted' = (faulted \/ fusion' = "Coast")
      /\ setpoint' = SetpointFor(fusion')
  BY <1>1 DEF NavCycle, FusionCycle, NotedAt, Step
<1>3. TypeOK' /\ Modes'
  <2>1. Progress(mode, climbed) \in {"Takeoff", "PositionHold", "Failsafe"}
        /\ (mode = "Failsafe" => Progress(mode, climbed) = "Failsafe")
    BY ProgressModes DEF IInv, Modes
  <2>2. mode' \in {"Takeoff", "PositionHold", "Failsafe"}
        /\ (faulted' => mode' = "Failsafe")
    <3>1. CASE fusion' = "Coast" /\ ~faulted
      BY <1>2, <2>1, <3>1, LoopEvents DEF CoastMode
    <3>2. CASE ~(fusion' = "Coast" /\ ~faulted)
      BY <1>2, <2>1, <3>2 DEF CoastMode, IInv, Modes
    <3> QED
      BY <3>1, <3>2
  <2>3. s \in [Source -> SourceStatus]
    BY LoopAssumption DEF IInv, TypeOK, Sources, SourceStatus
  <2>4. FusionTypeOK'
    BY <1>2, <2>3, SelectType, StepCounts DEF FusionTypeOK
  <2>5. TypeOK'
    <3>1. aidedAt' \in 0 .. MaxTick
      BY <1>2, StepCounts DEF IInv, TypeOK
    <3>2. faulted' \in BOOLEAN /\ setpoint' \in {"default", "hover", "guidance"}
      BY <1>2 DEF SetpointFor, IInv, TypeOK
    <3> QED
      BY <2>2, <2>4, <3>1, <3>2, StepCounts DEF IInv, TypeOK, FlightMode
  <2> QED
    BY <1>2, <2>2, <2>5 DEF Modes, SetpointFor
<1>4. Clocks'
  <2>1. tick' % OuterDiv = 0
    BY StepCounts DEF IsOuter
  <2>2. tick - fusionNow \in 0 .. OuterDiv - 1
    BY StepCounts, ModRange DEF IInv, Clocks
  <2> QED
    BY <1>2, <2>1, <2>2, StepCounts DEF IInv, Clocks
<1>5. AlignedIsAided'
  <2> SUFFICES ASSUME Aligned', fusion' # "Coast"
               PROVE  aidedAt' = fusionNow'
    BY DEF AlignedIsAided
  <2>1. IsOuter(recorded')
    BY StepCounts DEF Aligned, IsOuter
  <2>2. \E i \in 1 .. 2 : scenario[i] # "Lost"
    BY <1>2, CoastHasNoSource, LoopAssumption DEF IInv, TypeOK
  <2>3. BatchAids(recorded')
    BY <2>1, <2>2 DEF BatchAids
  <2> QED
    BY <1>2, <2>3
<1> QED
  BY <1>3, <1>4, <1>5 DEF IInv

-----------------------------------------------------------------------------
(* The inductive invariant holds of every run and every replay. *)
THEOREM Invariance == Spec => []IInv
<1>1. IInv /\ [Next]_vars => IInv'
  <2> SUFFICES ASSUME IInv, [Next]_vars PROVE IInv'
    OBVIOUS
  <2>1. ASSUME NEW dropped \in 0 .. MaxLost, NEW climbed \in BOOLEAN,
               NEW driftLow \in BOOLEAN, Step(dropped, climbed, driftLow)
        PROVE  IInv'
    BY <2>1, PlainStep, OuterStep
  <2>2. CASE UNCHANGED vars
    BY <2>2
    DEF vars, fusionVars, loopVars, IInv, TypeOK, FusionTypeOK, Modes, Clocks,
        AlignedIsAided, Aligned
  <2> QED
    BY <2>1, <2>2 DEF Next
<1> QED
  BY InitHasIInv, <1>1, PTL DEF Spec

(* Type correctness, in every run and every replay. *)
THEOREM LoopTypeCorrect == Spec => []TypeOK
<1>1. IInv => TypeOK
  BY DEF IInv
<1> QED
  BY <1>1, Invariance, PTL

(* Loss of all aiding is a declared fault and a level hover, in every       *)
(* scenario and at every control step.                                      *)
THEOREM CoastIsSafe == Spec => []CoastIsDeclared
<1>1. IInv => CoastIsDeclared
  BY DEF IInv, Modes, CoastIsDeclared
<1> QED
  BY <1>1, Invariance, PTL

(* The reported age of the aiding is never optimistic and at most one cycle *)
(* pessimistic.                                                             *)
THEOREM NavigableIsAided == Spec => []NavigableMeansAided
<1>1. IInv => NavigableMeansAided
  <2> SUFFICES ASSUME IInv PROVE NavigableMeansAided
    OBVIOUS
  <2>1. /\ fusionNow \in Nat /\ lastAiding \in Nat /\ aidedAt \in Nat
        /\ OuterDiv \in Nat /\ AidingLimit \in Nat
    BY LoopAssumption, FusionAssumption DEF IInv, TypeOK, FusionTypeOK
  <2>2. ReportedAge = fusionNow - lastAiding
    BY <2>1 DEF IInv, Clocks, ReportedAge
  <2> QED
    BY <2>1, <2>2 DEF IInv, Clocks, NavigableMeansAided, IsNavigable
<1> QED
  BY <1>1, Invariance, PTL

(* A run whose batches are applied when they were sensed is aided in every  *)
(* navigation cycle in which its mode names a source.                       *)
THEOREM AlignedIsFused == Spec => []AlignedRunIsAided
<1>1. IInv => AlignedRunIsAided
  <2> SUFFICES ASSUME IInv, Aligned, tick >= OuterDiv, fusion # "Coast"
               PROVE  tick - aidedAt < OuterDiv
    BY DEF AlignedRunIsAided, Aligned
  <2>1. aidedAt = fusionNow
    BY DEF IInv, AlignedIsAided
  <2>2. tick \in Nat /\ fusionNow \in Nat /\ OuterDiv \in Nat \ {0}
    BY LoopAssumption DEF IInv, TypeOK, FusionTypeOK
  <2>3. tick - fusionNow \in 0 .. OuterDiv - 1
    BY <2>2, ModRange DEF IInv, Clocks
  <2> QED
    BY <2>1, <2>2, <2>3
<1> QED
  BY <1>1, Invariance, PTL

=============================================================================
