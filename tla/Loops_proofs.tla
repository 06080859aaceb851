---------------------------- MODULE Loops_proofs ----------------------------
(***************************************************************************)
(* Proofs about the two loops that fly the vehicle.  RateTiming: for every  *)
(* set of groups, every assignment of periods and every pattern of passes.  *)
(* Superloop: it is a timed scheduler, so what is proved of RateTiming      *)
(* holds of it, and a new target takes effect in time.  Mission: for every  *)
(* fence that is wide enough, every mission, every failsafe configuration   *)
(* and every number of axes.                                                *)
(***************************************************************************)
EXTENDS Superloop, Mission, FiniteSetTheorems, TLAPS

(* Where each group stands between passes: it was last stamped between the  *)
(* boot and now, and its runs so far fit into the time up to that stamp.    *)
Stamps ==
  /\ boot <= now
  /\ started => \A g \in Group :
       /\ boot <= last[g] /\ last[g] <= now
       /\ now - last[g] < Period[g]
       /\ (runs[g] - 1) * Period[g] <= last[g] - boot
  /\ ~started => missed = 0 /\ \A g \in Group : runs[g] = 0

(* The inductive invariant. *)
TimingInv == TimingTypeOK /\ Stamps /\ MissedNeedsALatePass

(* The late groups are a finite set, and their number is zero only when     *)
(* there is none (the increment of TimeTriggeredScheduler's missed count).  *)
LEMMA LateCount ==
  ASSUME NEW t
  PROVE  /\ Cardinality(LateAt(t)) \in Nat
         /\ LateAt(t) = {} => Cardinality(LateAt(t)) = 0
<1>1. LateAt(t) \subseteq Group
  BY DEF LateAt, DueAt
<1>2. IsFiniteSet(LateAt(t))
  BY <1>1, FS_Subset, RateSchedulerAssumption
<1> QED
  BY <1>2, FS_CardinalityType, FS_EmptySet

(* One more run takes one more period. *)
LEMMA OneMore ==
  ASSUME NEW n \in Nat, NEW m, m = n + 1, NEW p \in Nat
  PROVE  (m - 1) * p = (n - 1) * p + p
<1>1. m - 1 = n
  OBVIOUS
<1>2. n * p = (n - 1) * p + p
  OBVIOUS
<1> QED
  BY <1>1, <1>2, Zenon

(* Within the horizon the clock reads true time. *)
LEMMA ClockStep ==
  ASSUME TimingInv, NEW gap \in Gaps, TimedPass(gap)
  PROVE  /\ gap \in Nat /\ now \in Nat /\ now + gap \in 0 .. Horizon
         /\ now' = now + gap /\ boot' = boot /\ boot <= now /\ started' = TRUE
         /\ ReadClock(gap) = now + gap
<1>1. gap \in Nat /\ now \in Nat /\ boot <= now /\ Horizon \in Nat /\ ClockMod \in Nat
  BY RateSchedulerAssumption, RateTimingAssumption DEF TimingInv, TimingTypeOK, Stamps
<1>2. now + gap <= Horizon /\ Horizon < ClockMod /\ boot' = boot /\ Pass(gap)
  BY RateTimingAssumption DEF TimedPass
<1>3. (now + gap) % ClockMod = now + gap
  BY <1>1, <1>2
<1> QED
  BY <1>1, <1>2, <1>3 DEF Pass, Poll, ReadClock

(* On the first pass every group is stamped and has run once. *)
LEMMA FirstPass ==
  ASSUME TimingInv, NEW gap \in Gaps, TimedPass(gap), ~started
  PROVE  TimingInv'
<1>1. /\ gap \in Nat /\ now \in Nat /\ now + gap \in 0 .. Horizon
      /\ now' = now + gap /\ boot' = boot /\ boot <= now /\ started' = TRUE
      /\ ReadClock(gap) = now + gap
  BY ClockStep
<1>2. DueAt(now + gap) = Group /\ LateAt(now + gap) = {}
  BY DEF DueAt, LateAt
<1>3. missed' = 0
  BY <1>1, <1>2, LateCount DEF TimingInv, Stamps, TimedPass, Pass, Poll, ReadClock
<1>4. /\ due' = Group
      /\ last' = [g \in Group |-> now + gap]
      /\ runs' = [g \in Group |-> 1]
  BY <1>1, <1>2 DEF TimingInv, Stamps, TimedPass, Pass, Poll, Stamp
<1>5. longest' \in Nat
  BY DEF TimingInv, TimingTypeOK, TimedPass
<1>6. TimingTypeOK'
  BY <1>1, <1>3, <1>4, <1>5 DEF TimingInv, TimingTypeOK
<1>7. ASSUME NEW g \in Group
      PROVE  /\ boot' <= last'[g] /\ last'[g] <= now'
             /\ now' - last'[g] < Period[g]
             /\ (runs'[g] - 1) * Period[g] <= last'[g] - boot'
  <2>1. last'[g] = now' /\ now' \in Nat /\ runs'[g] = 1
    BY <1>1, <1>4
  <2>2. Period[g] \in Nat \ {0}
    BY RateSchedulerAssumption
  <2>3. (runs'[g] - 1) * Period[g] = 0
    BY <2>1, <2>2
  <2>4. boot' \in Nat /\ boot' <= now'
    BY <1>1, RateTimingAssumption DEF TimingInv, TimingTypeOK
  <2> QED
    BY <2>1, <2>2, <2>3, <2>4
<1>8. boot' <= now'
  BY <1>1, RateTimingAssumption DEF TimingInv, TimingTypeOK
<1>9. Stamps'
  BY <1>1, <1>7, <1>8 DEF Stamps
<1> QED
  BY <1>3, <1>6, <1>9 DEF TimingInv, MissedNeedsALatePass

(* On a later pass a group is stamped exactly when its period has passed.   *)
LEMMA LaterPass ==
  ASSUME TimingInv, NEW gap \in Gaps, TimedPass(gap), started
  PROVE  TimingInv'
<1>1. /\ gap \in Nat /\ now \in Nat /\ now + gap \in 0 .. Horizon
      /\ now' = now + gap /\ boot' = boot /\ boot <= now /\ started' = TRUE
      /\ ReadClock(gap) = now + gap
  BY ClockStep
<1>2. boot \in Nat /\ missed \in Nat /\ longest \in Nat
  BY RateTimingAssumption DEF TimingInv, TimingTypeOK
<1>3. ASSUME NEW g \in Group
      PROVE  /\ Period[g] \in Nat \ {0} /\ last[g] \in Nat /\ runs[g] \in Nat
             /\ boot <= last[g] /\ last[g] <= now /\ now - last[g] < Period[g]
             /\ (runs[g] - 1) * Period[g] <= last[g] - boot
             /\ Elapsed(now + gap, g) = now + gap - last[g]
             /\ g \in DueAt(now + gap) <=> now + gap - last[g] >= Period[g]
  <2>1. Period[g] \in Nat \ {0}
    BY RateSchedulerAssumption
  <2>2. last[g] \in Nat /\ runs[g] \in Nat
    BY DEF TimingInv, TimingTypeOK
  <2>3. /\ boot <= last[g] /\ last[g] <= now /\ now - last[g] < Period[g]
        /\ (runs[g] - 1) * Period[g] <= last[g] - boot
    BY DEF TimingInv, Stamps
  <2>4. Elapsed(now + gap, g) = now + gap - last[g]
    BY <1>1, <2>2, <2>3 DEF Elapsed
  <2>5. g \in DueAt(now + gap) <=> now + gap - last[g] >= Period[g]
    BY <2>4 DEF DueAt
  <2> QED
    BY <2>1, <2>2, <2>3, <2>4, <2>5
<1>4. /\ due' = DueAt(now + gap)
      /\ last' = [g \in Group |-> IF g \in DueAt(now + gap) THEN now + gap ELSE last[g]]
      /\ runs' = [g \in Group |-> runs[g] + IF g \in DueAt(now + gap) THEN 1 ELSE 0]
      /\ missed' = missed + Cardinality(LateAt(now + gap))
      /\ longest' = IF gap > longest THEN gap ELSE longest
  BY <1>1 DEF TimedPass, Pass, Poll, Stamp
<1>5. DueAt(now + gap) \subseteq Group
  BY DEF DueAt
<1>6. longest' \in Nat /\ longest' >= gap /\ longest' >= longest
  BY <1>1, <1>2, <1>4
<1>7. missed' \in Nat
  BY <1>2, <1>4, LateCount
<1>8. TimingTypeOK'
  <2>1. last' \in [Group -> 0 .. Horizon]
    BY <1>1, <1>4 DEF TimingInv, TimingTypeOK
  <2>2. runs' \in [Group -> Nat]
    BY <1>3, <1>4
  <2> QED
    BY <1>1, <1>4, <1>5, <1>6, <1>7, <2>1, <2>2 DEF TimingInv, TimingTypeOK
<1>9. ASSUME NEW g \in Group
      PROVE  /\ boot' <= last'[g] /\ last'[g] <= now'
             /\ now' - last'[g] < Period[g]
             /\ (runs'[g] - 1) * Period[g] <= last'[g] - boot'
  <2>1. CASE g \in DueAt(now + gap)
    <3>1. last'[g] = now + gap /\ runs'[g] = runs[g] + 1
      BY <1>4, <2>1
    <3>3. Period[g] <= now + gap - last[g]
      BY <1>1, <1>3, <2>1
    <3>5. (runs'[g] - 1) * Period[g] = (runs[g] - 1) * Period[g] + Period[g]
      BY <1>3, <3>1, OneMore
    <3> DEFINE X == (runs[g] - 1) * Period[g]
    <3>4. X \in Int
      BY <1>3
    <3>6. X <= last[g] - boot
      BY <1>3
    <3> HIDE DEF X
    <3> QED
      BY <1>1, <1>2, <1>3, <3>1, <3>3, <3>4, <3>5, <3>6
  <2>2. CASE g \notin DueAt(now + gap)
    <3>1. last'[g] = last[g] /\ runs'[g] = runs[g]
      BY <1>3, <1>4, <2>2
    <3>2. now + gap - last[g] < Period[g]
      BY <1>1, <1>3, <2>2
    <3> QED
      BY <1>1, <1>2, <1>3, <3>1, <3>2
  <2> QED
    BY <2>1, <2>2
<1>10. Stamps'
  <2>1. boot' <= now'
    BY <1>1, <1>2
  <2> QED
    BY <1>1, <1>9, <2>1 DEF Stamps
<1>11. MissedNeedsALatePass'
  <2> SUFFICES ASSUME missed' > 0
               PROVE  \E g \in Group : longest' > Period[g]
    BY DEF MissedNeedsALatePass
  <2>1. CASE LateAt(now + gap) = {}
    <3>1. missed' = missed
      BY <1>2, <1>4, <2>1, LateCount
    <3>2. PICK g \in Group : longest > Period[g]
      BY <3>1 DEF TimingInv, MissedNeedsALatePass
    <3> QED
      BY <1>2, <1>3, <1>6, <3>2
  <2>2. CASE LateAt(now + gap) # {}
    <3>1. PICK g \in Group : /\ g \in DueAt(now + gap)
                             /\ Elapsed(now + gap, g) > 2 * Period[g]
      BY <1>5, <2>2 DEF LateAt
    <3>2. gap > Period[g]
      BY <1>1, <1>3, <3>1
    <3> QED
      BY <1>1, <1>3, <1>6, <3>2
  <2> QED
    BY <2>1, <2>2
<1> QED
  BY <1>8, <1>10, <1>11 DEF TimingInv

(* TimingInv, the relation of the stamps to true time, is an invariant of   *)
(* the scheduler (scheduler.rs, poll).                                      *)
THEOREM Invariance == TimingSpec => []TimingInv
<1>1. TimingInit => TimingInv
  <2> SUFFICES ASSUME TimingInit PROVE TimingInv
    OBVIOUS
  <2>1. PICK t \in BootTimes : SchedInit(t) /\ boot = t
    BY DEF TimingInit
  <2>2. t \in 0 .. Horizon /\ t \in Nat
    BY <2>1, RateTimingAssumption
  <2>3. TimingTypeOK
    <3>1. now \in 0 .. Horizon /\ boot \in BootTimes
      BY <2>1, <2>2 DEF SchedInit
    <3>2. last \in [Group -> 0 .. Horizon]
      BY <2>1, RateTimingAssumption DEF SchedInit
    <3>3. runs \in [Group -> Nat] /\ longest \in Nat /\ missed \in Nat
      BY <2>1 DEF TimingInit, SchedInit
    <3>4. due \in SUBSET Group /\ started \in BOOLEAN
      BY <2>1 DEF SchedInit
    <3> QED
      BY <3>1, <3>2, <3>3, <3>4 DEF TimingTypeOK
  <2>4. Stamps
    BY <2>1, <2>2 DEF TimingInit, SchedInit, Stamps
  <2>5. MissedNeedsALatePass
    BY <2>1 DEF SchedInit, MissedNeedsALatePass
  <2> QED
    BY <2>3, <2>4, <2>5 DEF TimingInv
<1>2. TimingInv /\ [TimingNext]_timingVars => TimingInv'
  <2> SUFFICES ASSUME TimingInv, [TimingNext]_timingVars PROVE TimingInv'
    OBVIOUS
  <2>1. ASSUME NEW gap \in Gaps, TimedPass(gap) PROVE TimingInv'
    BY <2>1, FirstPass, LaterPass
  <2>2. CASE UNCHANGED timingVars
    BY <2>2 DEF timingVars, schedVars, TimingInv, TimingTypeOK, Stamps, MissedNeedsALatePass
  <2> QED
    BY <2>1, <2>2 DEF TimingNext
<1> QED
  BY <1>1, <1>2, PTL DEF TimingSpec

(* Every reachable state of the timed scheduler is well typed.              *)
THEOREM TypeCorrect == TimingSpec => []TimingTypeOK
<1>1. TimingInv => TimingTypeOK
  BY DEF TimingInv
<1> QED
  BY <1>1, Invariance, PTL

(* No pattern of passes leaves a group overdue: TimeTriggeredScheduler.poll *)
(* releases it in the first pass that finds its period over.                *)
THEOREM GroupsAreTimely == TimingSpec => []NoGroupOverdue
<1>1. TimingInv => NoGroupOverdue
  BY DEF TimingInv, Stamps, NoGroupOverdue
<1> QED
  BY <1>1, Invariance, PTL

(* No pattern of passes makes a group run faster than its rate.             *)
THEOREM RatesAreRespected == TimingSpec => []NeverFasterThanRate
<1>1. TimingInv => NeverFasterThanRate
  <2> SUFFICES ASSUME TimingInv, NEW g \in Group, runs[g] > 0
               PROVE  (runs[g] - 1) * Period[g] <= now - boot
    BY DEF NeverFasterThanRate
  <2>1. started
    BY DEF TimingInv, TimingTypeOK, Stamps
  <2>2. /\ (runs[g] - 1) * Period[g] <= last[g] - boot
        /\ last[g] <= now
    BY <2>1 DEF TimingInv, Stamps
  <2>3. now \in Nat /\ boot \in Nat /\ last[g] \in Nat
    BY RateTimingAssumption DEF TimingInv, TimingTypeOK
  <2>4. (runs[g] - 1) * Period[g] \in Int
    BY RateSchedulerAssumption DEF TimingInv, TimingTypeOK
  <2> DEFINE X == (runs[g] - 1) * Period[g]
  <2>5. X \in Int /\ X <= last[g] - boot
    BY <2>2, <2>4
  <2> HIDE DEF X
  <2>6. X <= now - boot
    BY <2>2, <2>3, <2>5
  <2> QED
    BY <2>6 DEF X
<1> QED
  BY <1>1, Invariance, PTL

(* A missed deadline is only ever counted after a late pass.                *)
THEOREM MissesAreReal == TimingSpec => []MissedNeedsALatePass
<1>1. TimingInv => MissedNeedsALatePass
  BY DEF TimingInv
<1> QED
  BY <1>1, Invariance, PTL

-----------------------------------------------------------------------------
(* A target is set no earlier than now, and as long as it is not flown the  *)
(* outer loop has not run since it was set.                                 *)
TargetPending ==
  /\ targetAt <= now
  /\ started /\ lastSetpoint.for # {target} => last[OuterLoop] <= targetAt

IInv == TypeOK /\ TimingInv /\ TargetPending /\ NewTargetTakesEffect

(* The flight modes a tick can leave the vehicle in. *)
LEMMA HandleType ==
  ASSUME NEW m \in FlightMode, NEW ev PROVE Handle(m, ev) \in FlightMode
<1> DEFINE P(n) == <<m, ev, n>> \in Transition
<1>1. CASE Accepts(m, ev)
  <2>1. PICK n \in FlightMode : P(n)
    BY <1>1 DEF Accepts
  <2>2. (CHOOSE k \in FlightMode : P(k)) \in FlightMode
    BY <2>1
  <2> QED
    BY <1>1, <2>2 DEF Handle
<1>2. CASE ~Accepts(m, ev)
  BY <1>2 DEF Handle
<1> QED
  BY <1>1, <1>2

(* Guidance and the protector stay within the setpoint type. *)
LEMMA SetpointType ==
  ASSUME TypeOK, NEW g
  PROVE  SetpointOf(g) \in Setpoint /\ Protect(SetpointOf(g)) \in Setpoint
<1>1. KpYaw * (target - estimate) \in Int
  BY SuperloopAssumption DEF TypeOK
<1>2. Guidance(target, estimate) \in Setpoint
  BY <1>1 DEF Guidance, Setpoint, TypeOK
<1>3. SetpointOf(g) \in Setpoint
  BY <1>2 DEF SetpointOf, TypeOK
<1>4. ASSUME NEW sp \in Setpoint PROVE Protect(sp) \in Setpoint
  <2>1. Clamp(sp.yawRate, MaxYawRate) \in Int
    BY SuperloopAssumption DEF Clamp, Setpoint
  <2> QED
    BY <2>1 DEF Protect, Setpoint
<1> QED
  BY <1>3, <1>4

(* Every step of the superloop is a step of the timed scheduler. *)
LEMMA LoopIsTimed ==
  ASSUME [Next]_vars PROVE [TimingNext]_timingVars
<1>1. ASSUME NEW gap \in Gaps, NEW yaw \in Yaws, Tick(gap, yaw)
      PROVE  TimingNext
  BY <1>1 DEF Tick, TimingNext
<1>2. ASSUME NEW t \in Targets, SetTarget(t) PROVE UNCHANGED timingVars
  BY <1>2 DEF SetTarget
<1>3. CASE UNCHANGED vars
  BY <1>3 DEF vars
<1> QED
  BY <1>1, <1>2, <1>3 DEF Next

(* The superloop implements the timed scheduler. *)
THEOREM ImplementsTiming == Spec => TimingSpec
<1>1. Init => TimingInit
  BY DEF Init
<1>2. [Next]_vars => [TimingNext]_timingVars
  BY LoopIsTimed
<1> QED
  BY <1>1, <1>2, PTL DEF Spec, TimingSpec

(* A tick of the supervisor keeps it.                                       *)
LEMMA TickKeepsIInv ==
  ASSUME IInv, TimingInv', NEW gap \in Gaps, NEW yaw \in Yaws, Tick(gap, yaw)
  PROVE  IInv'
<1>1. /\ TimedPass(gap) /\ now' = now + gap /\ started'
      /\ ReadClock(gap) = now + gap /\ gap \in Nat
  BY ClockStep DEF IInv, Tick
<1>2. /\ lastSetpoint' = SetpointOf(DueAt(now + gap))
      /\ command' = [tracked |-> SetpointOf(DueAt(now + gap)).yawRate,
                     protected |-> Protect(SetpointOf(DueAt(now + gap)))]
      /\ target' = target /\ targetAt' = targetAt
      /\ estimate' = yaw /\ mode' = Progress(mode)
      /\ last' = Stamp(now + gap)
  BY <1>1 DEF Tick, TimedPass, Pass, Poll
<1>3. TypeOK'
  <2>1. mode' \in FlightMode
    BY <1>2, HandleType DEF IInv, TypeOK, Progress
  <2>2. lastSetpoint' \in Setpoint
    BY <1>2, SetpointType DEF IInv
  <2>3. command' \in [tracked : Int, protected : Setpoint]
    BY <1>2, SetpointType DEF IInv, Setpoint
  <2> QED
    BY <1>2, <2>1, <2>2, <2>3 DEF IInv, TypeOK, TimingInv
<1>4. now \in Nat /\ targetAt \in Nat /\ targetAt <= now
  BY RateTimingAssumption DEF IInv, TypeOK, TimingTypeOK, TargetPending
<1>5. CASE OuterLoop \in DueAt(now + gap)
  <2>1. lastSetpoint'.for = {target'}
    BY <1>2, <1>5 DEF SetpointOf, Guidance
  <2> QED
    BY <1>1, <1>2, <1>3, <1>4, <2>1 DEF IInv, TargetPending, NewTargetTakesEffect
<1>6. CASE OuterLoop \notin DueAt(now + gap)
  <2>1. started /\ lastSetpoint' = lastSetpoint /\ last'[OuterLoop] = last[OuterLoop]
    BY <1>2, <1>6, SuperloopAssumption DEF DueAt, SetpointOf, Stamp
  <2>2. TargetPending'
    BY <1>1, <1>2, <1>4, <2>1 DEF IInv, TargetPending
  <2>3. lastSetpoint'.for # {}
    BY <2>1 DEF IInv, NewTargetTakesEffect
  <2>4. ASSUME lastSetpoint'.for # {target'}
        PROVE  now' - targetAt' < Period[OuterLoop]
    <3>1. last'[OuterLoop] <= targetAt'
      BY <1>1, <2>2, <2>4 DEF TargetPending
    <3>2. now' - last'[OuterLoop] < Period[OuterLoop]
      BY <1>1, SuperloopAssumption DEF TimingInv, Stamps
    <3>3. /\ now' \in Nat /\ last'[OuterLoop] \in Nat /\ targetAt' \in Nat
          /\ Period[OuterLoop] \in Nat
      BY <1>3, RateTimingAssumption, RateSchedulerAssumption, SuperloopAssumption
      DEF TypeOK, TimingTypeOK
    <3> QED
      BY <3>1, <3>2, <3>3
  <2> QED
    BY <1>3, <2>2, <2>3, <2>4 DEF IInv, NewTargetTakesEffect
<1> QED
  BY <1>5, <1>6

(* So does a new target, which is pending from then on.                     *)
LEMMA SetTargetKeepsIInv ==
  ASSUME IInv, TimingInv', NEW t \in Targets, SetTarget(t)
  PROVE  IInv'
<1>1. /\ target' = t /\ targetAt' = IF t = target THEN targetAt ELSE now
      /\ now' = now /\ last' = last /\ started' = started
      /\ lastSetpoint' = lastSetpoint /\ mode' = mode /\ estimate' = estimate
      /\ command' = command
  BY DEF SetTarget, timingVars, schedVars
<1>2. /\ now \in 0 .. Horizon /\ targetAt \in 0 .. Horizon
      /\ targetAt <= now /\ Horizon \in Nat
  BY RateTimingAssumption DEF IInv, TypeOK, TimingTypeOK, TargetPending
<1>3. TypeOK'
  BY <1>1, <1>2 DEF IInv, TypeOK, TimingInv
<1>4. CASE t = target
  BY <1>1, <1>3, <1>4 DEF IInv, TargetPending, NewTargetTakesEffect
<1>5. CASE t # target
  <2>1. started => last[OuterLoop] <= now
    BY SuperloopAssumption DEF IInv, TimingInv, Stamps
  <2>2. TargetPending'
    BY <1>1, <1>2, <1>5, <2>1 DEF TargetPending
  <2>3. NewTargetTakesEffect'
    <3>1. now - now < Period[OuterLoop]
      BY <1>2, RateSchedulerAssumption, SuperloopAssumption
    <3> QED
      BY <1>1, <1>5, <3>1 DEF IInv, NewTargetTakesEffect
  <2> QED
    BY <1>3, <2>2, <2>3 DEF IInv
<1> QED
  BY <1>4, <1>5

(* The invariant of the superloop, TargetPending among it, holds in every   *)
(* state (superloop.rs).                                                    *)
THEOREM LoopInvariance == Spec => []IInv
<1>1. Init /\ TimingInv => IInv
  <2> SUFFICES ASSUME Init, TimingInv PROVE IInv
    OBVIOUS
  <2>1. NoSetpoint \in Setpoint
    BY DEF NoSetpoint, Setpoint
  <2>2. TypeOK
    BY <2>1, SuperloopAssumption DEF Init, TypeOK, TimingInv, TimingTypeOK, FlightMode
  <2>3. ~started
    BY DEF Init, TimingInit, SchedInit
  <2>4. now \in Nat
    BY RateTimingAssumption DEF TimingInv, TimingTypeOK
  <2> QED
    BY <2>2, <2>3, <2>4 DEF IInv, Init, TargetPending, NewTargetTakesEffect
<1>2. IInv /\ TimingInv' /\ [Next]_vars => IInv'
  <2> SUFFICES ASSUME IInv, TimingInv', [Next]_vars PROVE IInv'
    OBVIOUS
  <2>1. CASE UNCHANGED vars
    BY <2>1 DEF vars, timingVars, schedVars, loopVars, IInv, TypeOK, TimingTypeOK,
       TimingInv, Stamps, MissedNeedsALatePass, TargetPending, NewTargetTakesEffect
  <2> QED
    BY <2>1, TickKeepsIInv, SetTargetKeepsIInv DEF Next
<1>3. Spec => []TimingInv
  BY ImplementsTiming, Invariance, PTL
<1> QED
  BY <1>1, <1>2, <1>3, PTL DEF Spec

(* Every reachable state of the superloop is well typed. *)
THEOREM LoopTypeCorrect == Spec => []TypeOK
<1>1. IInv => TypeOK
  BY DEF IInv
<1> QED
  BY <1>1, LoopInvariance, PTL

(* A target set between any two ticks is flown within one outer period.     *)
THEOREM TargetsAreFlown == Spec => []NewTargetTakesEffect
<1>1. IInv => NewTargetTakesEffect
  BY DEF IInv
<1> QED
  BY <1>1, LoopInvariance, PTL


-----------------------------------------------------------------------------

Position == [Axes -> Int]

(* What the fence needs to know of the state. *)
Typed ==
  /\ waypoints \in Seq(Position)
  /\ index \in Nat
  /\ safeZ \in Int
  /\ lastGood \in Position
  /\ pos \in Position

(* Whatever is desired, the vehicle is asked to fly to a position.          *)
LEMMA DesiredIsAPosition ==
  ASSUME Typed
  PROVE  Desired \in Position
<1>1. CASE triggered
  BY <1>1, MissionAssumption DEF Desired, FailsafeTarget, Typed, Position
<1>2. CASE ~triggered /\ armed /\ Advanced < Len(waypoints)
  <2>1. Advanced + 1 \in 1 .. Len(waypoints)
    BY <1>2 DEF Advanced, Typed
  <2> QED
    BY <1>2, <2>1 DEF Desired, Typed
<1>3. CASE ~triggered /\ ~(armed /\ Advanced < Len(waypoints))
  BY <1>3 DEF Desired, Typed
<1> QED
  BY <1>1, <1>2, <1>3

(* The monitor makes a position of a position. *)
LEMMA MitigatedIsAPosition ==
  ASSUME NEW p \in Position, NEW t \in Position
  PROVE  Mitigate(p, t) \in Position
<1>1. Pulled(t) \in Position
  BY MissionAssumption DEF Pulled, PullToward, Position
<1>2. Recovery(p) \in Position
  BY MissionAssumption DEF Recovery, ClampBetween, Position
<1>3. Status(p) \in {"Inside", "Warning", "Breach"}
  BY DEF Status
<1> QED
  BY <1>1, <1>2, <1>3 DEF Mitigate

(* The vehicle stays on the grid. *)
LEMMA TowardsIsAPosition ==
  ASSUME NEW p \in Position, NEW t \in Position
  PROVE  Towards(p, t) \in Position
  BY MissionAssumption DEF Towards, Position

(* No call and no turn takes any part of the state out of its type.         *)
LEMMA TypedHolds == MissionSpec => []Typed
<1>1. MissionInit => Typed
  <2> SUFFICES ASSUME MissionInit PROVE Typed
    OBVIOUS
  <2>1. waypoints \in Seq(Position) /\ index \in Nat
    BY DEF MissionInit
  <2>2. safeZ \in Int /\ lastGood \in Position /\ pos \in Position
    BY MissionAssumption DEF MissionInit, Position
  <2> QED
    BY <2>1, <2>2 DEF Typed
<1>2. Typed /\ [MissionNext]_missionVars => Typed'
  <2> SUFFICES ASSUME Typed, [MissionNext]_missionVars PROVE Typed'
    OBVIOUS
  <2>1. CASE Turn
    <3>1. pos' \in Position
      BY <2>1, DesiredIsAPosition, MitigatedIsAPosition, TowardsIsAPosition DEF Turn, Typed
    <3>2. index' \in Nat
      BY <2>1 DEF Turn, Advanced, Typed
    <3> QED
      BY <2>1, <3>1, <3>2 DEF Turn, failsafe, Typed
  <2>2. ASSUME NEW w \in Waypoints, Add(w) PROVE Typed'
    <3>1. w \in Position
      BY MissionAssumption DEF Position
    <3>2. waypoints' \in Seq(Position)
      BY <2>2, <3>1 DEF Add, Typed
    <3> QED
      BY <2>2, <3>2 DEF Add, failsafe, Typed
  <2>3. CASE Reset
    BY <2>3 DEF Reset, failsafe, Typed
  <2>4. CASE Arm
    BY <2>4 DEF Arm, failsafe, Typed
  <2>5. CASE Disarm
    BY <2>5 DEF Disarm, failsafe, Typed
  <2>6. CASE NoteGoodPosition
    BY <2>6 DEF NoteGoodPosition, sequencer, Typed
  <2>7. CASE Trigger \/ ClearFailsafe
    BY <2>7 DEF Trigger, ClearFailsafe, sequencer, Typed
  <2>8. CASE UNCHANGED missionVars
    BY <2>8 DEF missionVars, sequencer, failsafe, Typed
  <2> QED
    BY <2>1, <2>2, <2>3, <2>4, <2>5, <2>6, <2>7, <2>8 DEF MissionNext
<1> QED
  BY <1>1, <1>2, PTL DEF MissionSpec

-----------------------------------------------------------------------------
(* Clear of the band on an axis, one step stays between the fence's sides   *)
(* wherever it leads.                                                       *)
LEMMA StepFromTheClear ==
  ASSUME FenceIsWide, NEW p \in Position, NEW t \in Position, InsideGeofence(p), ~NearFence(p)
  PROVE  InsideGeofence(Towards(p, t))
<1> SUFFICES ASSUME NEW a \in Axes
             PROVE  FenceMin[a] <= Towards(p, t)[a] /\ Towards(p, t)[a] <= FenceMax[a]
  BY DEF InsideGeofence
<1>1. /\ p[a] \in Int /\ t[a] \in Int /\ FenceMin[a] \in Int /\ FenceMax[a] \in Int
      /\ Step \in Nat /\ Margin \in Nat /\ Step <= Margin
  BY MissionAssumption DEF Position, FenceIsWide
<1>2. /\ FenceMin[a] <= p[a] /\ p[a] <= FenceMax[a]
      /\ ~(Distance(p[a], FenceMin[a]) < Margin) /\ ~(Distance(FenceMax[a], p[a]) < Margin)
  BY DEF InsideGeofence, NearFence
<1>3. FenceMin[a] + Margin <= p[a] /\ p[a] <= FenceMax[a] - Margin
  BY <1>1, <1>2 DEF Distance
<1>4. Towards(p, t)[a] = IF Distance(p[a], t[a]) <= Step THEN t[a]
                         ELSE IF p[a] < t[a] THEN p[a] + Step ELSE p[a] - Step
  BY DEF Towards
<1>5. p[a] - Step <= Towards(p, t)[a] /\ Towards(p, t)[a] <= p[a] + Step
  BY <1>1, <1>4 DEF Distance
<1> QED
  BY <1>1, <1>3, <1>4, <1>5 DEF Distance

(* In the band, the target is pulled between the two bands, and a step      *)
(* towards it leads no further than it.                                     *)
LEMMA StepFromTheBand ==
  ASSUME FenceIsWide, NEW p \in Position, NEW t \in Position, InsideGeofence(p)
  PROVE  InsideGeofence(Towards(p, Pulled(t)))
<1> SUFFICES ASSUME NEW a \in Axes
             PROVE  /\ FenceMin[a] <= Towards(p, Pulled(t))[a]
                    /\ Towards(p, Pulled(t))[a] <= FenceMax[a]
  BY DEF InsideGeofence
<1>1. /\ p[a] \in Int /\ t[a] \in Int /\ FenceMin[a] \in Int /\ FenceMax[a] \in Int
      /\ Step \in Nat /\ Margin \in Nat /\ 2 * Margin <= FenceMax[a] - FenceMin[a]
  BY MissionAssumption DEF Position, FenceIsWide
<1>2. FenceMin[a] <= p[a] /\ p[a] <= FenceMax[a]
  BY DEF InsideGeofence
<1> DEFINE q == Pulled(t)[a]
<1>3. q = PullToward(FenceMin[a], FenceMax[a], t[a])
  BY DEF Pulled
<1>4. q \in Int /\ FenceMin[a] <= q /\ q <= FenceMax[a]
  BY <1>1, <1>3 DEF PullToward
<1>5. Towards(p, Pulled(t))[a] = IF Distance(p[a], q) <= Step THEN q
                                 ELSE IF p[a] < q THEN p[a] + Step ELSE p[a] - Step
  BY DEF Towards
<1> QED
  BY <1>1, <1>2, <1>4, <1>5 DEF Distance

(* No turn of the loop and no call of the operator takes a vehicle that is  *)
(* inside the fence out of it, whatever it is asked to fly to.              *)
THEOREM FenceHolds ==
  ASSUME FenceIsWide
  PROVE  MissionSpec => FenceIsNeverCrossed
<1>1. Typed /\ [MissionNext]_missionVars => [InsideGeofence(pos) => InsideGeofence(pos')]_missionVars
  <2> SUFFICES ASSUME Typed, MissionNext, InsideGeofence(pos)
               PROVE  InsideGeofence(pos')
    OBVIOUS
  <2>1. CASE Turn
    <3>1. pos \in Position /\ Desired \in Position
      BY DesiredIsAPosition DEF Typed
    <3>2. pos' = Towards(pos, Mitigate(pos, Desired))
      BY <2>1 DEF Turn
    <3>3. CASE NearFence(pos)
      <4>1. Mitigate(pos, Desired) = Pulled(Desired)
        BY <3>3 DEF Mitigate, Status
      <4> QED
        BY <3>1, <3>2, <4>1, StepFromTheBand
    <3>4. CASE ~NearFence(pos)
      <4>1. Mitigate(pos, Desired) = Desired
        BY <3>4 DEF Mitigate, Status
      <4> QED
        BY <3>1, <3>2, <3>4, <4>1, StepFromTheClear
    <3> QED
      BY <3>3, <3>4
  <2>2. CASE ~Turn
    <3>1. UNCHANGED pos
      BY <2>2 DEF MissionNext, Add, Reset, Arm, Disarm, NoteGoodPosition, Trigger, ClearFailsafe
    <3> QED
      BY <3>1
  <2> QED
    BY <2>1, <2>2
<1> QED
  BY <1>1, TypedHolds, PTL DEF MissionSpec, FenceIsNeverCrossed
=============================================================================
