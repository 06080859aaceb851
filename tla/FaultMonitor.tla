---------------------------- MODULE FaultMonitor ----------------------------
(***************************************************************************)
(* The fault-persistence scrubber of tpt-core/src/redundancy.rs: one       *)
(* FaultMonitor per redundant lane, driven over the whole channel set by   *)
(* scrub_channels, which returns the lanes to be dropped from voting.      *)
(*                                                                         *)
(* Times are integers (ticks of the sample clock), where the code has f64  *)
(* seconds; a RecoveryRate of r ticks per healthy tick is the code's       *)
(* recovery_rate.  Lane 0 of the code is lane 1 here.                      *)
(***************************************************************************)
EXTENDS Integers, FiniteSets

CONSTANTS
  N,            \* number of monitors (lanes)
  HealthLen,    \* length of the raw health slice handed to scrub_channels
  DropCap,      \* length of the caller's `dropped` buffer
  Threshold,    \* persist_threshold
  MaxStrikes,   \* max_transient_strikes
  RecoveryRate, \* recovery_rate
  U32Max,       \* largest strike count a u32 holds
  Dts           \* sample intervals a caller may pass; dt <= 0 is a stalled clock

ASSUME FaultMonitorAssumption ==
  /\ N \in Nat \ {0} /\ HealthLen \in Nat /\ DropCap \in Nat
  /\ Threshold \in Nat \ {0} /\ RecoveryRate \in Nat
  /\ U32Max \in Nat \ {0} /\ MaxStrikes \in 0 .. U32Max
  /\ Dts \subseteq Int

VARIABLES
  healthy,     \* healthy[c]: raw per-sample health of lane c
  monitor,     \* monitor[c]: the FaultMonitor of lane c
  dropped,     \* lanes returned by the latest scrub_channels call
  faultTime,   \* history: faulted time of c since it was last clean, capped
  faultCount   \* history: faulted samples of c since it was last clean, capped

vars == <<healthy, monitor, dropped, faultTime, faultCount>>

Lane == 1 .. N
FaultClass == {"None", "Transient", "Permanent"}

(* FaultMonitor::new, and what reset() restores. *)
Fresh == [persist |-> 0, strikes |-> 0, latched |-> FALSE, class |-> "None"]

Smaller(a, b) == IF a <= b THEN a ELSE b

-----------------------------------------------------------------------------
(* Faulty sample: both accumulators grow, and either limit latches. *)
Mut_StrikeOffByOne(m, dt) ==
  LET p == m.persist + dt
      s == Smaller(m.strikes + 1, U32Max)
      permanent == p >= Threshold \/ s >= MaxStrikes
  IN [persist |-> p, strikes |-> s, latched |-> permanent,
      class |-> IF permanent THEN "Permanent" ELSE "Transient"]

Strike(m, dt) ==
  LET p == m.persist + dt
      s == Smaller(m.strikes + 1, U32Max)
      permanent == p >= Threshold \/ s > MaxStrikes
  IN [persist |-> p, strikes |-> s, latched |-> permanent,
      class |-> IF permanent THEN "Permanent" ELSE "Transient"]

(* Healthy sample of a lane not latched: time decays by RecoveryRate per    *)
(* tick, strikes by one.                                                    *)
Mut_HealBelowZero(m, dt) ==
  LET p == m.persist - dt * RecoveryRate
      s == IF m.strikes > 0 THEN m.strikes - 1 ELSE 0
  IN [m EXCEPT !.persist = p, !.strikes = s,
               !.class = IF p = 0 /\ s = 0 THEN "None" ELSE "Transient"]

Mut_HealKeepsStrikes(m, dt) ==
  LET decayed == m.persist - dt * RecoveryRate
      p == IF decayed < 0 THEN 0 ELSE decayed
  IN [m EXCEPT !.persist = p,
               !.class = IF p = 0 /\ m.strikes = 0 THEN "None" ELSE "Transient"]

Mut_HealClearsOnTimeOnly(m, dt) ==
  LET decayed == m.persist - dt * RecoveryRate
      p == IF decayed < 0 THEN 0 ELSE decayed
      s == IF m.strikes > 0 THEN m.strikes - 1 ELSE 0
  IN [m EXCEPT !.persist = p, !.strikes = s,
               !.class = IF p = 0 THEN "None" ELSE "Transient"]

Heal(m, dt) ==
  LET decayed == m.persist - dt * RecoveryRate
      p == IF decayed < 0 THEN 0 ELSE decayed
      s == IF m.strikes > 0 THEN m.strikes - 1 ELSE 0
  IN [persist |-> p, strikes |-> s, latched |-> FALSE,
      class |-> IF p = 0 /\ s = 0 THEN "None" ELSE "Transient"]

(* FaultMonitor::update.  A latched monitor ignores every sample, and a     *)
(* sample whose interval is not positive leaves the monitor as it was.      *)
Mut_UpdateUnlatches(m, isFaulted, dt) ==
  IF dt <= 0 THEN m ELSE IF isFaulted THEN Strike(m, dt)
                         ELSE [Heal(m, dt) EXCEPT !.latched = FALSE]

Update(m, isFaulted, dt) ==
  IF m.latched \/ dt <= 0 THEN m
  ELSE IF isFaulted THEN Strike(m, dt) ELSE Heal(m, dt)

(* The loop of scrub_channels visits min(monitors.len(), health.len())      *)
(* lanes, and writes the permanent ones to `dropped` while it has room.     *)
Scrubbed == {c \in Lane : c <= HealthLen}

Mut_DropListShort(monitors) ==
  LET permanent == {c \in Scrubbed : monitors[c].class = "Permanent"}
  IN {c \in permanent : Cardinality({d \in permanent : d < c}) < DropCap - 1}

DropList(monitors) ==
  LET permanent == {c \in Scrubbed : monitors[c].class = "Permanent"}
  IN {c \in permanent : Cardinality({d \in permanent : d < c}) < DropCap}

-----------------------------------------------------------------------------
Init ==
  /\ healthy = [c \in Lane |-> TRUE]
  /\ monitor = [c \in Lane |-> Fresh]
  /\ dropped = {}
  /\ faultTime = [c \in Lane |-> 0]
  /\ faultCount = [c \in Lane |-> 0]

(* The lane's built-in test changes its verdict between two samples. *)
HealthChange(c) ==
  /\ healthy' = [healthy EXCEPT ![c] = ~healthy[c]]
  /\ UNCHANGED <<monitor, dropped, faultTime, faultCount>>

(* The evidence a lane has given: cleared when the lane is clean, otherwise *)
(* grown by each effective faulty sample, never past what a limit needs.    *)
Evidence(old, gain, cap, c, dt) ==
  IF monitor'[c].class = "None" THEN 0
  ELSE IF c \in Scrubbed /\ dt > 0 /\ ~healthy[c]
       THEN Smaller(old + gain, cap) ELSE old

(* One call of scrub_channels over the whole channel set. *)
Scrub(dt) ==
  /\ monitor' = [c \in Lane |-> IF c \in Scrubbed
                                THEN Update(monitor[c], ~healthy[c], dt)
                                ELSE monitor[c]]
  /\ dropped' = DropList(monitor')
  /\ faultTime' = [c \in Lane |-> Evidence(faultTime[c], dt, Threshold, c, dt)]
  /\ faultCount' = [c \in Lane |->
                      Evidence(faultCount[c], 1, MaxStrikes + 1, c, dt)]
  /\ UNCHANGED healthy

(* FaultMonitor::reset after a power cycle or a passed built-in test. *)
Reset(c) ==
  /\ monitor' = [monitor EXCEPT ![c] = Fresh]
  /\ faultTime' = [faultTime EXCEPT ![c] = 0]
  /\ faultCount' = [faultCount EXCEPT ![c] = 0]
  /\ UNCHANGED <<healthy, dropped>>

Next ==
  \/ \E c \in Lane : HealthChange(c)
  \/ \E dt \in Dts : Scrub(dt)
  \/ \E c \in Lane : Reset(c)

Spec == Init /\ [][Next]_vars

(* The cyclic loop keeps scrubbing, and its clock keeps advancing. *)
EffectiveScrub == \E dt \in Dts : dt > 0 /\ Scrub(dt)
FairSpec == Spec /\ WF_vars(EffectiveScrub)

-----------------------------------------------------------------------------
MonitorType ==
  [persist : Nat, strikes : 0 .. U32Max, latched : BOOLEAN, class : FaultClass]

(* Types of the variables; the strike count stays a u32. *)
TypeOK ==
  /\ healthy \in [Lane -> BOOLEAN]
  /\ monitor \in [Lane -> MonitorType]
  /\ dropped \in SUBSET Lane
  /\ faultTime \in [Lane -> Nat]
  /\ faultCount \in [Lane -> Nat]

(* A lane is declared permanent only on evidence gathered since it was last *)
(* clean: faults that were fully scrubbed away never count again, so short  *)
(* upsets separated by complete recoveries cannot add up to a removal.      *)
RemovalNeedsEvidence ==
  \A c \in Lane : monitor[c].class = "Permanent" =>
    faultTime[c] >= Threshold \/ faultCount[c] > MaxStrikes

(* A lane that has reached either limit is never still trusted: what update *)
(* returns, the latch and the accumulators tell the same story.             *)
VerdictMatchesCounters ==
  \A c \in Lane :
    LET m == monitor[c] IN
    /\ m.latched <=> m.class = "Permanent"
    /\ m.latched <=> m.persist >= Threshold \/ m.strikes > MaxStrikes
    /\ m.class = "None" <=> m.persist = 0 /\ m.strikes = 0

(* Permanent is final: whatever the lane reports later, only reset() gives  *)
(* it back, and a scrub never forgets a lane it had dropped.                *)
PermanentUntilReset ==
  [][\A c \in Lane :
       monitor[c].class = "Permanent" /\ monitor'[c].class # "Permanent"
         => monitor'[c] = Fresh /\ dropped' = dropped]_vars

(* A lane that stays faulty and is not reset is eventually dropped for      *)
(* good, unless the caller's buffer is already full of dropped lanes.       *)
PersistentFaultIsDropped ==
  \A c \in Lane :
    (<>[](~healthy[c]) /\ <>[][monitor'[c] # Fresh]_vars)
      => <>[](c \in dropped \/ Cardinality(dropped) = DropCap)

(* A lane that stays healthy ends clean or permanent: a transient clears.   *)
TransientClears ==
  \A c \in Lane :
    <>[](healthy[c]) => <>[](monitor[c].class # "Transient")

=============================================================================
