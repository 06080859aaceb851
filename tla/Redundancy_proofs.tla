------------------------- MODULE Redundancy_proofs -------------------------
(***************************************************************************)
(* Proofs about tpt-core/src/redundancy.rs.  FaultMonitor: for any number  *)
(* of lanes, any scrub window, strike limit, recovery rate and set of      *)
(* sample intervals.  ChannelVoting: for any number of channels, any       *)
(* tolerance, noise and drift, and any integers on the lanes.              *)
(***************************************************************************)
EXTENDS FaultMonitor, ChannelVoting, DataLemmas, SequenceTheorems

(* What the invariants need of one lane: the monitor m and the evidence     *)
(* (time t, samples k) gathered since the lane was last clean.  While the   *)
(* lane is not latched its accumulators never exceed that evidence.         *)
LaneInv(m, t, k) ==
  /\ m \in MonitorType
  /\ t \in 0 .. Threshold
  /\ k \in 0 .. (MaxStrikes + 1)
  /\ m.latched <=> m.class = "Permanent"
  /\ m.latched <=> (m.persist >= Threshold \/ m.strikes > MaxStrikes)
  /\ m.class = "None" <=> (m.persist = 0 /\ m.strikes = 0)
  /\ m.latched => t >= Threshold \/ k > MaxStrikes
  /\ ~m.latched => m.persist <= t /\ m.strikes <= k

(* The inductive invariant of the whole scrubber. *)
IInv ==
  /\ healthy \in [Lane -> BOOLEAN]
  /\ monitor \in [Lane -> MonitorType]
  /\ dropped \in SUBSET Lane
  /\ faultTime \in [Lane -> Nat]
  /\ faultCount \in [Lane -> Nat]
  /\ \A c \in Lane : LaneInv(monitor[c], faultTime[c], faultCount[c])

(* The evidence rule for one lane, as Scrub applies it: g is what this      *)
(* sample adds, n the class the sample ends in.                             *)
NextEvidence(old, g, cap, struck, n) ==
  IF n = "None" THEN 0 ELSE IF struck THEN Smaller(old + g, cap) ELSE old

-----------------------------------------------------------------------------
(* A fresh or reset monitor satisfies the lane invariant with no evidence.  *)
LEMMA FreshLane == LaneInv(Fresh, 0, 0)
  BY FaultMonitorAssumption DEF LaneInv, Fresh, MonitorType, FaultClass

(* A faulty sample on a trusted lane preserves the lane invariant.          *)
LEMMA StrikeLane ==
  ASSUME NEW m \in MonitorType, NEW t, NEW k, NEW dt \in Int, dt > 0,
         LaneInv(m, t, k), ~m.latched
  PROVE  LaneInv(Strike(m, dt),
                 Smaller(t + dt, Threshold), Smaller(k + 1, MaxStrikes + 1))
  <1> DEFINE p == m.persist + dt
             s == Smaller(m.strikes + 1, U32Max)
             r == Strike(m, dt)
  <1>1. /\ m.persist \in Nat /\ m.strikes \in 0 .. U32Max
        /\ m.persist < Threshold /\ m.strikes <= MaxStrikes
        /\ t \in 0 .. Threshold /\ k \in 0 .. (MaxStrikes + 1)
        /\ m.persist <= t /\ m.strikes <= k
    BY FaultMonitorAssumption DEF LaneInv, MonitorType
  <1>2. /\ p \in Nat /\ p > 0 /\ s \in 0 .. U32Max /\ s > 0
        /\ s <= m.strikes + 1
    BY <1>1, FaultMonitorAssumption DEF Smaller
  <1>3. r = [persist |-> p, strikes |-> s,
             latched |-> (p >= Threshold \/ s > MaxStrikes),
             class |-> IF p >= Threshold \/ s > MaxStrikes
                       THEN "Permanent" ELSE "Transient"]
    BY DEF Strike
  <1> HIDE DEF p, s, r
  <1>4. r \in MonitorType
    BY <1>2, <1>3 DEF MonitorType, FaultClass
  <1>a. /\ r.persist = p /\ r.strikes = s
        /\ r.latched <=> (p >= Threshold \/ s > MaxStrikes)
        /\ r.class = IF p >= Threshold \/ s > MaxStrikes
                     THEN "Permanent" ELSE "Transient"
    BY <1>3, Zenon
  <1>5. /\ r.latched <=> r.class = "Permanent"
        /\ r.latched <=> (r.persist >= Threshold \/ r.strikes > MaxStrikes)
        /\ r.class = "None" <=> (r.persist = 0 /\ r.strikes = 0)
    <2>1. CASE p >= Threshold \/ s > MaxStrikes
      BY <1>2, <1>a, <2>1
    <2>2. CASE ~(p >= Threshold \/ s > MaxStrikes)
      BY <1>2, <1>a, <2>2
    <2>3. QED
      BY <2>1, <2>2
  <1>6. /\ r.latched => \/ Smaller(t + dt, Threshold) >= Threshold
                        \/ Smaller(k + 1, MaxStrikes + 1) > MaxStrikes
        /\ ~r.latched => /\ r.persist <= Smaller(t + dt, Threshold)
                         /\ r.strikes <= Smaller(k + 1, MaxStrikes + 1)
        /\ Smaller(t + dt, Threshold) \in 0 .. Threshold
        /\ Smaller(k + 1, MaxStrikes + 1) \in 0 .. (MaxStrikes + 1)
    <2>1. /\ p <= t + dt /\ s <= k + 1
      BY <1>1, <1>2 DEF p
    <2>2. QED
      BY <1>1, <1>2, <1>a, <2>1, FaultMonitorAssumption DEF Smaller
  <1>7. QED
    BY <1>4, <1>5, <1>6 DEF LaneInv, r

(* A healthy sample never latches, and only shrinks the accumulators; the   *)
(* evidence is forgotten exactly when the lane comes out clean.             *)
LEMMA HealLane ==
  ASSUME NEW m \in MonitorType, NEW t, NEW k, NEW dt \in Int, dt > 0,
         LaneInv(m, t, k), ~m.latched
  PROVE  LaneInv(Heal(m, dt),
                 IF Heal(m, dt).class = "None" THEN 0 ELSE t,
                 IF Heal(m, dt).class = "None" THEN 0 ELSE k)
  <1> DEFINE d == dt * RecoveryRate
             p == IF m.persist - d < 0 THEN 0 ELSE m.persist - d
             s == IF m.strikes > 0 THEN m.strikes - 1 ELSE 0
             r == Heal(m, dt)
  <1>1. /\ m.persist \in Nat /\ m.strikes \in 0 .. U32Max
        /\ m.persist < Threshold /\ m.strikes <= MaxStrikes
        /\ t \in 0 .. Threshold /\ k \in 0 .. (MaxStrikes + 1)
        /\ m.persist <= t /\ m.strikes <= k
    BY FaultMonitorAssumption DEF LaneInv, MonitorType
  <1>2. d \in Nat
    BY FaultMonitorAssumption
  <1> HIDE DEF d
  <1>3. /\ p \in Nat /\ p <= m.persist
        /\ s \in 0 .. U32Max /\ s <= m.strikes
    BY <1>1, <1>2, FaultMonitorAssumption
  <1>4. r = [persist |-> p, strikes |-> s, latched |-> FALSE,
             class |-> IF p = 0 /\ s = 0 THEN "None" ELSE "Transient"]
    BY DEF Heal, d
  <1> HIDE DEF p, s, r
  <1>5. r \in MonitorType
    BY <1>3, <1>4 DEF MonitorType, FaultClass
  <1>6. QED
    BY <1>1, <1>3, <1>4, <1>5, FaultMonitorAssumption DEF LaneInv, r

(* Hence update() as a whole, with the evidence rule Scrub applies to it.   *)
LEMMA UpdateLane ==
  ASSUME NEW m \in MonitorType, NEW t, NEW k, NEW dt \in Int,
         NEW bad \in BOOLEAN, LaneInv(m, t, k)
  PROVE  LET n == Update(m, bad, dt).class IN
         LaneInv(Update(m, bad, dt),
                 NextEvidence(t, dt, Threshold, dt > 0 /\ bad, n),
                 NextEvidence(k, 1, MaxStrikes + 1, dt > 0 /\ bad, n))
  <1> DEFINE r == Update(m, bad, dt)
             t2 == NextEvidence(t, dt, Threshold, dt > 0 /\ bad, r.class)
             k2 == NextEvidence(k, 1, MaxStrikes + 1, dt > 0 /\ bad, r.class)
  <1> SUFFICES LaneInv(r, t2, k2)
    OBVIOUS
  <1>0. /\ t \in 0 .. Threshold /\ k \in 0 .. (MaxStrikes + 1)
        /\ m.persist \in Nat /\ m.strikes \in Nat
        /\ Threshold \in Nat \ {0} /\ MaxStrikes \in Nat
    BY FaultMonitorAssumption DEF LaneInv, MonitorType
  <1>1. CASE m.latched
    <2>1. r = m /\ m.class = "Permanent"
      BY <1>1 DEF Update, LaneInv
    <2>2. /\ t2 \in 0 .. Threshold /\ k2 \in 0 .. (MaxStrikes + 1)
          /\ t2 >= t /\ k2 >= k
      BY <1>0, <2>1 DEF NextEvidence, Smaller
    <2>3. QED
      BY <1>0, <1>1, <2>1, <2>2 DEF LaneInv
  <1>2. CASE ~m.latched /\ dt <= 0
    <2>1. r = m
      BY <1>2 DEF Update
    <2>2. /\ t2 = IF m.class = "None" THEN 0 ELSE t
          /\ k2 = IF m.class = "None" THEN 0 ELSE k
      BY <1>2, <2>1 DEF NextEvidence
    <2>3. QED
      BY <1>0, <1>2, <2>1, <2>2 DEF LaneInv
  <1>3. CASE ~m.latched /\ dt > 0 /\ bad
    <2>1. r = Strike(m, dt)
      BY <1>3 DEF Update
    <2>2. r.class # "None"
      BY <2>1 DEF Strike
    <2>3. /\ t2 = Smaller(t + dt, Threshold)
          /\ k2 = Smaller(k + 1, MaxStrikes + 1)
      BY <1>3, <2>2 DEF NextEvidence
    <2>4. QED
      BY <1>3, <2>1, <2>3, StrikeLane
  <1>4. CASE ~m.latched /\ dt > 0 /\ ~bad
    <2>1. r = Heal(m, dt)
      BY <1>4 DEF Update
    <2>2. /\ t2 = IF r.class = "None" THEN 0 ELSE t
          /\ k2 = IF r.class = "None" THEN 0 ELSE k
      BY <1>4 DEF NextEvidence
    <2>3. QED
      BY <1>4, <2>1, <2>2, HealLane
  <1>5. QED
    BY <1>1, <1>2, <1>3, <1>4

-----------------------------------------------------------------------------
(* Fresh monitors without evidence satisfy it.                              *)
LEMMA InitIInv == Init => IInv
  <1> SUFFICES ASSUME Init PROVE IInv
    OBVIOUS
  <1>1. Fresh \in MonitorType
    BY FreshLane DEF LaneInv
  <1>2. QED
    BY <1>1, FreshLane DEF Init, IInv

(* One scrub_channels call: every lane takes an update() or keeps still.    *)
LEMMA ScrubIInv ==
  ASSUME IInv, NEW dt \in Dts, Scrub(dt)
  PROVE  IInv'
  <1>1. dt \in Int
    BY FaultMonitorAssumption
  <1>2. ASSUME NEW c \in Lane
        PROVE  LaneInv(monitor'[c], faultTime'[c], faultCount'[c])
    <2>1. /\ LaneInv(monitor[c], faultTime[c], faultCount[c])
          /\ monitor[c] \in MonitorType /\ healthy[c] \in BOOLEAN
      BY <1>2 DEF IInv
    <2>2. /\ faultTime'[c] = Evidence(faultTime[c], dt, Threshold, c, dt)
          /\ faultCount'[c] = Evidence(faultCount[c], 1, MaxStrikes + 1, c, dt)
      BY <1>2 DEF Scrub
    <2>3. CASE c \in Scrubbed
      <3> DEFINE n == Update(monitor[c], ~healthy[c], dt)
      <3>1. monitor'[c] = n
        BY <1>2, <2>3 DEF Scrub
      <3>2. /\ faultTime'[c] = NextEvidence(faultTime[c], dt, Threshold,
                                            dt > 0 /\ ~healthy[c], n.class)
            /\ faultCount'[c] = NextEvidence(faultCount[c], 1, MaxStrikes + 1,
                                             dt > 0 /\ ~healthy[c], n.class)
        BY <2>2, <2>3, <3>1 DEF Evidence, NextEvidence
      <3> HIDE DEF n
      <3>3. LaneInv(n, NextEvidence(faultTime[c], dt, Threshold,
                                    dt > 0 /\ ~healthy[c], n.class),
                       NextEvidence(faultCount[c], 1, MaxStrikes + 1,
                                    dt > 0 /\ ~healthy[c], n.class))
        BY <1>1, <2>1, UpdateLane DEF n
      <3>4. QED
        BY <3>1, <3>2, <3>3
    <2>4. CASE c \notin Scrubbed
      <3>1. monitor'[c] = monitor[c]
        BY <1>2, <2>4 DEF Scrub
      <3>2. /\ faultTime'[c] = IF monitor[c].class = "None" THEN 0 ELSE faultTime[c]
            /\ faultCount'[c] = IF monitor[c].class = "None" THEN 0 ELSE faultCount[c]
        BY <2>2, <2>4, <3>1 DEF Evidence
      <3>3. QED
        BY <2>1, <3>1, <3>2, FaultMonitorAssumption DEF LaneInv, MonitorType
    <2>5. QED
      BY <2>3, <2>4
  <1>3. \A c \in Lane : /\ monitor'[c] \in MonitorType
                        /\ faultTime'[c] \in Nat /\ faultCount'[c] \in Nat
    BY <1>2, FaultMonitorAssumption DEF LaneInv
  <1>4. /\ DOMAIN monitor' = Lane /\ DOMAIN faultTime' = Lane
        /\ DOMAIN faultCount' = Lane
        /\ monitor' = [c \in Lane |-> monitor'[c]]
        /\ faultTime' = [c \in Lane |-> faultTime'[c]]
        /\ faultCount' = [c \in Lane |-> faultCount'[c]]
    BY DEF Scrub
  <1>5. /\ monitor' \in [Lane -> MonitorType]
        /\ faultTime' \in [Lane -> Nat] /\ faultCount' \in [Lane -> Nat]
    BY <1>3, <1>4
  <1>6. dropped' \in SUBSET Lane
    BY DEF Scrub, DropList, Scrubbed
  <1>7. healthy' \in [Lane -> BOOLEAN]
    BY DEF Scrub, IInv
  <1>8. QED
    BY <1>2, <1>5, <1>6, <1>7 DEF IInv

(* So does every step, a reset and a lane that changes its health included. *)
LEMMA NextIInv == IInv /\ [Next]_vars => IInv'
  <1> SUFFICES ASSUME IInv, [Next]_vars PROVE IInv'
    OBVIOUS
  <1>1. ASSUME NEW c \in Lane, HealthChange(c) PROVE IInv'
    BY <1>1 DEF IInv, HealthChange
  <1>2. ASSUME NEW dt \in Dts, Scrub(dt) PROVE IInv'
    BY <1>2, ScrubIInv
  <1>3. ASSUME NEW c \in Lane, Reset(c) PROVE IInv'
    <2>1. Fresh \in MonitorType
      BY FreshLane DEF LaneInv
    <2>2. QED
      BY <1>3, <2>1, FreshLane DEF IInv, Reset
  <1>4. CASE UNCHANGED vars
    BY <1>4 DEF IInv, vars
  <1>5. QED
    BY <1>1, <1>2, <1>3, <1>4 DEF Next

(* The invariant holds in every state of the scrubber.                      *)
LEMMA Invariance == Spec => []IInv
  BY InitIInv, NextIInv, PTL DEF Spec

(* Every reachable state of scrub_channels is well typed: in particular the *)
(* fault timer never goes below zero and the strike count fits a u32.       *)
THEOREM TypeCorrect == Spec => []TypeOK
  <1>1. IInv => TypeOK
    BY DEF IInv, TypeOK
  <1>2. QED
    BY <1>1, Invariance, PTL

(* No lane is ever removed on evidence older than its last clean verdict.   *)
THEOREM RemovalIsJustified == Spec => []RemovalNeedsEvidence
  <1>1. IInv => RemovalNeedsEvidence
    BY DEF IInv, LaneInv, RemovalNeedsEvidence
  <1>2. QED
    BY <1>1, Invariance, PTL

(* The latch, the class update() returns and the two accumulators agree.    *)
THEOREM VerdictsAreConsistent == Spec => []VerdictMatchesCounters
  <1>1. IInv => VerdictMatchesCounters
    BY DEF IInv, LaneInv, VerdictMatchesCounters
  <1>2. QED
    BY <1>1, Invariance, PTL

(* A permanent verdict ends only by reset().                                *)
THEOREM PermanentIsFinal == Spec => PermanentUntilReset
  <1> DEFINE Final == \A c \in Lane :
               monitor[c].class = "Permanent" /\ monitor'[c].class # "Permanent"
                 => monitor'[c] = Fresh /\ dropped' = dropped
  <1>1. ASSUME IInv, [Next]_vars PROVE [Final]_vars
    <2> SUFFICES ASSUME NEW c \in Lane, monitor[c].class = "Permanent",
                        monitor'[c].class # "Permanent", Next
                 PROVE  monitor'[c] = Fresh /\ dropped' = dropped
      BY <1>1
    <2>1. monitor[c].latched
      BY <1>1 DEF IInv, LaneInv
    <2>2. ASSUME NEW d \in Lane, HealthChange(d) PROVE FALSE
      BY <2>2 DEF HealthChange
    <2>3. ASSUME NEW dt \in Dts, Scrub(dt) PROVE FALSE
      BY <2>1, <2>3 DEF Scrub, Update
    <2>4. ASSUME NEW d \in Lane, Reset(d)
          PROVE  monitor'[c] = Fresh /\ dropped' = dropped
      BY <1>1, <2>4 DEF Reset, IInv
    <2>5. QED
      BY <2>2, <2>3, <2>4 DEF Next
  <1>2. QED
    BY <1>1, Invariance, PTL DEF Spec, PermanentUntilReset

-----------------------------------------------------------------------------
(* Enumerating a finite set of numbers in ascending order visits each of    *)
(* its members exactly once (the index loops of the voters).                *)
LEMMA OrderIsComplete ==
  ASSUME NEW S \in SUBSET Nat, IsFiniteSet(S)
  PROVE  /\ Cardinality(S) \in Nat
         /\ InOrder(S) \in [1 .. Cardinality(S) -> S]
         /\ \A k, l \in 1 .. Cardinality(S) : InOrder(S)[k] = InOrder(S)[l] => k = l
         /\ \A i \in S : \E k \in 1 .. Cardinality(S) : InOrder(S)[k] = i
<1> DEFINE below(i) == {j \in S : j < i}
           rank == [i \in S |-> Cardinality(below(i))]
           n == Cardinality(S)
<1>1. n \in Nat
  BY FS_CardinalityType
<1>2. \A i : IsFiniteSet(below(i)) /\ Cardinality(below(i)) \in Nat
  <2>1. \A i : below(i) \in SUBSET S
    OBVIOUS
  <2> HIDE DEF below
  <2> QED
    BY <2>1, FS_Subset, FS_CardinalityType
<1>3. ASSUME NEW i \in S, NEW j \in S, i < j
      PROVE  rank[i] < rank[j]
  <2>1. below(i) \in SUBSET below(j) /\ below(i) # below(j)
    <3>1. i \in below(j) /\ i \notin below(i)
      BY <1>3
    <3>2. ASSUME NEW x \in S, x < i PROVE x < j
      <4>1. x \in Int /\ i \in Int /\ j \in Int
        OBVIOUS
      <4> QED
        BY <1>3, <3>2, <4>1
    <3> QED
      BY <3>1, <3>2
  <2> HIDE DEF below
  <2>2. Cardinality(below(i)) <= Cardinality(below(j)) /\ Cardinality(below(i)) # Cardinality(below(j))
    BY <1>2, <2>1, FS_Subset
  <2>3. Cardinality(below(i)) < Cardinality(below(j))
    BY <1>2, <2>2
  <2> QED
    BY <2>3
<1>4. rank \in [S -> 0 .. n - 1]
  <2> SUFFICES ASSUME NEW i \in S PROVE Cardinality(below(i)) \in 0 .. n - 1
    OBVIOUS
  <2>1. below(i) \in SUBSET S /\ below(i) # S
    <3>1. i \notin below(i)
      OBVIOUS
    <3> QED
      BY <3>1
  <2> HIDE DEF below
  <2>2. Cardinality(below(i)) <= n /\ Cardinality(below(i)) # n
    BY <1>2, <2>1, FS_Subset
  <2> QED
    BY <1>1, <1>2, <2>2
<1>5. \A i, j \in S : rank[i] = rank[j] => i = j
  <2> SUFFICES ASSUME NEW i \in S, NEW j \in S, rank[i] = rank[j] PROVE i = j
    OBVIOUS
  <2> HIDE DEF rank
  <2>1. rank[i] \in Nat /\ rank[j] \in Nat
    BY <1>1, <1>4
  <2>2. ~(i < j) /\ ~(j < i)
    BY <1>3, <2>1
  <2> QED
    BY <2>2
<1> HIDE DEF rank
<1>6. \A r \in 0 .. n - 1 : \E i \in S : rank[i] = r
  <2> DEFINE R == {rank[i] : i \in S}
  <2>1. R \in SUBSET (0 .. n - 1)
    BY <1>4
  <2>2. rank \in Bijection(S, R)
    BY <1>4, <1>5 DEF Bijection, Injection, Surjection, IsInjective
  <2>3. IsFiniteSet(R) /\ Cardinality(R) = n
    <3>1. ExistsBijection(S, R)
      BY <2>2 DEF ExistsBijection
    <3> HIDE DEF R
    <3> QED
      BY <3>1, FS_Bijection
  <2>4. IsFiniteSet(0 .. n - 1) /\ Cardinality(0 .. n - 1) = n
    <3>1. 0 \in Int /\ n - 1 \in Int /\ (IF 0 > n - 1 THEN 0 ELSE (n - 1) - 0 + 1) = n
      BY <1>1
    <3>2. /\ IsFiniteSet(0 .. n - 1)
          /\ Cardinality(0 .. n - 1) = IF 0 > n - 1 THEN 0 ELSE (n - 1) - 0 + 1
      BY <3>1, FS_Interval, Zenon
    <3> QED
      BY <3>1, <3>2
  <2>5. R = 0 .. n - 1
    <3> HIDE DEF R
    <3> QED
      BY <2>1, <2>3, <2>4, FS_Subset
  <2> QED
    BY <2>5
<1>7. \A k \in 1 .. n : InOrder(S)[k] \in S /\ rank[InOrder(S)[k]] = k - 1
  <2> SUFFICES ASSUME NEW k \in 1 .. n PROVE InOrder(S)[k] \in S /\ rank[InOrder(S)[k]] = k - 1
    OBVIOUS
  <2>1. InOrder(S)[k] = CHOOSE i \in S : Cardinality(below(i)) = k - 1
    BY DEF InOrder
  <2>2. PICK i \in S : rank[i] = k - 1
    BY <1>1, <1>6
  <2>3. Cardinality(below(i)) = k - 1
    BY <2>2 DEF rank
  <2>4. InOrder(S)[k] \in S /\ Cardinality(below(InOrder(S)[k])) = k - 1
    <3> HIDE DEF below
    <3> QED
      BY <2>1, <2>3
  <2> QED
    BY <2>4 DEF rank
<1>8. InOrder(S) \in [1 .. n -> S]
  <2> DEFINE nth(k) == CHOOSE i \in S : Cardinality({j \in S : j < i}) = k - 1
  <2>1. InOrder(S) = [k \in 1 .. n |-> nth(k)]
    BY DEF InOrder
  <2> HIDE DEF nth
  <2>2. \A k \in 1 .. n : nth(k) \in S
    BY <1>7, <2>1
  <2> QED
    BY <2>1, <2>2
<1>9. ASSUME NEW i \in S PROVE \E k \in 1 .. n : InOrder(S)[k] = i
  <2>1. rank[i] \in 0 .. n - 1 /\ rank[i] + 1 \in 1 .. n
    BY <1>1, <1>4
  <2>2. rank[InOrder(S)[rank[i] + 1]] = rank[i] /\ InOrder(S)[rank[i] + 1] \in S
    BY <1>7, <2>1
  <2> QED
    BY <1>5, <2>1, <2>2
<1>10. \A k, l \in 1 .. n : InOrder(S)[k] = InOrder(S)[l] => k = l
  <2> SUFFICES ASSUME NEW k \in 1 .. n, NEW l \in 1 .. n, InOrder(S)[k] = InOrder(S)[l]
               PROVE  k = l
    OBVIOUS
  <2>1. k - 1 = l - 1
    BY <1>7
  <2> QED
    BY <1>1, <2>1
<1> QED
  BY <1>1, <1>7, <1>8, <1>9, <1>10

(* The smaller of two numbers.                                              *)
LEMMA SmallerOfTwo ==
  ASSUME NEW a \in Int, NEW b \in Int
  PROVE  Min({a, b}) = IF a <= b THEN a ELSE b
<1> DEFINE P(m) == \A x \in {a, b} : m <= x
<1>1. Min({a, b}) = CHOOSE m \in {a, b} : P(m)
  BY DEF Min
<1>2. \E m \in {a, b} : P(m)
  OBVIOUS
<1> HIDE DEF P
<1>3. Min({a, b}) \in {a, b} /\ P(Min({a, b}))
  BY <1>1, <1>2
<1> QED
  BY <1>3 DEF P

(* The values that are voted on are those of the healthy channels, as many  *)
(* as the scratch buffer holds, each channel once.                          *)
LEMMA ValuesOfHealthy ==
  ASSUME NEW rs \in [Channel -> Report]
  PROVE  /\ HealthyLanes(rs) \in SUBSET Nat /\ HealthyLanes(rs) \in SUBSET Channel
         /\ IsFiniteSet(HealthyLanes(rs))
         /\ Len(InOrder(HealthyLanes(rs))) = Cardinality(HealthyLanes(rs))
         /\ Len(HealthyValues(rs)) = IF Cardinality(HealthyLanes(rs)) <= MaxChannels
                                     THEN Cardinality(HealthyLanes(rs)) ELSE MaxChannels
         /\ HealthyValues(rs) \in Seq(Int)
         /\ \A k \in 1 .. Len(HealthyValues(rs)) :
              /\ InOrder(HealthyLanes(rs))[k] \in HealthyLanes(rs)
              /\ HealthyValues(rs)[k] = rs[InOrder(HealthyLanes(rs))[k]].value
<1> DEFINE H == HealthyLanes(rs)
           n == Cardinality(H)
           m == IF n <= MaxChannels THEN n ELSE MaxChannels
<1>1. H \in SUBSET Channel
  BY DEF HealthyLanes
<1>2. Channel \in SUBSET Nat /\ IsFiniteSet(Channel)
  BY ChannelVotingAssumption, FS_Interval DEF Channel
<1>3. H \in SUBSET Nat /\ IsFiniteSet(H)
  BY <1>1, <1>2, FS_Subset
<1> HIDE DEF H
<1>4. n \in Nat /\ InOrder(H) \in [1 .. n -> H]
  BY <1>3, OrderIsComplete
<1>5. InOrder(H) \in Seq(H) /\ Len(InOrder(H)) = n
  BY <1>4
<1>6. Min({n, MaxChannels}) = m /\ m \in Nat /\ m <= n
  BY <1>4, SmallerOfTwo, ChannelVotingAssumption
<1> DEFINE vals == HealthyValues(rs)
           val(k) == rs[InOrder(H)[k]].value
<1>7. vals = [k \in 1 .. m |-> val(k)]
  BY <1>5, <1>6 DEF HealthyValues, H
<1>8. \A k \in 1 .. m : InOrder(H)[k] \in H /\ val(k) \in Int
  <2> SUFFICES ASSUME NEW k \in 1 .. m PROVE InOrder(H)[k] \in H /\ val(k) \in Int
    OBVIOUS
  <2>1. InOrder(H)[k] \in H
    BY <1>4, <1>6
  <2>2. rs[InOrder(H)[k]] \in Report
    BY <1>1, <2>1
  <2> QED
    BY <2>1, <2>2 DEF Report
<1> HIDE DEF vals, val, m, n
<1>9. vals \in [1 .. m -> Int] /\ \A k \in 1 .. m : vals[k] = val(k)
  BY <1>7, <1>8
<1>10. vals \in Seq(Int) /\ Len(vals) = m
  BY <1>6, <1>9
<1> QED
  BY <1>1, <1>3, <1>5, <1>8, <1>9, <1>10 DEF vals, val, H, m, n

(* The lanes of a vote: finitely many integers.                             *)
LEMMA LanesAreCounted ==
  ASSUME NEW vals \in Seq(Int)
  PROVE  /\ Len(vals) \in Nat /\ DOMAIN vals = 1 .. Len(vals)
         /\ IsFiniteSet(DOMAIN vals) /\ Cardinality(DOMAIN vals) = Len(vals)
         /\ \A k \in DOMAIN vals : vals[k] \in Int
<1> DEFINE n == Len(vals)
<1>1. n \in Nat /\ DOMAIN vals = 1 .. n /\ \A k \in DOMAIN vals : vals[k] \in Int
  OBVIOUS
<1> HIDE DEF n
<1>2. 1 \in Int /\ n \in Int /\ (IF 1 > n THEN 0 ELSE n - 1 + 1) = n
  BY <1>1
<1>3. IsFiniteSet(1 .. n) /\ Cardinality(1 .. n) = IF 1 > n THEN 0 ELSE n - 1 + 1
  BY <1>2, FS_Interval, Zenon
<1> QED
  BY <1>1, <1>2, <1>3 DEF n

(* The disagreement of two lanes is the distance of their values. *)
LEMMA DisagreementIsDistance ==
  ASSUME NEW a \in Int, NEW b \in Int
  PROVE  /\ Disagreement(a, b) \in Nat
         /\ a <= b => Disagreement(a, b) = b - a
         /\ b <= a => Disagreement(a, b) = a - b
BY DEF Disagreement, Abs

(* Being within t of each other is being within t either way.               *)
LEMMA DisagreementIsBounded ==
  ASSUME NEW a \in Int, NEW b \in Int, NEW t \in Int
  PROVE  Disagreement(a, b) <= t <=> a - b <= t /\ b - a <= t
BY DEF Disagreement, Abs

(* The triangle inequality.                                                 *)
LEMMA DisagreementAddsUp ==
  ASSUME NEW a \in Int, NEW b \in Int, NEW c \in Int, NEW d \in Int, NEW e \in Int,
         Disagreement(a, b) <= d, Abs(c - b) <= e
  PROVE  Disagreement(a, c) <= d + e
BY DEF Disagreement, Abs

(* An average of values within t of w is within t of w. *)
LEMMA AverageIsNear ==
  ASSUME NEW vals \in Seq(Int), vals # <<>>, NEW w \in Int, NEW t \in Nat,
         \A k \in DOMAIN vals : Disagreement(vals[k], w) <= t
  PROVE  /\ Within(Average(vals), Whole(w), t)
         /\ Within(Whole(w), Average(vals), t)
<1> DEFINE n == Len(vals)
           D == DOMAIN vals
           lo == [k \in D |-> w - t]
           hi == [k \in D |-> w + t]
<1>1. n \in Nat /\ n > 0 /\ D = 1 .. n
  OBVIOUS
<1>2. IsFiniteSet(D) /\ Cardinality(D) = n
  BY LanesAreCounted
<1>3. \A k \in D : vals[k] \in Int /\ w - t <= vals[k] /\ vals[k] <= w + t
  BY DEF Disagreement, Abs
<1>4. SumFunctionOnSet(vals, D) \in Int
  BY <1>2, <1>3, SumType
<1>5. SumFunctionOnSet(lo, D) = (w - t) * n /\ SumFunctionOnSet(hi, D) = (w + t) * n
  <2>1. w - t \in Int /\ w + t \in Int /\ (\A k \in D : lo[k] = w - t) /\ (\A k \in D : hi[k] = w + t)
    OBVIOUS
  <2> HIDE DEF lo, hi, D
  <2> QED
    BY <1>2, <2>1, SumConst
<1>6. /\ SumFunctionOnSet(lo, D) <= SumFunctionOnSet(vals, D)
      /\ SumFunctionOnSet(vals, D) <= SumFunctionOnSet(hi, D)
  <2>1. \A k \in D : /\ lo[k] \in Int /\ hi[k] \in Int /\ vals[k] \in Int
                     /\ lo[k] <= vals[k] /\ vals[k] <= hi[k]
    BY <1>3
  <2> HIDE DEF lo, hi, D
  <2> QED
    BY <1>2, <2>1, SumLe
<1> DEFINE sum == SumFunctionOnSet(vals, D)
<1>7. Average(vals) = <<sum, n>>
  BY DEF Average, SumFunction
<1> HIDE DEF lo, hi, D, sum, n
<1>8. (w - t) * n = w * n - t * n /\ (w + t) * n = w * n + t * n /\ w * n \in Int /\ t * n \in Int
  BY <1>1
<1>9. sum \in Int /\ w * n - t * n <= sum /\ sum <= w * n + t * n
  BY <1>4, <1>5, <1>6, <1>8 DEF sum
<1>10. Abs(sum * 1 - w * n) <= t * n * 1 /\ Abs(w * n - sum * 1) <= t * 1 * n
  <2>1. t * n * 1 = t * n /\ t * 1 * n = t * n /\ sum * 1 = sum
    BY <1>1, <1>8, <1>9
  <2> QED
    BY <1>8, <1>9, <2>1 DEF Abs
<1> QED
  BY <1>7, <1>10 DEF Within, Whole

(* Lanes that agree pairwise: no two values are farther apart than t. *)
LEMMA PairsAreNear ==
  ASSUME NEW vals \in Seq(Int), NEW t \in Int, MaxPairwiseDisagreement(vals) <= t,
         NEW i \in DOMAIN vals, NEW j \in DOMAIN vals
  PROVE  Disagreement(vals[i], vals[j]) <= t
<1> DEFINE D == DOMAIN vals
           gap == [p \in D \X D |-> Disagreement(vals[p[1]], vals[p[2]])]
           G == {Disagreement(vals[k], vals[l]) : k, l \in D}
           S == {0} \cup G
<1>1. IsFiniteSet(D)
  BY LanesAreCounted
<1>2. IsFiniteSet(D \X D)
  BY <1>1, FS_Product
<1>3. G = {gap[p] : p \in D \X D}
  <2>1. ASSUME NEW k \in D, NEW l \in D
        PROVE  Disagreement(vals[k], vals[l]) \in {gap[p] : p \in D \X D}
    <3>1. <<k, l>> \in D \X D /\ gap[<<k, l>>] = Disagreement(vals[k], vals[l])
      OBVIOUS
    <3> HIDE DEF gap
    <3> QED
      BY <3>1
  <2>2. ASSUME NEW p \in D \X D PROVE gap[p] \in G
    <3>1. p[1] \in D /\ p[2] \in D /\ gap[p] = Disagreement(vals[p[1]], vals[p[2]])
      OBVIOUS
    <3> QED
      BY <3>1
  <2>3. ASSUME NEW y \in G PROVE y \in {gap[p] : p \in D \X D}
    <3>1. PICK k \in D, l \in D : y = Disagreement(vals[k], vals[l])
      OBVIOUS
    <3> HIDE DEF gap, D
    <3> QED
      BY <2>1, <3>1
  <2>4. ASSUME NEW y \in {gap[p] : p \in D \X D} PROVE y \in G
    <3> HIDE DEF gap, G, D
    <3> QED
      BY <2>2
  <2> HIDE DEF gap, G
  <2> QED
    BY <2>3, <2>4
<1>4. IsFiniteSet(G)
  <2> HIDE DEF G, gap
  <2> QED
    BY <1>2, <1>3, ImageIsFinite
<1>5. S \in SUBSET Int /\ S # {}
  BY DEF Disagreement, Abs
<1>6. IsFiniteSet(S)
  <2> HIDE DEF G
  <2>1. IsFiniteSet({0})
    BY FS_Singleton
  <2> QED
    BY <1>4, <2>1, FS_Union
<1>10. MaxPairwiseDisagreement(vals) = Max(S)
  BY DEF MaxPairwiseDisagreement
<1> HIDE DEF S
<1>7. \E m \in S : \A x \in S : x <= m
  BY <1>5, <1>6, Extremes
<1>8. Max(S) \in S /\ \A x \in S : Max(S) >= x
  <2> DEFINE P(m) == \A x \in S : m >= x
  <2>1. \E m \in S : P(m)
    BY <1>5, <1>7
  <2>2. Max(S) = CHOOSE m \in S : P(m)
    BY DEF Max
  <2> HIDE DEF P
  <2>3. Max(S) \in S /\ P(Max(S))
    BY <2>1, <2>2
  <2> QED
    BY <2>3 DEF P
<1>9. Disagreement(vals[i], vals[j]) \in S
  BY DEF S
<1>11. Max(S) \in Int /\ Disagreement(vals[i], vals[j]) \in Int
  BY <1>5, <1>8, <1>9
<1> HIDE DEF D, gap, G
<1> QED
  BY <1>8, <1>9, <1>10, <1>11

(* The most central value is one of them, and none has a smaller score. *)
LEMMA CentralIsLeast ==
  ASSUME NEW vals \in Seq(Int), vals # <<>>
  PROVE  /\ MostCentralIndex(vals) \in DOMAIN vals
         /\ \A j \in DOMAIN vals : /\ Score(vals, j) \in Int
                                   /\ Score(vals, MostCentralIndex(vals)) <= Score(vals, j)
<1> DEFINE D == DOMAIN vals
           S == {Score(vals, j) : j \in D}
           Best == {i \in D : \A j \in D : Score(vals, i) <= Score(vals, j)}
<1>1. IsFiniteSet(D) /\ D # {} /\ D \in SUBSET Nat
  <2>1. Len(vals) \in Nat /\ D = 1 .. Len(vals) /\ IsFiniteSet(D)
    BY LanesAreCounted
  <2>2. D # {} /\ D \in SUBSET Nat
    OBVIOUS
  <2> QED
    BY <2>1, <2>2
<1>2. ASSUME NEW j \in D PROVE Score(vals, j) \in Int
  <2> DEFINE f == [k \in D |-> Disagreement(vals[j], vals[k])]
  <2>1. \A k \in D : f[k] \in Int
    BY DEF Disagreement, Abs
  <2>2. DOMAIN f = D
    OBVIOUS
  <2>3. Score(vals, j) = SumFunctionOnSet(f, D)
    BY <2>2 DEF Score, SumFunction
  <2> HIDE DEF f, D
  <2> QED
    BY <1>1, <2>1, <2>3, SumType
<1>3. S \in SUBSET Int /\ S # {} /\ IsFiniteSet(S)
  <2> DEFINE f == [j \in D |-> Score(vals, j)]
  <2>1. S = {f[j] : j \in D} /\ f \in Surjection(D, S)
    BY DEF Surjection
  <2>2. S \in SUBSET Int /\ S # {}
    BY <1>1, <1>2
  <2> HIDE DEF S, f, D
  <2> QED
    BY <1>1, <2>1, <2>2, FS_Surjection, Zenon
<1>4. PICK m \in S : \A x \in S : m <= x
  <2> HIDE DEF S
  <2> QED
    BY <1>3, Extremes
<1>5. Best # {}
  <2>1. PICK i \in D : m = Score(vals, i)
    OBVIOUS
  <2>2. i \in Best
    BY <1>4, <2>1
  <2> QED
    BY <2>2
<1>6. Best \in SUBSET Nat
  BY <1>1
<1>7. MostCentralIndex(vals) \in Best
  <2> DEFINE P(i) == \A j \in Best : i <= j
  <2>1. MostCentralIndex(vals) = CHOOSE i \in Best : P(i)
    BY DEF MostCentralIndex, Min
  <2> HIDE DEF Best
  <2>2. \E i \in Best : P(i)
    BY <1>5, <1>6, Least
  <2> HIDE DEF P
  <2> QED
    BY <2>1, <2>2
<1> QED
  BY <1>2, <1>7

(* Mid-value select outvotes one value: if all but one of at least three    *)
(* values are within e of t, so is the most central one.  (A value b beyond *)
(* them has a score larger than that of the value g next to it, by the      *)
(* distance d of the two once for each other value.)                        *)
LEMMA OneLiarIsOutvoted ==
  ASSUME NEW vals \in Seq(Int), Len(vals) >= 3, NEW x \in DOMAIN vals,
         NEW t \in Int, NEW e \in Nat,
         \A k \in DOMAIN vals \ {x} : Disagreement(vals[k], t) <= e
  PROVE  Disagreement(vals[MostCentralIndex(vals)], t) <= e
<1> DEFINE D == DOMAIN vals
           n == Len(vals)
           c == MostCentralIndex(vals)
           others == {vals[k] : k \in D \ {x}}
<1>1. /\ n \in Nat /\ n >= 3 /\ D = 1 .. n
      /\ \A k \in D : vals[k] \in Int
  OBVIOUS
<1>2. IsFiniteSet(D) /\ Cardinality(D) = n
  BY LanesAreCounted
<1>3. others \in SUBSET Int /\ others # {} /\ IsFiniteSet(others)
  <2> DEFINE f == [k \in D \ {x} |-> vals[k]]
  <2>1. IsFiniteSet(D \ {x})
    BY <1>2, FS_Subset
  <2>2. f \in Surjection(D \ {x}, others)
    BY DEF Surjection
  <2>3. others \in SUBSET Int /\ others # {}
    <3>1. 1 \in D /\ 2 \in D /\ 1 # 2
      BY <1>1
    <3> QED
      BY <1>1, <3>1
  <2> HIDE DEF f, others, D
  <2> QED
    BY <2>1, <2>2, <2>3, FS_Surjection, Zenon
<1>4. \A j \in D : Score(vals, j) \in Int /\ Score(vals, c) <= Score(vals, j)
  BY <1>1, CentralIsLeast
<1>5. c \in D
  BY <1>1, CentralIsLeast
<1>6. CASE c # x
  BY <1>5, <1>6
<1>7. CASE c = x
  (* The neighbour g of x, and what x's score has more than g's. *)
  <2>1. ASSUME NEW g \in D \ {x}, NEW d \in Nat, d > 0,
               \A k \in D \ {x} : Disagreement(vals[x], vals[k]) = d + Disagreement(vals[g], vals[k]),
               Disagreement(vals[g], vals[x]) = d
        PROVE  FALSE
    <3> DEFINE ofX == [k \in D |-> Disagreement(vals[x], vals[k])]
               ofG == [k \in D |-> Disagreement(vals[g], vals[k])]
               all == [k \in D |-> d]
               spike == [k \in D |-> IF k = x THEN -(2 * d) ELSE 0]
               more == [k \in D |-> all[k] + spike[k]]
    <3>1. Score(vals, x) = SumFunctionOnSet(ofX, D) /\ Score(vals, g) = SumFunctionOnSet(ofG, D)
      <4>1. DOMAIN ofX = D /\ DOMAIN ofG = D
        OBVIOUS
      <4> QED
        BY <4>1 DEF Score, SumFunction
    <3>2. \A k \in D : ofG[k] \in Int /\ all[k] = d /\ spike[k] = IF k = x THEN -(2 * d) ELSE 0
      BY <1>1 DEF Disagreement, Abs
    <3>3. \A k \in D : more[k] \in Int /\ ofX[k] = ofG[k] + more[k]
      <4> SUFFICES ASSUME NEW k \in D PROVE more[k] \in Int /\ ofX[k] = ofG[k] + more[k]
        OBVIOUS
      <4>1. CASE k = x
        <5>1. ofX[k] = 0 /\ ofG[k] = d /\ more[k] = d - 2 * d
          BY <1>1, <2>1, <4>1 DEF Disagreement, Abs
        <5> QED
          BY <5>1
      <4>2. CASE k # x
        <5>1. more[k] = d /\ ofX[k] = d + ofG[k] /\ ofG[k] \in Int
          BY <2>1, <3>2, <4>2
        <5> QED
          BY <5>1, SMTT(30)
      <4> QED
        BY <4>1, <4>2
    <3>4. \A k \in D : more[k] = all[k] + spike[k]
      OBVIOUS
    <3> HIDE DEF ofX, ofG, all, spike, more, D, n
    <3>5. SumFunctionOnSet(ofX, D) = SumFunctionOnSet(ofG, D) + SumFunctionOnSet(more, D)
      BY <1>2, <3>2, <3>3, SumAdd
    <3>6. SumFunctionOnSet(more, D) = SumFunctionOnSet(all, D) + SumFunctionOnSet(spike, D)
      BY <1>2, <3>2, <3>4, SumAdd
    <3>7. SumFunctionOnSet(all, D) = d * n
      <4>1. d \in Int
        OBVIOUS
      <4> QED
        BY <1>2, <3>2, <4>1, SumConst
    <3>8. SumFunctionOnSet(spike, D) = -(2 * d)
      <4>1. -(2 * d) \in Int /\ x \in D
        BY <1>5, <1>7
      <4> QED
        BY <1>2, <3>2, <4>1, SumSpike
    <3>9. d * n - 2 * d = d * (n - 2) /\ d * (n - 2) > 0
      <4>1. d * (n - 2) = d * n - 2 * d
        BY <1>1
      <4>2. n - 2 \in Nat /\ n - 2 >= 1
        BY <1>1
      <4>3. d * (n - 2) = d + d * (n - 3) /\ n - 3 \in Nat
        BY <1>1
      <4>4. d * (n - 3) \in Nat
        BY <4>3
      <4>5. d + d * (n - 3) > 0
        BY <2>1, <4>4
      <4> QED
        BY <4>1, <4>3, <4>5
    <3>10. Score(vals, x) <= Score(vals, g) /\ Score(vals, g) \in Int
      BY <1>4, <1>7 DEF D
    <3>11. d * n \in Int
      BY <1>1
    <3> QED
      BY <3>1, <3>5, <3>6, <3>7, <3>8, <3>9, <3>10, <3>11
  <2>2. CASE \A k \in D \ {x} : vals[k] < vals[x]
    <3>1. PICK m \in others : \A y \in others : y <= m
      <4> HIDE DEF others
      <4> QED
        BY <1>3, Extremes
    <3>2. PICK g \in D \ {x} : vals[g] = m
      OBVIOUS
    <3>3. \A k \in D \ {x} : vals[k] <= vals[g] /\ vals[k] < vals[x]
      BY <2>2, <3>1, <3>2
    <3>4. /\ vals[x] - vals[g] \in Nat /\ vals[x] - vals[g] > 0
          /\ Disagreement(vals[g], vals[x]) = vals[x] - vals[g]
      BY <1>1, <1>5, <1>7, <3>3 DEF Disagreement, Abs
    <3>5. ASSUME NEW k \in D \ {x}
          PROVE  Disagreement(vals[x], vals[k]) = (vals[x] - vals[g]) + Disagreement(vals[g], vals[k])
      <4>1. vals[k] \in Int /\ vals[g] \in Int /\ vals[x] \in Int
        BY <1>1, <1>5, <1>7
      <4>2. vals[k] <= vals[g] /\ vals[k] <= vals[x]
        BY <3>3, <4>1
      <4>3. Disagreement(vals[x], vals[k]) = vals[x] - vals[k] /\ Disagreement(vals[g], vals[k]) = vals[g] - vals[k]
        BY <4>1, <4>2, DisagreementIsDistance
      <4> QED
        BY <4>1, <4>3
    <3> QED
      BY <2>1, <3>4, <3>5
  <2>3. CASE \A k \in D \ {x} : vals[x] < vals[k]
    <3>1. PICK m \in others : \A y \in others : m <= y
      <4> HIDE DEF others
      <4> QED
        BY <1>3, Extremes
    <3>2. PICK g \in D \ {x} : vals[g] = m
      OBVIOUS
    <3>3. \A k \in D \ {x} : vals[g] <= vals[k] /\ vals[x] < vals[k]
      BY <2>3, <3>1, <3>2
    <3>4. /\ vals[g] - vals[x] \in Nat /\ vals[g] - vals[x] > 0
          /\ Disagreement(vals[g], vals[x]) = vals[g] - vals[x]
      BY <1>1, <1>5, <1>7, <3>3 DEF Disagreement, Abs
    <3>5. ASSUME NEW k \in D \ {x}
          PROVE  Disagreement(vals[x], vals[k]) = (vals[g] - vals[x]) + Disagreement(vals[g], vals[k])
      <4>1. vals[k] \in Int /\ vals[g] \in Int /\ vals[x] \in Int
        BY <1>1, <1>5, <1>7
      <4>2. vals[g] <= vals[k] /\ vals[x] <= vals[k]
        BY <3>3, <4>1
      <4>3. Disagreement(vals[x], vals[k]) = vals[k] - vals[x] /\ Disagreement(vals[g], vals[k]) = vals[k] - vals[g]
        BY <4>1, <4>2, DisagreementIsDistance
      <4> QED
        BY <4>1, <4>3
    <3> QED
      BY <2>1, <3>4, <3>5
  <2>4. CASE (\E k \in D \ {x} : vals[x] <= vals[k]) /\ (\E k \in D \ {x} : vals[k] <= vals[x])
    <3>1. PICK k \in D \ {x}, l \in D \ {x} : vals[x] <= vals[k] /\ vals[l] <= vals[x]
      BY <2>4
    <3>2. Disagreement(vals[k], t) <= e /\ Disagreement(vals[l], t) <= e
      OBVIOUS
    <3>3. vals[k] \in Int /\ vals[l] \in Int /\ vals[x] \in Int
      BY <1>1, <1>5, <1>7
    <3>4. vals[k] - t <= e /\ t - vals[l] <= e
      <4>1. \A m \in {k, l} : Disagreement(vals[m], t) <= e <=> vals[m] - t <= e /\ t - vals[m] <= e
        BY <3>3, DisagreementIsBounded
      <4> QED
        BY <3>2, <4>1
    <3>5. vals[x] - t <= e /\ t - vals[x] <= e
      BY <3>1, <3>3, <3>4, SMTT(30)
    <3>6. Disagreement(vals[x], t) <= e
      <4>1. Disagreement(vals[x], t) = vals[x] - t \/ Disagreement(vals[x], t) = t - vals[x]
        BY <3>3 DEF Disagreement, Abs
      <4> QED
        BY <3>5, <4>1
    <3> QED
      BY <1>7, <3>6 DEF c
  <2>5. \A k \in D \ {x} : vals[k] \in Int /\ vals[x] \in Int
    BY <1>1, <1>5, <1>7
  <2> QED
    BY <2>2, <2>3, <2>4, <2>5
<1> QED
  BY <1>6, <1>7

(* The active lanes of the monitor voter when the buffer holds every        *)
(* channel: each healthy channel other than the monitor, once.              *)
LEMMA ActiveAreHealthy ==
  ASSUME ChannelCount <= MaxChannels, NEW rs \in [Channel -> Report]
  PROVE  /\ ActiveValues(rs) \in Seq(Int)
         /\ \A i \in HealthyLanes(rs) \ {Monitor} :
              \E k \in DOMAIN ActiveValues(rs) : ActiveValues(rs)[k] = rs[i].value
<1> DEFINE H == HealthyLanes(rs)
           A == H \ {Monitor}
           n == Cardinality(A)
           val(k) == rs[InOrder(A)[k]].value
<1>1. H \in SUBSET Nat /\ H \in SUBSET Channel /\ IsFiniteSet(H)
  BY ValuesOfHealthy
<1>2. Cardinality(H) \in Nat /\ Cardinality(H) <= MaxChannels
  <2>1. IsFiniteSet(Channel) /\ Cardinality(Channel) = ChannelCount
    <3>1. 1 \in Int /\ ChannelCount \in Int /\ (IF 1 > ChannelCount THEN 0 ELSE ChannelCount - 1 + 1) = ChannelCount
      BY ChannelVotingAssumption
    <3>2. /\ IsFiniteSet(1 .. ChannelCount)
          /\ Cardinality(1 .. ChannelCount) = IF 1 > ChannelCount THEN 0 ELSE ChannelCount - 1 + 1
      BY <3>1, FS_Interval, Zenon
    <3> QED
      BY <3>1, <3>2 DEF Channel
  <2> HIDE DEF H
  <2>2. Cardinality(H) <= Cardinality(Channel) /\ Cardinality(H) \in Nat
    BY <1>1, <2>1, FS_Subset, FS_CardinalityType
  <2> QED
    BY <2>1, <2>2, ChannelVotingAssumption
<1>3. Len(HealthyValues(rs)) = Cardinality(H)
  BY <1>2, ValuesOfHealthy
<1> HIDE DEF H
<1>4. A \in SUBSET Nat /\ IsFiniteSet(A)
  BY <1>1, FS_Subset
<1>5. n = Cardinality(H) - (IF Monitor \in H THEN 1 ELSE 0)
  <2>1. CASE Monitor \in H
    BY <1>1, <2>1, FS_RemoveElement
  <2>2. CASE Monitor \notin H
    <3>1. A = H
      BY <2>2
    <3> QED
      BY <1>2, <2>2, <3>1
  <2> QED
    BY <2>1, <2>2
<1>6. MonitorHealthy(rs) <=> Monitor \in H
  BY DEF MonitorHealthy, HealthyLanes, H
<1>7. ActiveValues(rs) = [k \in 1 .. n |-> val(k)]
  BY <1>3, <1>5, <1>6 DEF ActiveValues, H
<1> HIDE DEF n, A
<1>8. /\ n \in Nat /\ InOrder(A) \in [1 .. n -> A]
      /\ \A i \in A : \E k \in 1 .. n : InOrder(A)[k] = i
  BY <1>4, OrderIsComplete DEF n
<1>9. \A k \in 1 .. n : val(k) \in Int
  <2> SUFFICES ASSUME NEW k \in 1 .. n PROVE val(k) \in Int
    OBVIOUS
  <2>1. InOrder(A)[k] \in Channel
    BY <1>1, <1>8 DEF A
  <2>2. rs[InOrder(A)[k]] \in Report
    BY <2>1
  <2> QED
    BY <2>2 DEF Report
<1>10. ActiveValues(rs) \in [1 .. n -> Int]
  <2> HIDE DEF val
  <2> QED
    BY <1>7, <1>9
<1>11. ActiveValues(rs) \in Seq(Int) /\ DOMAIN ActiveValues(rs) = 1 .. n
  BY <1>8, <1>10
<1>12. ASSUME NEW i \in A PROVE \E k \in 1 .. n : ActiveValues(rs)[k] = rs[i].value
  <2>1. PICK k \in 1 .. n : InOrder(A)[k] = i
    BY <1>8
  <2>2. ActiveValues(rs)[k] = rs[i].value
    BY <1>7, <2>1
  <2> QED
    BY <2>2
<1> QED
  BY <1>11, <1>12 DEF A, H

(* Nearness to a whole value, either way round. *)
LEMMA NearWhole ==
  ASSUME NEW a \in Int, NEW b \in Int, NEW t \in Int, Disagreement(a, b) <= t
  PROVE  Within(Whole(a), Whole(b), t)
<1>1. a * 1 = a /\ b * 1 = b /\ t * 1 * 1 = t
  OBVIOUS
<1> QED
  BY <1>1 DEF Within, Whole, Disagreement

(* An average is as near to a value as the value is to it.                  *)
LEMMA NearIsSymmetric ==
  ASSUME NEW v \in Seq(Int), v # <<>>, NEW w \in Int, NEW t \in Nat,
         Within(Whole(w), Average(v), t)
  PROVE  Within(Average(v), Whole(w), t)
<1> DEFINE s == SumFunction(v)
           n == Len(v)
<1>1. Average(v) = <<s, n>> /\ n \in Nat
  BY DEF Average
<1>2. s \in Int
  BY LanesAreCounted, SumType DEF SumFunction
<1> HIDE DEF s, n
<1>3. w * n \in Int /\ t * n \in Int /\ s * 1 = s /\ 1 * s = s /\ t * n * 1 = t * n /\ t * 1 * n = t * n
  BY <1>1, <1>2
<1>4. Abs(w * n - s * 1) = Abs(s * 1 - w * n)
  BY <1>2, <1>3 DEF Abs
<1> QED
  BY <1>1, <1>3, <1>4 DEF Within, Whole

(* An agreement of Consensus is within its tolerance of every report.       *)
LEMMA ConsensusIsNear ==
  ASSUME NEW rs \in [Channel -> Report], Consensus(rs).status = "Agreement",
         NEW v \in Range(HealthyValues(rs))
  PROVE  Within(Consensus(rs).value, Whole(v), Tolerance)
<1> DEFINE vals == HealthyValues(rs)
<1>1. vals \in Seq(Int)
  BY ValuesOfHealthy
<1>2. ~(Len(vals) < MinHealthyCon) /\ MaxPairwiseDisagreement(vals) <= Tolerance
  BY DEF Consensus, Voted
<1>3. Consensus(rs).value = Average(vals)
  BY <1>2 DEF Consensus, Voted
<1> HIDE DEF vals
<1>4. vals # <<>>
  BY <1>1, <1>2, ChannelVotingAssumption
<1>5. PICK j \in DOMAIN vals : vals[j] = v
  BY DEF Range, vals
<1>6. \A k \in DOMAIN vals : Disagreement(vals[k], v) <= Tolerance
  BY <1>1, <1>2, <1>5, PairsAreNear, ChannelVotingAssumption
<1>7. v \in Int
  BY <1>1, <1>5
<1> QED
  BY <1>1, <1>3, <1>4, <1>6, <1>7, AverageIsNear, ChannelVotingAssumption

(* So is one of the monitor voter: of the lanes because they agree, of the  *)
(* monitor because it corroborated them.                                    *)
LEMMA MonitorVoteIsNear ==
  ASSUME ChannelCount <= MaxChannels,
         NEW rs \in [Channel -> Report], MonitorVote(rs).status = "Agreement",
         NEW v \in Range(HealthyValues(rs))
  PROVE  Within(MonitorVote(rs).value, Whole(v), Tolerance)
<1> DEFINE vals == HealthyValues(rs)
           active == ActiveValues(rs)
           lanes == InOrder(HealthyLanes(rs))
<1>1. vals \in Seq(Int) /\ active \in Seq(Int)
  BY ValuesOfHealthy, ActiveAreHealthy
<1>2. /\ Len(vals) >= 2 /\ active # <<>>
      /\ MonitorHealthy(rs) => Corroborated(rs, active)
      /\ MaxPairwiseDisagreement(active) <= Tolerance
      /\ MonitorVote(rs).value = IF MonitorHealthy(rs) THEN Average(active)
                                 ELSE Whole(vals[MostCentralIndex(vals)])
  <2> HIDE DEF vals, active
  <2>1. MonitorVote(rs) =
          LET lanesAgree == MaxPairwiseDisagreement(active) <= Tolerance
          IN IF Len(vals) < 2 \/ active = <<>>
             THEN Voted(Neutral, "InsufficientChannels")
             ELSE IF MonitorHealthy(rs) /\ ~Corroborated(rs, active)
             THEN Voted(Neutral, "MonitorVeto")
             ELSE Voted(IF MonitorHealthy(rs) THEN Average(active)
                        ELSE Whole(vals[MostCentralIndex(vals)]),
                        IF lanesAgree THEN "Agreement" ELSE "Disagreement")
    BY Zenon DEF MonitorVote, vals, active
  <2>2. ~(Len(vals) < 2 \/ active = <<>>) /\ ~(MonitorHealthy(rs) /\ ~Corroborated(rs, active))
    BY <2>1 DEF Voted
  <2>3. MaxPairwiseDisagreement(active) <= Tolerance
    BY <2>1, <2>2 DEF Voted
  <2>4. MonitorVote(rs).value = IF MonitorHealthy(rs) THEN Average(active)
                                ELSE Whole(vals[MostCentralIndex(vals)])
    BY <2>1, <2>2 DEF Voted
  <2> QED
    BY <1>1, <2>2, <2>3, <2>4
<1>3. PICK j \in DOMAIN vals : vals[j] = v
  BY DEF Range
<1>4. lanes[j] \in HealthyLanes(rs) /\ v = rs[lanes[j]].value /\ v \in Int
  BY <1>1, <1>3, ValuesOfHealthy, SMTT(30)
<1> HIDE DEF vals, active, lanes
<1>5. ASSUME lanes[j] # Monitor
      PROVE  \E k \in DOMAIN active : active[k] = v
  BY <1>4, <1>5, ActiveAreHealthy DEF active
<1>6. CASE MonitorHealthy(rs)
  <2>1. CASE lanes[j] = Monitor
    <3>1. Within(Whole(v), Average(active), Tolerance)
      BY <1>2, <1>4, <1>6, <2>1 DEF Corroborated
    <3>2. Within(Average(active), Whole(v), Tolerance)
      BY <1>1, <1>2, <1>4, <3>1, NearIsSymmetric, ChannelVotingAssumption
    <3> QED
      BY <1>2, <1>6, <3>2
  <2>2. CASE lanes[j] # Monitor
    <3>1. PICK m \in DOMAIN active : active[m] = v
      BY <1>5, <2>2
    <3>2. \A k \in DOMAIN active : Disagreement(active[k], v) <= Tolerance
      BY <1>1, <1>2, <3>1, PairsAreNear, ChannelVotingAssumption
    <3>3. Within(Average(active), Whole(v), Tolerance)
      BY <1>1, <1>2, <1>4, <3>2, AverageIsNear, ChannelVotingAssumption
    <3> QED
      BY <1>2, <1>6, <3>3
  <2> QED
    BY <2>1, <2>2
<1>7. CASE ~MonitorHealthy(rs)
  <2>1. Monitor \notin HealthyLanes(rs)
    BY <1>7 DEF MonitorHealthy, HealthyLanes
  <2> DEFINE c == MostCentralIndex(vals)
  <2>2. c \in DOMAIN vals
    BY <1>1, <1>2, CentralIsLeast
  <2> HIDE DEF c
  <2>3. lanes[c] \in HealthyLanes(rs) /\ vals[c] = rs[lanes[c]].value /\ vals[c] \in Int
    <3>1. c \in 1 .. Len(vals) /\ vals[c] \in Int
      BY <1>1, <2>2
    <3> QED
      BY <3>1, ValuesOfHealthy DEF vals, lanes
  <2>4. PICK k \in DOMAIN active : active[k] = vals[c]
    BY <2>1, <2>3, ActiveAreHealthy DEF active
  <2>5. PICK m \in DOMAIN active : active[m] = v
    BY <1>4, <1>5, <2>1
  <2>6. Disagreement(vals[c], v) <= Tolerance
    BY <1>1, <1>2, <2>4, <2>5, PairsAreNear, ChannelVotingAssumption
  <2> QED
    BY <1>2, <1>4, <1>7, <2>3, <2>6, NearWhole, ChannelVotingAssumption DEF c
<1> QED
  BY <1>6, <1>7

-----------------------------------------------------------------------------
(* Who has failed in what way, what a lane may hold, and how far a correct  *)
(* channel's report is from the correct output: Noise in its own frame,     *)
(* one frame's drift more until it reports again.                           *)
VotingInv ==
  /\ reports \in [Channel -> Report]
  /\ fault \in [Channel -> {"none", "rogue", "silent"}]
  /\ truth \in Truths
  /\ fresh \in SUBSET Channel
  /\ \A c \in Channel : fault[c] = "none" /\ reports[c].healthy =>
       Disagreement(reports[c].value, truth) <= IF c \in fresh THEN Noise ELSE Noise + Drift

(* At first no channel is healthy.                                          *)
LEMMA VotingInitInv == VotingInit => VotingInv
<1> SUFFICES ASSUME VotingInit PROVE VotingInv
  OBVIOUS
<1>1. [value |-> 0, healthy |-> FALSE] \in Report
  BY DEF Report
<1>2. reports \in [Channel -> Report] /\ \A c \in Channel : ~reports[c].healthy
  BY <1>1 DEF VotingInit
<1>3. fault \in [Channel -> {"none", "rogue", "silent"}] /\ truth \in Truths /\ fresh \in SUBSET Channel
  BY DEF VotingInit
<1> QED
  BY <1>2, <1>3 DEF VotingInv

(* Only a correct channel writes its own report, and a frame drifts once.   *)
LEMMA VotingNextInv == VotingInv /\ [VotingNext]_votingVars => VotingInv'
<1> SUFFICES ASSUME VotingInv, [VotingNext]_votingVars PROVE VotingInv'
  OBVIOUS
<1> DEFINE band(c) == IF c \in fresh THEN Noise ELSE Noise + Drift
<1>0. /\ reports \in [Channel -> Report] /\ truth \in Truths /\ fresh \in SUBSET Channel
      /\ fault \in [Channel -> {"none", "rogue", "silent"}]
      /\ \A c \in Channel : fault[c] = "none" /\ reports[c].healthy =>
           Disagreement(reports[c].value, truth) <= band(c)
  BY DEF VotingInv
<1>1. \A t \in Truths : t \in Int
  BY ChannelVotingAssumption
<1>2. \A c \in Channel : reports[c].value \in Int
  BY <1>0 DEF Report
<1>3. ASSUME NEW ch, NEW v \in Int, NEW ok \in BOOLEAN, Submit(ch, v, ok)
      PROVE  /\ reports' \in [Channel -> Report]
             /\ \A d \in Channel : d # ch => reports'[d] = reports[d]
             /\ ch \in Channel => reports'[ch].value = v /\ reports'[ch].healthy = ok
  <2>1. [value |-> v, healthy |-> ok] \in Report
    BY DEF Report
  <2> QED
    BY <1>0, <1>3, <2>1 DEF Submit
<1>4. ASSUME NEW c \in Channel, SubmitCorrect(c) PROVE VotingInv'
  <2>1. PICK v \in (truth - Noise) .. (truth + Noise) : Submit(c, v, TRUE)
    BY <1>4 DEF SubmitCorrect
  <2>2. fault' = fault /\ truth' = truth /\ fresh' = fresh \cup {c}
    BY <1>4 DEF SubmitCorrect
  <2>3. truth \in Int /\ v \in Int /\ Disagreement(v, truth) <= Noise
    <3>1. truth \in Int /\ Noise \in Int
      BY <1>0, <1>1, ChannelVotingAssumption
    <3> QED
      BY <2>1, <3>1, DisagreementIsBounded
  <2>4. /\ reports' \in [Channel -> Report]
        /\ \A d \in Channel : d # c => reports'[d] = reports[d]
        /\ reports'[c].value = v
    BY <1>3, <2>1, <2>3
  <2>5. ASSUME NEW d \in Channel, fault[d] = "none", reports'[d].healthy
        PROVE  Disagreement(reports'[d].value, truth) <= IF d \in fresh' THEN Noise ELSE Noise + Drift
    BY <1>0, <2>2, <2>3, <2>4, <2>5
  <2> QED
    BY <1>0, <2>2, <2>4, <2>5 DEF VotingInv
<1>5. ASSUME NEW c \in Channel, SubmitRogue(c) PROVE VotingInv'
  <2>1. PICK ch \in {c, ChannelCount + 1}, v \in Wild, ok \in BOOLEAN : Submit(ch, v, ok)
    BY <1>5 DEF SubmitRogue
  <2>2. fault[c] = "rogue" /\ fault' = fault /\ truth' = truth /\ fresh' = fresh
    BY <1>5 DEF SubmitRogue
  <2>3. v \in Int
    BY ChannelVotingAssumption
  <2>4. ChannelCount + 1 \notin Channel
    BY ChannelVotingAssumption DEF Channel
  <2>5. /\ reports' \in [Channel -> Report]
        /\ \A d \in Channel : d # c => reports'[d] = reports[d]
    BY <1>3, <2>1, <2>3, <2>4
  <2>6. \A d \in Channel : fault[d] = "none" => reports'[d] = reports[d]
    BY <2>2, <2>5
  <2> QED
    BY <1>0, <2>2, <2>5, <2>6 DEF VotingInv
<1>6. ASSUME NEW c \in Channel, NEW kind \in {"rogue", "silent"}, Fail(c, kind) PROVE VotingInv'
  <2>1. /\ fault' = [fault EXCEPT ![c] = kind]
        /\ reports' = reports /\ truth' = truth /\ fresh' = fresh
    BY <1>6 DEF Fail
  <2>2. /\ fault' \in [Channel -> {"none", "rogue", "silent"}]
        /\ \A d \in Channel : fault'[d] = "none" => fault[d] = "none"
    BY <1>0, <2>1
  <2> QED
    BY <1>0, <2>1, <2>2 DEF VotingInv
<1>7. ASSUME NextFrame PROVE VotingInv'
  <2>1. /\ \A c \in Channel : fault[c] = "none" => c \in fresh
        /\ truth' \in Truths /\ Abs(truth' - truth) <= Drift
        /\ fresh' = {} /\ reports' = reports /\ fault' = fault
    BY <1>7 DEF NextFrame
  <2>2. ASSUME NEW c \in Channel, fault[c] = "none", reports[c].healthy
        PROVE  Disagreement(reports[c].value, truth') <= Noise + Drift
    <3>1. Disagreement(reports[c].value, truth) <= Noise
      BY <1>0, <2>1, <2>2
    <3>2. truth \in Int /\ truth' \in Int /\ reports[c].value \in Int /\ Noise \in Int /\ Drift \in Int
      BY <1>0, <1>1, <1>2, <2>1, ChannelVotingAssumption
    <3> QED
      BY <2>1, <3>1, <3>2, DisagreementAddsUp
  <2> QED
    BY <1>0, <2>1, <2>2 DEF VotingInv
<1>8. CASE UNCHANGED votingVars
  BY <1>0, <1>8 DEF VotingInv, votingVars
<1> QED
  BY <1>4, <1>5, <1>6, <1>7, <1>8 DEF VotingNext

(* The inductive invariant of the channel set.                              *)
LEMMA VotingInvariance == VotingSpec => []VotingInv
BY VotingInitInv, VotingNextInv, PTL DEF VotingSpec

(* An agreement of Consensus or MonitorVoter is within the tolerance of     *)
(* every healthy report, if the scratch buffer has room for all channels.   *)
THEOREM VotersKeepTheirTolerance ==
  ASSUME ChannelCount <= MaxChannels
  PROVE  VotingSpec => []AgreementIsNearEveryReport
<1>1. VotingInv => AgreementIsNearEveryReport
  <2> SUFFICES ASSUME VotingInv,
                      NEW r \in {Consensus(reports), MonitorVote(reports)}, r.status = "Agreement",
                      NEW v \in Range(HealthyValues(reports))
               PROVE  Within(r.value, Whole(v), Tolerance)
    BY DEF AgreementIsNearEveryReport
  <2>1. reports \in [Channel -> Report]
    BY DEF VotingInv
  <2> QED
    BY <2>1, ConsensusIsNear, MonitorVoteIsNear
<1> QED
  BY <1>1, VotingInvariance, PTL

(* Two members of a set of at most one are the same.                        *)
LEMMA AtMostOne ==
  ASSUME NEW S, IsFiniteSet(S), Cardinality(S) <= 1, NEW a \in S, NEW b \in S
  PROVE  a = b
<1> SUFFICES ASSUME a # b PROVE FALSE
  OBVIOUS
<1> DEFINE R == S \ {a}
<1>1. IsFiniteSet(R) /\ Cardinality(R) = Cardinality(S) - 1 /\ b \in R
  BY FS_RemoveElement
<1> HIDE DEF R
<1>2. IsFiniteSet(R \ {b}) /\ Cardinality(R \ {b}) = Cardinality(R) - 1
  BY <1>1, FS_RemoveElement
<1>3. Cardinality(S) \in Nat /\ Cardinality(R) \in Nat /\ Cardinality(R \ {b}) \in Nat
  BY <1>1, <1>2, FS_CardinalityType
<1> QED
  BY <1>1, <1>2, <1>3

(* MidValueSelect stays near the correct output while at most one faulty    *)
(* channel counts as healthy, whatever that channel says and whenever in    *)
(* the frame the vote is taken, if it asks for the three channels that      *)
(* MidValueSelect::new does or more.                                        *)
THEOREM OneFaultIsMasked ==
  ASSUME MinHealthyMid >= 3
  PROVE  VotingSpec => []MidValueMasksOneFault
<1> DEFINE vals == HealthyValues(reports)
           lanes == InOrder(HealthyLanes(reports))
           believed == {c \in Channel : fault[c] # "none" /\ reports[c].healthy}
           c == MostCentralIndex(vals)
<1>1. VotingInv => MidValueMasksOneFault
  <2> SUFFICES ASSUME VotingInv, MidValueSelect(reports).status = "Agreement",
                      Cardinality(believed) <= 1
               PROVE  Within(MidValueSelect(reports).value, Whole(truth), Noise + Drift)
    BY DEF MidValueMasksOneFault
  <2>1. reports \in [Channel -> Report] /\ truth \in Int /\ Noise + Drift \in Nat
    BY ChannelVotingAssumption DEF VotingInv
  <2>2. vals \in Seq(Int) /\ HealthyLanes(reports) \in SUBSET Nat /\ HealthyLanes(reports) \in SUBSET Channel
    BY <2>1, ValuesOfHealthy
  <2>3. ~(Len(vals) < MinHealthyMid)
    BY DEF MidValueSelect, Voted
  <2>4. MidValueSelect(reports).value = Whole(vals[c])
    BY <2>3 DEF MidValueSelect, Voted
  <2>5. Len(vals) \in Nat /\ Len(vals) >= 3 /\ DOMAIN vals = 1 .. Len(vals)
    BY <2>2, <2>3, ChannelVotingAssumption
  <2>6. IsFiniteSet(believed)
    <3>1. IsFiniteSet(Channel) /\ believed \in SUBSET Channel
      BY ChannelVotingAssumption, FS_Interval DEF Channel
    <3> HIDE DEF believed
    <3> QED
      BY <3>1, FS_Subset
  <2>7. \A k \in DOMAIN vals : lanes[k] \in HealthyLanes(reports) /\ vals[k] = reports[lanes[k]].value
    BY <2>1, <2>5, ValuesOfHealthy
  <2>8. \A k, l \in DOMAIN vals : lanes[k] = lanes[l] => k = l
    <3> DEFINE n == Cardinality(HealthyLanes(reports))
    <3>1. IsFiniteSet(HealthyLanes(reports)) /\ n \in Nat /\ Len(vals) <= n
      <4>1. /\ IsFiniteSet(HealthyLanes(reports))
            /\ Len(vals) = IF n <= MaxChannels THEN n ELSE MaxChannels
        BY <2>1, ValuesOfHealthy
      <4>2. n \in Nat
        BY <4>1, FS_CardinalityType
      <4> QED
        BY <4>1, <4>2, ChannelVotingAssumption
    <3>2. \A k, l \in 1 .. n : lanes[k] = lanes[l] => k = l
      BY <2>2, <3>1, OrderIsComplete
    <3> HIDE DEF n, vals, lanes
    <3> QED
      BY <2>5, <3>1, <3>2
  <2>9. ASSUME NEW k \in DOMAIN vals, lanes[k] \notin believed
        PROVE  Disagreement(vals[k], truth) <= Noise + Drift
    <3> DEFINE l == lanes[k]
    <3>1. l \in Channel /\ reports[l].healthy /\ vals[k] = reports[l].value
      BY <2>2, <2>7 DEF HealthyLanes
    <3>2. fault[l] = "none"
      BY <2>9, <3>1
    <3>3. Disagreement(vals[k], truth) <= Noise \/ Disagreement(vals[k], truth) <= Noise + Drift
      BY <3>1, <3>2 DEF VotingInv
    <3>4. Disagreement(vals[k], truth) \in Nat
      <4>1. vals[k] \in Int
        BY <2>2
      <4> QED
        BY <2>1, <4>1, DisagreementIsDistance
    <3> QED
      BY <3>3, <3>4, ChannelVotingAssumption
  <2> HIDE DEF vals, lanes, believed
  <2>10. PICK x \in DOMAIN vals : \A k \in DOMAIN vals \ {x} : lanes[k] \notin believed
    <3>1. CASE \E x \in DOMAIN vals : lanes[x] \in believed
      <4>1. PICK x \in DOMAIN vals : lanes[x] \in believed
        BY <3>1
      <4>2. ASSUME NEW k \in DOMAIN vals \ {x} PROVE lanes[k] \notin believed
        <5>1. lanes[k] # lanes[x]
          BY <2>8
        <5> QED
          BY <2>6, <4>1, <5>1, AtMostOne
      <4> QED
        BY <4>2
    <3>2. CASE \A x \in DOMAIN vals : lanes[x] \notin believed
      <4>1. 1 \in DOMAIN vals
        BY <2>5
      <4> QED
        BY <3>2, <4>1
    <3> QED
      BY <3>1, <3>2
  <2>11. \A k \in DOMAIN vals \ {x} : Disagreement(vals[k], truth) <= Noise + Drift
    BY <2>9, <2>10
  <2>12. Disagreement(vals[c], truth) <= Noise + Drift
    BY <2>1, <2>2, <2>5, <2>11, OneLiarIsOutvoted
  <2>13. vals[c] \in Int
    <3>1. c \in DOMAIN vals
      BY <2>2, <2>5, CentralIsLeast
    <3> HIDE DEF c
    <3> QED
      BY <2>2, <3>1
  <2> QED
    BY <2>1, <2>4, <2>12, <2>13, NearWhole
<1> QED
  BY <1>1, VotingInvariance, PTL

=============================================================================
