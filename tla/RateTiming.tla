---------------------------- MODULE RateTiming ----------------------------
(***************************************************************************)
(* RateScheduler with true time beside it, on a clock that does not        *)
(* restart within the horizon: what the rate groups get in real time.      *)
(***************************************************************************)
EXTENDS RateScheduler

CONSTANTS
  Horizon,   \* bound on true time: the length of the runs TLC explores
  BootTimes  \* clock readings at which the scheduler may be constructed

ASSUME RateTimingAssumption ==
  Horizon \in Nat /\ Horizon < ClockMod /\ BootTimes \subseteq 0 .. Horizon

VARIABLES
  boot,    \* clock reading when the scheduler was constructed
  runs,    \* runs[g]: how often g has been due
  longest  \* the longest gap between two passes so far

timingVars == <<schedVars, boot, runs, longest>>

TimingInit ==
  /\ \E t \in BootTimes : SchedInit(t) /\ boot = t
  /\ runs = [g \in Group |-> 0]
  /\ longest = 0

TimedPass(gap) ==
  /\ now + gap <= Horizon
  /\ Pass(gap)
  /\ runs' = [g \in Group |-> runs[g] + IF g \in DueAt(now + gap) THEN 1 ELSE 0]
  /\ longest' = IF started /\ gap > longest THEN gap ELSE longest
  /\ UNCHANGED boot

TimingNext == \E gap \in Gaps : TimedPass(gap)
TimingSpec == TimingInit /\ [][TimingNext]_timingVars

-----------------------------------------------------------------------------
(* Types of the variables. *)
TimingTypeOK ==
  /\ now \in 0 .. Horizon
  /\ last \in [Group -> 0 .. Horizon]
  /\ started \in BOOLEAN
  /\ missed \in Nat
  /\ due \in SUBSET Group
  /\ boot \in BootTimes
  /\ runs \in [Group -> Nat]
  /\ longest \in Nat

(* No group is left overdue: when a pass ends, each group last ran less     *)
(* than its own period ago, however unevenly the passes came.               *)
NoGroupOverdue ==
  started => \A g \in Group : now - last[g] < Period[g]

(* No group runs more often than its rate: n runs take n - 1 periods, also  *)
(* after a late pass, which is not caught up with extra runs.               *)
NeverFasterThanRate ==
  \A g \in Group : runs[g] > 0 => (runs[g] - 1) * Period[g] <= now - boot

(* FDIR is not told of a missed deadline that did not happen: the count     *)
(* moves only after some pass came later than the shortest period.          *)
MissedNeedsALatePass ==
  missed > 0 => \E g \in Group : longest > Period[g]

=============================================================================
