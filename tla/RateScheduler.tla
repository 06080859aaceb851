--------------------------- MODULE RateScheduler ---------------------------
(***************************************************************************)
(* The time-triggered scheduler of tpt-core/src/scheduler.rs, polled once  *)
(* per pass of the superloop with the board's microsecond clock            *)
(* (tpt-backend-bare-metal/src/hal.rs).                                    *)
(*                                                                         *)
(* A group is an element of Group with a Period in clock units.  The clock *)
(* is a counter that restarts after ClockMod values: on ARM that is the    *)
(* TIM2 counter, which init_clocks_and_io reloads at 1000; a clock that    *)
(* never restarts has a ClockMod beyond every time the model reaches.      *)
(***************************************************************************)
EXTENDS Integers, FiniteSets

CONSTANTS
  Group,     \* the rate groups
  Period,    \* period_us() of each group
  ClockMod,  \* number of values of the clock counter
  Gaps       \* clock units that may pass between two passes

ASSUME RateSchedulerAssumption ==
  /\ IsFiniteSet(Group)
  /\ Period \in [Group -> Nat \ {0}]
  /\ ClockMod \in Nat \ {0}
  /\ Gaps \subseteq Nat

VARIABLES
  now,      \* the clock counter, as read by the latest pass
  last,     \* last_us[g]
  started,  \* started
  missed,   \* missed
  due       \* the RateGroups the latest poll returned

schedVars == <<now, last, started, missed, due>>

-----------------------------------------------------------------------------
(* u64::saturating_sub: a clock that went back shows no time elapsed. *)
Elapsed(t, g) == IF t >= last[g] THEN t - last[g] ELSE 0

Mut_DueLate(t) == IF started THEN {g \in Group : Elapsed(t, g) > Period[g]} ELSE Group

Mut_DueEarly(t) == IF started THEN {g \in Group : Elapsed(t, g) + 1 >= Period[g]}
                   ELSE Group

(* The groups due at time t: all of them on the first call. *)
DueAt(t) == IF started THEN {g \in Group : Elapsed(t, g) >= Period[g]} ELSE Group

Mut_LateAtOnePeriod(t) == IF started
                          THEN {g \in DueAt(t) : Elapsed(t, g) > Period[g]} ELSE {}

(* The due groups whose deadline counts as missed. *)
LateAt(t) == IF started THEN {g \in DueAt(t) : Elapsed(t, g) > 2 * Period[g]} ELSE {}

Mut_StampNextRelease(t) ==
  [g \in Group |-> IF g \in DueAt(t) THEN t + Period[g] ELSE last[g]]

Stamp(t) == [g \in Group |-> IF g \in DueAt(t) THEN t ELSE last[g]]

(* TimeTriggeredScheduler::poll at clock reading t. *)
Poll(t) ==
  /\ started' = TRUE
  /\ due' = DueAt(t)
  /\ last' = Stamp(t)
  /\ missed' = missed + Cardinality(LateAt(t))

(* RegisterInterface::monotonic_micros, `gap` units after the last reading. *)
ReadClock(gap) == (now + gap) % ClockMod

(* The scheduler as constructed, with the clock at any reading t. *)
SchedInit(t) ==
  /\ now = t
  /\ last = [g \in Group |-> 0]
  /\ started = FALSE
  /\ missed = 0
  /\ due = {}

Pass(gap) == now' = ReadClock(gap) /\ Poll(ReadClock(gap))

-----------------------------------------------------------------------------
SchedNext == \E gap \in Gaps : Pass(gap)

(* The loop keeps passing: it is the only thing the board runs. *)
SchedSpec == SchedInit(0) /\ [][SchedNext]_schedVars /\ WF_schedVars(SchedNext)

(* Documented: the scheduler drives every rate group, at its period, for as *)
(* long as the loop passes (tpt-core/src/scheduler.rs:3), so each group is  *)
(* due again and again.                                                     *)
EveryGroupRunsAgain == \A g \in Group : []<>(g \in due)

=============================================================================
