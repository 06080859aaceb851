---------------------------- MODULE MCSuperloop ----------------------------
(* The superloop with the 1000 and 200 Hz groups in units of 500 us,         *)
(* ticks that come early, on time and late, and a clock that was already    *)
(* running when the scheduler was constructed.                              *)
EXTENDS Superloop

MCGroup == {"R1000Hz", "R200Hz"}
MCPeriod == [g \in MCGroup |-> IF g = "R1000Hz" THEN 2 ELSE 10]
MCGaps == {1, 2, 21}
MCBootTimes == {0, 3}
MCTargets == {0, 3}
MCYaws == {-3, 0}
=============================================================================
