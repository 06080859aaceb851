--------------------------- MODULE MCRateScheduler ---------------------------
(* The scheduler on the ARM clock: TIM2 reloads after 1000, so in units of  *)
(* 500 us the counter takes the values 0, 1 and 2.                          *)
EXTENDS RateScheduler

MCGroup == {"R1000Hz", "R200Hz"}
MCPeriod == [g \in MCGroup |-> IF g = "R1000Hz" THEN 2 ELSE 10]
MCGaps == {1}
=============================================================================
