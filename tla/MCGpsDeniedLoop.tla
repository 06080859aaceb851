-------------------------- MODULE MCGpsDeniedLoop --------------------------
(* The six scenarios of tpt-sim (four pairs of statuses), a navigation      *)
(* cycle of three control steps, and an aiding limit of three cycles.       *)
EXTENDS GpsDeniedLoop

MCScenarios ==
  {<<"Healthy", "Lost">>,      \* Nominal, SensorDegradation
   <<"Degraded", "Healthy">>,  \* UrbanCanyon
   <<"Lost", "Healthy">>,      \* Jamming, Indoor
   <<"Lost", "Lost">>}         \* TotalBlackout
=============================================================================
