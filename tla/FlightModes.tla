---------------------------- MODULE FlightModes ----------------------------
(***************************************************************************)
(* FlightStateMachine of tpt-core/src/fsm.rs: the flight modes, the events *)
(* and the transition table, as operators used by every module in which a  *)
(* vehicle has a mode.                                                     *)
(***************************************************************************)

FlightMode == {"Disarmed", "Armed", "Takeoff", "PositionHold", "Land",
               "Failsafe", "Glide"}

FlightEvent == {"Arm", "Disarm", "CommandTakeoff", "ReachedTargetAltitude",
                "CommandLand", "OnGround", "Fault", "Recovered",
                "PropulsionLoss"}

(* The transitions handle() accepts: <<mode, event, next mode>>. *)
Transition ==
  {<<"Disarmed",     "Arm",                   "Armed">>,
   <<"Armed",        "CommandTakeoff",        "Takeoff">>,
   <<"Takeoff",      "ReachedTargetAltitude", "PositionHold">>,
   <<"PositionHold", "CommandLand",           "Land">>,
   <<"Land",         "OnGround",              "Disarmed">>,
   <<"Failsafe",     "Recovered",             "Armed">>,
   <<"Armed",        "Disarm",                "Disarmed">>,
   <<"Failsafe",     "Disarm",                "Disarmed">>,
   <<"Glide",        "CommandLand",           "Land">>,
   <<"Glide",        "OnGround",              "Disarmed">>}
  \cup {<<m, "Fault", "Failsafe">> : m \in FlightMode \ {"Disarmed"}}
  \cup {<<m, "PropulsionLoss", "Glide">> : m \in FlightMode \ {"Disarmed", "Glide"}}

Accepts(m, ev) == \E n \in FlightMode : <<m, ev, n>> \in Transition

(* handle(): a rejected event leaves the mode as it was. *)
Handle(m, ev) ==
  IF Accepts(m, ev) THEN CHOOSE n \in FlightMode : <<m, ev, n>> \in Transition
                    ELSE m

FlightCapable == {"Takeoff", "PositionHold", "Land", "Failsafe", "Glide"}

=============================================================================
