----------------------------- MODULE MCGcsLink -----------------------------
(* A flight of three samples, one of them in the mode no reader knows.  The *)
(* health snapshot agrees with none of them.                                *)
EXTENDS GcsLink

T(mode, nav) == [mode |-> mode, nav |-> nav]
MCFlight == <<T("Takeoff", "GpsAided"), T("Glide", "GpsAided"), T("Land", "Coast")>>
MCOrders == {[op |-> "Arm", arg |-> ""], [op |-> "SetMode", arg |-> "Land"]}
MCSnapshots == {"VisualAided"}
=============================================================================
