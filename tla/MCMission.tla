----------------------------- MODULE MCMission -----------------------------
(* A fence seven by five, with waypoints inside, in the band and outside.   *)
EXTENDS Mission

At(x, z) == [x |-> x, z |-> z]
MCFenceMin == At(0, 0)
MCFenceMax == At(7, 4)
MCWaypoints == {At(5, 2), At(1, 2), At(9, 3)}
MCStarts == {At(2, 2), At(8, -1)}
=============================================================================
