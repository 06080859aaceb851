------------------------------ MODULE MCUnits ------------------------------
(* Small instances of every unit. *)
EXTENDS Units

CONSTANTS short, long, oversized

(* A queue of four slots, messages of different lengths, one of which does  *)
(* not fit a slot, and readers with room for some and for all.              *)
MCMsg == {short, long, oversized}
MCSize == [m \in MCMsg |-> CASE m = short -> 1 [] m = long -> 2 [] OTHER -> 3]

(* Multipliers and blocks at the ends of their ranges and in between, and   *)
(* p - 1 among the blocks.                                                  *)
MCRs == {1, 5, 4095, 8191, 2730, 5461, 7001}
MCBlocks == {0, 1, 7, 5461, 2 ^ 14 - 1, 2 ^ 15 - 6}

(* Messages of every kind, among them the mode nobody can read, more motors *)
(* and points than a message holds, saturating speeds and yaws past a turn. *)
MCTelemetries == [mode : {"Takeoff", "Glide"}, nav : {"Coast"}]
MCCommands == {[op |-> "Arm", arg |-> ""], [op |-> "SetWaypoint", arg |-> "wp"],
               [op |-> "SetMode", arg |-> "Land"], [op |-> "SetMode", arg |-> "Glide"]}
MCMotors == {<<>>, <<1, 0>>, [i \in 1 .. 9 |-> 1]}
MCClouds == {<<>>, <<1>>, <<1, 2, 3>>}
MCAttitudes == [z : {-3, 0, 2}, yaw : {-90, 0, 450}, v : {-400, 1}]
MCSteps == {0, 1, -1, 5, 2 ^ 18 - 1, -(2 ^ 18 - 1)}
MCTileSets == UNION {[1 .. n -> {1, 2}] : n \in 0 .. 3}
MCSecret == [key |-> 1, nonce |-> 1]
MCOtherSecret == [key |-> 2, nonce |-> 1]

(* Scans of which one has more landmarks than a keyframe holds. *)
MCScans == {<<<<0, 2>>>>, <<<<2, 0>>, <<1, 1>>, <<0, 0>>>>}

(* Points in one voxel, in neighbouring ones, far off and out of the cube. *)
MCLandmarks == {<<1, 1>>, <<0, 1>>, <<-3, 1>>, <<7, -1>>}

MCHonest == {-1, 0, 1}
MCSpoofed == {-9, 8}

(* The X8 of the tests: two rotors on each arm. *)
Rotor(x, y, spin) == <<1, y, -x, spin>>
Arms == <<Rotor(1, 1, 1), Rotor(-1, -1, 1), Rotor(1, -1, -1), Rotor(-1, 1, -1)>>
MCColumns == Arms \o Arms
MCWrenches == {<<8, 1, 0, 1>>, <<12, 0, 0, 0>>, <<30, 2, -1, 3>>, <<1, 9, 0, 0>>}

(* A hillside with one contour like no other, a plain, a hillside the       *)
(* database knows in part, and one it does not know.                        *)
Hillside == <<<<0, 1, 3>>, <<1, 5, 2>>, <<4, 0, 1>>>>
Everywhere == (-20 .. 20) \X (-20 .. 20)
MCTerrains == {[grid |-> Hillside, holes |-> {}],
               [grid |-> <<<<1, 1>>, <<1, 1>>>>, holes |-> {}],
               [grid |-> Hillside, holes |-> {p \in Everywhere : p[1] > 2}],
               [grid |-> Hillside, holes |-> Everywhere]}
MCTrack == {<<1, 1>>, <<0, 3>>, <<2, 2>>}
MCErrors == -2 .. 2
MCOutputMin == -4
=============================================================================
