-------------------------------- MODULE Units --------------------------------
(***************************************************************************)
(* The units of the system that keep their state to themselves, one to a    *)
(* behaviour: they share no variable and call one another only as pure      *)
(* functions, so the states of their sum are all there is to see of them,   *)
(* and their product would only repeat them.  The ring is extended, the     *)
(* others are instances under the names of their own variables.             *)
(***************************************************************************)
EXTENDS RingQueue, FiniteSets

CONSTANTS
  BlockBytes, LengthBytes, MaxMessage,
  Base, Rs, Blocks, MaxBlocks,
  Burst,
  Seqs, CloudCap, AfdxMax, Secret, OtherSecret,
  Telemetries, Commands, Motors, Clouds, Attitudes, Steps, TileSets,
  Capacity, Samples, Bytes, Ids, Yaws, Scans, ScanCap, LandmarkRoom,
  RateGroups, Authorised, Sizes, Passes, MaxNow,
  Axes, MaxDepth, Cap, Pts, StackSlots, MaxAvoid, Landmarks, Radii,
  Honest, Spoofed, MaxReceivers, Threshold,
  Columns, Wrenches, Full,
  Kp, Ki, Kd, OutputMin, OutputMax, IntegralLimit, Errors, Measurements, Dts,
  Terrains, SearchRadius, Spacing, ProfileLen, Track, MaxDrift, Altitudes, GlideRatio, Lattice

(* Times, sizes and budgets are unsigned. *)
ASSUME KernelAssumption ==
  /\ Passes \subseteq Nat /\ Sizes \subseteq Nat
  /\ Authorised \in Nat /\ MaxNow \in Nat

(* A store has room for one.                                                *)
ASSUME StoreAssumption == Capacity \in Nat \ {0}

(* Gains are not negative, the proportional one is there, the stops are on  *)
(* either side of zero, and integration is slower than the proportional     *)
(* part (control.rs: Ki is below Kp, and a step lasts a few milliseconds).  *)
ASSUME PidAssumption ==
  /\ Kp \in Nat \ {0} /\ Ki \in Nat /\ Kd \in Nat /\ IntegralLimit \in Nat
  /\ OutputMin \in Int /\ OutputMax \in Int /\ OutputMin < 0 /\ 0 < OutputMax
  /\ Errors \subseteq Int /\ Dts \subseteq Int
  /\ Measurements \subseteq Int /\ IsFiniteSet(Measurements) /\ Measurements # {}
  /\ \A dt \in Dts : Ki * dt <= Kp

(* What the threshold of the integrity check must be for: honest receivers  *)
(* differ by no more, and a spoofer claims to be more than twice as far     *)
(* away (and the error of a receiver) than it.                              *)
ASSUME RaimAssumption ==
  /\ Threshold \in Nat /\ MaxReceivers \in Nat
  /\ \E error \in 0 .. Threshold :
       /\ 2 * error <= Threshold
       /\ Honest \subseteq -error .. error
       /\ \A v \in Spoofed : v \in Int /\ (v > 2 * Threshold + error \/ v < -(2 * Threshold + error))

(* A database is a grid of elevations with a row and a column at least;     *)
(* radii, counts and the glide ratio are not negative.                      *)
ASSUME SearchAssumption ==
  /\ \A t \in Terrains :
       /\ t.grid \in Seq(Seq(Int)) /\ t.grid # <<>> /\ t.grid[1] # <<>>
       /\ \A row \in DOMAIN t.grid : Len(t.grid[row]) = Len(t.grid[1])
  /\ Track \subseteq Int \X Int /\ Altitudes \subseteq Int
  /\ SearchRadius \in Nat /\ Spacing \in Nat /\ ProfileLen \in Nat
  /\ GlideRatio \in Nat /\ Lattice \in Nat

VARIABLES
  unit,
  pending, absorbed, fed, digest,
  r, h, acc, taken,
  crc, begun, span,
  written, wire, intact,
  kind, cells, next, filled, fresh, heard, read,
  kernel, mode, used, health, runnable, exec, usedBytes, now, byHand, failedFor,
  bare, tree, points, seen, missed, lost,
  alarmed, compromised, judged, rejected,
  healthy, order,
  integral, prevMeasurement, initialized, output, lastError, moved,
  terrain, position, estimate

Stream  == INSTANCE BlockStream
Poly    == INSTANCE Poly1305
Crc     == INSTANCE Crc16
Bench   == INSTANCE WireBench
Stores  == INSTANCE RecentStores WITH count <- filled
Kernels == INSTANCE OsKernels
Map     == INSTANCE ObstacleMap
Gnss    == INSTANCE Raim
Rotors  == INSTANCE RotorFaults
Loop    == INSTANCE Pid
Search  == INSTANCE TerrainSearch

(* A burst is as long as a byte at least, and as the polynomial at most: the *)
(* top bit of 0x1021 is its thirteenth, so that of longer registers two may *)
(* step to the same one.                                                    *)
ASSUME CrcAssumption == Burst \in 8 .. 13

(* A rotor's column has the four entries of its forces and moments, the     *)
(* first of them 1; thrusts that are asked for are not negative.            *)
ASSUME RotorAssumption ==
  /\ Columns \in Seq(Int \X Int \X Int \X Int) /\ \A i \in DOMAIN Columns : Columns[i][1] = 1
  /\ Wrenches \subseteq Nat \X Int \X Int \X Int
  /\ Full \in Nat

(* A block has room for the length and for the message's end.               *)
ASSUME StreamAssumption == BlockBytes \in Nat /\ LengthBytes \in 1 .. BlockBytes

(* Five limbs hold a multiplier and a block with its high bit (the code's   *)
(* limbs are 26 bits wide, the clamped multiplier below 2^124).             *)
ASSUME PolyAssumption ==
  /\ Base \in Nat /\ Base > 5
  /\ Rs \subseteq 0 .. Poly!Past - 1 /\ Blocks \subseteq 0 .. Poly!Past - 1 /\ Rs # {}

unitVars ==
  <<unit, vars, pending, absorbed, fed, digest, r, h, acc, taken, crc, begun, span, written, wire, intact,
    kind, cells, next, filled, fresh, heard, read,
    kernel, mode, used, health, runnable, exec, usedBytes, now, byHand, failedFor,
    bare, tree, points, seen, missed, lost, alarmed, compromised, judged, rejected, healthy, order,
    integral, prevMeasurement, initialized, output, lastError, moved, terrain, position, estimate>>

Unit == {"ring", "stream", "poly", "crc", "bench", "stores", "kernels", "map", "gnss", "rotors", "pid", "search"}

-----------------------------------------------------------------------------
(* A unit that is not the behaviour's starts in one of its initial states.  *)
Parked ==
  /\ IF unit = "poly" THEN TRUE ELSE r = Poly!Limbs(CHOOSE n \in Rs : TRUE)
  /\ IF unit = "bench" THEN TRUE ELSE written = CHOOSE w \in Bench!Writing : TRUE
  /\ IF unit = "stores" THEN TRUE ELSE kind = "swarm"
  /\ IF unit = "kernels" THEN TRUE ELSE kernel = "sel4"
  /\ IF unit = "map" THEN TRUE ELSE bare = TRUE
  /\ IF unit = "search" THEN TRUE
     ELSE terrain = (CHOOSE t \in Terrains : TRUE) /\ position = (CHOOSE p \in Track : TRUE)

UnitsInit ==
  /\ unit \in Unit
  /\ Parked
  /\ Init /\ Stream!StreamInit /\ Poly!PolyInit /\ Crc!CrcInit /\ Bench!BenchInit
  /\ Stores!StoreInit /\ Kernels!KernelInit /\ Map!MapInit /\ Gnss!RaimInit /\ Rotors!RotorInit
  /\ Loop!PidInit /\ Search!SearchInit

(* All units but the behaviour's stay as they are. *)
OthersWait ==
  /\ UNCHANGED unit
  /\ IF unit = "ring"    THEN TRUE ELSE UNCHANGED vars
  /\ IF unit = "stream"  THEN TRUE ELSE UNCHANGED <<pending, absorbed, fed, digest>>
  /\ IF unit = "poly"    THEN TRUE ELSE UNCHANGED <<r, h, acc, taken>>
  /\ IF unit = "crc"     THEN TRUE ELSE UNCHANGED <<crc, begun, span>>
  /\ IF unit = "bench"   THEN TRUE ELSE UNCHANGED <<written, wire, intact>>
  /\ IF unit = "stores"  THEN TRUE ELSE UNCHANGED <<kind, cells, next, filled, fresh, heard, read>>
  /\ IF unit = "kernels" THEN TRUE
     ELSE UNCHANGED <<kernel, mode, used, health, runnable, exec, usedBytes, now, byHand, failedFor>>
  /\ IF unit = "map"     THEN TRUE ELSE UNCHANGED <<bare, tree, points, seen, missed, lost>>
  /\ IF unit = "gnss"    THEN TRUE ELSE UNCHANGED <<alarmed, compromised, judged, rejected>>
  /\ IF unit = "rotors"  THEN TRUE ELSE UNCHANGED <<healthy, order>>
  /\ IF unit = "pid"     THEN TRUE
     ELSE UNCHANGED <<integral, prevMeasurement, initialized, output, lastError, moved>>
  /\ IF unit = "search"  THEN TRUE ELSE UNCHANGED <<terrain, position, estimate>>

UnitsNext ==
  /\ OthersWait
  /\ \/ unit = "ring" /\ Next
     \/ unit = "stream" /\ Stream!StreamNext
     \/ unit = "poly" /\ Poly!PolyNext
     \/ unit = "crc" /\ Crc!NextByte
     \/ unit = "bench" /\ Bench!Disturb
     \/ unit = "stores" /\ Stores!StoreNext
     \/ unit = "kernels" /\ Kernels!KernelNext
     \/ unit = "map" /\ Map!MapNext
     \/ unit = "gnss" /\ Gnss!RaimNext
     \/ unit = "rotors" /\ Rotors!RotorNext
     \/ unit = "pid" /\ Loop!PidNext
     \/ unit = "search" /\ Search!SearchNext

UnitsSpec == UnitsInit /\ [][UnitsNext]_unitVars

-----------------------------------------------------------------------------
(* The properties of the units, each stated and explained in its module:    *)
(* hash and MAC of a message do not depend on how it was cut into chunks,   *)
(* and the limb arithmetic of the MAC is exact and reduced.                 *)
MacIsExact ==
  /\ unit = "stream" => Stream!ChunkingIsInvisible
  /\ unit = "poly" => Poly!LimbsAreExact

(* The checksum tells every short burst of wrong bits from the message. *)
BurstIsDetected == unit = "crc" => Crc!BurstIsDetected

(* A frame that was not damaged is read by its reader, and by no other. *)
IntactFrameIsRead == unit = "bench" => Bench!IntactFrameIsRead

(* A damaged frame is read as what was written or not at all. *)
DamageIsNeverBelieved == unit = "bench" => Bench!DamageIsNeverBelieved

(* What is read of a store is the newest it was told. *)
StoresHoldTheNewest == unit = "stores" => Stores!StoresHoldTheNewest

(* Tasks run as partition health, schedule and memory budget allow. *)
TasksFollowHealth == unit = "kernels" => Kernels!TasksFollowHealth

(* The octree is the set of voxels of the points it accepted. *)
MapIsTheSet == unit = "map" => Map!MapIsTheSet

(* A cull takes a near point only if it found no room to be retained. *)
OnlyUnretainedAreLost == Map!OnlyUnretainedAreLost

(* A single spoofed receiver raises the alarm and is the one blamed. *)
RaimBlamesTheLiar == unit = "gnss" => Gnss!RaimBlamesTheLiar

(* Failed rotors are silent, the others make the wrench asked for. *)
FaultsAreAbsorbed == unit = "rotors" => Rotors!FaultsAreAbsorbed

(* A controller held at a stop does not wind up. *)
WindupIsShort == unit = "pid" => Loop!WindupIsShort

(* Contour matching and landing-site search find the best there is. *)
TerrainIsMatched == unit = "search" => Search!TerrainIsMatched
=============================================================================
