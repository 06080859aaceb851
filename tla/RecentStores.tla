---------------------------- MODULE RecentStores ----------------------------
(***************************************************************************)
(* The stores that keep the newest of what they are told, each in its own   *)
(* way: SamplingPort (tpt-backend-pikeos/src/partition.rs) and Endpoint     *)
(* (tpt-backend-sel4/src/microkernel.rs), a buffer of bytes with a length;  *)
(* Arinc429Channel (tpt-protocols/src/arinc.rs), a short history;           *)
(* TrendBuffer inside BatteryHealth and MotorHealth                         *)
(* (tpt-core/src/prognostics.rs), a ring; KeyframeGraph inside              *)
(* SlamSpatialMap (tpt-mapping/src/slam/mod.rs), a list that shifts;        *)
(* SwarmNetwork (tpt-core/src/swarm.rs), a slot per id modulo the capacity; *)
(* the LiDAR scan of Stm32Board (tpt-backend-bare-metal/src/board.rs).      *)
(*                                                                         *)
(* A behaviour is one store, `kind`.                                        *)
(***************************************************************************)
EXTENDS Integers, FiniteSetsExt, SequencesExt

CONSTANTS
  Capacity,     \* N: bytes, words, samples, keyframes or slots
  Samples,      \* values told (integers, as the trend needs)
  Bytes,        \* bytes of messages
  Ids,          \* peers
  Yaws,         \* headings of keyframes, in quarter turns
  Scans,        \* landmarks seen from a keyframe: sequences of <<x, y>>
  ScanCap,      \* P: landmarks a keyframe holds
  LandmarkRoom  \* L: landmarks of a companion's cloud that are passed on

VARIABLES
  kind,     \* which store it is
  cells,    \* buf, history, frames or peers, by index from 0
  next,     \* head of a ring, count of the channel
  count,    \* count, or len of a port or a graph
  fresh,    \* fresh, has_message
  heard,    \* history: the accepted reports that still matter, in order
  read      \* the last read: what it returned

storeVars == <<kind, cells, next, count, fresh, heard, read>>

Port == {"sampling", "endpoint"}
Kind == Port \cup {"channel", "trend", "graph", "swarm", "lidar"}

Empty == [none |-> TRUE]   \* a cell nothing was written to, a read that failed

(* The last Capacity reports. *)
Recent(s) == SubSeq(s, Max({1, Len(s) - Capacity + 1}), Len(s))
Told(x) == heard' = Recent(Append(heard, x))

(* What of s fits into n places. *)
Cut(s, n) == SubSeq(s, 1, Min({n, Len(s)}))

(* SamplingPort::new, Endpoint::new, Arinc429Channel::new, TrendBuffer::new, *)
(* SlamSpatialMap::new, SwarmNetwork::new and Stm32Board::new.              *)
StoreInit ==
  /\ kind \in Kind
  /\ cells = [i \in 0 .. Capacity - 1 |-> Empty]
  /\ next = 0 /\ count = 0 /\ fresh = FALSE
  /\ heard = <<>> /\ read = Empty

-----------------------------------------------------------------------------
(* Ports.  A message is a sequence of bytes, each a record so that a byte   *)
(* can be told from an empty cell.                                          *)
Messages == UNION {[1 .. n -> {[byte |-> v] : v \in Bytes}] : n \in 0 .. Capacity + 1}

Mut_WritePort(m) ==
  /\ kind \in Port
  /\ IF Len(m) > Capacity THEN UNCHANGED <<cells, count, fresh, heard>>
     ELSE /\ cells' = [i \in DOMAIN cells |-> IF i < Len(m) THEN m[i + 1] ELSE cells[i]]
          /\ count' = Max({count, Len(m)})
          /\ fresh' = TRUE
          /\ heard' = <<m>>
  /\ UNCHANGED <<kind, next, read>>

(* write(): a message that does not fit is refused; the bytes beyond a      *)
(* shorter one stay.                                                        *)
WritePort(m) ==
  /\ kind \in Port
  /\ IF Len(m) > Capacity THEN UNCHANGED <<cells, count, fresh, heard>>
     ELSE /\ cells' = [i \in DOMAIN cells |-> IF i < Len(m) THEN m[i + 1] ELSE cells[i]]
          /\ count' = Len(m)
          /\ fresh' = TRUE
          /\ heard' = <<m>>
  /\ UNCHANGED <<kind, next, read>>

(* What tells a port that there is nothing to read: a sampling port looks   *)
(* at the length, an endpoint at the flag.                                  *)
NothingToRead == IF kind = "sampling" THEN count = 0 ELSE ~fresh

(* read() into a buffer of `room` bytes. *)
ReadPort(room) ==
  /\ kind \in Port
  /\ IF NothingToRead \/ room < count
     THEN read' = Empty /\ UNCHANGED fresh
     ELSE read' = [msg |-> [i \in 1 .. count |-> cells[i - 1]], first |-> fresh] /\ fresh' = FALSE
  /\ UNCHANGED <<kind, cells, next, count, heard>>

-----------------------------------------------------------------------------
(* Arinc429Channel::ingest: a word with wrong parity changes nothing.  The  *)
(* count matters modulo Capacity, and as zero or not (64 bits do not wrap). *)
Ingest(v, parityOk) ==
  /\ kind = "channel"
  /\ IF ~parityOk THEN UNCHANGED <<cells, next, heard>>
     ELSE /\ cells' = [cells EXCEPT ![next % Capacity] = [value |-> v]]
          /\ next' = IF next < Capacity THEN next + 1 ELSE next + 1 - Capacity
          /\ Told([value |-> v])
  /\ UNCHANGED <<kind, count, fresh, read>>

(* Arinc429Channel::receive *)
Receive == IF next = 0 THEN Empty ELSE cells[(next - 1) % Capacity]

-----------------------------------------------------------------------------
(* BatteryHealth::update and MotorHealth::update: TrendBuffer::push, unless *)
(* no time has passed.                                                      *)
Sample(v, dt) ==
  /\ kind = "trend"
  /\ IF dt <= 0 THEN UNCHANGED <<cells, next, count, heard>>
     ELSE /\ cells' = [cells EXCEPT ![next] = [value |-> v]]
          /\ next' = (next + 1) % Capacity
          /\ count' = Min({count + 1, Capacity})
          /\ Told([value |-> v])
  /\ UNCHANGED <<kind, fresh, read>>

Latest == IF count = 0 THEN Empty ELSE cells[IF next = 0 THEN Capacity - 1 ELSE next - 1]

(* The buffer as mean, min, max and slope walk it: from index 0. *)
Walk == [i \in 1 .. count |-> cells[i - 1].value]

Sum(s) == FoldLeft(LAMBDA a, b : a + b, 0, s)

(* min() and max() of the cells that are filled; mean() times their number. *)
Lowest == Min(Range(Walk))
Highest == Max(Range(Walk))
MeanTimesCount == Sum(Walk)

(* health_index: the part of a battery's health that its worst cell voltage *)
(* makes up, in percent; here a sample of n stands for 2.5 + n / 4 volts,   *)
(* and 0 for a cell that reads zero.                                        *)
VoltageHealth ==
  IF count = 0 \/ Lowest = 0 THEN 100 ELSE Min({100, 50 * Lowest})

(* slope(): sign and size of the least-squares slope, times a positive      *)
(* denominator that depends on the number of samples alone.                 *)
SlopeOf(s) ==
  Len(s) * Sum([k \in DOMAIN s |-> (k - 1) * s[k]]) - Sum([k \in DOMAIN s |-> k - 1]) * Sum(s)

(* estimate_rul_seconds is None unless the charge falls. *)
RulKnown == count >= 2 /\ SlopeOf(Walk) < 0 /\ Latest.value > 0

-----------------------------------------------------------------------------
(* Keyframes stand on a line, y = 1, and face along the axes: cosine and    *)
(* sine of the yaw are the two parts of a unit vector.                      *)
Cosine(yaw) == CASE yaw = 0 -> 1 [] yaw = 2 -> -1 [] OTHER -> 0
Sine(yaw) == CASE yaw = 1 -> 1 [] yaw = 3 -> -1 [] OTHER -> 0
Row == 1

ToLocal(x, yaw, p) ==
  LET dx == p[1] - x
      dy == p[2] - Row
  IN  <<Cosine(yaw) * dx + Sine(yaw) * dy, Cosine(yaw) * dy - Sine(yaw) * dx>>

Mut_ToWorld(kf, p) ==
  <<kf.value + Cosine(kf.yaw) * p[1] + Sine(kf.yaw) * p[2],
    Row - Sine(kf.yaw) * p[1] + Cosine(kf.yaw) * p[2]>>

(* to_world *)
ToWorld(kf, p) ==
  <<kf.value + Cosine(kf.yaw) * p[1] - Sine(kf.yaw) * p[2],
    Row + Sine(kf.yaw) * p[1] + Cosine(kf.yaw) * p[2]>>

(* Keyframe::push, until the keyframe is full. *)
Pushed(points) == Cut(points, ScanCap)

Mut_AddKeyframe(kf) ==
  cells' = [cells EXCEPT ![count % Capacity] = kf] /\ count' = Min({count + 1, Capacity})

(* KeyframeGraph::add: a full graph shifts left by one. *)
AddKeyframe(kf) ==
  IF count < Capacity
  THEN cells' = [cells EXCEPT ![count] = kf] /\ count' = count + 1
  ELSE /\ cells' = [i \in DOMAIN cells |-> IF i = Capacity - 1 THEN kf ELSE cells[i + 1]]
       /\ UNCHANGED count

(* SlamSpatialMap::insert_keyframe *)
InsertKeyframe(x, yaw, landmarks) ==
  /\ kind = "graph"
  /\ AddKeyframe([value |-> x, yaw |-> yaw,
                  points |-> Pushed([i \in DOMAIN landmarks |-> ToLocal(x, yaw, landmarks[i])])])
  /\ Told([value |-> x, world |-> Pushed(landmarks)])
  /\ UNCHANGED <<kind, next, fresh, read>>

(* ObstacleCloud::ingest_into: the first points of the companion's cloud,   *)
(* as many as the landmark buffer has room for.                             *)
IngestCloud(x, yaw, cloud) == InsertKeyframe(x, yaw, Cut(cloud, LandmarkRoom))

Within(box, p) == \A a \in 1 .. 2 : box.lo[a] <= p[a] /\ p[a] <= box.hi[a]

(* SlamSpatialMap::query_obstacles into a buffer of `room` points.          *)
QueryScans(box, room) ==
  LET world(i) == [k \in DOMAIN cells[i].points |-> ToWorld(cells[i], cells[i].points[k])]
      inside == SelectSeq(FlattenSeq([i \in 1 .. count |-> world(i - 1)]), LAMBDA p : Within(box, p))
  IN  Cut(inside, room)

(* SlamSpatialMap::cull_distant_data: the graph is rebuilt from the         *)
(* keyframes within the radius of the current position.                     *)
CullKeyframes(pos, radius) ==
  /\ kind = "graph"
  /\ LET near(x) == Max({x.value - pos, pos - x.value}) <= radius
         kept == SelectSeq([i \in 1 .. count |-> cells[i - 1]], near)
     IN  /\ cells' = [i \in DOMAIN cells |-> IF i < Len(kept) THEN kept[i + 1] ELSE Empty]
         /\ count' = Len(kept)
         /\ heard' = SelectSeq(heard, near)
  /\ UNCHANGED <<kind, next, fresh, read>>

-----------------------------------------------------------------------------
(* SwarmNetwork::ingest *)
IngestPeer(id, v) ==
  /\ kind = "swarm"
  /\ cells' = [cells EXCEPT ![id % Capacity] = [id |-> id, value |-> v]]
  /\ heard' = Append(SelectSeq(heard, LAMBDA r : r.id # id), [id |-> id, value |-> v])
  /\ UNCHANGED <<kind, next, count, fresh, read>>

(* SwarmNetwork::peer: the id of what it finds is not compared. *)
Peer(id) == cells[id % Capacity]
PeerCount == Cardinality({i \in DOMAIN cells : cells[i] # Empty})

(* upwash_slot: forward, right and down of the lead, in half metres. *)
UpwashSlot == [FixedWing |-> <<-16, 6, 2>>, EvtolCruise |-> <<-10, 0, 3>>]

(* slot_in_world: turned by the lead's heading, moved to the lead. *)
SlotInWorld(profile, leadPos, heading) ==
  LET s == UpwashSlot[profile]
  IN  <<leadPos[1] + s[1] * Cosine(heading) - s[2] * Sine(heading),
        leadPos[2] + s[1] * Sine(heading) + s[2] * Cosine(heading),
        leadPos[3] + s[3]>>

(* RelativePositionController::update, with unit gain. *)
RelativeVelocity(own, peer, offset) == [a \in 1 .. 3 |-> peer[a] + offset[a] - own[a]]

(* FormationController::update *)
FormationTarget(profile, own, leadPos, heading) ==
  LET slot == SlotInWorld(profile, leadPos, heading)
  IN  [at |-> slot, velocity |-> RelativeVelocity(own, slot, <<0, 0, 0>>), yaw |-> heading]

-----------------------------------------------------------------------------
(* load_lidar_scan: what does not fit is cut off. *)
LoadScan(m) ==
  /\ kind = "lidar"
  /\ cells' = [i \in DOMAIN cells |-> IF i < Len(m) THEN m[i + 1] ELSE cells[i]]
  /\ count' = Min({Len(m), Capacity})
  /\ heard' = <<Cut(m, Capacity)>>
  /\ UNCHANGED <<kind, next, fresh, read>>

(* read_point_cloud: the scan stays and is read again. *)
ReadScan(room) == [i \in 1 .. Min({room, count}) |-> cells[i - 1]]

-----------------------------------------------------------------------------
StoreNext ==
  \/ \E m \in Messages : WritePort(m)
  \/ \E room \in 0 .. Capacity : ReadPort(room)
  \/ \E v \in Samples, ok \in BOOLEAN : Ingest(v, ok)
  \/ \E v \in Samples, dt \in {0, 1} : Sample(v, dt)
  \/ \E v \in Samples, yaw \in Yaws, landmarks \in Scans :
       InsertKeyframe(v, yaw, landmarks) \/ IngestCloud(v, yaw, landmarks)
  \/ \E pos \in Samples, radius \in {0, 1} : CullKeyframes(pos, radius)
  \/ \E id \in Ids, v \in Samples : IngestPeer(id, v)
  \/ \E m \in Messages : LoadScan(m)

-----------------------------------------------------------------------------
Newest == IF heard = <<>> THEN Empty ELSE Last(heard)

(* A port: what was read is whole, and an endpoint hands a message over at  *)
(* most once.  `fresh` promises a read, except for the empty sample.        *)
PortHoldsNewest ==
  /\ heard # <<>> => [i \in 1 .. count |-> cells[i - 1]] = Newest
  /\ kind = "endpoint" /\ read # Empty => read.first
  /\ fresh /\ NothingToRead => kind = "sampling" /\ Newest = <<>>

(* The ring keeps the last Capacity samples, and the lowest, the highest    *)
(* and the mean are theirs.  Two things are claimed in part only.  The      *)
(* trend is that of the samples in time order while the ring has not        *)
(* wrapped, or has just come round: after that slope() walks it from the    *)
(* middle, and its sign need not be that of the trend.                      *)
(* A cell below 3 volts, 2 here, makes the battery degrade unless a sample  *)
(* reads zero volts, to which health_index() gives full marks.              *)
TrendHoldsWindow ==
  LET values == [i \in DOMAIN heard |-> heard[i].value]
      turn == IF count < Capacity THEN 0 ELSE next
  IN  /\ Latest = Newest
      /\ count = Len(heard)
      /\ \A i \in 1 .. count : Walk[((turn + i - 1) % Capacity) + 1] = values[i]
      /\ turn = 0 => (RulKnown <=> count >= 2 /\ SlopeOf(values) < 0 /\ Last(values) > 0)
      /\ values # <<>> =>
           /\ Lowest = Min(Range(values)) /\ Highest = Max(Range(values))
           /\ MeanTimesCount = Sum(values)
           /\ 0 \notin Range(values) => (VoltageHealth < 100 <=> Lowest < 2)

(* The map is the landmarks of the keyframes that are left, where they were *)
(* when they were seen, oldest first, as far as they fit.                   *)
GraphHoldsWindow ==
  LET corners == {<<x, y>> : x \in Samples, y \in Samples}
      all == FlattenSeq([i \in DOMAIN heard |-> heard[i].world])
  IN  /\ count = Len(heard)
      /\ \A i \in 1 .. count : cells[i - 1].value = heard[i].value
      /\ \A lo, hi \in corners, room \in {1, Capacity * ScanCap} :
           LET inside == SelectSeq(all, LAMBDA p : Within([lo |-> lo, hi |-> hi], p))
           IN  QueryScans([lo |-> lo, hi |-> hi], room) = Cut(inside, room)

(* A vehicle that follows a peer flies to the slot of its profile as seen   *)
(* from where the peer last said it was, whatever the heading, and halts    *)
(* there.                                                                   *)
FollowsLead(id) ==
  \A profile \in DOMAIN UpwashSlot, heading \in Yaws \cup {2, 3}, x \in Samples :
    LET told == Last(SelectSeq(heard, LAMBDA r : r.id = id)).value
        own == <<x, Row, 0>>
        target == FormationTarget(profile, own, <<Peer(id).value, Row, 0>>, heading)
        there == [a \in 1 .. 3 |-> own[a] + target.velocity[a]]
    IN  /\ ToLocal(told, heading, there) = SubSeq(UpwashSlot[profile], 1, 2)
        /\ there[3] = UpwashSlot[profile][3]
        /\ FormationTarget(profile, there, <<told, Row, 0>>, heading).velocity = <<0, 0, 0>>

(* A peer heard since all others that share its slot is found, as last      *)
(* heard; nothing is found where no such peer was heard; and a look-up that *)
(* finds the peer finds its latest report.  Nothing is claimed of a peer    *)
(* whose slot was taken since: peer() then answers with the other vehicle.  *)
SwarmHoldsPeers ==
  LET of(ids) == SelectSeq(heard, LAMBDA r : r.id \in ids)
      sharing(id) == {j \in Ids : j % Capacity = id % Capacity}
  IN  \A id \in Ids :
        /\ of(sharing(id)) = <<>> => Peer(id) = Empty
        /\ (of(sharing(id)) # <<>> /\ Last(of(sharing(id))).id = id) =>
             Peer(id) = Last(of({id})) /\ FollowsLead(id)
        /\ (Peer(id) # Empty /\ Peer(id).id = id) => of({id}) # <<>> /\ Peer(id) = Last(of({id}))

(* A port and the ARINC channel return the newest message they accepted,    *)
(* whole; the LiDAR its scan as far as it fits; the trend buffers and the   *)
(* keyframe graph the window that fits, the graph's oldest first: refused,  *)
(* ignored and culled reports, wrap-around and shifting included.  Of the   *)
(* swarm, the trend's slope and the cell voltage only part is claimed, as   *)
(* said above; and an endpoint, of which the code says that it stores the   *)
(* latest message handed over, forgets one that was never received.         *)
StoresHoldTheNewest ==
  CASE kind \in Port     -> PortHoldsNewest
    [] kind = "channel"  -> Receive = Newest
    [] kind = "trend"    -> TrendHoldsWindow
    [] kind = "graph"    -> GraphHoldsWindow
    [] kind = "lidar"    -> \A room \in 0 .. Capacity :
                              heard # <<>> => ReadScan(room) = Cut(Newest, room)
    [] kind = "swarm"    -> SwarmHoldsPeers /\ PeerCount <= Capacity
=============================================================================
