----------------------------- MODULE WireBench -----------------------------
(***************************************************************************)
(* Every message the system puts on a wire, written by its writer, perhaps  *)
(* damaged on the way, and given to all the readers.                        *)
(***************************************************************************)
EXTENDS Avionics, MapManifest

CONSTANTS
  Secret, OtherSecret,   \* key and nonce of the encrypted frames
  Telemetries, Commands, Motors, Clouds,   \* values to send
  Attitudes,             \* altitudes and yaws of the MAVLink bridge
  Steps,                 \* values of ARINC 429 words, in steps
  TileSets               \* map databases

VARIABLES
  written,   \* what was written: its reader and its value
  wire,      \* the buffer on the wire
  intact     \* whether it is as the writer left it

benchVars == <<written, wire, intact>>

Room == 4096   \* no writer is short of room here

Reader == {"telemetry", "command", "health", "companion", "peer", "sealed", "stranger",
           "afdx", "arinc", "map", "gnss"}
          \cup DOMAIN MavMessage

State == [state |-> 1]   \* contents of a message nothing here looks into

(* The writers, by the reader their message is for. *)
Writing ==
  LET by(reader, value, frames) == {[reader |-> reader, value |-> value, frame |-> f] : f \in frames}
  IN  UNION {by("telemetry", t, SerializeTelemetry(t, s, Room)) : t \in Telemetries, s \in Seqs}
      \cup UNION {by("command", c, SerializeCommand(c, s, Room)) : c \in Commands, s \in Seqs}
      \cup UNION {by("health", [motors |-> SubSeq(m, 1, Min({Len(m), MaxHealthMotors}))], SerializeHealth(m, s, Room)) :
                    m \in Motors, s \in Seqs}
      \cup UNION {by("companion", [pose |-> "here"], SerializePose("here", s, Room)) : s \in Seqs}
      \cup UNION {by("companion", [points |-> Cloud(c)], SerializeCloud(c, s, Room)) : c \in Clouds, s \in Seqs}
      \cup UNION {by("peer", [peer |-> 1], SerializePeer(1, s, Room)) : s \in Seqs}
      \cup UNION {by("sealed", p, SerializeEncrypted(Room, Secret, "Command", 32, s, p)) :
                    p \in {Pack(c) : c \in Commands}, s \in Seqs}
      \cup UNION {by(k, State, MavSerialize(k, s, State, Room)) : k \in DOMAIN MavMessage \ {"position"}, s \in Seqs}
      \cup UNION {by("position", [alt |-> -a.z, yawDeg |-> a.yaw % 360],
                     MavSerialize("position", s, ToMavPosition(a.z, a.yaw, a.v), Room)) :
                    a \in Attitudes, s \in Seqs}
      \cup UNION {by(k, State, UNION {MavSeal(f, Secret, MavMessage[k].extra, Room) :
                                          f \in MavSerialize(k, s, State, Room)}) :
                    k \in DOMAIN MavMessage \ {"position"}, s \in Seqs}
      \cup UNION {by("afdx", State, {AfdxSend(vl, s, n, State)}) :
                    vl \in {1, 2}, s \in Seqs, n \in {0, AfdxMax, AfdxMax + 1}}
      \cup UNION {by("arinc", [label |-> {0, 7}, steps |-> n],
                     {[word |-> Pack429(Word({0, 7}, {1}, EncodeBnr(n), {0, 1}))]}) : n \in Steps}
      \cup UNION {by("map", [tiles |-> t], {[manifest |-> BuildManifest(t, Secret), tiles |-> t]}) :
                    t \in TileSets}
      \cup {[reader |-> "gnss", value |-> [pos |-> 1, tow |-> tow],
              frame |-> [token |-> Sign(1, vel, tow, Secret), pos |-> 1, vel |-> vel, tow |-> tow]] :
               vel \in {0, 1}, tow \in Seqs}

(* A reader is given a buffer of its own transport. *)
IsTpt(f) == "channel" \in DOMAIN f
IsMav(f) == "incompat" \in DOMAIN f

Hear(reader, f) ==
  CASE IsTpt(f) /\ reader = "telemetry" -> ParseTelemetry(f)
    [] IsTpt(f) /\ reader = "command"   -> ParseCommand(f)
    [] IsTpt(f) /\ reader = "health"    -> ParseHealth(f)
    [] IsTpt(f) /\ reader = "companion" -> ParseCompanion(f)
    [] IsTpt(f) /\ reader = "peer"      -> ParsePeer(f)
    [] IsTpt(f) /\ reader = "sealed" ->
         IF "encrypted" \in f.flags THEN {x.payload : x \in ParseEncrypted(f, Secret)} ELSE {}
    [] IsTpt(f) /\ reader = "stranger" ->
         IF "encrypted" \in f.flags THEN {x.payload : x \in ParseEncrypted(f, OtherSecret)} ELSE {}
    [] IsMav(f) /\ reader \in DOMAIN MavMessage ->
         {IF reader = "position" /\ "hdg" \in DOMAIN v THEN FromMavPosition(v) ELSE v :
            v \in MavReceive(f, Secret, reader)}
    [] "vl" \in DOMAIN f /\ reader = "afdx" -> AfdxParse(f)
    [] "word" \in DOMAIN f /\ reader = "arinc" ->
         {[label |-> w.label, steps |-> DecodeBnr(w.data)] : w \in Parse429(f.word)}
    [] "manifest" \in DOMAIN f /\ reader = "map" ->
         IF Verify(f.manifest, f.tiles, Secret) THEN {[tiles |-> f.tiles]} ELSE {}
    [] "token" \in DOMAIN f /\ reader = "gnss" ->
         IF VerifyFix(f.token, f.pos, f.tow, Secret) THEN {[pos |-> f.pos, tow |-> f.tow]} ELSE {}
    [] OTHER -> {}

AnyDamage(f) ==
  CASE IsTpt(f) -> Damage(f) \ {f}
    [] IsMav(f) -> MavDamage(f) \ {f}
    [] "vl" \in DOMAIN f -> AfdxDamage(f)
    [] "manifest" \in DOMAIN f ->
         {[f EXCEPT !.tiles = t] : t \in TileSets \ {f.tiles}}
         \cup {[f EXCEPT !.manifest.signature = {}]}
         \cup {[f EXCEPT !.manifest = BuildManifest(t, OtherSecret)] : t \in TileSets}
    [] "token" \in DOMAIN f ->
         {[f EXCEPT !.pos = 2], [f EXCEPT !.vel = 1 - @], [f EXCEPT !.tow = @ + 1],
          [f EXCEPT !.token = Sign(2, f.vel, f.tow, OtherSecret)]}
    [] OTHER -> {[word |-> SymDiff(f.word, {b})] : b \in 0 .. 31}

-----------------------------------------------------------------------------
BenchInit == \E w \in Writing : written = w /\ wire = w.frame /\ intact = TRUE

Disturb ==
  /\ intact
  /\ wire' \in AnyDamage(wire)
  /\ intact' = FALSE
  /\ UNCHANGED written

-----------------------------------------------------------------------------
(* An intact frame is read by its own reader, as it was written, and by no  *)
(* other (nor under another key), although message ids and lengths overlap  *)
(* between channels; the conversions on the way are exact.  The one         *)
(* exception is the code's: no reader knows the mode byte of Glide.         *)
IntactFrameIsRead ==
  intact => \A r \in Reader :
    Hear(r, wire) = IF r # written.reader THEN {}
                    ELSE IF /\ r \in {"telemetry", "command"}
                            /\ "Glide" \in {written.value[d] : d \in DOMAIN written.value}
                         THEN {} ELSE {written.value}

(* One damaged bit or a frame cut short is rejected by every reader, or has *)
(* changed nothing the reader returns.  In particular a plain frame is not  *)
(* taken for an encrypted one or the reverse, no parser copies more than    *)
(* its array holds, and a map database with a tile altered, moved, added or *)
(* removed is refused.                                                      *)
DamageIsNeverBelieved ==
  ~intact => \A r \in Reader :
    Hear(r, wire) \subseteq IF r = written.reader THEN {written.value} ELSE {}

=============================================================================
