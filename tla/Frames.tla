------------------------------- MODULE Frames -------------------------------
(***************************************************************************)
(* TPT-Link frames (tpt-protocols/src/tptlink.rs) and the messages they     *)
(* carry: telemetry and commands of the ground station (tpt-gcs), health    *)
(* reports, and poses and obstacle clouds of the companion computer.       *)
(*                                                                         *)
(* A buffer is a record: the bytes that arrived, the header fields, the     *)
(* payload and the trailer.  A payload is a message kind, a length in bytes *)
(* and a value; a decoder that reads a payload of another kind finds        *)
(* Garbage.  The CRC is modelled as the fields it was computed over (Crc16  *)
(* shows which damage it catches).  A parser returns a set, empty for None. *)
(***************************************************************************)
EXTENDS FlightModes, Integers, Sequences, FiniteSetsExt, SequencesExt

CONSTANTS
  Seqs,       \* sequence numbers
  CloudCap    \* N: points an ObstacleCloud holds

A == INSTANCE Aead WITH PadBytes <- 2, TagBlock <- 2, CounterMod <- 8

HeaderLen == 9
CrcLen == 2
TagLen == 16

Channel == {"Telemetry", "Command", "Map", "Health"}
MsgId == [telemetry |-> 16, command |-> 32, pose |-> 1, cloud |-> 2, health |-> 1, peer |-> 1]
Garbage == [garbage |-> TRUE]

-----------------------------------------------------------------------------
(* Bytes of the modes: FlightMode as u8, FusionMode as u8.                  *)
FlightBytes == <<"Disarmed", "Armed", "Takeoff", "PositionHold", "Land", "Failsafe", "Glide">>
FusionBytes == <<"GpsAided", "Coast", "VisualAided", "TerrainAided">>
ByteOf(order, mode) == (CHOOSE i \in DOMAIN order : order[i] = mode) - 1

(* The decoders know six flight modes: a byte above 5 is None. *)
FlightModeOf(byte) == IF byte \in 0 .. 5 THEN {FlightBytes[byte + 1]} ELSE {}
FusionModeOf(byte) == IF byte \in 0 .. 3 THEN {FusionBytes[byte + 1]} ELSE {}

-----------------------------------------------------------------------------
(* Payloads *)
Payload(kind, size, value) == [kind |-> kind, size |-> size, value |-> value]

(* A decoder reads `need` bytes or returns None. *)
Read(p, kind, need) ==
  IF p.size < need THEN {} ELSE IF p.kind = kind THEN {p.value} ELSE {Garbage}

TelemetryLen == 42

(* serialize_telemetry: ten floats and the two mode bytes. *)
EncodeTelemetry(t) ==
  Payload("telemetry", TelemetryLen,
    [modeByte |-> ByteOf(FlightBytes, t.mode), navByte |-> ByteOf(FusionBytes, t.nav)])

DecodeTelemetry(p) ==
  UNION {IF v = Garbage THEN {Garbage}
         ELSE {[mode |-> m, nav |-> n] : m \in FlightModeOf(v.modeByte), n \in FusionModeOf(v.navByte)} :
           v \in Read(p, "telemetry", TelemetryLen)}

CommandLen(c) == CASE c.op = "SetWaypoint" -> 17 [] c.op = "SetMode" -> 2 [] OTHER -> 1

Pack(c) ==
  Payload("command", CommandLen(c),
    IF c.op = "SetMode" THEN [op |-> c.op, modeByte |-> ByteOf(FlightBytes, c.arg)] ELSE c)

(* Command::unpack: the first byte tells how many more are read. *)
Unpack(p) ==
  IF p.size = 0 THEN {}
  ELSE IF p.kind # "command" \/ p.value = Garbage THEN {Garbage}
  ELSE IF p.size < CommandLen(p.value) THEN {}
  ELSE IF p.value.op = "SetMode"
  THEN {[op |-> "SetMode", arg |-> m] : m \in FlightModeOf(p.value.modeByte)} ELSE {p.value}

MaxHealthMotors == 8
HealthReportLen == 4 + 4 + 4 + 4 + 1 + MaxHealthMotors * (4 + 4 + 1)

(* encode() clamps the count and pads the unused slots, decode() clamps it  *)
(* again and leaves those slots zero.                                       *)
EncodeHealth(motors) ==
  Payload("health", HealthReportLen, [motors |-> SubSeq(motors, 1, Min({Len(motors), MaxHealthMotors}))])
DecodeHealth(p) == Read(p, "health", HealthReportLen)

LocalPoseLen == 40
EncodePose(v) == Payload("pose", LocalPoseLen, [pose |-> v])
DecodePose(p) == Read(p, "pose", LocalPoseLen)

PeerTelemetryLen == 29
EncodePeer(v) == Payload("peer", PeerTelemetryLen, [peer |-> v])
DecodePeer(p) == Read(p, "peer", PeerTelemetryLen)

PointLen == 12
MaxFramePoints == 256
CloudLen(n) == 2 + n * PointLen

(* from_points() and decode() push() until the cloud is full. *)
Cloud(points) == SubSeq(points, 1, Min({Len(points), CloudCap}))

(* serialize_cloud's scratch buffer holds MaxFramePoints points. *)
EncodeCloud(points) ==
  IF Len(points) > MaxFramePoints THEN {} ELSE {Payload("cloud", CloudLen(Len(points)), [points |-> points])}
DecodeCloud(p) ==
  IF p.size < 2 THEN {}
  ELSE IF p.kind # "cloud" \/ p.value = Garbage THEN {Garbage}
  ELSE IF p.size < CloudLen(Len(p.value.points)) THEN {}
  ELSE {[points |-> Cloud(p.value.points)]}

-----------------------------------------------------------------------------
(* Frames *)
Aad(f) == <<A!Byte(f.channel), A!Byte(f.msgid), A!Byte(f.seq), A!Byte(f.length)>>
Crc(f) == [crc |-> <<f.magic, f.flags, f.channel, f.msgid, f.seq, f.length, f.payload>>]
NoTrailer == [noise |-> TRUE]

(* The header and the payload, with room for a trailer of so many bytes. *)
Frame(flags, channel, msgid, seq, payload, trailerLen) ==
  [bytes |-> HeaderLen + payload.size + trailerLen, magic |-> TRUE, flags |-> flags,
   channel |-> channel, msgid |-> msgid, seq |-> seq, length |-> payload.size,
   payload |-> payload, trailer |-> NoTrailer]

(* serialize_plain into a buffer of `room` bytes. *)
SerializePlain(room, channel, msgid, seq, payload) ==
  LET f == Frame({}, channel, msgid, seq, payload, CrcLen)
  IN  IF room < f.bytes THEN {} ELSE {[f EXCEPT !.trailer = Crc(f)]}

Mut_ParsePlainNoCrc(f) ==
  IF /\ f.bytes >= HeaderLen + CrcLen /\ f.magic /\ "encrypted" \notin f.flags
     /\ f.channel \in Channel
     /\ f.bytes >= HeaderLen + f.length + CrcLen
  THEN {[header |-> [channel |-> f.channel, msgid |-> f.msgid, seq |-> f.seq],
         payload |-> [f.payload EXCEPT !.size = f.length]]}
  ELSE {}

(* parse_plain *)
ParsePlain(f) ==
  IF /\ f.bytes >= HeaderLen + CrcLen /\ f.magic /\ "encrypted" \notin f.flags
     /\ f.channel \in Channel
     /\ f.bytes >= HeaderLen + f.length + CrcLen
     /\ f.trailer = Crc(f)
  THEN {[header |-> [channel |-> f.channel, msgid |-> f.msgid, seq |-> f.seq],
         payload |-> [f.payload EXCEPT !.size = f.length]]}
  ELSE {}

(* serialize_encrypted: the AAD is bytes 3 to 8, which leaves out the flags. *)
SerializeEncrypted(room, secret, channel, msgid, seq, payload) ==
  LET f == Frame({"encrypted"}, channel, msgid, seq, payload, TagLen)
      sealed == A!Encrypt(secret.key, secret.nonce, Aad(f), <<A!Byte(payload)>>)
  IN  IF room < f.bytes THEN {}
      ELSE {[f EXCEPT !.payload = [ct |-> sealed.ct], !.trailer = [tag |-> sealed.tag]]}

(* parse_encrypted: the payload is decrypted only after the tag matched. *)
ParseEncrypted(f, secret) ==
  IF /\ f.bytes >= HeaderLen + TagLen /\ f.magic /\ "encrypted" \in f.flags
     /\ "tag" \in DOMAIN f.trailer  \* other bytes match no tag
     /\ f.channel \in Channel
     /\ f.bytes >= HeaderLen + f.length + TagLen
  THEN {[header |-> [channel |-> f.channel, msgid |-> f.msgid, seq |-> f.seq], payload |-> plain[1].v] :
          plain \in A!Decrypt(secret.key, secret.nonce, Aad(f), f.payload.ct, f.trailer.tag)}
  ELSE {}

-----------------------------------------------------------------------------
(* Messages: the writers. *)
SerializeTelemetry(t, seq, room) ==
  SerializePlain(room, "Telemetry", MsgId.telemetry, seq, EncodeTelemetry(t))
SerializeCommand(c, seq, room) ==
  SerializePlain(room, "Command", MsgId.command, seq, Pack(c))
SerializeHealth(motors, seq, room) ==
  SerializePlain(room, "Health", MsgId.health, seq, EncodeHealth(motors))
SerializePose(v, seq, room) ==
  SerializePlain(room, "Map", MsgId.pose, seq, EncodePose(v))
SerializePeer(v, seq, room) ==
  SerializePlain(room, "Telemetry", MsgId.peer, seq, EncodePeer(v))
SerializeCloud(points, seq, room) ==
  UNION {SerializePlain(room, "Map", MsgId.cloud, seq, p) : p \in EncodeCloud(points)}

(* The readers: the ground link looks at the message id alone, the others  *)
(* at the channel too.                                                      *)
ParseTelemetry(f) ==
  UNION {IF x.header.msgid = MsgId.telemetry THEN DecodeTelemetry(x.payload) ELSE {} : x \in ParsePlain(f)}
ParseCommand(f) ==
  UNION {IF x.header.msgid = MsgId.command THEN Unpack(x.payload) ELSE {} : x \in ParsePlain(f)}
ParseHealth(f) ==
  UNION {IF x.header.channel = "Health" /\ x.header.msgid = MsgId.health
         THEN DecodeHealth(x.payload) ELSE {} : x \in ParsePlain(f)}

ParsePeer(f) ==
  UNION {IF x.header.channel = "Telemetry" /\ x.header.msgid = MsgId.peer
         THEN DecodePeer(x.payload) ELSE {} : x \in ParsePlain(f)}

Mut_ParseCompanionAnyChannel(f) ==
  UNION {CASE x.header.msgid = MsgId.pose  -> DecodePose(x.payload)
           [] x.header.msgid = MsgId.cloud -> DecodeCloud(x.payload)
           [] OTHER -> {} : x \in ParsePlain(f)}

(* companion::parse *)
ParseCompanion(f) ==
  UNION {CASE x.header.channel = "Map" /\ x.header.msgid = MsgId.pose  -> DecodePose(x.payload)
           [] x.header.channel = "Map" /\ x.header.msgid = MsgId.cloud -> DecodeCloud(x.payload)
           [] OTHER -> {} : x \in ParsePlain(f)}

-----------------------------------------------------------------------------
(* What a link may do to one datagram: flip one bit or cut it short.        *)
Damage(f) ==
  {[f EXCEPT !.bytes = k] : k \in {0, HeaderLen, f.bytes - 1}}
  \cup {[f EXCEPT !.magic = FALSE]}
  \cup {[f EXCEPT !.flags = SymDiff(@, {bit})] : bit \in {"encrypted", "reserved"}}
  \cup {[f EXCEPT !.channel = c] : c \in (Channel \cup {"invalid"}) \ {f.channel}}
  \cup {[f EXCEPT !.msgid = i] : i \in {0, 1, 2, 16, 32} \ {f.msgid}}
  \cup {[f EXCEPT !.seq = s] : s \in Seqs \ {f.seq}}
  \cup {[f EXCEPT !.length = n] : n \in {f.length - 1, f.length + 1}}
  \cup {[f EXCEPT !.payload = IF "ct" \in DOMAIN @ THEN [ct |-> <<A!Byte(Garbage)>>]
                              ELSE [@ EXCEPT !.value = Garbage]]}
  \cup {[f EXCEPT !.trailer = NoTrailer]}

=============================================================================
