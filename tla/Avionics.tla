------------------------------ MODULE Avionics ------------------------------
(***************************************************************************)
(* The standard avionics formats: MAVLink v2 frames and messages           *)
(* (tpt-protocols/src/mavlink.rs), the bridge of telemetry onto them        *)
(* (tpt-gcs/src/link.rs), AFDX frames and ARINC 429 words (arinc.rs).       *)
(* Buffers, payloads and checksums as in Frames; a 429 word is the set of   *)
(* its bits that are one.                                                   *)
(***************************************************************************)
EXTENDS Frames

CONSTANT
  AfdxMax   \* AFDX_MAX_PAYLOAD

-----------------------------------------------------------------------------
(* MAVLink: message id, CRC_EXTRA and length of each message; pack() and    *)
(* unpack() go through the fields in the same order.                        *)
Heartbeat         == [id |-> 0,  extra |-> 50,  size |-> 9]
Attitude          == [id |-> 30, extra |-> 39,  size |-> 28]
GlobalPositionInt == [id |-> 33, extra |-> 104, size |-> 28]
MissionItemInt    == [id |-> 73, extra |-> 38,  size |-> 38]
MavMessage == [heartbeat |-> Heartbeat, attitude |-> Attitude,
               position |-> GlobalPositionInt, mission |-> MissionItemInt]
MavHeaderLen == 10
MavMaxPayload == 255

(* serialize of a frame_from_message; CRC_EXTRA is folded into the checksum *)
(* and not sent.                                                            *)
MavSum(f, extra) == [crc |-> <<f.magic, f.length, f.incompat, f.seq, f.msgid, f.payload, extra>>]
MavSerialize(kind, seq, value, room) ==
  LET msg == MavMessage[kind]
      f == [bytes |-> MavHeaderLen + msg.size + CrcLen, magic |-> TRUE, length |-> msg.size,
            incompat |-> {}, seq |-> seq, msgid |-> msg.id,
            payload |-> Payload(kind, msg.size, value), crc |-> NoTrailer]
  IN  IF room < f.bytes THEN {} ELSE {[f EXCEPT !.crc = MavSum(f, msg.extra)]}

(* Frame::parse and Message::unpack for the message the reader expects: the *)
(* frame's id is not compared, only CRC_EXTRA tells messages apart.         *)
MavParse(f, kind) ==
  LET msg == MavMessage[kind]
  IN  IF /\ f.bytes >= MavHeaderLen /\ f.magic
         /\ f.bytes >= MavHeaderLen + f.length + CrcLen
         /\ f.crc = MavSum(f, msg.extra)
      THEN Read([f.payload EXCEPT !.size = f.length], kind, msg.size) ELSE {}

(* serialize_encrypted: the whole header is authenticated, the CRC is over  *)
(* header and ciphertext.                                                   *)
MavAad(f) == <<A!Byte(<<f.magic, f.length, f.incompat, f.seq, f.msgid>>)>>
MavSeal(f, secret, extra, room) ==
  LET head == [f EXCEPT !.incompat = @ \cup {"encrypted"}]
      sealed == A!Encrypt(secret.key, secret.nonce, MavAad(head), <<A!Byte(f.payload)>>)
      g == [head EXCEPT !.payload = [ct |-> sealed.ct], !.bytes = MavHeaderLen + f.length + CrcLen + TagLen]
  IN  IF room < g.bytes THEN {} ELSE {[tag |-> sealed.tag] @@ [g EXCEPT !.crc = MavSum(g, extra)]}

(* parse_encrypted *)
MavOpen(f, secret, kind) ==
  LET msg == MavMessage[kind]
  IN  IF /\ f.bytes >= MavHeaderLen /\ f.magic /\ "encrypted" \in f.incompat
         /\ f.bytes >= MavHeaderLen + f.length + CrcLen + TagLen
         /\ f.crc = MavSum(f, msg.extra)
      THEN UNION {Read([plain[1].v EXCEPT !.size = f.length], kind, msg.size) :
                    plain \in A!Decrypt(secret.key, secret.nonce, MavAad(f), f.payload.ct, f.tag)}
      ELSE {}

(* The flag tells the receiver which of the two to call. *)
MavReceive(f, secret, kind) ==
  IF "encrypted" \in f.incompat
  THEN IF "tag" \in DOMAIN f THEN MavOpen(f, secret, kind) ELSE {} ELSE MavParse(f, kind)

MavDamage(f) ==
  {[f EXCEPT !.bytes = k] : k \in {0, MavHeaderLen, f.bytes - 1}}
  \cup {[f EXCEPT !.magic = FALSE], [f EXCEPT !.msgid = @ + 1],
        [f EXCEPT !.incompat = SymDiff(@, {"encrypted"})], [f EXCEPT !.crc = NoTrailer],
        [f EXCEPT !.payload = IF "ct" \in DOMAIN @ THEN [ct |-> <<A!Byte(Garbage)>>]
                              ELSE [@ EXCEPT !.value = Garbage]]}
  \cup {[f EXCEPT !.length = n] : n \in {f.length - 1, f.length + 1}}

(* The telemetry bridge: metres up, centidegrees, cm/s saturated to 16 bit. *)
Saturate16(x) == Max({-32768, Min({32767, x})})
ToMavPosition(z, yawDeg, v) ==
  [relativeAlt |-> -z * 1000, hdg |-> (yawDeg % 360) * 100, vz |-> Saturate16(-v * 100)]
FromMavPosition(g) == [alt |-> g.relativeAlt \div 1000, yawDeg |-> g.hdg \div 100]

-----------------------------------------------------------------------------
(* AFDX *)
AfdxHeaderLen == 8
AfdxSum(f) == [crc |-> <<f.ether, f.vl, f.seq, f.length, f.payload>>]

(* AfdxFrame::new cuts the payload, serialize() always fits tx. *)
AfdxSend(vl, seq, size, value) ==
  LET n == Min({size, AfdxMax})
      f == [bytes |-> AfdxHeaderLen + n + CrcLen, ether |-> TRUE, vl |-> vl, seq |-> seq,
            length |-> n, payload |-> Payload("afdx", n, value), crc |-> NoTrailer]
  IN  [f EXCEPT !.crc = AfdxSum(f)]

(* AfdxFrame::parse copies `length` bytes into an array of AfdxMax. *)
AfdxParse(f) ==
  IF /\ f.bytes >= AfdxHeaderLen + CrcLen /\ f.ether
     /\ f.bytes >= AfdxHeaderLen + f.length + CrcLen
     /\ f.crc = AfdxSum(f)
  THEN IF f.length > AfdxMax THEN {[panic |-> TRUE]} ELSE {f.payload.value} ELSE {}

AfdxDamage(f) ==
  {[f EXCEPT !.bytes = k] : k \in {0, AfdxHeaderLen, f.bytes - 1}}
  \cup {[f EXCEPT !.ether = FALSE], [f EXCEPT !.vl = @ + 1], [f EXCEPT !.seq = @ + 1],
        [f EXCEPT !.crc = NoTrailer], [f EXCEPT !.payload.value = Garbage]}
  \cup {[f EXCEPT !.length = n] : n \in {f.length - 1, f.length + 1}}

-----------------------------------------------------------------------------
(* ARINC 429: label, SDI, data and SSM at their bits, odd parity on top.    *)
Word(label, sdi, data, ssm) ==
  [label |-> label \cap 0 .. 7, sdi |-> sdi \cap 0 .. 1,
   data |-> data \cap 0 .. 18, ssm |-> ssm \cap 0 .. 1]

At(bits, first) == {b + first : b \in bits}
Field(raw, first, width) == {b - first : b \in raw \cap first .. first + width - 1}

OddParity(bits) == IF Cardinality(bits) % 2 = 0 THEN {31} ELSE {}

Pack429(w) ==
  LET body == w.label \cup At(w.sdi, 8) \cup At(w.data, 10) \cup At(w.ssm, 29)
  IN  body \cup OddParity(body)

Mut_Parse429NoParity(raw) ==
  {[label |-> Field(raw, 0, 8), sdi |-> Field(raw, 8, 2),
    data |-> Field(raw, 10, 19), ssm |-> Field(raw, 29, 2)]}

Parse429(raw) ==
  IF raw \cap {31} # OddParity(raw \ {31}) THEN {}
  ELSE {[label |-> Field(raw, 0, 8), sdi |-> Field(raw, 8, 2),
         data |-> Field(raw, 10, 19), ssm |-> Field(raw, 29, 2)]}

Number(bits) == FoldSet(LAMBDA b, n : n + 2 ^ b, 0, bits)
Bits(n, width) == {b \in 0 .. width - 1 : (n \div 2 ^ b) % 2 = 1}
Abs(n) == IF n < 0 THEN -n ELSE n

(* BNR: sign and an 18-bit magnitude that wraps. *)
EncodeBnr(steps) == Bits(Abs(steps) % 2 ^ 18, 18) \cup IF steps < 0 THEN {18} ELSE {}
DecodeBnr(data) == LET mag == Number(data \ {18}) IN IF 18 \in data THEN -mag ELSE mag
=============================================================================
