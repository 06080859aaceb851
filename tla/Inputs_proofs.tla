---------------------------- MODULE Inputs_proofs ----------------------------
(***************************************************************************)
(* Proofs about what the vehicle hears from outside: the ground station    *)
(* and the navigation sources.                                             *)
(*                                                                         *)
(* GcsLink, for a flight of any length, any set of orders, any number of   *)
(* doubled datagrams and any queue: what the network does is never taken   *)
(* for a sample or an order, and the operator's orders keep their order.   *)
(* The frame lemmas come first, then the two halves of the inductive       *)
(* invariant, OrderInv and WireInv.                                        *)
(*                                                                         *)
(* DissimilarNav, for every set of positions, uncertainties and drifts,    *)
(* and every order of reports.                                             *)
(***************************************************************************)
EXTENDS GcsLink, DissimilarNav, FiniteSetTheorems, SequenceTheorems, TLAPS


(* serialize_plain writes what it was given, under its CRC.                 *)
LEMMA PlainFrame ==
  ASSUME NEW room, NEW channel, NEW msgid, NEW seq, NEW kind, NEW size \in Nat, NEW value,
         NEW f \in SerializePlain(room, channel, msgid, seq, Payload(kind, size, value))
  PROVE  /\ f.channel = channel /\ f.msgid = msgid /\ f.seq = seq
         /\ f.payload = Payload(kind, size, value) /\ f.length = size
         /\ f.trailer = Crc(f)
         /\ DOMAIN f = {"bytes", "magic", "flags", "channel", "msgid", "seq", "length", "payload", "trailer"}
<1> DEFINE p == Payload(kind, size, value)
           g == Frame({}, channel, msgid, seq, p, CrcLen)
           c == Crc(g)
<1>1. f = [g EXCEPT !.trailer = c]
  BY Zenon DEF SerializePlain
<1>2. c = [crc |-> <<g.magic, g.flags, g.channel, g.msgid, g.seq, g.length, g.payload>>]
  BY DEF Crc
<1>3. p.size = size
  BY DEF Payload
<1> HIDE DEF p, c
<1>4. /\ f.channel = channel /\ f.msgid = msgid /\ f.seq = seq
      /\ f.payload = p /\ f.length = size /\ f.trailer = c
      /\ f.magic = g.magic /\ f.flags = g.flags
      /\ g.channel = channel /\ g.msgid = msgid /\ g.seq = seq /\ g.length = size /\ g.payload = p
      /\ DOMAIN f = {"bytes", "magic", "flags", "channel", "msgid", "seq", "length", "payload", "trailer"}
  BY <1>1, <1>3 DEF Frame
<1> HIDE DEF g
<1>5. f.trailer = Crc(f)
  BY <1>2, <1>4 DEF Crc
<1> QED
  BY <1>4, <1>5 DEF p

(* A frame whose payload was damaged no longer has its CRC. *)
LEMMA DamagedFrame ==
  ASSUME NEW room, NEW channel, NEW msgid, NEW seq, NEW kind, NEW size \in Nat, NEW value,
         NEW f \in SerializePlain(room, channel, msgid, seq, Payload(kind, size, value)),
         value # Garbage
  PROVE  ParsePlain([f EXCEPT !.payload.value = Garbage]) = {}
<1> DEFINE h == [f EXCEPT !.payload.value = Garbage]
<1>1. /\ f.payload = Payload(kind, size, value) /\ f.trailer = Crc(f)
      /\ DOMAIN f = {"bytes", "magic", "flags", "channel", "msgid", "seq", "length", "payload", "trailer"}
  BY PlainFrame
<1>2. h.trailer = f.trailer /\ h.payload = [f.payload EXCEPT !.value = Garbage]
  BY <1>1
<1>3. h.payload.value = Garbage /\ f.payload.value = value
  BY <1>1, <1>2 DEF Payload
<1>4. h.payload # f.payload
  BY <1>3
<1> HIDE DEF h
<1>5. h.trailer # Crc(h)
  BY <1>1, <1>2, <1>4 DEF Crc
<1> QED
  BY <1>5 DEF h, ParsePlain

(* parse_plain returns the header and payload that were written.            *)
LEMMA ReadBack ==
  ASSUME NEW room, NEW channel, NEW msgid, NEW seq, NEW kind, NEW size \in Nat, NEW value,
         NEW f \in SerializePlain(room, channel, msgid, seq, Payload(kind, size, value)),
         NEW x \in ParsePlain(f)
  PROVE  x.header.msgid = msgid /\ x.header.channel = channel /\ x.payload = Payload(kind, size, value)
<1>1. /\ f.channel = channel /\ f.msgid = msgid
      /\ f.payload = Payload(kind, size, value) /\ f.length = size
  BY PlainFrame
<1>2. x = [header |-> [channel |-> f.channel, msgid |-> f.msgid, seq |-> f.seq],
           payload |-> [f.payload EXCEPT !.size = f.length]]
  BY DEF ParsePlain
<1>3. [f.payload EXCEPT !.size = f.length] = Payload(kind, size, value)
  BY <1>1 DEF Payload
<1> QED
  BY <1>1, <1>2, <1>3

(* A byte that stands for a mode names that mode. *)
LEMMA ByteNamesMode ==
  ASSUME NEW order, NEW mode \in Range(order), DOMAIN order \in SUBSET Int
  PROVE  ByteOf(order, mode) + 1 \in DOMAIN order /\ order[ByteOf(order, mode) + 1] = mode
<1> DEFINE i == CHOOSE k \in DOMAIN order : order[k] = mode
<1>1. \E k \in DOMAIN order : order[k] = mode
  BY DEF Range
<1>2. i \in DOMAIN order /\ order[i] = mode
  BY <1>1
<1>3. ByteOf(order, mode) = i - 1
  BY DEF ByteOf
<1> HIDE DEF i
<1>4. (i - 1) + 1 = i
  BY <1>2
<1> QED
  BY <1>2, <1>3, <1>4

(* The byte tables name every flight mode, and are indexed by numbers.      *)
LEMMA ModeBytes ==
  /\ Range(FlightBytes) = FlightMode
  /\ DOMAIN FlightBytes \in SUBSET Int /\ DOMAIN FusionBytes \in SUBSET Int
<1>1. DOMAIN FlightBytes = 1 .. 7 /\ DOMAIN FusionBytes = 1 .. 4
  BY DEF FlightBytes, FusionBytes
<1>2. Range(FlightBytes) = {FlightBytes[1], FlightBytes[2], FlightBytes[3], FlightBytes[4],
                            FlightBytes[5], FlightBytes[6], FlightBytes[7]}
  BY <1>1 DEF Range
<1>3. Range(FlightBytes) = FlightMode
  BY <1>2 DEF FlightBytes, FlightMode
<1> QED
  BY <1>1, <1>3

-----------------------------------------------------------------------------
(* A telemetry frame is read as the sample it was written from, or as       *)
(* nothing (a mode byte no reader knows).                                   *)
LEMMA TelemetryReadBack ==
  ASSUME NEW t \in Telemetry, NEW seq, NEW room, NEW f \in SerializeTelemetry(t, seq, room)
  PROVE  ParseTelemetry(f) \subseteq {t}
<1> DEFINE v == [modeByte |-> ByteOf(FlightBytes, t.mode), navByte |-> ByteOf(FusionBytes, t.nav)]
<1>1. f \in SerializePlain(room, "Telemetry", MsgId.telemetry, seq, Payload("telemetry", TelemetryLen, v))
  BY DEF SerializeTelemetry, EncodeTelemetry
<1> HIDE DEF v
<1> SUFFICES ASSUME NEW y \in ParseTelemetry(f) PROVE y = t
  OBVIOUS
<1>2. PICK x \in ParsePlain(f) : y \in DecodeTelemetry(x.payload)
  BY DEF ParseTelemetry
<1>3. TelemetryLen \in Nat
  BY DEF TelemetryLen
<1>4. x.payload = Payload("telemetry", TelemetryLen, v)
  BY <1>1, <1>3, ReadBack
<1>5. Read(x.payload, "telemetry", TelemetryLen) = {v}
  BY <1>3, <1>4 DEF Read, Payload
<1>6. v # Garbage
  BY DEF v, Garbage
<1>7. PICK m \in FlightModeOf(v.modeByte), n \in FusionModeOf(v.navByte) : y = [mode |-> m, nav |-> n]
  BY <1>2, <1>5, <1>6 DEF DecodeTelemetry
<1>8. t.mode \in Range(FlightBytes) /\ t.nav \in Range(FusionBytes) /\ t = [mode |-> t.mode, nav |-> t.nav]
  BY ModeBytes DEF Telemetry
<1>9. m = t.mode
  BY <1>7, <1>8, ByteNamesMode, ModeBytes DEF FlightModeOf, v
<1>10. n = t.nav
  BY <1>7, <1>8, ByteNamesMode, ModeBytes DEF FusionModeOf, v
<1> QED
  BY <1>7, <1>8, <1>9, <1>10

(* Every command has a length.                                              *)
LEMMA CommandSize ==
  ASSUME NEW c \in Command
  PROVE  CommandLen(c) \in Nat \ {0}
BY DEF CommandLen

(* A command frame is read as the order it was written from, or as nothing. *)
LEMMA CommandReadBack ==
  ASSUME NEW c \in Command, NEW seq, NEW room, NEW f \in SerializeCommand(c, seq, room)
  PROVE  ParseCommand(f) \subseteq {c}
<1> DEFINE v == IF c.op = "SetMode" THEN [op |-> c.op, modeByte |-> ByteOf(FlightBytes, c.arg)] ELSE c
<1>1. f \in SerializePlain(room, "Command", MsgId.command, seq, Payload("command", CommandLen(c), v))
  BY DEF SerializeCommand, Pack
<1>2. c = [op |-> c.op, arg |-> c.arg]
  BY DEF Command
<1>3. v.op = c.op /\ v # Garbage
  <2>1. CASE c.op = "SetMode"
    BY <2>1 DEF Garbage
  <2>2. CASE c.op # "SetMode"
    <3>1. v = c
      BY <2>2
    <3>2. DOMAIN c = {"op", "arg"} /\ DOMAIN Garbage = {"garbage"}
      BY <1>2 DEF Garbage
    <3> HIDE DEF v
    <3>3. "op" \in DOMAIN c /\ "op" \notin DOMAIN Garbage
      BY <3>2
    <3> QED
      BY <3>1, <3>3
  <2> QED
    BY <2>1, <2>2
<1> SUFFICES ASSUME NEW y \in ParseCommand(f) PROVE y = c
  OBVIOUS
<1>4. PICK x \in ParsePlain(f) : y \in Unpack(x.payload)
  BY DEF ParseCommand
<1> HIDE DEF v
<1>5. x.payload = Payload("command", CommandLen(c), v)
  BY <1>1, CommandSize, ReadBack
<1>6. x.payload.kind = "command" /\ x.payload.value = v /\ x.payload.size = CommandLen(c)
  BY <1>5 DEF Payload
<1>7. y \in (IF v.op = "SetMode" THEN {[op |-> "SetMode", arg |-> m] : m \in FlightModeOf(v.modeByte)} ELSE {v})
  BY <1>3, <1>4, <1>6 DEF Unpack
<1>8. CASE c.op = "SetMode"
  <2>1. v.modeByte = ByteOf(FlightBytes, c.arg) /\ c.arg \in Range(FlightBytes)
    BY <1>8, ModeBytes DEF v, Command
  <2>2. PICK m \in FlightModeOf(v.modeByte) : y = [op |-> "SetMode", arg |-> m]
    BY <1>3, <1>7, <1>8
  <2>3. m = c.arg
    BY <2>1, <2>2, ByteNamesMode, ModeBytes DEF FlightModeOf
  <2> QED
    BY <1>2, <1>8, <2>2, <2>3
<1>9. CASE c.op # "SetMode"
  BY <1>3, <1>7, <1>9 DEF v
<1> QED
  BY <1>8, <1>9

(* A health report is neither telemetry nor a command.                      *)
LEMMA OtherTraffic ==
  ASSUME NEW seq, NEW room, NEW g \in SerializeHealth(<<>>, seq, room)
  PROVE  ParseTelemetry(g) = {} /\ ParseCommand(g) = {}
<1> DEFINE v == [motors |-> SubSeq(<<>>, 1, Min({Len(<<>>), MaxHealthMotors}))]
<1>1. g \in SerializePlain(room, "Health", MsgId.health, seq, Payload("health", HealthReportLen, v))
  BY DEF SerializeHealth, EncodeHealth
<1> HIDE DEF v
<1>2. HealthReportLen \in Nat
  BY DEF HealthReportLen, MaxHealthMotors
<1>3. \A x \in ParsePlain(g) : x.header.msgid = MsgId.health
  BY <1>1, <1>2, ReadBack
<1>4. MsgId.health # MsgId.telemetry /\ MsgId.health # MsgId.command
  BY DEF MsgId
<1> QED
  BY <1>3, <1>4 DEF ParseTelemetry, ParseCommand

(* What arrives in place of a telemetry frame is read as the sample, or as  *)
(* nothing: a damaged one fails its CRC.                                    *)
LEMMA TelemetryArrival ==
  ASSUME NEW t \in Telemetry, NEW seq, NEW room, NEW f \in SerializeTelemetry(t, seq, room),
         NEW g \in Arrivals(f)
  PROVE  ParseTelemetry(g) \subseteq {t}
<1> DEFINE v == [modeByte |-> ByteOf(FlightBytes, t.mode), navByte |-> ByteOf(FusionBytes, t.nav)]
           h == [f EXCEPT !.payload.value = Garbage]
<1>1. CASE g = f
  BY <1>1, TelemetryReadBack
<1>2. CASE g = h
  <2>1. f \in SerializePlain(room, "Telemetry", MsgId.telemetry, seq, Payload("telemetry", TelemetryLen, v))
    BY DEF SerializeTelemetry, EncodeTelemetry
  <2>2. v # Garbage
    BY DEF Garbage
  <2> HIDE DEF v
  <2>3. TelemetryLen \in Nat
    BY DEF TelemetryLen
  <2>4. ParsePlain(h) = {}
    BY <2>1, <2>2, <2>3, DamagedFrame
  <2> HIDE DEF h
  <2> QED
    BY <1>2, <2>4 DEF ParseTelemetry
<1>3. CASE g \in SerializeHealth(<<>>, f.seq, RecvBuf)
  BY <1>3, OtherTraffic
<1> QED
  BY <1>1, <1>2, <1>3 DEF Arrivals

(* What arrives in place of a command frame is read as the order, or as     *)
(* nothing.                                                                 *)
LEMMA CommandArrival ==
  ASSUME NEW c \in Command, NEW seq, NEW room, NEW f \in SerializeCommand(c, seq, room),
         NEW g \in Arrivals(f)
  PROVE  ParseCommand(g) \subseteq {c}
<1> DEFINE v == IF c.op = "SetMode" THEN [op |-> c.op, modeByte |-> ByteOf(FlightBytes, c.arg)] ELSE c
           h == [f EXCEPT !.payload.value = Garbage]
<1>1. CASE g = f
  BY <1>1, CommandReadBack
<1>2. CASE g = h
  <2>1. f \in SerializePlain(room, "Command", MsgId.command, seq, Payload("command", CommandLen(c), v))
    BY DEF SerializeCommand, Pack
  <2>2. v # Garbage
    <3>1. "op" \in DOMAIN c
      BY DEF Command
    <3>2. "op" \in DOMAIN v
      BY <3>1
    <3>3. "op" \notin DOMAIN Garbage
      BY DEF Garbage
    <3> HIDE DEF v
    <3> QED
      BY <3>2, <3>3
  <2> HIDE DEF v
  <2>3. ParsePlain(h) = {}
    BY <2>1, <2>2, CommandSize, DamagedFrame
  <2> HIDE DEF h
  <2> QED
    BY <1>2, <2>3 DEF ParseCommand
<1>3. CASE g \in SerializeHealth(<<>>, f.seq, RecvBuf)
  BY <1>3, OtherTraffic
<1> QED
  BY <1>1, <1>2, <1>3 DEF Arrivals

(* The browser's round trip: what FromJson finds is what ToJson was given,  *)
(* or nothing.                                                              *)
LEMMA BrowserReadBack ==
  ASSUME NEW t, NEW nav
  PROVE  FromJson(ToJson(t, nav)) \subseteq {[mode |-> t.mode, nav |-> nav]}
<1> DEFINE json == ToJson(t, nav)
<1>1. json = [mode |-> [text |-> t.mode], nav |-> [text |-> nav]]
  BY DEF ToJson, FlightModeStr, FusionModeStr
<1>2. FieldOf(json, "mode") = {[text |-> t.mode]} /\ FieldOf(json, "nav") = {[text |-> nav]}
  BY <1>1 DEF FieldOf
<1> SUFFICES ASSUME NEW y \in FromJson(json) PROVE y = [mode |-> t.mode, nav |-> nav]
  OBVIOUS
<1> HIDE DEF json
<1>3. PICK m \in UNION {FlightModeFromStr(s) : s \in FieldOf(json, "mode")},
           n \in UNION {FusionModeFromStr(s) : s \in FieldOf(json, "nav")} : y = [mode |-> m, nav |-> n]
  BY DEF FromJson
<1>4. m = t.mode /\ n = nav
  BY <1>2, <1>3 DEF FlightModeFromStr, FusionModeFromStr
<1> QED
  BY <1>3, <1>4

-----------------------------------------------------------------------------
(* What has been sampled, sent and ordered so far, and what may arrive.     *)
Samples(n) == {Flight[i] : i \in 1 .. n}
Sent(n) == UNION {SerializeTelemetry(Flight[i], s, RecvBuf) : i \in 1 .. n, s \in Nat}
Paired(w, n) == w.nav \in Snapshots /\ \E t \in Samples(n) \cup Default : w.mode = t.mode
Arrived(n) == UNION {Arrivals(f) : f \in Sent(n)}
Ordered(h) == UNION {SerializeCommand(c, s, SendBuf) : c \in SeqRange(h), s \in Nat}

(* p says where in g each member of h stands: in order, and none after n.   *)
OrderMap(p, h, g, n) ==
  /\ p \in [1 .. Len(h) -> 1 .. n]
  /\ \A i, j \in 1 .. Len(h) : i < j => p[i] < p[j]
  /\ \A i \in 1 .. Len(h) : h[i] = g[p[i]]
Placed(h, g, n) == \E p : OrderMap(p, h, g, n)

(* The orders handed on are orders given, in the order they were given; one *)
(* that is pending comes after them and is the last.  The console ends with *)
(* an order whose sending failed.                                           *)
OrderInv ==
  /\ given \in Seq(Orders) /\ handed \in Seq(Orders)
  /\ frontend \in {"console", "window"}
  /\ frontend = "console" =>
       /\ pending = {}
       /\ phase = "failed" => given # <<>> /\ given = Append(handed, Last(given))
       /\ phase # "failed" => handed = given
  /\ pending # {} => given # <<>> /\ pending = {Last(given)}
  /\ pending = {} /\ given # <<>> /\ phase # "failed" => handed # <<>> /\ Last(handed) = Last(given)
  /\ Placed(handed, given, IF pending = {} THEN Len(given) ELSE Len(given) - 1)

(* Everything in flight, queued, shown or obeyed was sampled or ordered.    *)
WireInv ==
  /\ sampled \in 0 .. Len(Flight) /\ cmdSeq \in Nat
  /\ down \subseteq Sent(sampled) /\ inbox \in Seq(Arrived(sampled))
  /\ last \subseteq (IF live THEN Samples(sampled) ELSE Default)
  /\ \A w \in web : Paired(w, sampled)
  /\ up \subseteq Ordered(handed) /\ obeyed \subseteq SeqRange(handed)

-----------------------------------------------------------------------------
(* Orders given later leave the places as they are.                         *)
LEMMA PlacedStill ==
  ASSUME NEW S, NEW h \in Seq(S), NEW g, NEW g2, NEW n \in Int, NEW m \in Int, n <= m,
         Placed(h, g, n), \A k \in 1 .. n : g2[k] = g[k]
  PROVE  Placed(h, g2, m)
<1>1. PICK p : OrderMap(p, h, g, n)
  BY DEF Placed
<1>2. p \in [1 .. Len(h) -> 1 .. n]
  BY <1>1 DEF OrderMap
<1>3. \A i \in 1 .. Len(h) : p[i] \in 1 .. n /\ p[i] \in 1 .. m
  BY <1>2
<1>4. p \in [1 .. Len(h) -> 1 .. m]
  BY <1>2, <1>3
<1>5. OrderMap(p, h, g2, m)
  BY <1>1, <1>3, <1>4 DEF OrderMap
<1> QED
  BY <1>5 DEF Placed

(* One more order, which was given at k, after all the others.              *)
LEMMA PlacedNext ==
  ASSUME NEW S, NEW h \in Seq(S), NEW g, NEW n \in Int, NEW k \in Nat, n < k, k > 0,
         Placed(h, g, n)
  PROVE  Placed(Append(h, g[k]), g, k)
<1> DEFINE m == Len(h)
           hh == Append(h, g[k])
<1>1. m \in Nat /\ Len(hh) = m + 1 /\ hh[m + 1] = g[k] /\ \A i \in 1 .. m : hh[i] = h[i]
  OBVIOUS
<1>2. PICK p : OrderMap(p, h, g, n)
  BY DEF Placed
<1>3. /\ p \in [1 .. m -> 1 .. n]
      /\ \A i, j \in 1 .. m : i < j => p[i] < p[j]
      /\ \A i \in 1 .. m : h[i] = g[p[i]]
  BY <1>2 DEF OrderMap
<1> DEFINE q == [i \in 1 .. (m + 1) |-> IF i = m + 1 THEN k ELSE p[i]]
<1> HIDE DEF m, hh
<1>4. \A i \in 1 .. (m + 1) : i = m + 1 \/ i \in 1 .. m
  BY <1>1
<1>5. \A i \in 1 .. m : p[i] \in 1 .. n /\ i # m + 1
  BY <1>1, <1>3
<1>6. q[m + 1] = k /\ \A i \in 1 .. m : q[i] = p[i]
  BY <1>1, <1>5
<1>7. q \in [1 .. (m + 1) -> 1 .. k]
  BY <1>1, <1>4, <1>5
<1> HIDE DEF q
<1>8. ASSUME NEW i \in 1 .. (m + 1), NEW j \in 1 .. (m + 1), i < j PROVE q[i] < q[j]
  <2>1. i \in 1 .. m
    BY <1>1, <1>8
  <2>2. CASE j = m + 1
    BY <1>1, <1>5, <1>6, <2>1, <2>2
  <2>3. CASE j \in 1 .. m
    BY <1>3, <1>6, <1>8, <2>1, <2>3
  <2> QED
    BY <1>4, <2>2, <2>3
<1>9. ASSUME NEW i \in 1 .. (m + 1) PROVE hh[i] = g[q[i]]
  <2>1. CASE i = m + 1
    BY <1>1, <1>6, <2>1
  <2>2. CASE i \in 1 .. m
    BY <1>1, <1>3, <1>6, <2>2
  <2> QED
    BY <1>4, <2>1, <2>2
<1>10. OrderMap(q, hh, g, k)
  BY <1>1, <1>7, <1>8, <1>9 DEF OrderMap
<1> QED
  BY <1>10 DEF Placed, hh

(* At first nothing is given, pending or handed on.                         *)
LEMMA OrderInit == LinkInit => OrderInv
<1> SUFFICES ASSUME LinkInit PROVE OrderInv
  OBVIOUS
<1>1. given = <<>> /\ handed = <<>> /\ pending = {} /\ frontend \in {"console", "window"} /\ phase = "poll"
  BY DEF LinkInit
<1>2. Placed(handed, given, Len(given))
  <2> DEFINE p == [i \in 1 .. 0 |-> 1]
  <2>1. OrderMap(p, handed, given, Len(given))
    BY <1>1 DEF OrderMap
  <2> QED
    BY <2>1 DEF Placed
<1> QED
  BY <1>1, <1>2 DEF OrderInv

(* Only a typed line, a press and the host loop touch the orders.           *)
LEMMA OrderNext == OrderInv /\ [LinkNext]_linkVars => OrderInv'
<1> SUFFICES ASSUME OrderInv, [LinkNext]_linkVars PROVE OrderInv'
  OBVIOUS
<1>0. /\ given \in Seq(Orders) /\ handed \in Seq(Orders) /\ Len(given) \in Nat
      /\ Placed(handed, given, IF pending = {} THEN Len(given) ELSE Len(given) - 1)
  BY DEF OrderInv
<1>1. ASSUME UNCHANGED <<given, handed, pending, frontend>>, phase' = phase \/ (phase # "failed" /\ phase' # "failed")
      PROVE  OrderInv'
  BY <1>1 DEF OrderInv
<1>2. CASE Sample \/ Arrive \/ Obey \/ Poll \/ TypeOther \/ Quit \/ Browse \/ UNCHANGED linkVars
  <2>1. UNCHANGED <<given, handed, pending, frontend>>
    BY <1>2 DEF Sample, Arrive, Obey, Poll, TypeOther, Quit, Browse, linkVars, operator, vehicle
  <2>2. phase' = phase \/ (phase # "failed" /\ phase' # "failed")
    <3>1. CASE Poll
      BY <3>1 DEF Poll, OrderInv
    <3>2. CASE Sample \/ Arrive \/ Obey \/ TypeOther \/ Quit \/ Browse \/ UNCHANGED linkVars
      BY <3>2 DEF Sample, Arrive, Obey, TypeOther, Quit, Browse, linkVars, operator, vehicle
    <3> QED
      BY <1>2, <3>1, <3>2
  <2> QED
    BY <1>1, <2>1, <2>2
<1>3. ASSUME NEW c \in Orders, TypeCommand(c) PROVE OrderInv'
  <2>1. /\ frontend = "console" /\ given' = Append(given, c) /\ handed' = Append(handed, c)
        /\ pending' = pending /\ frontend' = frontend /\ phase = "prompt" /\ phase' = "poll"
    BY <1>3 DEF TypeCommand, Send
  <2>2. /\ handed = given /\ pending = {} /\ given' \in Seq(Orders) /\ given' # <<>>
        /\ Len(given') = Len(given) + 1 /\ c = given'[Len(given')]
        /\ \A k \in 1 .. Len(given) : given'[k] = given[k]
    BY <1>0, <2>1 DEF OrderInv
  <2>3. Placed(handed, given', Len(given))
    BY <1>0, <2>2, PlacedStill
  <2>4. Placed(Append(handed, given'[Len(given')]), given', Len(given'))
    <3>1. Len(given) \in Int /\ Len(given') \in Nat /\ Len(given) < Len(given') /\ Len(given') > 0
      BY <1>0, <2>2
    <3> QED
      BY <1>0, <2>3, <3>1, PlacedNext
  <2>5. handed' = given' /\ handed' \in Seq(Orders)
    BY <2>1, <2>2
  <2> QED
    BY <2>1, <2>2, <2>4, <2>5 DEF OrderInv
<1>4. ASSUME NEW c \in Orders, Press(c) PROVE OrderInv'
  <2>1. /\ frontend = "window" /\ pending' = {c} /\ given' = Append(given, c)
        /\ handed' = handed /\ frontend' = frontend /\ phase' = phase
    BY <1>4 DEF Press, Pressed
  <2>2. /\ given' \in Seq(Orders) /\ given' # <<>> /\ Len(given') - 1 = Len(given)
        /\ c = Last(given')
        /\ \A k \in 1 .. Len(given) : given'[k] = given[k]
    BY <1>0, <2>1 DEF Last
  <2>3. Placed(handed, given', Len(given))
    <3>1. PICK n \in Int : n <= Len(given) /\ Placed(handed, given, n)
      BY <1>0
    <3>2. \A k \in 1 .. n : given'[k] = given[k]
      BY <1>0, <2>2, <3>1
    <3>3. Len(given) \in Int
      BY <1>0
    <3> QED
      BY <1>0, <3>1, <3>2, <3>3, PlacedStill
  <2>4. pending' # {}
    BY <2>1
  <2> QED
    BY <1>0, <2>1, <2>2, <2>3, <2>4 DEF OrderInv
<1>5. CASE TakePending
  <2>1. PICK c \in pending : handed' = Append(handed, c)
    BY <1>5 DEF TakePending, Send
  <2>2. pending' = {} /\ given' = given /\ frontend' = frontend /\ phase' = phase
    BY <1>5 DEF TakePending
  <2>3. given # <<>> /\ c = Last(given) /\ frontend = "window"
    BY <2>1 DEF OrderInv
  <2>4. c = given[Len(given)] /\ c \in Orders /\ Len(given) - 1 \in Nat /\ Len(given) > 0
    BY <1>0, <2>3 DEF Last
  <2>5. Placed(handed, given, Len(given) - 1)
    BY <1>0, <2>1
  <2>6. Placed(handed', given, Len(given))
    BY <1>0, <2>1, <2>4, <2>5, PlacedNext
  <2>7. handed' \in Seq(Orders) /\ handed' # <<>> /\ Last(handed') = c
    BY <1>0, <2>1, <2>4 DEF Last
  <2> QED
    BY <1>0, <2>2, <2>3, <2>6, <2>7 DEF OrderInv
<1>6. ASSUME NEW c \in Orders, SendFails(c) PROVE OrderInv'
  <2>1. /\ frontend = "console" /\ phase = "prompt" /\ phase' = "failed"
        /\ given' = Append(given, c) /\ UNCHANGED <<handed, pending, frontend>>
    BY <1>6 DEF SendFails
  <2>2. handed = given /\ pending = {}
    BY <2>1 DEF OrderInv
  <2>3. /\ given' \in Seq(Orders) /\ given' # <<>> /\ c = Last(given')
        /\ Len(given') = Len(given) + 1 /\ Len(given') \in Int /\ Len(given) \in Int
        /\ \A k \in 1 .. Len(given) : given'[k] = given[k]
    BY <1>0, <2>1 DEF Last
  <2>4. Placed(handed, given, Len(given))
    BY <1>0, <2>2
  <2>5. Placed(handed, given', Len(given'))
    BY <1>0, <2>3, <2>4, PlacedStill
  <2>6. given' = Append(handed, Last(given'))
    BY <2>1, <2>2, <2>3
  <2> QED
    BY <1>0, <2>1, <2>2, <2>3, <2>5, <2>6 DEF OrderInv
<1> QED
  BY <1>2, <1>3, <1>4, <1>5, <1>6 DEF LinkNext, EnterLine

-----------------------------------------------------------------------------
(* Whatever may arrive by now is read as a sample taken by now.             *)
LEMMA ArrivedIsRead ==
  ASSUME NEW n \in 0 .. Len(Flight), NEW g \in Arrived(n)
  PROVE  ParseTelemetry(g) \subseteq Samples(n)
<1>1. PICK f \in Sent(n) : g \in Arrivals(f)
  BY DEF Arrived
<1>2. PICK i \in 1 .. n, s \in Nat : f \in SerializeTelemetry(Flight[i], s, RecvBuf)
  BY DEF Sent
<1>3. Flight[i] \in Telemetry
  BY LinkAssumption
<1>4. ParseTelemetry(g) \subseteq {Flight[i]}
  BY <1>1, <1>2, <1>3, TelemetryArrival
<1> QED
  BY <1>4 DEF Samples

(* At first nothing is in flight.                                           *)
LEMMA WireInit == LinkInit => WireInv
<1> SUFFICES ASSUME LinkInit PROVE WireInv
  OBVIOUS
<1>1. Len(Flight) \in Nat
  BY LinkAssumption
<1> QED
  BY <1>1 DEF LinkInit, WireInv, Default

(* Every step keeps what is in flight to what was sampled or ordered.       *)
LEMMA WireNext == OrderInv /\ WireInv /\ [LinkNext]_linkVars => WireInv'
<1> SUFFICES ASSUME OrderInv, WireInv, [LinkNext]_linkVars PROVE WireInv'
  OBVIOUS
<1>0. /\ sampled \in 0 .. Len(Flight) /\ sampled \in Nat /\ cmdSeq \in Nat /\ Len(Flight) \in Nat
      /\ down \subseteq Sent(sampled) /\ inbox \in Seq(Arrived(sampled))
      /\ last \subseteq (IF live THEN Samples(sampled) ELSE Default)
      /\ \A w \in web : Paired(w, sampled)
      /\ up \subseteq Ordered(handed) /\ obeyed \subseteq SeqRange(handed)
  BY LinkAssumption DEF WireInv
<1>a. ASSUME UNCHANGED <<sampled, last, web, live, frontend>>
      PROVE  /\ last' \subseteq (IF live' THEN Samples(sampled') ELSE Default')
             /\ \A w \in web' : Paired(w, sampled)'
  BY <1>0, <1>a DEF Paired, Samples, Default
<1>1. CASE Sample
  <2>1. /\ sampled < Len(Flight) /\ sampled' = sampled + 1
        /\ down' = down \cup SerializeTelemetry(Flight[sampled + 1], sampled % SeqCount, RecvBuf)
        /\ UNCHANGED <<up, inbox, last, web, live, frontend, cmdSeq, handed, obeyed>>
    BY <1>1 DEF Sample, operator
  <2>2. sampled % SeqCount \in Nat
    BY <1>0 DEF SeqCount
  <2>3. sampled' \in 0 .. Len(Flight) /\ \A i \in 1 .. sampled : i \in 1 .. sampled'
    BY <1>0, <2>1
  <2>4. Sent(sampled) \subseteq Sent(sampled') /\ Samples(sampled) \subseteq Samples(sampled')
    BY <2>3 DEF Sent, Samples
  <2>5. SerializeTelemetry(Flight[sampled + 1], sampled % SeqCount, RecvBuf) \subseteq Sent(sampled')
    <3>1. sampled + 1 \in 1 .. sampled'
      BY <1>0, <2>1
    <3> QED
      BY <2>2, <3>1 DEF Sent
  <2>6. Arrived(sampled) \subseteq Arrived(sampled')
    BY <2>4 DEF Arrived
  <2>7. inbox' \in Seq(Arrived(sampled'))
    BY <1>0, <2>1, <2>6
  <2>8. Default' = Default
    BY <2>1 DEF Default
  <2>9. last' \subseteq (IF live' THEN Samples(sampled') ELSE Default')
    BY <1>0, <2>1, <2>4, <2>8
  <2>10. \A w \in web' : w.nav \in Snapshots /\ \E t \in Samples(sampled') \cup Default' : w.mode = t.mode
    BY <1>0, <2>1, <2>4, <2>8 DEF Paired
  <2>11. \A w \in web' : Paired(w, sampled)'
    BY <2>10 DEF Paired, Samples
  <2> QED
    BY <1>0, <2>1, <2>3, <2>4, <2>5, <2>7, <2>9, <2>11 DEF WireInv, Samples
<1>2. CASE Arrive
  <2>1. PICK f \in down : \E g \in Arrivals(f), rest \in Leaves(down, f) :
          /\ down' = rest.net
          /\ inbox' = Append(inbox, g) \/ inbox' = inbox
    BY <1>2 DEF Arrive
  <2>2. PICK g \in Arrivals(f), rest \in Leaves(down, f) :
          /\ down' = rest.net
          /\ inbox' = Append(inbox, g) \/ inbox' = inbox
    BY <2>1
  <2>3. UNCHANGED <<sampled, up, last, web, live, frontend, cmdSeq, handed, obeyed>>
    BY <1>2 DEF Arrive, operator, vehicle
  <2>4. rest.net \subseteq down
    BY <2>2 DEF Leaves
  <2>5. g \in Arrived(sampled)
    BY <1>0, <2>1, <2>2 DEF Arrived
  <2>6. inbox' \in Seq(Arrived(sampled))
    BY <1>0, <2>2, <2>5
  <2> QED
    BY <1>0, <1>a, <2>2, <2>3, <2>4, <2>6 DEF WireInv, Samples
<1>3. CASE Obey
  <2>1. PICK f \in up : \E g \in Arrivals(f), rest \in Leaves(up, f) :
          up' = rest.net /\ obeyed' = obeyed \cup ParseCommand(g)
    BY <1>3 DEF Obey
  <2>2. PICK g \in Arrivals(f), rest \in Leaves(up, f) :
          up' = rest.net /\ obeyed' = obeyed \cup ParseCommand(g)
    BY <2>1
  <2>3. UNCHANGED <<sampled, down, inbox, last, web, live, frontend, cmdSeq, handed>>
    BY <1>3 DEF Obey, operator
  <2>4. rest.net \subseteq up
    BY <2>2 DEF Leaves
  <2>5. PICK c \in SeqRange(handed), s \in Nat : f \in SerializeCommand(c, s, SendBuf)
    BY <1>0, <2>1 DEF Ordered
  <2>6. c \in Command
    <3>1. c \in Orders
      BY <2>5 DEF OrderInv, SeqRange
    <3> QED
      BY <3>1, LinkAssumption
  <2>7. ParseCommand(g) \subseteq {c}
    BY <2>2, <2>5, <2>6, CommandArrival
  <2>8. obeyed' \subseteq SeqRange(handed)
    BY <1>0, <2>2, <2>5, <2>7
  <2> QED
    BY <1>0, <1>a, <2>2, <2>3, <2>4, <2>8 DEF WireInv, Samples
<1>4. CASE Poll
  <2>1. /\ last' = Received(inbox, last) /\ inbox' = (IF inbox = <<>> THEN <<>> ELSE Tail(inbox))
        /\ live' = (live \/ (inbox # <<>> /\ ParseTelemetry(Head(inbox)) # {}))
        /\ UNCHANGED <<sampled, down, up, web, frontend, cmdSeq, handed, obeyed>>
    BY <1>4 DEF Poll, vehicle
  <2>2. inbox' \in Seq(Arrived(sampled))
    BY <1>0, <2>1
  <2>3. last' \subseteq (IF live' THEN Samples(sampled) ELSE Default)
    <3>1. CASE inbox = <<>> \/ ParseTelemetry(Head(inbox)) = {}
      BY <1>0, <2>1, <3>1 DEF Received
    <3>2. CASE ~(inbox = <<>> \/ ParseTelemetry(Head(inbox)) = {})
      <4>1. Head(inbox) \in Arrived(sampled)
        BY <1>0, <3>2
      <4>2. ParseTelemetry(Head(inbox)) \subseteq Samples(sampled)
        BY <1>0, <4>1, ArrivedIsRead
      <4>3. live' = TRUE /\ last' = ParseTelemetry(Head(inbox))
        BY <2>1, <3>2 DEF Received
      <4> QED
        BY <4>2, <4>3
    <3> QED
      BY <3>1, <3>2
  <2>4. Default' = Default /\ \A w \in web' : Paired(w, sampled)'
    BY <1>0, <2>1 DEF Paired, Samples, Default
  <2>5. last' \subseteq (IF live' THEN Samples(sampled') ELSE Default')
    BY <2>1, <2>3, <2>4
  <2> QED
    BY <1>0, <2>1, <2>2, <2>4, <2>5 DEF WireInv, Samples
<1>5. ASSUME NEW c \in Orders, Send(c), UNCHANGED <<sampled, down, inbox, last, web, live, frontend, obeyed>>
      PROVE  WireInv'
  <2>1. /\ cmdSeq' = (cmdSeq + 1) % SeqCount /\ handed' = Append(handed, c)
        /\ up' = up \cup SerializeCommand(c, cmdSeq, SendBuf)
    BY <1>5 DEF Send
  <2>2. cmdSeq' \in Nat
    BY <1>0, <2>1 DEF SeqCount
  <2>3. SeqRange(handed) \subseteq SeqRange(handed') /\ c \in SeqRange(handed')
    <3>1. /\ handed \in Seq(Orders) /\ Len(handed) \in Nat /\ Len(handed') = Len(handed) + 1
          /\ handed'[Len(handed) + 1] = c
          /\ \A i \in 1 .. Len(handed) : handed'[i] = handed[i]
      BY <2>1 DEF OrderInv
    <3>2. DOMAIN handed = 1 .. Len(handed) /\ DOMAIN handed' = 1 .. (Len(handed) + 1)
      BY <2>1, <3>1
    <3> QED
      BY <3>1, <3>2 DEF SeqRange
  <2>4. up' \subseteq Ordered(handed')
    BY <1>0, <2>1, <2>3 DEF Ordered
  <2> QED
    BY <1>0, <1>a, <1>5, <2>2, <2>3, <2>4 DEF WireInv, Samples
<1>6. ASSUME NEW c \in Orders, TypeCommand(c) PROVE WireInv'
  BY <1>5, <1>6 DEF TypeCommand, vehicle
<1>7. CASE TakePending
  <2>1. PICK c \in pending : Send(c)
    BY <1>7 DEF TakePending
  <2>2. c \in Orders
    <3>1. given \in Seq(Orders) /\ given # <<>> /\ c = given[Len(given)]
      BY <2>1 DEF OrderInv, Last
    <3> QED
      BY <3>1
  <2> QED
    BY <1>5, <1>7, <2>1, <2>2 DEF TakePending, vehicle
<1>8. CASE Browse
  <2>1. PICK t \in last, nav \in Snapshots : web' = FromJson(ToJson(t, nav))
    BY <1>8 DEF Browse
  <2>2. UNCHANGED <<sampled, down, up, inbox, last, live, frontend, cmdSeq, handed, obeyed>>
    BY <1>8 DEF Browse, operator, vehicle
  <2>3. t \in Samples(sampled) \cup Default
    BY <1>0, <2>1
  <2>4. web' \subseteq {[mode |-> t.mode, nav |-> nav]}
    BY <2>1, BrowserReadBack
  <2>5. \A w \in web' : w.mode = t.mode /\ w.nav = nav
    BY <2>4
  <2>6. \A w \in web' : Paired(w, sampled)
    BY <2>1, <2>3, <2>5 DEF Paired
  <2>7. \A w \in web' : Paired(w, sampled)'
    BY <2>2, <2>6 DEF Paired, Samples, Default
  <2>8. last' \subseteq (IF live' THEN Samples(sampled') ELSE Default')
    BY <1>0, <2>2 DEF Samples, Default
  <2> QED
    BY <1>0, <2>2, <2>7, <2>8 DEF WireInv, Samples
<1>9. CASE TypeOther \/ Quit \/ (\E c \in Orders : Press(c)) \/ UNCHANGED linkVars
  <2>1. UNCHANGED <<sampled, cmdSeq, down, up, inbox, last, web, live, frontend, handed, obeyed>>
    BY <1>9 DEF TypeOther, Quit, Press, linkVars, operator, vehicle
  <2> QED
    BY <1>0, <1>a, <2>1 DEF WireInv, Samples
<1>10. ASSUME NEW c \in Orders, SendFails(c) PROVE WireInv'
  <2>1. UNCHANGED <<sampled, down, up, inbox, last, web, live, frontend, handed, obeyed>>
        /\ cmdSeq' = (cmdSeq + 1) % SeqCount
    BY <1>10 DEF SendFails, vehicle
  <2>2. cmdSeq' \in Nat
    BY <1>0, <2>1 DEF SeqCount
  <2> QED
    BY <1>0, <1>a, <2>1, <2>2 DEF WireInv, Samples
<1> QED
  BY <1>1, <1>2, <1>3, <1>4, <1>6, <1>7, <1>8, <1>9, <1>10 DEF LinkNext, EnterLine

(* The inductive invariant of the link.                                     *)
LEMMA LinkInvariance == LinkSpec => [](OrderInv /\ WireInv)
<1>1. LinkInit => OrderInv /\ WireInv
  BY OrderInit, WireInit
<1>2. (OrderInv /\ WireInv) /\ [LinkNext]_linkVars => (OrderInv /\ WireInv)'
  BY OrderNext, WireNext
<1> QED
  BY <1>1, <1>2, PTL DEF LinkSpec

(* Whatever the net loses, doubles, reorders, damages or mixes in, what is  *)
(* obeyed was ordered, and what is shown was sampled once a readable frame  *)
(* was polled; before it the console shows nothing and the window its       *)
(* default, which nobody sent (link.rs, console.rs, ui.rs).  The browser    *)
(* pairs such a mode with that of a health snapshot (tpt-web lib.rs).       *)
THEOREM LinkInventsNothing == LinkSpec => []NothingInvented
<1>1. OrderInv /\ WireInv => NothingInvented
  <2> SUFFICES ASSUME OrderInv, WireInv PROVE NothingInvented
    OBVIOUS
  <2>1. /\ last \subseteq (IF live THEN Sampled ELSE Default) /\ obeyed \subseteq SeqRange(handed)
        /\ \A w \in web : w.nav \in Snapshots /\ \E t \in Sampled \cup Default : w.mode = t.mode
    BY DEF WireInv, Samples, Sampled, Paired
  <2>2. SeqRange(handed) \subseteq SeqRange(given)
    <3>1. PICK n \in Int : n <= Len(given) /\ Placed(handed, given, n)
      BY DEF OrderInv
    <3>2. PICK p \in [1 .. Len(handed) -> 1 .. n] : \A i \in 1 .. Len(handed) : handed[i] = given[p[i]]
      BY <3>1 DEF Placed, OrderMap
    <3>3. DOMAIN handed = 1 .. Len(handed) /\ DOMAIN given = 1 .. Len(given) /\ Len(given) \in Nat
      BY DEF OrderInv
    <3>4. \A i \in DOMAIN handed : p[i] \in DOMAIN given /\ handed[i] = given[p[i]]
      BY <3>1, <3>2, <3>3
    <3> QED
      BY <3>4 DEF SeqRange
  <2> QED
    BY <2>1, <2>2 DEF NothingInvented
<1> QED
  BY <1>1, LinkInvariance, PTL

(* The pending slot holds no order or one.                                  *)
LEMMA SlotAsSequence ==
  /\ SetToSeq({}) = <<>>
  /\ \A c : SetToSeq({c}) = <<c>>
<1>1. SetToSeq({}) = <<>>
  <2>1. Cardinality({}) = 0
    BY FS_EmptySet
  <2>2. SetToSeq({}) = CHOOSE f \in [1 .. 0 -> {}] : IsInjective(f)
    BY <2>1 DEF SetToSeq
  <2>3. <<>> \in [1 .. 0 -> {}] /\ IsInjective(<<>>)
    BY DEF IsInjective
  <2>4. \A f \in [1 .. 0 -> {}] : f = <<>>
    OBVIOUS
  <2> QED
    BY <2>2, <2>3, <2>4
<1>2. ASSUME NEW c PROVE SetToSeq({c}) = <<c>>
  <2>1. Cardinality({c}) = 1
    BY FS_Singleton
  <2>2. SetToSeq({c}) = CHOOSE f \in [1 .. 1 -> {c}] : IsInjective(f)
    BY <2>1 DEF SetToSeq
  <2>3. <<c>> \in [1 .. 1 -> {c}] /\ IsInjective(<<c>>)
    BY DEF IsInjective
  <2>4. \A f \in [1 .. 1 -> {c}] : f = <<c>>
    OBVIOUS
  <2> QED
    BY <2>2, <2>3, <2>4
<1> QED
  BY <1>1, <1>2

(* Orders reach the link in the order they were given, and the last one     *)
(* given is the last one sent or still pending (console.rs, ui.rs).         *)
THEOREM OrdersKeepTheirOrder == LinkSpec => []LastPressIsSent
<1>1. OrderInv => LastPressIsSent
  <2> SUFFICES ASSUME OrderInv PROVE LastPressIsSent
    OBVIOUS
  <2> DEFINE queued == handed \o SetToSeq(pending)
             g == Len(given)
  <2>1. g \in Nat /\ handed \in Seq(Orders) /\ given \in Seq(Orders)
    BY DEF OrderInv
  <2>2. queued \in Seq(Orders) /\ Placed(queued, given, g) 
        /\ ((given # <<>> /\ phase # "failed") => Last(queued) = Last(given))
    <3>1. CASE pending = {}
      <4>1. queued = handed \o <<>>
        BY <3>1, SlotAsSequence
      <4>2. queued = handed
        BY <2>1, <4>1
      <4> QED
        BY <2>1, <3>1, <4>2 DEF OrderInv
    <3>2. CASE pending # {}
      <4> DEFINE c == Last(given)
      <4>1. given # <<>> /\ pending = {c} /\ g > 0 /\ c = given[g] /\ c \in Orders
        BY <2>1, <3>2 DEF OrderInv, Last
      <4> HIDE DEF c
      <4>2. queued = handed \o <<c>>
        BY <4>1, SlotAsSequence
      <4>3. queued = Append(handed, c)
        BY <2>1, <4>1, <4>2, AppendIsConcat
      <4>4. Placed(handed, given, g - 1) /\ g - 1 \in Int /\ g - 1 < g
        BY <2>1, <3>2 DEF OrderInv
      <4> HIDE DEF queued, g
      <4>5. Placed(queued, given, g)
        BY <2>1, <4>1, <4>3, <4>4, PlacedNext
      <4>6. queued \in Seq(Orders) /\ Last(queued) = c
        BY <2>1, <4>1, <4>3 DEF Last
      <4> QED
        BY <4>5, <4>6 DEF c
    <3> QED
      BY <3>1, <3>2
  <2> HIDE DEF queued
  <2>3. PICK p : OrderMap(p, queued, given, g)
    BY <2>2 DEF Placed
  <2>4. DOMAIN queued = 1 .. Len(queued) /\ DOMAIN given = 1 .. g
    BY <2>1, <2>2
  <2>5. \E place \in [DOMAIN queued -> DOMAIN given] :
          /\ \A i, j \in DOMAIN queued : i < j => place[i] < place[j]
          /\ \A i \in DOMAIN queued : queued[i] = given[place[i]]
    BY <2>3, <2>4, Zenon DEF OrderMap
  <2>6. frontend = "console" => handed = given \/ (phase = "failed" /\ given = Append(handed, Last(given)))
    BY DEF OrderInv
  <2> QED
    BY <2>2, <2>5, <2>6 DEF LastPressIsSent, queued
<1> QED
  BY <1>1, LinkInvariance, PTL

-----------------------------------------------------------------------------
(* The dissimilar-source monitor.                                           *)


(* What the proofs need of the types: samples are numbers.                  *)
LEMMA SampleTypes ==
  ASSUME TypeOK
  PROVE  /\ truth \in Int
         /\ \A src \in NavSource : /\ sample[src].pos \in Int
                                   /\ sample[src].uncert \in Nat
  BY DissimilarAssumption DEF TypeOK, NavSample

(* Type correctness, for every order of reports. *)
THEOREM TypeCorrect == Spec => []TypeOK
<1>1. Init => TypeOK
  <2> SUFFICES ASSUME Init PROVE TypeOK
    OBVIOUS
  <2>1. [pos |-> 0, uncert |-> 1, available |-> FALSE] \in NavSample
    BY DissimilarAssumption DEF NavSample
  <2> QED
    BY <2>1, DissimilarAssumption DEF Init, TypeOK
<1>2. TypeOK /\ [Next]_vars => TypeOK'
  <2> SUFFICES ASSUME TypeOK, [Next]_vars PROVE TypeOK'
    OBVIOUS
  <2>1. ASSUME NEW src \in NavSource, NEW s \in NavSample, Submit(src, s) PROVE TypeOK'
    BY <2>1 DEF TypeOK, Submit
  <2>2. ASSUME NEW d \in Drifts, SetInsDrift(d) PROVE TypeOK'
    BY <2>2 DEF TypeOK, SetInsDrift
  <2>3. ASSUME NEW p \in Positions, Move(p) PROVE TypeOK'
    BY <2>3 DEF TypeOK, Move
  <2>4. CASE UNCHANGED vars
    BY <2>4 DEF TypeOK, vars
  <2> QED
    BY <2>1, <2>2, <2>3, <2>4 DEF Next
<1> QED
  BY <1>1, <1>2, PTL DEF Spec

(* Two accurate samples do not contradict each other: the distance between  *)
(* them is at most the sum of their errors.                                 *)
LEMMA AccurateSamplesAgree ==
  ASSUME TypeOK, NEW src \in NavSource, Accurate("gps"), Accurate(src)
  PROVE  ~Contradicts(src)
<1>1. /\ truth \in Int
      /\ sample["gps"].pos \in Int /\ sample["gps"].uncert \in Nat
      /\ sample[src].pos \in Int /\ sample[src].uncert \in Nat
  BY SampleTypes DEF NavSource
<1>2. /\ Distance(sample["gps"].pos, truth) <= 3 * sample["gps"].uncert
      /\ Distance(sample[src].pos, truth) <= 3 * sample[src].uncert
  BY DEF Accurate
<1>3. Distance(sample["gps"].pos, sample[src].pos)
        <= 3 * (sample["gps"].uncert + sample[src].uncert)
  BY <1>1, <1>2 DEF Distance
<1> QED
  BY <1>1, <1>3 DEF Contradicts, DisagreementSigma, Distance

(* A position too far off for both uncertainties contradicts an accurate    *)
(* sample.                                                                  *)
LEMMA GrossErrorContradicts ==
  ASSUME TypeOK, NEW src \in NavSource, Accurate(src), sample["gps"].available,
         Distance(sample["gps"].pos, truth)
           > 3 * sample["gps"].uncert + 6 * sample[src].uncert
  PROVE  Contradicts(src)
<1>1. /\ truth \in Int
      /\ sample["gps"].pos \in Int /\ sample["gps"].uncert \in Nat
      /\ sample[src].pos \in Int /\ sample[src].uncert \in Nat
  BY SampleTypes DEF NavSource
<1>2. sample[src].available /\ Distance(sample[src].pos, truth) <= 3 * sample[src].uncert
  BY DEF Accurate
<1>3. Distance(sample["gps"].pos, sample[src].pos)
        > 3 * (sample["gps"].uncert + sample[src].uncert)
  BY <1>1, <1>2 DEF Distance
<1> QED
  BY <1>2, <1>3 DEF Contradicts, DisagreementSigma

(* No false alarm, for every pattern of errors within three sigma. *)
THEOREM NoFalseAlarm == Spec => []AccurateGpsIsTrusted
<1>1. TypeOK => AccurateGpsIsTrusted
  <2> SUFFICES ASSUME TypeOK, Accurate("gps"),
                      \A src \in {"vio", "tan"} : sample[src].available => Accurate(src)
               PROVE  ~GpsDistrusted /\ Recommended = "GpsAided"
    BY DEF AccurateGpsIsTrusted
  <2>1. ~GpsDistrusted
    BY AccurateSamplesAgree DEF GpsDistrusted, Contradicts, NavSource
  <2> QED
    BY <2>1 DEF Recommended, Accurate
<1> QED
  BY <1>1, TypeCorrect, PTL

(* No missed spoof, for every GNSS position and uncertainty. *)
THEOREM NoMissedSpoof == Spec => []GrossGpsErrorIsCaught
<1>1. TypeOK => GrossGpsErrorIsCaught
  <2> SUFFICES ASSUME TypeOK, NEW src \in {"vio", "tan"}, Accurate(src),
                      sample["gps"].available,
                      Distance(sample["gps"].pos, truth)
                        > 3 * sample["gps"].uncert + 6 * sample[src].uncert
               PROVE  Recommended # "GpsAided"
    BY DEF GrossGpsErrorIsCaught
  <2>1. GpsDistrusted
    BY GrossErrorContradicts DEF GpsDistrusted, NavSource
  <2> QED
    BY <2>1 DEF Recommended
<1> QED
  BY <1>1, TypeCorrect, PTL

(* A mode recommended while GNSS is undisputed names a source that is there. *)
THEOREM UndisputedIsThere == Spec => []UndisputedSourceIsThere
<1>1. UndisputedSourceIsThere
  <2>1. CASE ~sample["gps"].available
    BY <2>1 DEF UndisputedSourceIsThere, SourceIsThere, Recommended
  <2>2. CASE sample["gps"].available
    BY <2>2 DEF UndisputedSourceIsThere, SourceIsThere, Recommended
  <2> QED
    BY <2>1, <2>2
<1> QED
  BY <1>1, PTL
=============================================================================
