------------------------------ MODULE GcsLink ------------------------------
(***************************************************************************)
(* The ground-control station and its link (tpt-gcs): the console's loop    *)
(* (console.rs), the window's pending slot (ui.rs), the frames both share   *)
(* (link.rs, command.rs, by way of Frames), and the browser's view          *)
(* (tpt-web).  The vehicle's end, the network and the host loop behind the  *)
(* window are not in src/: the vehicle sends a flight's telemetry and       *)
(* obeys what it can read; datagrams are lost, doubled, reordered, damaged  *)
(* and mixed with other traffic.                                            *)
(***************************************************************************)
EXTENDS Frames

CONSTANTS
  Flight,      \* the telemetry the vehicle sends, in order
  Orders,      \* commands the operator may give
  Snapshots,   \* navigation modes of the health snapshots given to the browser's view
  Inbox,       \* datagrams the receiving socket holds
  MaxCopies,   \* bound of the model: datagrams doubled
  MaxOrders    \* bound of the model: commands given

(* telemetry.rs, and enum Command: only SetMode's argument is looked into.  *)
Telemetry == [mode : FlightMode, nav : Range(FusionBytes)]
Command ==
  {c \in [op : {"Arm", "Disarm", "Takeoff", "Land", "SetWaypoint", "SetMode"}, arg : STRING] :
     c.op = "SetMode" => c.arg \in FlightMode}

ASSUME LinkAssumption ==
  /\ Flight \in Seq(Telemetry) /\ Orders \subseteq Command
  /\ Snapshots \subseteq Range(FusionBytes)
  /\ Inbox \in Nat /\ MaxCopies \in Nat /\ MaxOrders \in Nat

VARIABLES
  frontend,    \* the console or the window
  phase,       \* of the console's loop: "poll", "prompt", "done", "failed"
  sampled,     \* telemetry samples sent
  down, up,    \* datagrams in flight, to the ground and to the vehicle
  copies,      \* datagrams doubled so far
  inbox,       \* the socket's queue
  last,        \* ConsoleGcs::last, GcsApp::latest: empty, or the sample shown
  cmdSeq,      \* ConsoleGcs::seq
  pending,     \* GcsApp::pending
  web,         \* what the browser shows
  newest,      \* history: the last readable sample the socket took, or what is shown at first
  live,        \* history: a readable sample has been polled
  given,       \* history: commands typed or pressed, in order
  handed,      \* history: commands given to the link, in order
  obeyed       \* history: commands the vehicle read

linkVars == <<frontend, phase, sampled, down, up, copies, inbox, last, cmdSeq, pending, web,
              newest, live, given, handed, obeyed>>
operator == <<phase, cmdSeq, pending, given, handed>>
vehicle == <<sampled, obeyed>>

RecvBuf == 256   \* recv_buf of the console
SendBuf == 128
SeqCount == 2 ^ 16

(* Telemetry::zeroed(): what the window shows before the first frame; the   *)
(* console has nothing to show until then.                                  *)
Zeroed == [mode |-> "Disarmed", nav |-> "GpsAided"]
Default == IF frontend = "window" THEN {Zeroed} ELSE {}

LinkInit ==
  /\ frontend \in {"console", "window"}
  /\ phase = "poll" /\ cmdSeq = 0 /\ pending = {}
  /\ sampled = 0 /\ down = {} /\ up = {} /\ copies = 0 /\ inbox = <<>>
  /\ last = Default /\ newest = Default /\ web = {} /\ live = FALSE
  /\ given = <<>> /\ handed = <<>> /\ obeyed = {}

-----------------------------------------------------------------------------
(* The vehicle and the network: a datagram may stay in flight for ever. *)
Sample ==
  /\ sampled < Len(Flight)
  /\ sampled' = sampled + 1
  /\ down' = down \cup SerializeTelemetry(Flight[sampled + 1], sampled % SeqCount, RecvBuf)
  /\ UNCHANGED <<frontend, operator, up, copies, inbox, last, web, newest, live, obeyed>>

(* What arrives in place of f: f, a damaged f, or other traffic. *)
Arrivals(f) ==
  {f, [f EXCEPT !.payload.value = Garbage]}
  \cup SerializeHealth(<<>>, f.seq, RecvBuf)

(* The datagram leaves the net, or a copy of it stays. *)
Leaves(net, f) ==
  {[net |-> net \ {f}, copies |-> copies]}
  \cup IF copies < MaxCopies THEN {[net |-> net, copies |-> copies + 1]} ELSE {}

(* A full socket drops the datagram. *)
Arrive ==
  /\ \E f \in down : \E g \in Arrivals(f), rest \in Leaves(down, f) :
       /\ down' = rest.net /\ copies' = rest.copies
       /\ IF Len(inbox) < Inbox
          THEN /\ inbox' = Append(inbox, g)
               /\ newest' = IF ParseTelemetry(g) = {} THEN newest ELSE ParseTelemetry(g)
          ELSE UNCHANGED <<inbox, newest>>
  /\ UNCHANGED <<frontend, operator, vehicle, up, last, web, live>>

Obey ==
  /\ \E f \in up : \E g \in Arrivals(f), rest \in Leaves(up, f) :
       /\ up' = rest.net /\ copies' = rest.copies
       /\ obeyed' = obeyed \cup ParseCommand(g)
  /\ UNCHANGED <<frontend, operator, sampled, down, inbox, last, web, newest, live>>

-----------------------------------------------------------------------------
Mut_Received(q, shown) == IF q = <<>> THEN shown ELSE ParseTelemetry(Head(q))

(* poll(): one datagram at most; a silent socket, a damaged datagram and    *)
(* other traffic all leave what was shown.                                  *)
Received(q, shown) ==
  IF q = <<>> \/ ParseTelemetry(Head(q)) = {} THEN shown ELSE ParseTelemetry(Head(q))

Poll ==
  /\ frontend = "console" => phase = "poll"
  /\ frontend = "window" => inbox # <<>>     \* a thread blocks on the socket
  /\ last' = Received(inbox, last)
  /\ live' = (live \/ (inbox # <<>> /\ ParseTelemetry(Head(inbox)) # {}))
  /\ inbox' = IF inbox = <<>> THEN <<>> ELSE Tail(inbox)
  /\ phase' = IF frontend = "console" THEN "prompt" ELSE phase
  /\ UNCHANGED <<frontend, cmdSeq, pending, given, handed, vehicle, down, up, copies, web, newest>>

(* send(): the sequence number is spent before the datagram leaves. *)
Send(c) ==
  /\ cmdSeq' = (cmdSeq + 1) % SeqCount
  /\ up' = up \cup SerializeCommand(c, cmdSeq, SendBuf)
  /\ handed' = Append(handed, c)

(* A line that is a command. *)
TypeCommand(c) ==
  /\ frontend = "console" /\ phase = "prompt" /\ Len(given) < MaxOrders
  /\ given' = Append(given, c)
  /\ Send(c)
  /\ phase' = "poll"
  /\ UNCHANGED <<frontend, pending, vehicle, down, copies, inbox, last, web, newest, live>>

(* A line that is a command, and send_to() fails: the number is spent, and  *)
(* run() returns the error.                                                 *)
SendFails(c) ==
  /\ frontend = "console" /\ phase = "prompt" /\ Len(given) < MaxOrders
  /\ given' = Append(given, c)
  /\ cmdSeq' = (cmdSeq + 1) % SeqCount
  /\ phase' = "failed"
  /\ UNCHANGED <<frontend, pending, handed, vehicle, down, up, copies, inbox, last, web, newest, live>>

(* An empty line, help, or one that parses as nothing. *)
TypeOther ==
  /\ frontend = "console" /\ phase = "prompt"
  /\ phase' = "poll"
  /\ UNCHANGED <<frontend, cmdSeq, pending, given, handed, vehicle, down, up, copies, inbox, last, web, newest, live>>

(* quit, the end of the input, or an error of the terminal. *)
Quit ==
  /\ frontend = "console" /\ phase = "prompt"
  /\ phase' = "done"
  /\ UNCHANGED <<frontend, cmdSeq, pending, given, handed, vehicle, down, up, copies, inbox, last, web, newest, live>>

Mut_Pressed(slot, c) == IF slot = {} THEN {c} ELSE slot

(* A button's handler fills the one slot, taken or not. *)
Pressed(slot, c) == {c}

(* One redraw of the window in which a button was clicked. *)
Press(c) ==
  /\ frontend = "window" /\ Len(given) < MaxOrders
  /\ pending' = Pressed(pending, c)
  /\ given' = Append(given, c)
  /\ UNCHANGED <<frontend, phase, cmdSeq, handed, vehicle, down, up, copies, inbox, last, web, newest, live>>

(* take_pending() by the host loop, which transmits the command. *)
TakePending ==
  /\ \E c \in pending : Send(c)
  /\ pending' = {}
  /\ UNCHANGED <<frontend, phase, given, vehicle, down, copies, inbox, last, web, newest, live>>

-----------------------------------------------------------------------------
(* The browser's view.  A text stands for the mode it names; the fields are *)
(* found by their keys, in any order, and a text nobody knows is no mode.   *)
FlightModeStr(mode) == [text |-> mode]
FlightModeFromStr(s) ==    \* the one mode nobody added here is Glide
  IF s.text \in Range(FlightBytes) \ {"Glide"} THEN {s.text} ELSE {}

FusionModeStr(mode) == [text |-> mode]
FusionModeFromStr(s) == IF s.text \in Range(FusionBytes) THEN {s.text} ELSE {}

ToJson(t, nav) == [mode |-> FlightModeStr(t.mode), nav |-> FusionModeStr(nav)]

(* f64_field, bool_field and str_field: a field that is not there is None.  *)
FieldOf(json, key) == IF key \in DOMAIN json THEN {json[key]} ELSE {}

FromJson(json) ==
  {[mode |-> m, nav |-> n] :
     m \in UNION {FlightModeFromStr(s) : s \in FieldOf(json, "mode")},
     n \in UNION {FusionModeFromStr(s) : s \in FieldOf(json, "nav")}}

(* from_telemetry: the navigation mode is that of a health snapshot taken   *)
(* apart from the telemetry, which need not agree with it.                  *)
Browse ==
  /\ last # {}
  /\ \E t \in last, nav \in Snapshots : web' = FromJson(ToJson(t, nav))
  /\ UNCHANGED <<frontend, operator, vehicle, down, up, copies, inbox, last, newest, live>>

EnterLine == TypeOther \/ Quit \/ \E c \in Orders : TypeCommand(c) \/ SendFails(c)

LinkNext ==
  \/ Sample \/ Arrive \/ Obey
  \/ Poll \/ EnterLine
  \/ TakePending \/ Browse
  \/ \E c \in Orders : Press(c)

(* The console polls once a line, so it goes on as long as lines are typed; *)
(* the window's thread blocks on the socket.  Nothing is asked of the net.  *)
LinkSpec ==
  /\ LinkInit /\ [][LinkNext]_linkVars
  /\ WF_linkVars(Poll) /\ WF_linkVars(EnterLine) /\ WF_linkVars(TakePending)

-----------------------------------------------------------------------------
SeqRange(s) == {s[i] : i \in DOMAIN s}

Sampled == {Flight[i] : i \in 1 .. sampled}

(* Nothing a noisy net delivers is taken for a sample or an order that was  *)
(* not there.  The console shows nothing, and the window Zeroed, which      *)
(* nobody sent, until the first readable frame; from then on what is shown  *)
(* was sampled.  The browser pairs the mode of a sample the station has     *)
(* shown, that of Zeroed included, with the navigation mode of a snapshot.  *)
NothingInvented ==
  /\ last \subseteq IF live THEN Sampled ELSE Default
  /\ \A w \in web : w.nav \in Snapshots /\ \E t \in Sampled \cup Default : w.mode = t.mode
  /\ obeyed \subseteq SeqRange(handed)
  /\ SeqRange(handed) \subseteq SeqRange(given)

(* Orders reach the link in the order they were given.  The window drops    *)
(* one only for a later one, and what is left pending or was handed on last *)
(* is the last that was given; the console drops none but the one whose     *)
(* sending failed, with which its loop ends.                                *)
LastPressIsSent ==
  LET queued == handed \o SetToSeq(pending)
      failed == phase = "failed"
  IN  /\ frontend = "console" => handed = given \/ (failed /\ given = Append(handed, Last(given)))
      /\ \E place \in [DOMAIN queued -> DOMAIN given] :
           /\ \A i, j \in DOMAIN queued : i < j => place[i] < place[j]
           /\ \A i \in DOMAIN queued : queued[i] = given[place[i]]
      /\ (given # <<>> /\ ~failed) => Last(queued) = Last(given)

(* Once the vehicle is silent the display comes to the last readable sample *)
(* that the socket took, past damaged datagrams and other traffic - on the  *)
(* console if lines go on being typed.  Until then it lags by the queue.    *)
DisplayCatchesUp == <>[](phase \in {"done", "failed"} \/ last = newest)
=============================================================================
