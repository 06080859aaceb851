----------------------------- MODULE BoundedFifo -----------------------------
(***************************************************************************)
(* What a queuing PartitionChannel promises its two users (the trait of    *)
(* tpt-abstractions/src/os.rs with the doc comments of its backends):      *)
(* a bounded FIFO of whole messages.  A call that fails changes nothing,   *)
(* so a message a reader has no room for stays at the front.               *)
(***************************************************************************)
EXTENDS Integers, Sequences

CONSTANTS
  Depth,      \* messages the channel holds
  SlotBytes,  \* bytes a slot holds
  Msg,        \* messages a writer may send
  Size,       \* length of each message
  Rooms       \* lengths of the buffers readers pass

VARIABLES
  queue,   \* the messages accepted and not yet read
  result   \* outcome of the last call

fifoVars == <<queue, result>>

Failed(error) == [status |-> error]
Accepted == [status |-> "Ok"]
Delivered(m, bytes) == [status |-> "Ok", msg |-> m, bytes |-> bytes]

-----------------------------------------------------------------------------
FifoInit ==
  /\ queue = << >>
  /\ result = Accepted

FifoWrite(m) ==
  \/ /\ Len(queue) = Depth
     /\ result' = Failed("QueueFull")
     /\ UNCHANGED queue
  \/ /\ Len(queue) < Depth /\ Size[m] > SlotBytes
     /\ result' = Failed("BufferTooSmall")
     /\ UNCHANGED queue
  \/ /\ Len(queue) < Depth /\ Size[m] <= SlotBytes
     /\ result' = Accepted
     /\ queue' = Append(queue, m)

FifoRead(room) ==
  \/ /\ queue = << >>
     /\ result' = Failed("Empty")
     /\ UNCHANGED queue
  \/ /\ queue # << >> /\ room < Size[Head(queue)]
     /\ result' = Failed("BufferTooSmall")
     /\ UNCHANGED queue
  \/ /\ queue # << >> /\ room >= Size[Head(queue)]
     /\ result' = Delivered(Head(queue), Size[Head(queue)])
     /\ queue' = Tail(queue)

FifoNext ==
  \/ \E m \in Msg : FifoWrite(m)
  \/ \E room \in Rooms : FifoRead(room)

FifoSpec == FifoInit /\ [][FifoNext]_fifoVars

=============================================================================
