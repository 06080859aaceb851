------------------------------ MODULE RingQueue ------------------------------
(***************************************************************************)
(* The ring buffer behind QueuingPort (tpt-backend-pikeos/src/partition.rs,*)
(* four slots of 32 bytes) and MessageQueue (tpt-backend-vxworks/src/      *)
(* lib.rs, eight slots of 48 bytes, the same code with one error for all   *)
(* failures).  A slot keeps its old bytes until it is written again, so    *)
(* what a read returns depends on the slot, its recorded length, and the   *)
(* indices staying in step.                                                *)
(***************************************************************************)
EXTENDS Integers, Sequences

CONSTANTS Depth, SlotBytes, Msg, Size, Rooms,
  NoBytes     \* a slot that was never written

ASSUME RingAssumption ==
  /\ Depth \in Nat \ {0} /\ SlotBytes \in Nat
  /\ Size \in [Msg -> Nat]
  /\ Rooms \subseteq Nat

VARIABLES
  slots,    \* slots: the message last copied into each slot
  lengths,  \* lengths
  head,     \* head
  tail,     \* tail
  count,    \* count
  result    \* outcome of the last call

vars == <<slots, lengths, head, tail, count, result>>

Slot == 0 .. Depth - 1

-----------------------------------------------------------------------------
Failed(error) == [status |-> error]
Accepted == [status |-> "Ok"]
Delivered(m, bytes) == [status |-> "Ok", msg |-> m, bytes |-> bytes]

Mut_NextSlotKeepsLast(i) == (i + 1) % (Depth + 1)

(* The slot after i. *)
NextSlot(i) == (i + 1) % Depth

(* QueuingPort::new, MessageQueue::new. *)
Init ==
  /\ slots = [i \in Slot |-> NoBytes]
  /\ lengths = [i \in Slot |-> 0]
  /\ head = 0 /\ tail = 0 /\ count = 0
  /\ result = Accepted

(* PartitionChannel::write: a full queue is reported before a message that  *)
(* does not fit.                                                            *)
Write(m) ==
  \/ /\ count >= Depth
     /\ result' = Failed("QueueFull")
     /\ UNCHANGED <<slots, lengths, head, tail, count>>
  \/ /\ count < Depth /\ Size[m] > SlotBytes
     /\ result' = Failed("BufferTooSmall")
     /\ UNCHANGED <<slots, lengths, head, tail, count>>
  \/ /\ count < Depth /\ Size[m] <= SlotBytes
     /\ slots' = [slots EXCEPT ![tail] = m]
     /\ lengths' = [lengths EXCEPT ![tail] = Size[m]]
     /\ tail' = NextSlot(tail)
     /\ count' = count + 1
     /\ result' = Accepted
     /\ UNCHANGED head

Mut_ReadDropsOnNoRoom(room) ==
  \/ /\ count = 0
     /\ result' = Failed("Empty")
     /\ UNCHANGED <<slots, lengths, head, tail, count>>
  \/ /\ count > 0
     /\ result' = IF room < lengths[head] THEN Failed("BufferTooSmall")
                  ELSE Delivered(slots[head], lengths[head])
     /\ head' = NextSlot(head)
     /\ count' = count - 1
     /\ UNCHANGED <<slots, lengths, tail>>

(* PartitionChannel::read into a buffer of length room. *)
Read(room) ==
  \/ /\ count = 0
     /\ result' = Failed("Empty")
     /\ UNCHANGED <<slots, lengths, head, tail, count>>
  \/ /\ count > 0 /\ room < lengths[head]
     /\ result' = Failed("BufferTooSmall")
     /\ UNCHANGED <<slots, lengths, head, tail, count>>
  \/ /\ count > 0 /\ room >= lengths[head]
     /\ result' = Delivered(slots[head], lengths[head])
     /\ head' = NextSlot(head)
     /\ count' = count - 1
     /\ UNCHANGED <<slots, lengths, tail>>

Next ==
  \/ \E m \in Msg : Write(m)
  \/ \E room \in Rooms : Read(room)

Spec == Init /\ [][Next]_vars

-----------------------------------------------------------------------------
(* Types of the variables: no index ever leaves the array it indexes. *)
TypeOK ==
  /\ slots \in [Slot -> Msg \cup {NoBytes}]
  /\ lengths \in [Slot -> 0 .. SlotBytes]
  /\ head \in Slot /\ tail \in Slot
  /\ count \in 0 .. Depth

(* The messages in the queue, oldest first. *)
Contents == [i \in 1 .. count |-> slots[(head + i - 1) % Depth]]

(* The ring is a bounded FIFO: no message is lost, duplicated, reordered,   *)
(* torn or given another one's length, whatever the order of reads and      *)
(* writes, through any number of wrap-arounds and failed calls.             *)
Fifo == INSTANCE BoundedFifo WITH queue <- Contents

IsAFifo == Fifo!FifoSpec

=============================================================================
