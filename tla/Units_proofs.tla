---------------------------- MODULE Units_proofs ----------------------------
(***************************************************************************)
(* Proofs about the units.  The ring buffer implements the bounded FIFO,   *)
(* for every depth, slot size and set of messages.  UnitsSteps says that a *)
(* step of the sum is a step of one unit and leaves the others alone; with *)
(* it come the invariants of the kernels, for any number of rate groups,   *)
(* of the controller, for all its gains and limits, and of the integrity   *)
(* check, for any number of receivers.                                     *)
(***************************************************************************)
EXTENDS Units, DataLemmas, SequenceTheorems

(* The slot of the k-th message after the front. *)
At(k) == (head + k) % Depth

(* The indices are in step, and the occupied slots hold whole messages with *)
(* their own lengths.                                                       *)
InStep ==
  /\ tail = At(count)
  /\ \A k \in 0 .. count - 1 : /\ slots[At(k)] \in Msg
                               /\ lengths[At(k)] = Size[slots[At(k)]]

IInv == TypeOK /\ InStep

(* Where a slot is: the index wraps around at most once. *)
LEMMA Position ==
  ASSUME TypeOK, NEW k \in 0 .. Depth
  PROVE  /\ At(k) = IF head + k < Depth THEN head + k ELSE head + k - Depth
         /\ At(k) \in Slot
<1>1. Depth \in Nat \ {0} /\ head \in 0 .. Depth - 1
  BY RingAssumption DEF TypeOK, Slot
<1>2. At(k) = IF head + k < Depth THEN head + k ELSE head + k - Depth
  BY <1>1, WrapOnce DEF At
<1> QED
  BY <1>1, <1>2 DEF Slot

(* Two messages are never in one slot, and the tail is on none of them.     *)
LEMMA SlotsAreDistinct ==
  ASSUME TypeOK, NEW j \in 0 .. Depth - 1, NEW k \in 0 .. Depth - 1, At(j) = At(k)
  PROVE  j = k
<1>1. Depth \in Nat \ {0} /\ head \in 0 .. Depth - 1 /\ j \in 0 .. Depth /\ k \in 0 .. Depth
  BY RingAssumption DEF TypeOK, Slot
<1>2. At(j) = IF head + j < Depth THEN head + j ELSE head + j - Depth
  BY <1>1, Position
<1>3. At(k) = IF head + k < Depth THEN head + k ELSE head + k - Depth
  BY <1>1, Position
<1>4. (IF head + j < Depth THEN head + j ELSE head + j - Depth)
        = (IF head + k < Depth THEN head + k ELSE head + k - Depth)
  BY <1>2, <1>3, Zenon
<1>5. j \in 0 .. Depth - 1 /\ k \in 0 .. Depth - 1
  OBVIOUS
<1> QED
  BY <1>1, <1>4, <1>5

(* The slot after a slot. *)
LEMMA Following ==
  ASSUME TypeOK, NEW i \in Slot
  PROVE  /\ NextSlot(i) = IF i + 1 < Depth THEN i + 1 ELSE 0
         /\ NextSlot(i) \in Slot
<1>1. Depth \in Nat \ {0} /\ i \in 0 .. Depth - 1 /\ 1 \in 0 .. Depth
  BY RingAssumption DEF Slot
<1>2. (i + 1) % Depth = IF i + 1 < Depth THEN i + 1 ELSE i + 1 - Depth
  BY <1>1, WrapOnce
<1> QED
  BY <1>1, <1>2 DEF NextSlot, Slot

(* The queue the ring stands for. *)
LEMMA ContentsIsSeq ==
  ASSUME IInv
  PROVE  /\ Contents \in Seq(Msg) /\ Len(Contents) = count /\ count \in Nat
         /\ \A i \in 1 .. count : Contents[i] = slots[At(i - 1)]
         /\ \A i \in 1 .. count : Contents[i] \in Msg
<1>1. count \in 0 .. Depth /\ Depth \in Nat /\ head \in Nat
  BY RingAssumption DEF IInv, TypeOK, Slot
<1>2. \A i \in 1 .. count : head + i - 1 = head + (i - 1) /\ i - 1 \in 0 .. count - 1
  BY <1>1
<1>3. \A i \in 1 .. count : Contents[i] = slots[At(i - 1)]
  BY <1>2 DEF Contents, At
<1>4. \A i \in 1 .. count : slots[(head + i - 1) % Depth] \in Msg
  BY <1>2 DEF IInv, InStep, At
<1>5. Contents \in Seq(Msg) /\ Len(Contents) = count
  BY <1>1, <1>4 DEF Contents
<1> QED
  BY <1>1, <1>3, <1>4, <1>5 DEF Contents

-----------------------------------------------------------------------------
(* An empty ring satisfies it.                                              *)
LEMMA InitHasIInv == Init => IInv
<1> SUFFICES ASSUME Init PROVE IInv
  OBVIOUS
<1>1. TypeOK
  BY RingAssumption DEF Init, TypeOK, Slot
<1>2. At(0) = 0
  BY <1>1, Position, RingAssumption DEF Init
<1> QED
  BY <1>1, <1>2 DEF Init, IInv, InStep

(* A write that is accepted: the message goes to the tail, every other      *)
(* message stays where it is.                                               *)
LEMMA AcceptedWrite ==
  ASSUME IInv, NEW m \in Msg, count < Depth, Size[m] <= SlotBytes,
         slots' = [slots EXCEPT ![tail] = m],
         lengths' = [lengths EXCEPT ![tail] = Size[m]],
         tail' = NextSlot(tail), count' = count + 1, head' = head
  PROVE  IInv' /\ Contents' = Append(Contents, m)
<1>1. /\ Depth \in Nat \ {0} /\ head \in 0 .. Depth - 1 /\ count \in 0 .. Depth - 1
      /\ tail \in 0 .. Depth - 1 /\ Size[m] \in 0 .. SlotBytes
  BY RingAssumption DEF IInv, TypeOK, Slot
<1>2. \A k : At(k)' = At(k)
  BY DEF At
<1>3. TypeOK'
  <2>1. slots' \in [Slot -> Msg \cup {NoBytes}]
    BY DEF IInv, TypeOK
  <2>2. lengths' \in [Slot -> 0 .. SlotBytes]
    BY <1>1 DEF IInv, TypeOK
  <2>3. tail' \in Slot /\ head' \in Slot
    BY Following DEF IInv, TypeOK
  <2>4. count' \in 0 .. Depth
    BY <1>1
  <2> QED
    BY <2>1, <2>2, <2>3, <2>4 DEF TypeOK
<1>4. tail' = At(count + 1)
  <2>1. At(count) = IF head + count < Depth THEN head + count ELSE head + count - Depth
    BY <1>1, Position DEF IInv
  <2>2. count + 1 \in 0 .. Depth
    BY <1>1
  <2>3. At(count + 1) = IF head + (count + 1) < Depth THEN head + (count + 1)
                        ELSE head + (count + 1) - Depth
    BY <2>2, Position DEF IInv
  <2>4. tail' = IF tail + 1 < Depth THEN tail + 1 ELSE 0
    BY Following DEF IInv, TypeOK
  <2> QED
    BY <1>1, <2>1, <2>3, <2>4 DEF IInv, InStep
<1>5. \A k \in 0 .. count - 1 : At(k) # tail /\ At(k) \in Slot
  <2> TAKE k \in 0 .. count - 1
  <2>1. k \in 0 .. Depth - 1 /\ count \in 0 .. Depth - 1 /\ k # count /\ k \in 0 .. Depth
    BY <1>1
  <2>2. At(k) # At(count)
    BY <2>1, SlotsAreDistinct DEF IInv
  <2> QED
    BY <2>1, <2>2, Position DEF IInv, InStep
<1>6. \A k \in 0 .. count - 1 : slots'[At(k)] = slots[At(k)] /\ lengths'[At(k)] = lengths[At(k)]
  BY <1>5 DEF IInv, TypeOK
<1>7. slots'[At(count)] = m /\ lengths'[At(count)] = Size[m]
  BY <1>1 DEF IInv, InStep, TypeOK, Slot
<1>8. InStep'
  <2>1. \A k \in 0 .. count : slots'[At(k)] \in Msg /\ lengths'[At(k)] = Size[slots'[At(k)]]
    <3> TAKE k \in 0 .. count
    <3>1. CASE k = count
      BY <1>7, <3>1
    <3>2. CASE k # count
      <4>1. k \in 0 .. count - 1
        BY <1>1, <3>2
      <4> QED
        BY <1>6, <4>1 DEF IInv, InStep
    <3> QED
      BY <3>1, <3>2
  <2>2. count' - 1 = count
    BY <1>1
  <2> QED
    BY <1>2, <1>4, <2>1, <2>2 DEF InStep
<1>9. Contents' = Append(Contents, m)
  <2>1. /\ Contents \in Seq(Msg) /\ Len(Contents) = count
        /\ \A i \in 1 .. count : Contents[i] = slots[At(i - 1)]
    BY ContentsIsSeq
  <2>2. /\ Contents' \in Seq(Msg) /\ Len(Contents') = count + 1
        /\ \A i \in 1 .. count + 1 : Contents'[i] = slots'[At(i - 1)]
    <3>1. IInv'
      BY <1>3, <1>8 DEF IInv
    <3>2. (Contents \in Seq(Msg) /\ Len(Contents) = count
             /\ \A i \in 1 .. count : Contents[i] = slots[At(i - 1)])'
      BY <3>1, ContentsIsSeq, PTL
    <3> QED
      BY <1>2, <3>2
  <2>3. /\ Append(Contents, m) \in Seq(Msg)
        /\ Len(Append(Contents, m)) = count + 1
        /\ \A i \in 1 .. count : Append(Contents, m)[i] = Contents[i]
        /\ Append(Contents, m)[count + 1] = m
    BY <2>1, AppendProperties
  <2>4. ASSUME NEW i \in 1 .. count + 1 PROVE Contents'[i] = Append(Contents, m)[i]
    <3>1. CASE i = count + 1
      <4>1. i - 1 = count
        BY <1>1, <3>1
      <4> QED
        BY <1>7, <2>2, <2>3, <3>1, <4>1
    <3>2. CASE i # count + 1
      <4>1. i \in 1 .. count /\ i - 1 \in 0 .. count - 1
        BY <1>1, <3>2
      <4> QED
        BY <1>6, <2>1, <2>2, <2>3, <4>1
    <3> QED
      BY <3>1, <3>2
  <2> QED
    BY <2>2, <2>3, <2>4, SeqEqual
<1> QED
  BY <1>3, <1>8, <1>9 DEF IInv

(* A read that delivers: the front moves one slot, every other message      *)
(* stays where it is.                                                       *)
LEMMA DeliveringRead ==
  ASSUME IInv, count > 0,
         head' = NextSlot(head), count' = count - 1,
         UNCHANGED <<slots, lengths, tail>>
  PROVE  /\ IInv' /\ Contents # << >> /\ Contents' = Tail(Contents)
         /\ slots[head] = Head(Contents) /\ lengths[head] = Size[Head(Contents)]
<1>1. /\ Depth \in Nat \ {0} /\ head \in 0 .. Depth - 1 /\ count \in 1 .. Depth
  BY RingAssumption DEF IInv, TypeOK, Slot
<1>2. TypeOK'
  <2>1. head' \in Slot
    BY Following DEF IInv, TypeOK
  <2>2. count' \in 0 .. Depth
    BY <1>1
  <2> QED
    BY <2>1, <2>2 DEF IInv, TypeOK
<1>3. head' = IF head + 1 < Depth THEN head + 1 ELSE 0
  BY Following DEF IInv, TypeOK
<1>4. \A k \in 0 .. count - 1 : (head' + k) % Depth = At(k + 1)
  <2> TAKE k \in 0 .. count - 1
  <2>1. k \in 0 .. Depth - 1 /\ k \in 0 .. Depth /\ k + 1 \in 0 .. Depth
    BY <1>1
  <2>2. At(k + 1) = IF head + (k + 1) < Depth THEN head + (k + 1) ELSE head + (k + 1) - Depth
    BY <2>1, Position DEF IInv
  <2>3. head' \in 0 .. Depth - 1
    BY <1>2 DEF TypeOK, Slot
  <2>4. (head' + k) % Depth = IF head' + k < Depth THEN head' + k ELSE head' + k - Depth
    BY <1>1, <2>1, <2>3, WrapOnce
  <2>5. (IF head' + k < Depth THEN head' + k ELSE head' + k - Depth)
          = (IF head + (k + 1) < Depth THEN head + (k + 1) ELSE head + (k + 1) - Depth)
    BY <1>1, <1>3, <2>1
  <2> QED
    BY <2>2, <2>4, <2>5, Zenon
<1>5. InStep'
  <2>1. tail' = (head' + (count - 1)) % Depth
    <3>1. count - 1 \in 0 .. count - 1 /\ count - 1 + 1 = count
      BY <1>1
    <3> QED
      BY <1>4, <3>1 DEF IInv, InStep
  <2>2. tail' = At(count)'
    BY <2>1 DEF At
  <2>3. ASSUME NEW k \in 0 .. count - 2
        PROVE  slots'[At(k)'] \in Msg /\ lengths'[At(k)'] = Size[slots'[At(k)']]
    <3>1. k \in 0 .. count - 1 /\ k + 1 \in 0 .. count - 1
      BY <1>1
    <3>2. At(k)' = At(k + 1)
      BY <1>4, <3>1 DEF At
    <3> QED
      BY <3>1, <3>2 DEF IInv, InStep
  <2>4. count' - 1 = count - 2
    BY <1>1
  <2> QED
    BY <2>2, <2>3, <2>4 DEF InStep
<1>6. /\ Contents \in Seq(Msg) /\ Len(Contents) = count
      /\ \A i \in 1 .. count : Contents[i] = slots[At(i - 1)]
  BY ContentsIsSeq
<1>7. Contents # << >> /\ Head(Contents) = Contents[1]
  BY <1>1, <1>6
<1>8. At(0) = head
  BY <1>1, Position DEF IInv
<1>9. Head(Contents) = slots[head] /\ lengths[head] = Size[slots[head]]
  <2>1. 1 \in 1 .. count /\ 1 - 1 = 0 /\ 0 \in 0 .. count - 1
    BY <1>1
  <2> QED
    BY <1>6, <1>7, <1>8, <2>1 DEF IInv, InStep
<1>10. Contents' = Tail(Contents)
  <2>1. /\ Contents' \in Seq(Msg) /\ Len(Contents') = count'
        /\ \A i \in 1 .. count' : Contents'[i] = slots'[(head' + (i - 1)) % Depth]
    <3>1. IInv'
      BY <1>2, <1>5 DEF IInv
    <3>2. (/\ Contents \in Seq(Msg) /\ Len(Contents) = count
           /\ \A i \in 1 .. count : Contents[i] = slots[At(i - 1)])'
      BY <3>1, ContentsIsSeq, PTL
    <3> QED
      BY <3>2 DEF At
  <2>2. /\ Tail(Contents) \in Seq(Msg) /\ Len(Tail(Contents)) = count - 1
        /\ \A i \in 1 .. count - 1 : Tail(Contents)[i] = Contents[i + 1]
    BY <1>6, <1>7, HeadTailProperties
  <2>3. ASSUME NEW i \in 1 .. count - 1 PROVE Contents'[i] = Tail(Contents)[i]
    <3>1. /\ i - 1 \in 0 .. count - 1 /\ i + 1 \in 1 .. count
          /\ (i - 1) + 1 = i /\ (i + 1) - 1 = i
      BY <1>1
    <3>2. Contents'[i] = slots[At(i)]
      BY <1>4, <2>1, <3>1
    <3> QED
      BY <1>6, <2>2, <3>1, <3>2
  <2> QED
    BY <2>1, <2>2, <2>3, SeqEqual
<1> QED
  BY <1>2, <1>5, <1>7, <1>9, <1>10 DEF IInv

-----------------------------------------------------------------------------
(* Calls that fail, and steps that do nothing, leave the queue alone. *)
LEMMA Untouched ==
  ASSUME IInv, UNCHANGED <<slots, lengths, head, tail, count>>
  PROVE  IInv' /\ UNCHANGED Contents
<1>1. TypeOK'
  BY DEF IInv, TypeOK
<1>2. InStep'
  BY DEF IInv, InStep, At
<1>3. Contents' = Contents
  BY DEF Contents
<1> QED
  BY <1>1, <1>2, <1>3 DEF IInv

(* The queue is empty exactly when count is zero, and full when it is Depth. *)
LEMMA ContentsLength ==
  ASSUME IInv
  PROVE  /\ Len(Contents) = count /\ count \in 0 .. Depth /\ Depth \in Nat \ {0}
         /\ count = 0 <=> Contents = << >>
<1>1. Contents \in Seq(Msg) /\ Len(Contents) = count /\ count \in 0 .. Depth
  BY ContentsIsSeq DEF IInv, TypeOK
<1> QED
  BY <1>1, EmptySeq, RingAssumption

(* A write is a write of the FIFO, a refused one included.                  *)
LEMMA WriteRefines ==
  ASSUME IInv, NEW m \in Msg, Write(m)
  PROVE  IInv' /\ Fifo!FifoWrite(m)
<1>1. /\ Len(Contents) = count /\ count \in 0 .. Depth /\ Depth \in Nat \ {0}
      /\ Size[m] \in Nat /\ SlotBytes \in Nat
  BY ContentsLength, RingAssumption
<1>2. CASE count >= Depth /\ result' = Failed("QueueFull")
             /\ UNCHANGED <<slots, lengths, head, tail, count>>
  BY <1>1, <1>2, Untouched DEF Fifo!FifoWrite, Failed, Fifo!Failed
<1>3. CASE count < Depth /\ Size[m] > SlotBytes /\ result' = Failed("BufferTooSmall")
             /\ UNCHANGED <<slots, lengths, head, tail, count>>
  BY <1>1, <1>3, Untouched DEF Fifo!FifoWrite, Failed, Fifo!Failed
<1>4. CASE /\ count < Depth /\ Size[m] <= SlotBytes
           /\ slots' = [slots EXCEPT ![tail] = m]
           /\ lengths' = [lengths EXCEPT ![tail] = Size[m]]
           /\ tail' = NextSlot(tail) /\ count' = count + 1
           /\ result' = Accepted /\ UNCHANGED head
  <2>1. IInv' /\ Contents' = Append(Contents, m)
    BY <1>4, AcceptedWrite
  <2> QED
    BY <1>1, <1>4, <2>1 DEF Fifo!FifoWrite, Accepted, Fifo!Accepted
<1> QED
  BY <1>2, <1>3, <1>4 DEF Write

(* A read is a read of the FIFO, a refused one included.                    *)
LEMMA ReadRefines ==
  ASSUME IInv, NEW room \in Rooms, Read(room)
  PROVE  IInv' /\ Fifo!FifoRead(room)
<1>1. /\ count \in 0 .. Depth /\ Depth \in Nat \ {0}
      /\ count = 0 <=> Contents = << >>
  BY ContentsLength
<1>2. CASE count = 0 /\ result' = Failed("Empty")
             /\ UNCHANGED <<slots, lengths, head, tail, count>>
  BY <1>1, <1>2, Untouched DEF Fifo!FifoRead, Failed, Fifo!Failed
<1>3. ASSUME count > 0 PROVE lengths[head] = Size[Head(Contents)] /\ slots[head] = Head(Contents)
  <2>1. 1 \in 1 .. count /\ 0 \in 0 .. count - 1 /\ 0 \in 0 .. Depth
    BY <1>1, <1>3
  <2>2. At(0) = head
    <3>1. head \in 0 .. Depth - 1
      BY DEF IInv, TypeOK, Slot
    <3> QED
      BY <1>1, <2>1, <3>1, Position DEF IInv
  <2>3. Contents \in Seq(Msg) /\ Contents # << >> /\ Contents[1] = slots[At(0)]
    BY <1>1, <1>3, <2>1, ContentsIsSeq
  <2> QED
    BY <2>1, <2>2, <2>3 DEF IInv, InStep
<1>4. CASE count > 0 /\ room < lengths[head] /\ result' = Failed("BufferTooSmall")
             /\ UNCHANGED <<slots, lengths, head, tail, count>>
  BY <1>1, <1>3, <1>4, Untouched DEF Fifo!FifoRead, Failed, Fifo!Failed
<1>5. CASE /\ count > 0 /\ room >= lengths[head]
           /\ result' = Delivered(slots[head], lengths[head])
           /\ head' = NextSlot(head) /\ count' = count - 1
           /\ UNCHANGED <<slots, lengths, tail>>
  <2>1. IInv' /\ Contents' = Tail(Contents)
    BY <1>5, DeliveringRead
  <2> QED
    BY <1>1, <1>3, <1>5, <2>1 DEF Fifo!FifoRead, Delivered, Fifo!Delivered
<1> QED
  BY <1>2, <1>4, <1>5 DEF Read

(* The inductive invariant, and every step as a step of the FIFO. *)
LEMMA StepRefines ==
  ASSUME IInv, [Next]_vars
  PROVE  IInv' /\ [Fifo!FifoNext]_(Fifo!fifoVars)
<1>1. ASSUME NEW m \in Msg, Write(m) PROVE IInv' /\ Fifo!FifoNext
  BY <1>1, WriteRefines DEF Fifo!FifoNext
<1>2. ASSUME NEW room \in Rooms, Read(room) PROVE IInv' /\ Fifo!FifoNext
  BY <1>2, ReadRefines DEF Fifo!FifoNext
<1>3. CASE UNCHANGED vars
  BY <1>3, Untouched DEF vars, Fifo!fifoVars
<1> QED
  BY <1>1, <1>2, <1>3 DEF Next

(* No index of the ring ever leaves its array, for every depth and every    *)
(* sequence of calls.                                                       *)
THEOREM TypeCorrect == Spec => []TypeOK
<1>1. IInv /\ [Next]_vars => IInv'
  BY StepRefines
<1>2. IInv => TypeOK
  BY DEF IInv
<1> QED
  BY InitHasIInv, <1>1, <1>2, PTL DEF Spec

(* The ring buffer of the partition backends is a bounded FIFO, for every   *)
(* depth, slot size, message length and reader buffer.                      *)
THEOREM RingIsAFifo == Spec => IsAFifo
<1>1. Init => Fifo!FifoInit
  <2> SUFFICES ASSUME Init PROVE Fifo!FifoInit
    OBVIOUS
  <2>1. IInv /\ count = 0 /\ result = Accepted
    BY InitHasIInv DEF Init
  <2> QED
    BY <2>1, ContentsLength DEF Fifo!FifoInit, Accepted, Fifo!Accepted
<1>2. IInv /\ [Next]_vars => IInv' /\ [Fifo!FifoNext]_(Fifo!fifoVars)
  BY StepRefines
<1> QED
  BY InitHasIInv, <1>1, <1>2, PTL DEF Spec, IsAFifo, Fifo!FifoSpec

-----------------------------------------------------------------------------
(* A behaviour of the sum is, for each unit, a behaviour of the unit: every  *)
(* step is one of its steps or leaves it as it is.                          *)
LEMMA UnitsSteps ==
  ASSUME [UnitsNext]_unitVars
  PROVE  /\ [Next]_vars
         /\ [Stream!StreamNext]_(Stream!streamVars)
         /\ [Poly!PolyNext]_(Poly!polyVars)
         /\ [Crc!NextByte]_(Crc!crcVars)
         /\ [Bench!Disturb]_(Bench!benchVars)
         /\ [Stores!StoreNext]_(Stores!storeVars)
         /\ [Kernels!KernelNext]_(Kernels!kernelVars)
         /\ [Map!MapNext]_(Map!mapVars)
         /\ [Gnss!RaimNext]_(Gnss!raimVars)
         /\ [Rotors!RotorNext]_(Rotors!rotorVars)
         /\ [Loop!PidNext]_(Loop!pidVars)
         /\ [Search!SearchNext]_(Search!searchVars)
<1>1. CASE UnitsNext
  <2>1. [Next]_vars
    BY <1>1 DEF UnitsNext, OthersWait
  <2>2. [Stream!StreamNext]_(Stream!streamVars)
    BY <1>1 DEF UnitsNext, OthersWait, Stream!streamVars
  <2>3. [Poly!PolyNext]_(Poly!polyVars)
    BY <1>1 DEF UnitsNext, OthersWait, Poly!polyVars
  <2>4. [Crc!NextByte]_(Crc!crcVars)
    BY <1>1 DEF UnitsNext, OthersWait, Crc!crcVars
  <2>5. [Bench!Disturb]_(Bench!benchVars)
    BY <1>1 DEF UnitsNext, OthersWait, Bench!benchVars
  <2>6. [Stores!StoreNext]_(Stores!storeVars)
    BY <1>1 DEF UnitsNext, OthersWait, Stores!storeVars
  <2>7. [Kernels!KernelNext]_(Kernels!kernelVars)
    BY <1>1 DEF UnitsNext, OthersWait, Kernels!kernelVars, Kernels!pikeVars, Kernels!vxVars
  <2>8. [Map!MapNext]_(Map!mapVars)
    BY <1>1 DEF UnitsNext, OthersWait, Map!mapVars
  <2>9. [Gnss!RaimNext]_(Gnss!raimVars)
    BY <1>1 DEF UnitsNext, OthersWait, Gnss!raimVars
  <2>10. [Rotors!RotorNext]_(Rotors!rotorVars)
    BY <1>1 DEF UnitsNext, OthersWait, Rotors!rotorVars
  <2>11. [Loop!PidNext]_(Loop!pidVars)
    BY <1>1 DEF UnitsNext, OthersWait, Loop!pidVars
  <2>12. [Search!SearchNext]_(Search!searchVars)
    BY <1>1 DEF UnitsNext, OthersWait, Search!searchVars
  <2> QED
    BY <2>1, <2>2, <2>3, <2>4, <2>5, <2>6, <2>7, <2>8, <2>9, <2>10, <2>11, <2>12
<1>2. CASE UNCHANGED unitVars
  BY <1>2 DEF unitVars, Stream!streamVars, Poly!polyVars, Crc!crcVars, Bench!benchVars, Stores!storeVars,
              Kernels!kernelVars, Kernels!pikeVars, Kernels!vxVars, Map!mapVars, Gnss!raimVars,
              Rotors!rotorVars, Loop!pidVars, Search!searchVars
<1> QED
  BY <1>1, <1>2

(* The ring of the sum is the bounded FIFO, too. *)
THEOREM UnitsQueueIsAFifo == UnitsSpec => IsAFifo
<1>1. UnitsInit => Init
  BY DEF UnitsInit
<1>2. [UnitsNext]_unitVars => [Next]_vars
  BY UnitsSteps
<1> QED
  BY <1>1, <1>2, RingIsAFifo, PTL DEF UnitsSpec, Spec

-----------------------------------------------------------------------------
(* Kernels.  Time is charged to a task while it runs and to its failure     *)
(* while it may not, never to both, so the two together are at most all the *)
(* time there was.                                                          *)
KernelTypeOK ==
  /\ health \in [RateGroups -> Kernels!PartitionHealth]
  /\ runnable \in [RateGroups -> BOOLEAN]
  /\ exec \in [RateGroups -> Nat] /\ failedFor \in [RateGroups -> Nat]
  /\ used \in [RateGroups -> Nat]
  /\ byHand \subseteq RateGroups
  /\ usedBytes \in 0 .. Authorised /\ now \in Nat

LeftToHealth == \A g \in RateGroups : g \notin byHand => (runnable[g] <=> health[g] # "Failed")
TimeIsShared == \A g \in RateGroups : exec[g] + failedFor[g] <= now /\ used[g] <= now

KernelInv == KernelTypeOK /\ LeftToHealth /\ TimeIsShared

(* Every kernel starts with its tasks left to their health and no time      *)
(* used.                                                                    *)
LEMMA KernelInitHolds == UnitsInit => KernelInv
<1> SUFFICES ASSUME UnitsInit PROVE KernelInv
  OBVIOUS
<1>1. Kernels!KernelInit
  BY DEF UnitsInit
<1>2. KernelTypeOK
  BY <1>1, KernelAssumption DEF KernelTypeOK, Kernels!PartitionHealth, Kernels!KernelInit,
        Kernels!PikeInit, Kernels!VxInit, Kernels!Sel4Init
<1>3. LeftToHealth
  BY <1>1 DEF LeftToHealth, Kernels!KernelInit, Kernels!VxInit
<1>4. TimeIsShared
  BY <1>1 DEF TimeIsShared, Kernels!KernelInit, Kernels!VxInit, Kernels!PikeInit
<1> QED
  BY <1>2, <1>3, <1>4 DEF KernelInv

(* Every call of a kernel keeps it so.                                      *)
LEMMA KernelStepHolds ==
  ASSUME KernelInv, [Kernels!KernelNext]_(Kernels!kernelVars)
  PROVE  KernelInv'
<1> USE DEF KernelInv
<1>1. ASSUME NEW modes, Kernels!SetModes(modes) PROVE KernelInv'
  BY <1>1 DEF KernelTypeOK, LeftToHealth, TimeIsShared, Kernels!SetModes, Kernels!vxVars
<1>2. ASSUME NEW g \in RateGroups, NEW st \in Kernels!PartitionHealth, Kernels!SetHealth(g, st)
      PROVE  KernelInv'
  <2>1. KernelTypeOK'
    BY <1>2 DEF KernelTypeOK, Kernels!SetHealth, Kernels!pikeVars
  <2>2. ASSUME NEW k \in RateGroups, k \notin byHand' PROVE runnable'[k] <=> health'[k] # "Failed"
    <3>1. CASE k = g
      BY <1>2, <3>1 DEF KernelTypeOK, Kernels!SetHealth
    <3>2. CASE k # g
      <4>1. k \notin byHand /\ runnable'[k] = runnable[k] /\ health'[k] = health[k]
        BY <1>2, <2>2, <3>2 DEF KernelTypeOK, Kernels!SetHealth
      <4> QED
        BY <4>1 DEF LeftToHealth
    <3> QED
      BY <3>1, <3>2
  <2>3. TimeIsShared'
    BY <1>2 DEF TimeIsShared, Kernels!SetHealth, Kernels!pikeVars
  <2> QED
    BY <2>1, <2>2, <2>3 DEF LeftToHealth
<1>3. ASSUME NEW g \in RateGroups, NEW on \in BOOLEAN, Kernels!SetRunnable(g, on) PROVE KernelInv'
  <2>1. KernelTypeOK'
    BY <1>3 DEF KernelTypeOK, Kernels!SetRunnable, Kernels!pikeVars
  <2>2. ASSUME NEW k \in RateGroups, k \notin byHand' PROVE runnable'[k] <=> health'[k] # "Failed"
    <3>1. k \notin byHand /\ runnable'[k] = runnable[k] /\ health'[k] = health[k]
      BY <1>3, <2>2 DEF KernelTypeOK, Kernels!SetRunnable
    <3> QED
      BY <3>1 DEF LeftToHealth
  <2>3. TimeIsShared'
    BY <1>3 DEF TimeIsShared, Kernels!SetRunnable, Kernels!pikeVars
  <2> QED
    BY <2>1, <2>2, <2>3 DEF LeftToHealth
<1>4. ASSUME NEW us \in Passes, Kernels!SchedulePikeOs(us) PROVE KernelInv'
  <2>1. us \in Nat /\ now \in Nat /\ now' = now + us
    BY <1>4, KernelAssumption DEF KernelTypeOK, Kernels!SchedulePikeOs, Kernels!Advance
  <2>2. used' = [g \in RateGroups |-> IF mode[g] = "Running" THEN used[g] + us ELSE used[g]]
    BY <1>4 DEF Kernels!SchedulePikeOs
  <2>3. UNCHANGED <<health, runnable, exec, byHand, failedFor, usedBytes>>
    BY <1>4 DEF Kernels!SchedulePikeOs, Kernels!vxVars
  <2>4. KernelTypeOK' /\ LeftToHealth'
    BY <2>1, <2>2, <2>3 DEF KernelTypeOK, LeftToHealth
  <2>5. TimeIsShared'
    BY <2>1, <2>2, <2>3 DEF KernelTypeOK, TimeIsShared
  <2> QED
    BY <2>4, <2>5
<1>5. ASSUME NEW us \in Passes, Kernels!ScheduleVxWorks(us) PROVE KernelInv'
  <2>1. us \in Nat /\ now \in Nat /\ now' = now + us
    BY <1>5, KernelAssumption DEF KernelTypeOK, Kernels!ScheduleVxWorks, Kernels!Advance
  <2>2. /\ exec' = [g \in RateGroups |-> IF runnable[g] THEN exec[g] + us ELSE exec[g]]
        /\ failedFor' = [g \in RateGroups |-> IF health[g] = "Failed" /\ g \notin byHand
                                              THEN failedFor[g] + us ELSE failedFor[g]]
    BY <1>5 DEF Kernels!ScheduleVxWorks
  <2>3. UNCHANGED <<health, runnable, byHand, used, usedBytes>>
    BY <1>5 DEF Kernels!ScheduleVxWorks, Kernels!pikeVars
  <2>4. KernelTypeOK' /\ LeftToHealth'
    BY <2>1, <2>2, <2>3 DEF KernelTypeOK, LeftToHealth
  <2>5. ASSUME NEW g \in RateGroups PROVE exec'[g] + failedFor'[g] <= now' /\ used'[g] <= now'
    <3>1. exec[g] \in Nat /\ failedFor[g] \in Nat /\ used[g] \in Nat
      BY DEF KernelTypeOK
    <3>2. exec[g] + failedFor[g] <= now /\ used[g] <= now
      BY DEF TimeIsShared
    <3>3. exec'[g] = exec[g] \/ (runnable[g] /\ exec'[g] = exec[g] + us)
      BY <2>2
    <3>4. \/ failedFor'[g] = failedFor[g]
          \/ health[g] = "Failed" /\ g \notin byHand /\ failedFor'[g] = failedFor[g] + us
      BY <2>2
    <3>5. ~(runnable[g] /\ health[g] = "Failed" /\ g \notin byHand)
      BY DEF LeftToHealth
    <3> QED
      BY <2>1, <2>3, <3>1, <3>2, <3>3, <3>4, <3>5
  <2> QED
    BY <2>4, <2>5 DEF TimeIsShared
<1>6. ASSUME NEW us \in Passes, Kernels!AdvanceSel4(us) PROVE KernelInv'
  <2>1. us \in Nat /\ now \in Nat /\ now' = now + us
    BY <1>6, KernelAssumption DEF KernelTypeOK, Kernels!AdvanceSel4, Kernels!Advance
  <2>2. UNCHANGED <<health, runnable, exec, byHand, failedFor, used, usedBytes>>
    BY <1>6 DEF Kernels!AdvanceSel4, Kernels!vxVars, Kernels!pikeVars
  <2> QED
    BY <2>1, <2>2 DEF KernelTypeOK, LeftToHealth, TimeIsShared
<1>7. ASSUME NEW bytes \in Sizes, Kernels!AccountAlloc(bytes) PROVE KernelInv'
  <2>1. UNCHANGED <<health, runnable, exec, byHand, failedFor, used, now>>
    BY <1>7 DEF Kernels!AccountAlloc, Kernels!vxVars, Kernels!pikeVars
  <2>2. usedBytes' \in 0 .. Authorised
    BY <1>7, KernelAssumption DEF KernelTypeOK, Kernels!AccountAlloc
  <2> QED
    BY <2>1, <2>2 DEF KernelTypeOK, LeftToHealth, TimeIsShared
<1>8. ASSUME Kernels!ResetPool PROVE KernelInv'
  <2>1. UNCHANGED <<health, runnable, exec, byHand, failedFor, used, now>> /\ usedBytes' = 0
    BY <1>8 DEF Kernels!ResetPool, Kernels!vxVars, Kernels!pikeVars
  <2> QED
    BY <2>1, KernelAssumption DEF KernelTypeOK, LeftToHealth, TimeIsShared
<1>9. ASSUME UNCHANGED Kernels!kernelVars PROVE KernelInv'
  <2>1. UNCHANGED <<health, runnable, exec, byHand, failedFor, used, usedBytes, now>>
    BY <1>9 DEF Kernels!kernelVars, Kernels!vxVars, Kernels!pikeVars
  <2> QED
    BY <2>1 DEF KernelTypeOK, LeftToHealth, TimeIsShared
<1>10. ASSUME Kernels!KernelNext PROVE KernelInv'
  <2>1. \A g \in RateGroups : Kernels!Start(g) \/ Kernels!Stop(g) => KernelInv'
    BY <1>1 DEF Kernels!Start, Kernels!Stop
  <2>2. Kernels!StartAll => KernelInv'
    BY <1>1 DEF Kernels!StartAll
  <2> QED
    BY <1>2, <1>3, <1>4, <1>5, <1>6, <1>7, <1>8, <1>10, <2>1, <2>2 DEF Kernels!KernelNext
<1> QED
  BY <1>9, <1>10

(* Tasks run as the health of their partitions allows, no time is charged   *)
(* twice, and no domain gets more memory than it is allowed, for every set  *)
(* of rate groups, every schedule and every budget.                         *)
THEOREM TasksRunByHealth == UnitsSpec => []TasksFollowHealth
<1>1. KernelInv => TasksFollowHealth
  <2> SUFFICES ASSUME KernelInv PROVE Kernels!TasksFollowHealth
    BY DEF TasksFollowHealth
  <2>1. \A g \in RateGroups \ byHand : runnable[g] <=> health[g] # "Failed"
    BY DEF KernelInv, LeftToHealth
  <2>2. Kernels!AllHealthy /\ byHand = {} => \A g \in RateGroups : runnable[g]
    BY DEF KernelInv, LeftToHealth, Kernels!AllHealthy
  <2>3. \A g \in RateGroups : exec[g] + failedFor[g] <= now /\ used[g] <= now
    BY DEF KernelInv, TimeIsShared
  <2>4. usedBytes <= Authorised
    BY KernelAssumption DEF KernelInv, KernelTypeOK
  <2> QED
    BY <2>1, <2>2, <2>3, <2>4 DEF Kernels!TasksFollowHealth
<1>2. KernelInv /\ [UnitsNext]_unitVars => KernelInv'
  BY UnitsSteps, KernelStepHolds
<1> QED
  BY KernelInitHolds, <1>1, <1>2, PTL DEF UnitsSpec

-----------------------------------------------------------------------------
(* The controller.  Its clamp and the push of its derivative. *)
LEMMA ClampIs ==
  ASSUME NEW v \in Int, NEW lo \in Int, NEW hi \in Int, lo <= hi
  PROVE  Loop!Clamped(v, lo, hi) = IF v < lo THEN lo ELSE IF v > hi THEN hi ELSE v
<1>1. ASSUME NEW a \in Int, NEW b \in Int PROVE Loop!Min({a, b}) = IF a <= b THEN a ELSE b
  BY DEF Loop!Min
<1>2. ASSUME NEW a \in Int, NEW b \in Int PROVE Loop!Max({a, b}) = IF a <= b THEN b ELSE a
  BY DEF Loop!Max
<1> DEFINE w == IF hi <= v THEN hi ELSE v
<1>3. Loop!Min({hi, v}) = w /\ w \in Int
  BY <1>1
<1>4. Loop!Clamped(v, lo, hi) = Loop!Max({lo, w})
  BY <1>3 DEF Loop!Clamped
<1>5. Loop!Max({lo, w}) = IF lo <= w THEN w ELSE lo
  BY <1>2, <1>3
<1> QED
  BY <1>4, <1>5

(* The output is clamped to its stops.                                      *)
LEMMA BoundedIs ==
  ASSUME NEW v \in Int
  PROVE  Loop!Bounded(v) = IF v < OutputMin THEN OutputMin ELSE IF v > OutputMax THEN OutputMax ELSE v
BY ClampIs, PidAssumption DEF Loop!Bounded

(* A quotient is no larger than what is divided. *)
LEMMA QuotientIsSmaller ==
  ASSUME NEW x \in Int, NEW d \in Nat \ {0}, NEW m \in Nat, -m <= x, x <= m
  PROVE  x \div d \in Int /\ -m <= x \div d /\ x \div d <= m
<1> DEFINE q == x \div d
<1>1. q \in Int /\ d * q <= x /\ x < d * q + d
  OBVIOUS
<1> HIDE DEF q
<1>2. q <= m
  <2> SUFFICES ASSUME q >= m + 1 PROVE FALSE
    BY <1>1
  <2>1. d * q = q + (d - 1) * q /\ (d - 1) * q >= 0
    BY <1>1
  <2> QED
    BY <1>1, <2>1
<1>3. -m <= q
  <2> SUFFICES ASSUME q + 1 <= -m PROVE FALSE
    BY <1>1
  <2>1. d * (q + 1) = d * q + d /\ d * (q + 1) = (q + 1) + (d - 1) * (q + 1)
    BY <1>1
  <2>2. (d - 1) * (q + 1) <= 0
    <3>1. d - 1 \in Nat /\ -(q + 1) \in Nat
      BY <1>1
    <3>2. (d - 1) * (-(q + 1)) \in Nat
      BY <3>1
    <3>3. (d - 1) * (-(q + 1)) = -((d - 1) * (q + 1))
      BY <1>1
    <3> QED
      BY <1>1, <3>2, <3>3
  <2> QED
    BY <1>1, <2>1, <2>2
<1> QED
  BY <1>1, <1>2, <1>3 DEF q

(* The derivative pushes no harder than MaxPush, between any two            *)
(* measurements.                                                            *)
LEMMA PushIsBounded ==
  /\ Loop!MaxPush \in Nat
  /\ \A m \in Measurements, p \in Measurements, dt \in Nat \ {0} :
       /\ (Kd * (m - p)) \div dt \in Int
       /\ -Loop!MaxPush <= (Kd * (m - p)) \div dt /\ (Kd * (m - p)) \div dt <= Loop!MaxPush
<1> DEFINE top == Loop!Max(Measurements)
           low == Loop!Min(Measurements)
<1>1. \E x \in Measurements : \A y \in Measurements : x >= y
  <2>1. PICK x \in Measurements : \A y \in Measurements : y <= x
    BY Extremes, PidAssumption
  <2> QED
    BY <2>1, PidAssumption
<1>2. \E x \in Measurements : \A y \in Measurements : x =< y
  BY Extremes, PidAssumption
<1>3. top \in Measurements /\ \A y \in Measurements : top >= y
  BY <1>1 DEF Loop!Max
<1>4. low \in Measurements /\ \A y \in Measurements : low =< y
  BY <1>2 DEF Loop!Min
<1>5. Loop!MaxPush = Kd * (top - low)
  BY DEF Loop!MaxPush
<1> HIDE DEF top, low
<1>6. top - low \in Nat /\ Loop!MaxPush \in Nat
  BY <1>3, <1>4, <1>5, PidAssumption
<1>7. ASSUME NEW m \in Measurements, NEW p \in Measurements, NEW dt \in Nat \ {0}
      PROVE  /\ (Kd * (m - p)) \div dt \in Int
             /\ -Loop!MaxPush <= (Kd * (m - p)) \div dt
             /\ (Kd * (m - p)) \div dt <= Loop!MaxPush
  <2>1. /\ m \in Int /\ p \in Int /\ Kd \in Nat /\ top \in Int /\ low \in Int
        /\ m <= top /\ p <= top /\ low <= m /\ low <= p
    BY <1>3, <1>4, PidAssumption
  <2>2. (top - low) - (m - p) \in Nat /\ (top - low) + (m - p) \in Nat
    BY <2>1
  <2>3. Kd * ((top - low) - (m - p)) \in Nat /\ Kd * ((top - low) + (m - p)) \in Nat
    BY <2>1, <2>2
  <2>4. /\ Kd * ((top - low) - (m - p)) = Loop!MaxPush - Kd * (m - p)
        /\ Kd * ((top - low) + (m - p)) = Loop!MaxPush + Kd * (m - p)
    BY <1>5, <2>1
  <2>5. Kd * (m - p) \in Int
    BY <2>1
  <2>6. -Loop!MaxPush <= Kd * (m - p) /\ Kd * (m - p) <= Loop!MaxPush
    BY <1>6, <2>3, <2>4, <2>5
  <2> QED
    BY <1>6, <2>5, <2>6, QuotientIsSmaller
<1> QED
  BY <1>6, <1>7

(* Integration: with the error e it goes towards e, at most as far as the   *)
(* proportional part does, and not at all while the output is at the stop   *)
(* that e points to.  Which of the bounds the output can then reach depends *)
(* on whether the derivative pushed.                                        *)
PidInv ==
  /\ output \in OutputMin .. OutputMax
  /\ integral \in -IntegralLimit .. IntegralLimit
  /\ integral \in OutputMin - Loop!MaxPush .. OutputMax + Loop!MaxPush
  /\ ~moved => integral \in OutputMin .. OutputMax
  /\ ~moved /\ lastError < 0 => output < OutputMax
  /\ ~moved /\ lastError > 0 => output > OutputMin
  /\ lastError \in Int /\ moved \in BOOLEAN
  /\ initialized => prevMeasurement \in Measurements

(* The gains at work: the integral moves no further than Kp e. *)
LEMMA IntegralIsSlower ==
  ASSUME NEW e \in Int, NEW dt \in Dts, dt > 0
  PROVE  /\ Ki * e * dt \in Int /\ Kp * e \in Int
         /\ e > 0 => 0 <= Ki * e * dt /\ Ki * e * dt <= Kp * e /\ 0 < Kp * e
         /\ e < 0 => Ki * e * dt <= 0 /\ Kp * e <= Ki * e * dt /\ Kp * e < 0
         /\ e = 0 => Ki * e * dt = 0 /\ Kp * e = 0
<1>1. /\ dt \in Nat /\ Ki \in Nat /\ Kp \in Nat \ {0} /\ Ki * dt \in Nat
      /\ Kp - Ki * dt \in Nat
  BY PidAssumption
<1>2. Ki * e * dt = (Ki * dt) * e
  BY <1>1
<1> DEFINE k == Ki * dt
<1>3. k \in Nat /\ Kp - k \in Nat
  BY <1>1
<1> HIDE DEF k
<1>4. Kp * e = k * e + (Kp - k) * e
  BY <1>1, <1>3
<1>5. e > 0 => k * e >= 0 /\ (Kp - k) * e >= 0 /\ Kp * e > 0
  BY <1>1, <1>3
<1>6. e < 0 => k * e <= 0 /\ (Kp - k) * e <= 0 /\ Kp * e < 0
  <2> SUFFICES ASSUME e < 0 PROVE k * e <= 0 /\ (Kp - k) * e <= 0 /\ Kp * e < 0
    OBVIOUS
  <2>1. -e \in Nat \ {0}
    OBVIOUS
  <2>2. k * (-e) \in Nat /\ (Kp - k) * (-e) \in Nat /\ Kp * (-e) > 0
    BY <1>1, <1>3, <2>1
  <2>3. k * (-e) = -(k * e) /\ (Kp - k) * (-e) = -((Kp - k) * e) /\ Kp * (-e) = -(Kp * e)
    BY <1>1, <1>3
  <2>4. k * e \in Int /\ (Kp - k) * e \in Int /\ Kp * e \in Int
    BY <1>1, <1>3
  <2> QED
    BY <2>2, <2>3, <2>4
<1>7. k * e \in Int /\ (Kp - k) * e \in Int /\ Kp * e \in Int
  BY <1>1, <1>3
<1>8. Ki * e * dt = k * e
  BY <1>2 DEF k
<1>9. e = 0 => k * e = 0 /\ (Kp - k) * e = 0
  BY <1>1, <1>3
<1> DEFINE a == k * e
           b == (Kp - k) * e
<1>10. /\ a \in Int /\ b \in Int /\ Kp * e = a + b /\ Ki * e * dt = a
       /\ (e > 0 => a >= 0 /\ b >= 0 /\ Kp * e > 0)
       /\ (e < 0 => a <= 0 /\ b <= 0 /\ Kp * e < 0)
       /\ (e = 0 => a = 0 /\ b = 0)
  BY <1>4, <1>5, <1>6, <1>7, <1>8, <1>9
<1> HIDE DEF a, b
<1> QED
  BY <1>10

(* One update, with P, I and D for its parts. *)
LEMMA IntegralStaysShort ==
  ASSUME NEW e \in Int, NEW dt \in Dts, dt > 0, NEW i \in Int, NEW d \in Int,
         i \in -IntegralLimit .. IntegralLimit,
         NEW slack \in Nat, -slack <= d, d <= slack,
         i \in OutputMin - slack .. OutputMax + slack,
         NEW j, j = IF Loop!WouldWorsen(Loop!Bounded(Kp * e + i + d), e) THEN i
                    ELSE Loop!Clamped(i + Ki * e * dt, -IntegralLimit, IntegralLimit)
  PROVE  /\ j \in Int
         /\ j \in -IntegralLimit .. IntegralLimit
         /\ j \in OutputMin - slack .. OutputMax + slack
         /\ Loop!Bounded(Kp * e + j + d) \in OutputMin .. OutputMax
         /\ d = 0 /\ i \in OutputMin .. OutputMax =>
              /\ j \in OutputMin .. OutputMax
              /\ e < 0 => Loop!Bounded(Kp * e + j + d) < OutputMax
              /\ e > 0 => Loop!Bounded(Kp * e + j + d) > OutputMin
<1> DEFINE P == Kp * e
           S == Ki * e * dt
<1>1. /\ P \in Int /\ S \in Int
      /\ e > 0 => 0 <= S /\ S <= P /\ 0 < P
      /\ e < 0 => S <= 0 /\ P <= S /\ P < 0
      /\ e = 0 => S = 0 /\ P = 0
  BY IntegralIsSlower
<1> HIDE DEF P, S
<1>2. /\ OutputMin \in Int /\ OutputMax \in Int /\ OutputMin < 0 /\ 0 < OutputMax
      /\ IntegralLimit \in Nat /\ -IntegralLimit \in Int /\ -IntegralLimit <= IntegralLimit
  BY PidAssumption
<1>3. \A v \in Int : Loop!Bounded(v) = IF v < OutputMin THEN OutputMin
                                       ELSE IF v > OutputMax THEN OutputMax ELSE v
  BY BoundedIs
<1>4. Loop!Clamped(i + S, -IntegralLimit, IntegralLimit)
        = IF i + S < -IntegralLimit THEN -IntegralLimit
          ELSE IF i + S > IntegralLimit THEN IntegralLimit ELSE i + S
  BY <1>1, <1>2, ClampIs
<1> DEFINE worse == (P + i + d >= OutputMax /\ e > 0) \/ (P + i + d <= OutputMin /\ e < 0)
<1>5. Loop!WouldWorsen(Loop!Bounded(P + i + d), e) <=> worse
  BY <1>1, <1>2, <1>3 DEF Loop!WouldWorsen
<1>6. j = IF worse THEN i ELSE Loop!Clamped(i + S, -IntegralLimit, IntegralLimit)
  BY <1>5 DEF P, S
<1>7. /\ j \in Int /\ j \in -IntegralLimit .. IntegralLimit
      /\ e > 0 => i <= j /\ j <= i + S
      /\ e < 0 => j <= i /\ i + S <= j
      /\ e = 0 => j = i
      /\ worse => j = i
  BY <1>1, <1>2, <1>4, <1>6
<1>8. Loop!Bounded(P + j + d) = IF P + j + d < OutputMin THEN OutputMin
                                ELSE IF P + j + d > OutputMax THEN OutputMax ELSE P + j + d
  BY <1>1, <1>3, <1>7
<1>9. j \in OutputMin - slack .. OutputMax + slack
  BY <1>1, <1>2, <1>7
<1>10. Loop!Bounded(P + j + d) \in OutputMin .. OutputMax
  BY <1>1, <1>2, <1>7, <1>8
<1>11. ASSUME d = 0, i \in OutputMin .. OutputMax
       PROVE  /\ j \in OutputMin .. OutputMax
              /\ e < 0 => Loop!Bounded(P + j + d) < OutputMax
              /\ e > 0 => Loop!Bounded(P + j + d) > OutputMin
  <2>1. j \in OutputMin .. OutputMax
    BY <1>1, <1>2, <1>7, <1>11
  <2> QED
    BY <1>1, <1>2, <1>8, <1>11, <2>1
<1> QED
  BY <1>7, <1>9, <1>10, <1>11 DEF P

(* Every update and every reset keeps the invariant of the controller.      *)
LEMMA PidStepHolds ==
  ASSUME PidInv, [Loop!PidNext]_(Loop!pidVars)
  PROVE  PidInv'
<1>1. UNCHANGED Loop!MaxPush /\ Loop!MaxPush \in Nat
  BY PushIsBounded DEF Loop!MaxPush
<1>2. ASSUME NEW e \in Errors, NEW m \in Measurements, NEW dt \in Dts, Loop!Update(e, m, dt)
      PROVE  PidInv'
  <2>1. e \in Int /\ dt \in Int /\ m \in Int /\ Kp * e \in Int /\ Kp \in Nat \ {0}
    BY PidAssumption
  <2>2. CASE dt <= 0
    <3>1. /\ output' = Loop!Bounded(Kp * e) /\ lastError' = e
          /\ UNCHANGED <<integral, prevMeasurement, initialized, moved>>
      BY <1>2, <2>2 DEF Loop!Update
    <3>2. output' = IF Kp * e < OutputMin THEN OutputMin
                    ELSE IF Kp * e > OutputMax THEN OutputMax ELSE Kp * e
      BY <2>1, <3>1, BoundedIs
    <3>3. (e < 0 => Kp * e <= 0) /\ (e > 0 => Kp * e >= 0)
      <4>1. e < 0 => Kp * (-e) \in Nat
        BY <2>1
      <4>2. Kp * (-e) = -(Kp * e)
        BY <2>1
      <4>3. e > 0 => Kp * e \in Nat
        BY <2>1
      <4> QED
        BY <2>1, <4>1, <4>2, <4>3
    <3>4. /\ output' \in OutputMin .. OutputMax
          /\ e < 0 => output' < OutputMax
          /\ e > 0 => output' > OutputMin
      BY <2>1, <3>2, <3>3, PidAssumption
    <3> QED
      BY <1>1, <2>1, <3>1, <3>4 DEF PidInv
  <2>3. CASE ~(dt <= 0)
    <3> DEFINE d == IF initialized THEN -((Kd * (m - prevMeasurement)) \div dt) ELSE 0
    <3>1. /\ integral' = Loop!Integrated(e, d, dt)
          /\ output' = Loop!Bounded(Kp * e + integral' + d)
          /\ prevMeasurement' = m /\ initialized' = TRUE /\ lastError' = e
          /\ moved' = (moved \/ d # 0)
      BY <1>2, <2>3 DEF Loop!Update
    <3>2. dt \in Nat \ {0} /\ dt > 0
      BY <2>1, <2>3
    <3>3. d \in Int /\ -Loop!MaxPush <= d /\ d <= Loop!MaxPush
      <4>1. CASE initialized
        <5>1. prevMeasurement \in Measurements
          BY <4>1 DEF PidInv
        <5> DEFINE q == (Kd * (m - prevMeasurement)) \div dt
        <5>2. q \in Int /\ -Loop!MaxPush <= q /\ q <= Loop!MaxPush
          BY <3>2, <5>1, PushIsBounded
        <5> HIDE DEF q
        <5>3. d = -q
          BY <4>1 DEF q
        <5> QED
          BY <1>1, <5>2, <5>3
      <4>2. CASE ~initialized
        BY <1>1, <4>2
      <4> QED
        BY <4>1, <4>2
    <3> HIDE DEF d
    <3>4. /\ integral \in Int /\ integral \in -IntegralLimit .. IntegralLimit
          /\ integral \in OutputMin - Loop!MaxPush .. OutputMax + Loop!MaxPush
      BY PidAssumption DEF PidInv
    <3>5. integral' = IF Loop!WouldWorsen(Loop!Bounded(Kp * e + integral + d), e) THEN integral
                      ELSE Loop!Clamped(integral + Ki * e * dt, -IntegralLimit, IntegralLimit)
      BY <3>1 DEF Loop!Integrated
    <3>6. /\ integral' \in Int
          /\ integral' \in -IntegralLimit .. IntegralLimit
          /\ integral' \in OutputMin - Loop!MaxPush .. OutputMax + Loop!MaxPush
          /\ output' \in OutputMin .. OutputMax
          /\ d = 0 /\ integral \in OutputMin .. OutputMax =>
               /\ integral' \in OutputMin .. OutputMax
               /\ e < 0 => output' < OutputMax
               /\ e > 0 => output' > OutputMin
      BY <1>1, <2>1, <3>1, <3>2, <3>3, <3>4, <3>5, IntegralStaysShort
    <3>7. ~moved' => d = 0 /\ integral \in OutputMin .. OutputMax
      BY <3>1 DEF PidInv
    <3>8. moved' \in BOOLEAN
      BY <3>1 DEF PidInv
    <3> QED
      BY <1>1, <2>1, <3>1, <3>6, <3>7, <3>8 DEF PidInv
  <2> QED
    BY <2>2, <2>3
<1>3. ASSUME Loop!Reset PROVE PidInv'
  <2>1. 0 \in OutputMin .. OutputMax /\ 0 \in -IntegralLimit .. IntegralLimit
        /\ 0 \in OutputMin - Loop!MaxPush .. OutputMax + Loop!MaxPush
    BY <1>1, PidAssumption
  <2>2. /\ integral' = 0 /\ initialized' = FALSE /\ moved' = FALSE /\ lastError' = 0
        /\ output' = output /\ output \in OutputMin .. OutputMax
    BY <1>3 DEF PidInv, Loop!Reset
  <2>3. ~(lastError' < 0) /\ ~(lastError' > 0)
    BY <2>2
  <2>4. /\ integral' \in -IntegralLimit .. IntegralLimit /\ integral' \in OutputMin .. OutputMax
        /\ integral' \in OutputMin - Loop!MaxPush .. OutputMax + Loop!MaxPush
    BY <2>1, <2>2, Zenon
  <2>5. moved' \in BOOLEAN /\ ~initialized'
    BY <2>2, Zenon
  <2>6. lastError' \in Int
    BY <2>2
  <2> QED
    BY <1>1, <2>2, <2>3, <2>4, <2>5, <2>6, Zenon DEF PidInv
<1>4. ASSUME UNCHANGED Loop!pidVars PROVE PidInv'
  BY <1>1, <1>4 DEF PidInv, Loop!pidVars
<1> QED
  BY <1>2, <1>3, <1>4 DEF Loop!PidNext

(* However long an error holds the output at a stop, the integral stays     *)
(* within a derivative's push of the stops, for all gains and stops with    *)
(* PidAssumption and every sequence of calls.                               *)
THEOREM ControllerDoesNotWindUp == UnitsSpec => []WindupIsShort
<1>1. UnitsInit => PidInv
  <2> SUFFICES ASSUME UnitsInit PROVE PidInv
    OBVIOUS
  <2>1. /\ integral = 0 /\ prevMeasurement = 0 /\ initialized = FALSE
        /\ output = 0 /\ lastError = 0 /\ moved = FALSE
    BY DEF UnitsInit, Loop!PidInit
  <2>2. 0 \in OutputMin .. OutputMax /\ 0 \in -IntegralLimit .. IntegralLimit
        /\ 0 \in OutputMin - Loop!MaxPush .. OutputMax + Loop!MaxPush
    BY PushIsBounded, PidAssumption
  <2>3. ~(lastError < 0) /\ ~(lastError > 0)
    BY <2>1
  <2>4. /\ output \in OutputMin .. OutputMax
        /\ integral \in -IntegralLimit .. IntegralLimit /\ integral \in OutputMin .. OutputMax
        /\ integral \in OutputMin - Loop!MaxPush .. OutputMax + Loop!MaxPush
    BY <2>1, <2>2, PidAssumption
  <2>5. moved \in BOOLEAN /\ ~initialized
    BY <2>1, Zenon
  <2>6. lastError \in Int
    BY <2>1
  <2> QED
    BY <2>3, <2>4, <2>5, <2>6, Zenon DEF PidInv
<1>2. PidInv /\ [UnitsNext]_unitVars => PidInv'
  BY UnitsSteps, PidStepHolds
<1>3. PidInv => WindupIsShort
  BY DEF PidInv, WindupIsShort, Loop!WindupIsShort
<1> QED
  BY <1>1, <1>2, <1>3, PTL DEF UnitsSpec

-----------------------------------------------------------------------------
(* The integrity check.  The sum of a sequence, and what is left of it when *)
(* one member is taken out.                                                 *)
LEMMA GnssSum ==
  ASSUME NEW s
  PROVE  Gnss!SumFunction(s) = SumFunctionOnSet(s, DOMAIN s)
BY Zenon DEF Gnss!SumFunction, Gnss!SumFunctionOnSet, Gnss!FoldFunctionOnSet, Gnss!MapThenFoldSet,
   SumFunctionOnSet, FoldFunctionOnSet, MapThenFoldSet

(* A sum is one of its members and the sum of the others.                   *)
LEMMA TakeOut ==
  ASSUME NEW I, IsFiniteSet(I), NEW x \in I, NEW f, \A i \in I : f[i] \in Int
  PROVE  SumFunctionOnSet(f, I) = f[x] + SumFunctionOnSet([i \in I |-> IF i = x THEN 0 ELSE f[i]], I)
<1> DEFINE spike == [i \in I |-> IF i = x THEN f[x] ELSE 0]
           rest == [i \in I |-> IF i = x THEN 0 ELSE f[i]]
<1>1. \A i \in I : spike[i] = IF i = x THEN f[x] ELSE 0
  OBVIOUS
<1>2. \A i \in I : rest[i] = IF i = x THEN 0 ELSE f[i]
  OBVIOUS
<1> HIDE DEF spike, rest
<1>3. SumFunctionOnSet(spike, I) = f[x]
  BY <1>1, SumSpike
<1>4. \A i \in I : spike[i] \in Int /\ rest[i] \in Int /\ f[i] = spike[i] + rest[i]
  BY <1>1, <1>2
<1>5. SumFunctionOnSet(f, I) = SumFunctionOnSet(spike, I) + SumFunctionOnSet(rest, I)
  BY <1>4, SumAdd
<1> QED
  BY <1>3, <1>5 DEF rest

(* Members between two bounds have their sum between multiples of them.     *)
LEMMA SumIsBetween ==
  ASSUME NEW n \in Nat, NEW f, NEW lo \in Int, NEW hi \in Int,
         \A i \in 1 .. n : f[i] \in Int /\ lo <= f[i] /\ f[i] <= hi
  PROVE  /\ SumFunctionOnSet(f, 1 .. n) \in Int
         /\ lo * n <= SumFunctionOnSet(f, 1 .. n) /\ SumFunctionOnSet(f, 1 .. n) <= hi * n
<1> DEFINE I == 1 .. n
           low == [i \in I |-> lo]
           high == [i \in I |-> hi]
<1>1. IsFiniteSet(I) /\ Cardinality(I) = n
  BY FS_Interval
<1>2. \A i \in I : low[i] = lo /\ high[i] = hi
  OBVIOUS
<1> HIDE DEF low, high
<1>3. \A i \in I : low[i] \in Int /\ f[i] \in Int /\ high[i] \in Int /\ low[i] <= f[i] /\ f[i] <= high[i]
  BY <1>2
<1> HIDE DEF I
<1>4. SumFunctionOnSet(low, I) = lo * n /\ SumFunctionOnSet(high, I) = hi * n
  BY <1>1, <1>2, SumConst
<1>5. SumFunctionOnSet(f, I) \in Int
  BY <1>1, <1>3, SumType
<1>6. SumFunctionOnSet(low, I) <= SumFunctionOnSet(f, I)
  BY <1>1, <1>3, SumLe
<1>7. SumFunctionOnSet(f, I) <= SumFunctionOnSet(high, I)
  BY <1>1, <1>3, SumLe
<1> QED
  BY <1>4, <1>5, <1>6, <1>7 DEF I

(* The distances from the centroid.                                         *)
LEMMA DistanceIs ==
  ASSUME NEW n \in Nat, NEW s \in [1 .. n -> Int], NEW i \in 1 .. n
  PROVE  LET off == n * s[i] - SumFunctionOnSet(s, 1 .. n)
         IN  /\ off \in Int /\ SumFunctionOnSet(s, 1 .. n) \in Int
             /\ Gnss!Distance(s, i) = IF off >= 0 THEN off ELSE -off
             /\ Gnss!Distance(s, i) \in Nat
<1> DEFINE off == n * s[i] - SumFunctionOnSet(s, 1 .. n)
<1>1. SumFunctionOnSet(s, 1 .. n) \in Int
  BY SumType, FS_Interval
<1>2. s[i] \in Int /\ n * s[i] \in Int
  OBVIOUS
<1>3. off \in Int
  BY <1>1, <1>2
<1>4. DOMAIN s = 1 .. n /\ Len(s) = n
  OBVIOUS
<1>5. Gnss!Distance(s, i) = Gnss!Max({off, -off})
  BY <1>4, GnssSum DEF Gnss!Distance
<1> HIDE DEF off
<1>6. Gnss!Max({off, -off}) = IF off >= 0 THEN off ELSE -off
  BY <1>3 DEF Gnss!Max
<1> QED
  BY <1>1, <1>3, <1>5, <1>6 DEF off

(* The index check() looks at is one of the sequence, and none is farther.  *)
LEMMA WorstIsFarthest ==
  ASSUME NEW n \in Nat \ {0}, NEW s \in [1 .. n -> Int]
  PROVE  /\ Gnss!Worst(s) \in 1 .. n
         /\ \A j \in 1 .. n : Gnss!Distance(s, j) <= Gnss!Distance(s, Gnss!Worst(s))
<1> DEFINE d == [i \in 1 .. n |-> Gnss!Distance(s, i)]
           D == {d[i] : i \in 1 .. n}
           far == {i \in DOMAIN s : \A j \in DOMAIN s : Gnss!Distance(s, j) <= Gnss!Distance(s, i)}
<1>1. \A i \in 1 .. n : Gnss!Distance(s, i) \in Nat /\ d[i] = Gnss!Distance(s, i)
  BY DistanceIs
<1> HIDE DEF d
<1>2. IsFiniteSet(D)
  <2>1. IsFiniteSet(1 .. n)
    BY FS_Interval
  <2> QED
    BY <2>1, ImageIsFinite
<1>3. D \in SUBSET Int /\ D # {}
  BY <1>1
<1>4. PICK m \in D : \A x \in D : x <= m
  BY <1>2, <1>3, Extremes
<1>5. PICK i \in 1 .. n : m = d[i]
  BY <1>4
<1>6. i \in far
  BY <1>1, <1>4, <1>5
<1>7. far \in SUBSET Nat /\ far # {}
  BY <1>6, SMTT(30)
<1>8. \E k \in far : \A j \in far : k <= j
  BY <1>7, Least
<1> HIDE DEF far
<1>9. Gnss!Min(far) \in far
  BY <1>8 DEF Gnss!Min
<1>10. Gnss!Worst(s) = Gnss!Min(far)
  BY DEF Gnss!Worst, far
<1> QED
  BY <1>9, <1>10 DEF far

(* Honest receivers are no farther apart than the threshold. *)
LEMMA HonestAgree ==
  ASSUME NEW n \in Nat \ {0}, NEW s \in [1 .. n -> Int], NEW error \in Nat,
         2 * error <= Threshold, Threshold \in Nat, \A i \in 1 .. n : s[i] \in -error .. error,
         NEW i \in 1 .. n
  PROVE  ~(Gnss!Distance(s, i) > Threshold * n)
<1> DEFINE total == SumFunctionOnSet(s, 1 .. n)
           v == s[i]
<1>1. v \in Int
  OBVIOUS
<1>2. \A k \in 1 .. n : s[k] \in Int /\ v - 2 * error <= s[k] /\ s[k] <= v + 2 * error
  OBVIOUS
<1>3. Gnss!Distance(s, i) = IF n * v - total >= 0 THEN n * v - total ELSE -(n * v - total)
  BY DistanceIs
<1> HIDE DEF v, total
<1>4. total \in Int /\ (v - 2 * error) * n <= total /\ total <= (v + 2 * error) * n
  <2> DEFINE lo == v - 2 * error
             hi == v + 2 * error
  <2>1. lo \in Int /\ hi \in Int
    BY <1>1
  <2>2. \A k \in 1 .. n : s[k] \in Int /\ lo <= s[k] /\ s[k] <= hi
    BY <1>2
  <2> HIDE DEF lo, hi
  <2>3. total \in Int /\ lo * n <= total /\ total <= hi * n
    BY <2>1, <2>2, SumIsBetween DEF total
  <2> QED
    BY <2>3 DEF lo, hi
<1>5. /\ (v - 2 * error) * n = n * v - (2 * error) * n
      /\ (v + 2 * error) * n = n * v + (2 * error) * n
  BY <1>1
<1>6. (Threshold - 2 * error) * n \in Nat
      /\ (Threshold - 2 * error) * n = Threshold * n - (2 * error) * n
  OBVIOUS
<1> DEFINE a == n * v
           b == (2 * error) * n
           c == Threshold * n
<1>7. a \in Int /\ b \in Int /\ c \in Int
  BY <1>1
<1>8. a - b <= total /\ total <= a + b /\ b <= c
  BY <1>4, <1>5, <1>6, <1>7
<1>9. Gnss!Distance(s, i) = IF a - total >= 0 THEN a - total ELSE -(a - total)
  BY <1>3
<1> HIDE DEF a, b, c
<1>10. ~(Gnss!Distance(s, i) > c)
  BY <1>4, <1>7, <1>8, <1>9
<1> QED
  BY <1>10 DEF c

(* Sums of a constant of which one and two members are left out.            *)
LEMMA ConstButOne ==
  ASSUME NEW n \in Nat, NEW c \in Int, NEW x \in 1 .. n, NEW f,
         \A i \in 1 .. n : f[i] = IF i = x THEN 0 ELSE c
  PROVE  SumFunctionOnSet(f, 1 .. n) = c * n - c
<1> DEFINE I == 1 .. n
           all == [i \in I |-> c]
           spike == [i \in I |-> IF i = x THEN -c ELSE 0]
<1>1. IsFiniteSet(I) /\ Cardinality(I) = n /\ x \in I /\ -c \in Int /\ c * n \in Int
  BY FS_Interval
<1>2. \A i \in I : all[i] = c
  OBVIOUS
<1>3. \A i \in I : spike[i] = IF i = x THEN -c ELSE 0
  OBVIOUS
<1>4. \A i \in I : all[i] \in Int /\ spike[i] \in Int /\ f[i] = all[i] + spike[i]
  OBVIOUS
<1> HIDE DEF I, all, spike
<1>5. SumFunctionOnSet(all, I) = c * n
  BY <1>1, <1>2, SumConst
<1>6. SumFunctionOnSet(spike, I) = -c
  BY <1>1, <1>3, SumSpike
<1>7. SumFunctionOnSet(f, I) = SumFunctionOnSet(all, I) + SumFunctionOnSet(spike, I)
  BY <1>1, <1>4, SumAdd
<1>8. SumFunctionOnSet(f, I) = c * n - c
  BY <1>1, <1>5, <1>6, <1>7
<1> QED
  BY <1>8 DEF I

(* The sum of equal members but for two that are zero.                      *)
LEMMA ConstButTwo ==
  ASSUME NEW n \in Nat, NEW c \in Int, NEW x \in 1 .. n, NEW y \in 1 .. n, y # x
  PROVE  SumFunctionOnSet([i \in 1 .. n |-> IF i = x \/ i = y THEN 0 ELSE c], 1 .. n) = c * n - 2 * c
<1> DEFINE I == 1 .. n
           f == [i \in I |-> IF i = x \/ i = y THEN 0 ELSE c]
           one == [i \in I |-> IF i = x THEN 0 ELSE c]
           spike == [i \in I |-> IF i = y THEN -c ELSE 0]
<1>1. IsFiniteSet(I) /\ y \in I /\ -c \in Int /\ c * n \in Int
  BY FS_Interval
<1>2. \A i \in I : one[i] = IF i = x THEN 0 ELSE c
  OBVIOUS
<1>3. \A i \in I : spike[i] = IF i = y THEN -c ELSE 0
  OBVIOUS
<1>4. \A i \in I : one[i] \in Int /\ spike[i] \in Int /\ f[i] = one[i] + spike[i]
  OBVIOUS
<1> HIDE DEF one, spike, f
<1>5. SumFunctionOnSet(one, I) = c * n - c
  BY <1>1, <1>2, ConstButOne, Zenon
<1> HIDE DEF I
<1>6. SumFunctionOnSet(spike, I) = -c
  BY <1>1, <1>3, SumSpike
<1>7. SumFunctionOnSet(f, I) = SumFunctionOnSet(one, I) + SumFunctionOnSet(spike, I)
  BY <1>1, <1>4, SumAdd
<1>8. SumFunctionOnSet(f, I) = c * n - 2 * c
  BY <1>1, <1>5, <1>6, <1>7
<1> QED
  BY <1>8 DEF I, f

(* The sum of the others, for one and for two that are left out.            *)
LEMMA SumOfOthers ==
  ASSUME NEW n \in Nat, NEW error \in Nat, NEW s \in [1 .. n -> Int], NEW x \in 1 .. n,
         \A i \in 1 .. n : i # x => s[i] \in -error .. error
  PROVE  \E w : /\ w \in Int /\ SumFunctionOnSet(s, 1 .. n) = s[x] + w
              /\ -(n * error - error) <= w /\ w <= n * error - error
<1> DEFINE I == 1 .. n
           rest == [i \in I |-> IF i = x THEN 0 ELSE s[i]]
           low == [i \in I |-> IF i = x THEN 0 ELSE -error]
           high == [i \in I |-> IF i = x THEN 0 ELSE error]
<1>1. IsFiniteSet(I) /\ x \in I
  BY FS_Interval
<1>2. \A i \in I : s[i] \in Int /\ rest[i] \in Int
  OBVIOUS
<1>3. \A i \in I : /\ low[i] \in Int /\ high[i] \in Int
                   /\ low[i] <= rest[i] /\ rest[i] <= high[i]
  OBVIOUS
<1>4. \A i \in I : low[i] = IF i = x THEN 0 ELSE -error
  OBVIOUS
<1>5. \A i \in I : high[i] = IF i = x THEN 0 ELSE error
  OBVIOUS
<1> HIDE DEF low, high
<1>6. SumFunctionOnSet(low, I) = (-error) * n - (-error)
  <2>1. -error \in Int
    OBVIOUS
  <2> QED
    BY <1>4, <2>1, ConstButOne
<1>7. SumFunctionOnSet(high, I) = error * n - error
  <2>1. error \in Int
    OBVIOUS
  <2> QED
    BY <1>1, <1>5, <2>1, ConstButOne, Zenon
<1>8. SumFunctionOnSet(s, I) = s[x] + SumFunctionOnSet(rest, I)
  <2> HIDE DEF I
  <2> QED
    BY <1>1, <1>2, TakeOut
<1> HIDE DEF rest, I
<1>9. SumFunctionOnSet(rest, I) \in Int
  BY <1>1, <1>2, SumType
<1>10. SumFunctionOnSet(low, I) <= SumFunctionOnSet(rest, I)
  BY <1>1, <1>2, <1>3, SumLe
<1>11. SumFunctionOnSet(rest, I) <= SumFunctionOnSet(high, I)
  BY <1>1, <1>2, <1>3, SumLe
<1>12. (-error) * n - (-error) = -(n * error - error) /\ error * n = n * error
  OBVIOUS
<1> DEFINE w == SumFunctionOnSet(rest, I)
<1>13. /\ w \in Int /\ SumFunctionOnSet(s, I) = s[x] + w
       /\ -(n * error - error) <= w /\ w <= n * error - error
  BY <1>6, <1>7, <1>8, <1>9, <1>10, <1>11, <1>12
<1> HIDE DEF w
<1> QED
  BY <1>13, Zenon DEF I

(* What is left of the sum without two members, between its bounds.         *)
LEMMA SumOfAllButTwo ==
  ASSUME NEW n \in Nat, NEW error \in Nat, NEW s \in [1 .. n -> Int],
         NEW x \in 1 .. n, NEW y \in 1 .. n, y # x,
         \A i \in 1 .. n : i # x => s[i] \in -error .. error
  PROVE  /\ SumFunctionOnSet(s, 1 .. n) \in Int
         /\ -(n * error - 2 * error) <= SumFunctionOnSet(s, 1 .. n) - s[x] - s[y]
         /\ SumFunctionOnSet(s, 1 .. n) - s[x] - s[y] <= n * error - 2 * error
<1> DEFINE I == 1 .. n
           one == [i \in I |-> IF i = x THEN 0 ELSE s[i]]
           rest == [i \in I |-> IF i = y THEN 0 ELSE one[i]]
           low == [i \in I |-> IF i = x \/ i = y THEN 0 ELSE -error]
           high == [i \in I |-> IF i = x \/ i = y THEN 0 ELSE error]
<1>1. IsFiniteSet(I) /\ x \in I /\ y \in I
  BY FS_Interval
<1>2. /\ \A i \in I : s[i] \in Int /\ one[i] \in Int /\ rest[i] \in Int
      /\ one[y] = s[y]
  OBVIOUS
<1>3. \A i \in I : /\ low[i] \in Int /\ high[i] \in Int
                   /\ low[i] <= rest[i] /\ rest[i] <= high[i]
  OBVIOUS
<1>4. SumFunctionOnSet(low, I) = (-error) * n - 2 * (-error)
  <2>1. -error \in Int
    OBVIOUS
  <2> QED
    BY <2>1, ConstButTwo, Zenon
<1>5. SumFunctionOnSet(high, I) = error * n - 2 * error
  <2>1. error \in Int
    OBVIOUS
  <2> QED
    BY <2>1, ConstButTwo, Zenon
<1>6. SumFunctionOnSet(s, I) = s[x] + SumFunctionOnSet(one, I)
  <2> HIDE DEF I
  <2> QED
    BY <1>1, <1>2, TakeOut
<1>7. SumFunctionOnSet(one, I) = one[y] + SumFunctionOnSet(rest, I)
  <2> HIDE DEF I, one
  <2> QED
    BY <1>1, <1>2, TakeOut
<1> HIDE DEF one, rest, low, high, I
<1>8. SumFunctionOnSet(rest, I) \in Int
  BY <1>1, <1>2, SumType
<1>9. SumFunctionOnSet(low, I) <= SumFunctionOnSet(rest, I)
  BY <1>1, <1>2, <1>3, SumLe
<1>10. SumFunctionOnSet(rest, I) <= SumFunctionOnSet(high, I)
  BY <1>1, <1>2, <1>3, SumLe
<1>11. (-error) * n - 2 * (-error) = -(n * error - 2 * error) /\ error * n = n * error
  OBVIOUS
<1> DEFINE w == SumFunctionOnSet(rest, I)
<1>12. /\ w \in Int /\ SumFunctionOnSet(s, I) = s[x] + s[y] + w
       /\ -(n * error - 2 * error) <= w /\ w <= n * error - 2 * error
  <2>1. s[x] \in Int /\ s[y] \in Int
    BY <1>1, <1>2
  <2> QED
    BY <1>2, <1>4, <1>5, <1>6, <1>7, <1>8, <1>9, <1>10, <1>11, <2>1
<1>13. /\ s[x] \in Int /\ s[y] \in Int /\ SumFunctionOnSet(s, I) \in Int
       /\ SumFunctionOnSet(s, I) - s[x] - s[y] = w
  <2>1. s[x] \in Int /\ s[y] \in Int
    BY <1>1, <1>2
  <2> HIDE DEF w
  <2> QED
    BY <1>12, <2>1
<1> HIDE DEF w
<1>14. /\ -(n * error - 2 * error) <= SumFunctionOnSet(s, I) - s[x] - s[y]
       /\ SumFunctionOnSet(s, I) - s[x] - s[y] <= n * error - 2 * error
  BY <1>12, <1>13
<1> QED
  BY <1>13, <1>14 DEF I

(* The arithmetic of one liar at v among n, the others within the error.    *)
LEMMA LiarIsFar ==
  ASSUME NEW n \in Nat, n >= 2, NEW error \in Nat, NEW t \in Nat, NEW v \in Int, NEW w \in Int,
         v > 2 * t + error, -(n * error - error) <= w, w <= n * error - error
  PROVE  n * v - (v + w) > t * n
<1>1. (n - 1) * (v - 2 * t - error - 1) \in Nat /\ (n - 2) * t \in Nat
  OBVIOUS
<1>2. /\ (n - 1) * (v - 2 * t - error - 1)
           = (n * v - v) - 2 * (t * n) + 2 * t - (n * error - error) - n + 1
      /\ (n - 2) * t = t * n - 2 * t
  OBVIOUS
<1> DEFINE a == n * v
           b == t * n
           c == n * error
<1>3. a \in Int /\ b \in Int /\ c \in Int
  OBVIOUS
<1>4. /\ (a - v) - 2 * b + 2 * t - (c - error) - n + 1 >= 0
      /\ b - 2 * t >= 0 /\ w <= c - error
  BY <1>1, <1>2
<1> HIDE DEF a, b, c
<1>5. a - (v + w) > b
  BY <1>3, <1>4
<1> QED
  BY <1>5 DEF a, b

(* The others are nearer to the centroid than the liar.                     *)
LEMMA OthersAreNearer ==
  ASSUME NEW n \in Nat, n >= 3, NEW error \in Nat, NEW v \in Int, NEW u \in Int, NEW w \in Int,
         v > 3 * error, -error <= u, u <= error,
         -(n * error - 2 * error) <= w, w <= n * error - 2 * error
  PROVE  /\ n * u - (v + u + w) < n * v - (v + u + w)
         /\ -(n * u - (v + u + w)) < n * v - (v + u + w)
<1>1. /\ (n - 1) * (v - u - 1) \in Nat
      /\ (n - 3) * (v - 3 * error - 1) \in Nat /\ (n - 2) * (error + u) \in Nat
  OBVIOUS
<1>2. /\ (n - 1) * (v - u - 1) = n * v - n * u - v + u - n + 1
      /\ (n - 3) * (v - 3 * error - 1) = n * v - 3 * (n * error) - n - 3 * v + 9 * error + 3
      /\ (n - 2) * (error + u) = n * error + n * u - 2 * error - 2 * u
  OBVIOUS
<1> DEFINE a == n * v
           b == n * u
           c == n * error
<1>3. a \in Int /\ b \in Int /\ c \in Int
  OBVIOUS
<1>4. /\ a - b - v + u - n + 1 >= 0
      /\ a - 3 * c - n - 3 * v + 9 * error + 3 >= 0
      /\ c + b - 2 * error - 2 * u >= 0
      /\ w <= c - 2 * error
  BY <1>1, <1>2
<1> HIDE DEF a, b, c
<1>5. b - (v + u + w) < a - (v + u + w) /\ -(b - (v + u + w)) < a - (v + u + w)
  BY <1>3, <1>4
<1> QED
  BY <1>5 DEF a, b

(* A liar sets off the alarm, and among three or more it is the worst.      *)
LEMMA LiarStandsOut ==
  ASSUME NEW n \in Nat, n >= 2, NEW s \in [1 .. n -> Int], NEW x \in 1 .. n, NEW error \in Nat,
         Threshold \in Nat, 2 * error <= Threshold,
         s[x] > 2 * Threshold + error \/ s[x] < -(2 * Threshold + error),
         \A i \in 1 .. n : i # x => s[i] \in -error .. error
  PROVE  /\ Gnss!Distance(s, Gnss!Worst(s)) > Threshold * n
         /\ n >= 3 => Gnss!Worst(s) = x
<1> DEFINE v == s[x]
           total == SumFunctionOnSet(s, 1 .. n)
<1>1. v \in Int /\ 2 * error <= Threshold /\ Threshold \in Nat
  OBVIOUS
<1>2. PICK w : /\ w \in Int /\ total = v + w
               /\ -(n * error - error) <= w /\ w <= n * error - error
  BY SumOfOthers
<1>3. Gnss!Distance(s, x) = IF n * v - total >= 0 THEN n * v - total ELSE -(n * v - total)
  BY DistanceIs
<1>4. /\ Gnss!Worst(s) \in 1 .. n /\ n \in Nat \ {0}
      /\ \A j \in 1 .. n : /\ Gnss!Distance(s, j) <= Gnss!Distance(s, Gnss!Worst(s))
                          /\ Gnss!Distance(s, j) \in Nat
  BY WorstIsFarthest, DistanceIs
<1>5. v > 2 * Threshold + error \/ v < -(2 * Threshold + error)
  OBVIOUS
<1> DEFINE z == n * v - total
           limit == Threshold * n
<1>6. z \in Int /\ limit \in Nat /\ z = n * v - (v + w)
  BY <1>1, <1>2
<1>7. CASE v > 2 * Threshold + error
  <2>1. z > limit
    <3> HIDE DEF v, z
    <3> QED
      BY <1>1, <1>2, <1>6, <1>7, LiarIsFar
  <2>2. z >= 0
    <3>1. z \in Int /\ limit \in Nat
      BY <1>6
    <3> HIDE DEF z, limit
    <3> QED
      BY <2>1, <3>1
  <2>3. Gnss!Distance(s, x) > limit
    BY <1>3, <2>1, <2>2
  <2>4. ASSUME NEW j \in 1 .. n, j # x, n >= 3 PROVE Gnss!Distance(s, j) < Gnss!Distance(s, x)
    <3> DEFINE u == s[j]
    <3>1. u \in Int /\ -error <= u /\ u <= error
      BY <2>4
    <3> DEFINE y == total - v - u
    <3>2. /\ y \in Int /\ total = v + u + y
          /\ -(n * error - 2 * error) <= y /\ y <= n * error - 2 * error
      <4>1. total \in Int /\ -(n * error - 2 * error) <= y /\ y <= n * error - 2 * error
        BY <2>4, SumOfAllButTwo
      <4>2. y \in Int /\ total = v + u + y
        <5> HIDE DEF v, u, total
        <5> QED
          BY <1>1, <3>1, <4>1
      <4> QED
        BY <4>1, <4>2
    <3> HIDE DEF y
    <3>3. Gnss!Distance(s, j) = IF n * u - total >= 0 THEN n * u - total ELSE -(n * u - total)
      BY DistanceIs
    <3>4. v > 3 * error
      BY <1>1, <1>7
    <3>5. n * u - total < n * v - total /\ -(n * u - total) < n * v - total
      <4> HIDE DEF u, v, total
      <4> QED
        BY <1>1, <2>4, <3>1, <3>2, <3>4, OthersAreNearer
    <3> QED
      BY <1>3, <2>2, <3>3, <3>5
  <2> HIDE DEF v, z, total
  <2>5. Gnss!Distance(s, Gnss!Worst(s)) > limit
    <3>1. limit \in Nat /\ Gnss!Distance(s, x) \in Nat /\ Gnss!Distance(s, Gnss!Worst(s)) \in Nat
      BY <1>4, <1>6
    <3>2. Gnss!Distance(s, x) <= Gnss!Distance(s, Gnss!Worst(s))
      BY <1>4
    <3> HIDE DEF limit
    <3> QED
      BY <2>3, <3>1, <3>2
  <2>6. ASSUME n >= 3, Gnss!Worst(s) # x PROVE FALSE
    <3>1. Gnss!Distance(s, Gnss!Worst(s)) < Gnss!Distance(s, x)
      BY <1>4, <2>4, <2>6
    <3> QED
      BY <1>4, <3>1
  <2> QED
    BY <2>5, <2>6
<1>8. CASE v < -(2 * Threshold + error)
  <2>1. -z > limit
    <3>1. -v \in Int /\ -w \in Int /\ -v > 2 * Threshold + error
      BY <1>1, <1>2, <1>8
    <3>2. -(n * error - error) <= -w /\ -w <= n * error - error
      BY <1>2
    <3>3. n * (-v) - (-v + -w) > Threshold * n
      <4> HIDE DEF v
      <4> QED
        BY <3>1, <3>2, LiarIsFar
    <3>4. n * (-v) - (-v + -w) = -(n * v - (v + w))
      BY <1>1, <1>2
    <3> QED
      BY <1>6, <3>3, <3>4
  <2>2. ~(z >= 0)
    <3>1. z \in Int /\ limit \in Nat
      BY <1>6
    <3> HIDE DEF z, limit
    <3> QED
      BY <2>1, <3>1
  <2>3. Gnss!Distance(s, x) > limit
    BY <1>3, <2>1, <2>2
  <2>4. ASSUME NEW j \in 1 .. n, j # x, n >= 3 PROVE Gnss!Distance(s, j) < Gnss!Distance(s, x)
    <3> DEFINE u == s[j]
    <3>1. u \in Int /\ -error <= u /\ u <= error
      BY <2>4
    <3> DEFINE y == total - v - u
    <3>2. /\ y \in Int /\ total = v + u + y
          /\ -(n * error - 2 * error) <= y /\ y <= n * error - 2 * error
      <4>1. total \in Int /\ -(n * error - 2 * error) <= y /\ y <= n * error - 2 * error
        BY <2>4, SumOfAllButTwo
      <4>2. y \in Int /\ total = v + u + y
        <5> HIDE DEF v, u, total
        <5> QED
          BY <1>1, <3>1, <4>1
      <4> QED
        BY <4>1, <4>2
    <3> HIDE DEF y
    <3>3. Gnss!Distance(s, j) = IF n * u - total >= 0 THEN n * u - total ELSE -(n * u - total)
      BY DistanceIs
    <3>4. /\ -v \in Int /\ -u \in Int /\ -y \in Int /\ -v > 3 * error
          /\ -error <= -u /\ -u <= error
          /\ -(n * error - 2 * error) <= -y /\ -y <= n * error - 2 * error
      <4> HIDE DEF u, v, total
      <4> QED
        BY <1>1, <1>8, <3>1, <3>2
    <3>5. /\ n * (-u) - (-v + -u + -y) < n * (-v) - (-v + -u + -y)
          /\ -(n * (-u) - (-v + -u + -y)) < n * (-v) - (-v + -u + -y)
      <4> HIDE DEF u, v, total
      <4> QED
        BY <2>4, <3>4, OthersAreNearer
    <3>6. /\ n * (-u) - (-v + -u + -y) = -(n * u - (v + u + y))
          /\ n * (-v) - (-v + -u + -y) = -(n * v - (v + u + y))
      <4> HIDE DEF u, v, total
      <4> QED
        BY <1>1, <3>1, <3>2
    <3>7. -(n * u - total) < -(n * v - total) /\ -(-(n * u - total)) < -(n * v - total)
      BY <3>2, <3>5, <3>6
    <3>8. n * u - total \in Int
      <4> HIDE DEF u, v, total
      <4> QED
        BY <1>1, <3>1, <3>2
    <3> QED
      BY <1>3, <2>2, <3>3, <3>7, <3>8
  <2> HIDE DEF v, z, total
  <2>5. Gnss!Distance(s, Gnss!Worst(s)) > limit
    <3>1. limit \in Nat /\ Gnss!Distance(s, x) \in Nat /\ Gnss!Distance(s, Gnss!Worst(s)) \in Nat
      BY <1>4, <1>6
    <3>2. Gnss!Distance(s, x) <= Gnss!Distance(s, Gnss!Worst(s))
      BY <1>4
    <3> HIDE DEF limit
    <3> QED
      BY <2>3, <3>1, <3>2
  <2>6. ASSUME n >= 3, Gnss!Worst(s) # x PROVE FALSE
    <3>1. Gnss!Distance(s, Gnss!Worst(s)) < Gnss!Distance(s, x)
      BY <1>4, <2>4, <2>6
    <3> QED
      BY <1>4, <3>1
  <2> QED
    BY <2>5, <2>6
<1> QED
  BY <1>5, <1>7, <1>8

(* What the monitor and the board remember is the verdict on solutions that *)
(* could be compared, or nothing.                                           *)
Compared(n) ==
  /\ judged \in [1 .. n -> Honest \cup Spoofed]
  /\ alarmed <=> Gnss!Distance(judged, Gnss!Worst(judged)) > Threshold * n
  /\ alarmed => rejected = Gnss!Worst(judged)

RaimInv ==
  /\ alarmed \in BOOLEAN /\ compromised = alarmed
  /\ (judged = << >> /\ ~alarmed) \/ \E n \in Nat : n >= 2 /\ Compared(n)

(* Receivers report numbers. *)
LEMMA ReceiversAreInts == Honest \cup Spoofed \subseteq Int
<1>1. PICK error \in 0 .. Threshold : Honest \subseteq -error .. error /\ Spoofed \subseteq Int
  BY RaimAssumption
<1>2. Honest \subseteq Int
  <2>1. error \in Int
    BY RaimAssumption
  <2> QED
    BY <1>1, <2>1
<1> QED
  BY <1>1, <1>2

(* How many liars there are is the same number in both modules.             *)
LEMMA GnssCardinality == ASSUME NEW S PROVE Gnss!Cardinality(S) = Cardinality(S)
BY Zenon DEF Gnss!Cardinality, Cardinality, Gnss!IsFiniteSet, IsFiniteSet

(* Every check keeps the verdict and the latch in step with what was        *)
(* judged.                                                                  *)
LEMMA RaimStepHolds ==
  ASSUME RaimInv, [Gnss!RaimNext]_(Gnss!raimVars)
  PROVE  RaimInv'
<1>1. ASSUME NEW n \in Nat, NEW s \in [1 .. n -> Honest \cup Spoofed], Gnss!UpdateIntegrity(s)
      PROVE  RaimInv'
  <2>1. Len(s) = n
    OBVIOUS
  <2>2. CASE n < 2
    <3>1. compromised' = alarmed /\ UNCHANGED <<alarmed, judged, rejected>>
      BY <1>1, <2>1, <2>2 DEF Gnss!UpdateIntegrity
    <3> QED
      BY <3>1 DEF RaimInv, Compared
  <2>3. CASE ~(n < 2)
    <3> DEFINE outlier == Gnss!Distance(s, Gnss!Worst(s)) > Threshold * n
    <3>1. /\ alarmed' = outlier /\ compromised' = outlier /\ judged' = s
          /\ rejected' = IF outlier THEN Gnss!Worst(s) ELSE 0
      BY <1>1, <2>1, <2>3 DEF Gnss!UpdateIntegrity
    <3>2. n >= 2
      BY <2>3
    <3>3. outlier \in BOOLEAN
      <4>1. n \in Nat \ {0} /\ s \in [1 .. n -> Int] /\ Threshold * n \in Int
        BY <2>3, ReceiversAreInts, RaimAssumption
      <4>2. Gnss!Distance(s, Gnss!Worst(s)) \in Int
        BY <4>1, WorstIsFarthest, DistanceIs
      <4> QED
        BY <4>1, <4>2
    <3> HIDE DEF outlier
    <3>4. alarmed' \in BOOLEAN /\ compromised' = alarmed'
      BY <3>1, <3>3
    <3>5. (alarmed' <=> outlier) /\ (alarmed' => rejected' = Gnss!Worst(s))
      BY <3>1, Zenon
    <3>6. Compared(n)'
      BY <3>1, <3>5 DEF Compared, outlier
    <3> QED
      BY <3>2, <3>4, <3>6 DEF RaimInv
  <2> QED
    BY <2>2, <2>3
<1>2. ASSUME UNCHANGED Gnss!raimVars PROVE RaimInv'
  BY <1>2 DEF RaimInv, Compared, Gnss!raimVars
<1> QED
  BY <1>1, <1>2 DEF Gnss!RaimNext

(* A verdict on honest solutions, and on solutions with one liar. *)
LEMMA VerdictIsRight ==
  ASSUME NEW n \in Nat, n >= 2, Compared(n), alarmed \in BOOLEAN
  PROVE  LET liars == {i \in DOMAIN judged : judged[i] \in Spoofed}
         IN  /\ liars = {} => ~alarmed
             /\ Cardinality(liars) = 1 => alarmed /\ (n >= 3 => rejected \in liars)
<1> DEFINE liars == {i \in DOMAIN judged : judged[i] \in Spoofed}
<1>1. PICK error \in 0 .. Threshold :
             /\ 2 * error <= Threshold
             /\ Honest \subseteq -error .. error
             /\ \A v \in Spoofed : v \in Int /\ (v > 2 * Threshold + error \/ v < -(2 * Threshold + error))
  BY RaimAssumption
<1>2. Threshold \in Nat /\ error \in Nat /\ n \in Nat \ {0}
  BY RaimAssumption
<1>3. /\ judged \in [1 .. n -> Int] /\ DOMAIN judged = 1 .. n
      /\ \A i \in 1 .. n : i \notin liars => judged[i] \in -error .. error
      /\ liars \subseteq 1 .. n
  <2>1. judged \in [1 .. n -> Honest \cup Spoofed]
    BY DEF Compared
  <2>2. \A i \in 1 .. n : judged[i] \in Int /\ (judged[i] \in Honest \/ judged[i] \in Spoofed)
    BY <2>1, ReceiversAreInts
  <2>3. judged \in [1 .. n -> Int] /\ DOMAIN judged = 1 .. n
    BY <2>1, <2>2
  <2>4. \A i \in 1 .. n : judged[i] \notin Spoofed => judged[i] \in -error .. error
    BY <1>1, <2>2
  <2> QED
    BY <2>3, <2>4
<1>4. ASSUME liars = {} PROVE ~alarmed
  <2>1. Gnss!Worst(judged) \in 1 .. n
    BY <1>2, <1>3, WorstIsFarthest
  <2>2. ~(Gnss!Distance(judged, Gnss!Worst(judged)) > Threshold * n)
    <3>1. \A i \in 1 .. n : judged[i] \in -error .. error
      BY <1>3, <1>4
    <3> QED
      BY <1>1, <1>2, <1>3, <2>1, <3>1, HonestAgree
  <2> QED
    BY <2>2 DEF Compared
<1>5. ASSUME Cardinality(liars) = 1 PROVE alarmed /\ (n >= 3 => rejected \in liars)
  <2>1. IsFiniteSet(liars)
    <3>1. IsFiniteSet(1 .. n)
      BY FS_Interval
    <3> HIDE DEF liars
    <3> QED
      BY <1>3, <3>1, FS_Subset
  <2>2. PICK x : liars = {x}
    <3> HIDE DEF liars
    <3> QED
      BY <1>5, <2>1, FS_Singleton
  <2>3. x \in 1 .. n /\ judged[x] \in Spoofed
    <3>1. x \in liars
      <4> HIDE DEF liars
      <4> QED
        BY <2>2
    <3> QED
      BY <1>3, <3>1
  <2>4. judged[x] > 2 * Threshold + error \/ judged[x] < -(2 * Threshold + error)
    BY <1>1, <2>3
  <2>5. \A i \in 1 .. n : i # x => judged[i] \in -error .. error
    <3> HIDE DEF liars
    <3> QED
      BY <1>3, <2>2
  <2>6. /\ Gnss!Distance(judged, Gnss!Worst(judged)) > Threshold * n
        /\ n >= 3 => Gnss!Worst(judged) = x
    BY <1>1, <1>2, <1>3, <2>3, <2>4, <2>5, LiarStandsOut
  <2>7. alarmed /\ rejected = Gnss!Worst(judged)
    BY <2>6 DEF Compared
  <2> HIDE DEF liars
  <2> QED
    BY <2>2, <2>6, <2>7
<1> QED
  BY <1>4, <1>5

(* Among any number of receivers, one spoofed receiver raises the alarm and *)
(* from three on is the one blamed, and honest ones raise none, as long as  *)
(* the threshold fits the receivers' errors.                                *)
THEOREM OneLiarIsBlamed == UnitsSpec => []RaimBlamesTheLiar
<1>1. UnitsInit => RaimInv
  BY DEF UnitsInit, Gnss!RaimInit, RaimInv
<1>2. RaimInv /\ [UnitsNext]_unitVars => RaimInv'
  BY UnitsSteps, RaimStepHolds
<1>3. RaimInv => RaimBlamesTheLiar
  <2> SUFFICES ASSUME RaimInv PROVE Gnss!RaimBlamesTheLiar
    BY DEF RaimBlamesTheLiar
  <2> DEFINE liars == {i \in DOMAIN judged : judged[i] \in Spoofed}
  <2>1. alarmed \in BOOLEAN /\ (Gnss!IsJammedOrSpoofed <=> alarmed)
    BY DEF RaimInv, Gnss!IsJammedOrSpoofed
  <2>2. CASE judged = << >> /\ ~alarmed
    <3>1. liars = {} /\ Cardinality({}) = 0
      BY <2>2, FS_EmptySet
    <3> QED
      BY <2>1, <2>2, <3>1, GnssCardinality DEF Gnss!RaimBlamesTheLiar
  <2>3. ASSUME NEW n \in Nat, n >= 2, Compared(n) PROVE Gnss!RaimBlamesTheLiar
    <3>1. Len(judged) = n
      BY <2>3 DEF Compared
    <3>2. /\ liars = {} => ~alarmed
          /\ Cardinality(liars) = 1 => alarmed /\ (n >= 3 => rejected \in liars)
      BY <2>1, <2>3, VerdictIsRight
    <3>3. /\ liars = {} => ~Gnss!IsJammedOrSpoofed
          /\ Cardinality(liars) = 1 /\ Len(judged) >= 2 => Gnss!IsJammedOrSpoofed
          /\ Cardinality(liars) = 1 /\ Len(judged) >= 3 => rejected \in liars
      <4> HIDE DEF liars
      <4> QED
        BY <2>1, <2>3, <3>1, <3>2
    <3> QED
      BY <3>3, GnssCardinality, Zenon DEF Gnss!RaimBlamesTheLiar
  <2> QED
    BY <2>2, <2>3 DEF RaimInv
<1> QED
  BY <1>1, <1>2, <1>3, PTL DEF UnitsSpec

-----------------------------------------------------------------------------
(* The stores that hand out one thing: a port its message, a channel its    *)
(* word, the board its scan.  The history is what the cells hold, and a     *)
(* message that is fresh was told.                                          *)
OneReport == Stores!Port \cup {"channel", "lidar"}

WordIsLast ==
  /\ heard \in Seq([value : Samples]) /\ next \in 0 .. Capacity
  /\ next = 0 <=> heard = <<>>
  /\ heard # <<>> => cells[(next - 1) % Capacity] = heard[Len(heard)]

MessageIsWhole ==
  /\ filled \in 0 .. Capacity
  /\ heard # <<>> => heard = <<[i \in 1 .. filled |-> cells[i - 1]]>>

StoreInv ==
  kind \in OneReport =>
    /\ DOMAIN cells = 0 .. Capacity - 1
    /\ kind = "channel" => WordIsLast
    /\ kind # "channel" => MessageIsWhole
    /\ fresh \in BOOLEAN /\ (fresh => heard # <<>>)
    /\ kind = "endpoint" /\ read # Stores!Empty => read.first

(* The smaller and the larger of two.                                       *)
LEMMA StoreMinMax ==
  ASSUME NEW a \in Int, NEW b \in Int
  PROVE  /\ Stores!Min({a, b}) = IF a <= b THEN a ELSE b
         /\ Stores!Max({a, b}) = IF a <= b THEN b ELSE a
BY DEF Stores!Min, Stores!Max

(* What is told last is the last of the reports that still matter.          *)
LEMMA ToldIsLast ==
  ASSUME NEW S, NEW s \in Seq(S), NEW x \in S
  PROVE  /\ Stores!Recent(Append(s, x)) \in Seq(S) /\ Stores!Recent(Append(s, x)) # <<>>
         /\ Stores!Recent(Append(s, x))[Len(Stores!Recent(Append(s, x)))] = x
<1> DEFINE u == Append(s, x)
           n == Len(u)
           m == IF 1 <= n - Capacity + 1 THEN n - Capacity + 1 ELSE 1
           t == Stores!Recent(u)
<1>1. u \in Seq(S) /\ n \in Nat /\ n >= 1 /\ u[n] = x
  OBVIOUS
<1> HIDE DEF u, n
<1>2. m \in 1 .. n /\ n - Capacity + 1 \in Int
  BY <1>1, StoreAssumption
<1>3. t = SubSeq(u, m, n)
  <2>1. Stores!Max({1, n - Capacity + 1}) = m
    <3> DEFINE b == n - Capacity + 1
    <3>1. 1 \in Int /\ b \in Int
      BY <1>2
    <3> HIDE DEF b
    <3>2. Stores!Max({1, b}) = IF 1 <= b THEN b ELSE 1
      BY <3>1, StoreMinMax, Zenon
    <3> QED
      BY <3>2 DEF b
  <2> HIDE DEF m
  <2>2. t = SubSeq(u, Stores!Max({1, Len(u) - Capacity + 1}), Len(u))
    BY DEF Stores!Recent
  <2> QED
    BY <2>1, <2>2 DEF n
<1> HIDE DEF t, m
<1>4. t \in Seq(S) /\ Len(t) = n - m + 1 /\ \A i \in 1 .. (n - m + 1) : t[i] = u[m + i - 1]
  <2>1. Len(u) = n /\ m \in 1 .. n /\ n \in Nat
    BY <1>1, <1>2 DEF n
  <2>2. \A j \in m .. n : u[j] \in S
    BY <1>1, <2>1
  <2>3. SubSeq(u, m, n) = [i \in 1 .. (n - m + 1) |-> u[i + m - 1]]
    BY <2>1
  <2>4. \A i \in 1 .. (n - m + 1) : i + m - 1 \in m .. n /\ m + i - 1 = i + m - 1
    BY <2>1
  <2> QED
    BY <1>3, <2>1, <2>2, <2>3, <2>4
<1>5. t[n - m + 1] = u[n] /\ n - m + 1 \in Nat /\ n - m + 1 >= 1
  <2>1. n - m + 1 \in 1 .. (n - m + 1) /\ m + (n - m + 1) - 1 = n
    BY <1>1, <1>2
  <2> QED
    BY <1>4, <2>1
<1> QED
  BY <1>1, <1>4, <1>5 DEF t, u

(* Cells that agree with the first k of a message, as a sequence.           *)
LEMMA CellsAsMessage ==
  ASSUME NEW S, NEW m \in Seq(S), NEW k \in 0 .. Len(m),
         NEW f, \A i \in 1 .. k : f[i - 1] = m[i]
  PROVE  [i \in 1 .. k |-> f[i - 1]] = SubSeq(m, 1, k)
<1>1. SubSeq(m, 1, k) = [i \in 1 .. k |-> m[i]]
  OBVIOUS
<1> QED
  BY <1>1

(* Every store starts empty.                                                *)
LEMMA StoreInitHolds == UnitsInit => StoreInv
<1> SUFFICES ASSUME UnitsInit PROVE StoreInv
  OBVIOUS
<1>1. Stores!StoreInit
  BY DEF UnitsInit
<1>2. /\ DOMAIN cells = 0 .. Capacity - 1 /\ next = 0 /\ filled = 0 /\ fresh = FALSE
      /\ heard = <<>> /\ read = Stores!Empty
  BY <1>1 DEF Stores!StoreInit
<1>3. Capacity \in Nat /\ <<>> \in Seq([value : Samples])
  BY StoreAssumption
<1>4. WordIsLast
  BY <1>2, <1>3 DEF WordIsLast
<1>5. MessageIsWhole
  BY <1>2, <1>3 DEF MessageIsWhole
<1> QED
  BY <1>2, <1>4, <1>5, Zenon DEF StoreInv

(* A message has a length, and is a sequence of bytes.                      *)
LEMMA MessagesAreSeqs ==
  ASSUME NEW m \in Stores!Messages
  PROVE  m \in Seq({[byte |-> v] : v \in Bytes})
BY StoreAssumption DEF Stores!Messages

(* Every call of a store keeps it so.                                       *)
LEMMA StoreStepHolds ==
  ASSUME StoreInv, [Stores!StoreNext]_(Stores!storeVars)
  PROVE  StoreInv'
<1> SUFFICES ASSUME kind' \in OneReport PROVE StoreInv'
  BY DEF StoreInv
<1>1. ASSUME NEW m \in Stores!Messages, Stores!WritePort(m)
      PROVE  StoreInv'
  <2>1. kind' = kind /\ kind \in Stores!Port /\ kind \in OneReport /\ kind # "channel"
    BY <1>1 DEF Stores!WritePort, OneReport, Stores!Port
  <2>2. /\ DOMAIN cells = 0 .. Capacity - 1 /\ MessageIsWhole
        /\ fresh \in BOOLEAN /\ (fresh => heard # <<>>)
        /\ kind = "endpoint" /\ read # Stores!Empty => read.first
    BY <2>1 DEF StoreInv
  <2>3. m \in Seq({[byte |-> v] : v \in Bytes}) /\ Len(m) \in Nat
    BY MessagesAreSeqs
  <2>4. CASE Len(m) > Capacity
    <3>1. UNCHANGED <<cells, filled, fresh, heard, read>>
      BY <1>1, <2>4 DEF Stores!WritePort
    <3> QED
      BY <2>1, <2>2, <3>1 DEF StoreInv, MessageIsWhole
  <2>5. CASE ~(Len(m) > Capacity)
    <3>1. /\ cells' = [i \in DOMAIN cells |-> IF i < Len(m) THEN m[i + 1] ELSE cells[i]]
          /\ filled' = Len(m) /\ fresh' = TRUE /\ heard' = <<m>> /\ read' = read
      BY <1>1, <2>5 DEF Stores!WritePort
    <3>2. Len(m) \in 0 .. Len(m) /\ Len(m) <= Capacity /\ SubSeq(m, 1, Len(m)) = m
      BY <2>3, <2>5, StoreAssumption
    <3>3. [i \in 1 .. Len(m) |-> cells'[i - 1]] = m
      <4>1. \A i \in 1 .. Len(m) : i - 1 \in DOMAIN cells /\ i - 1 < Len(m) /\ (i - 1) + 1 = i
        BY <2>2, <2>3, <3>2, StoreAssumption
      <4>2. \A i \in 1 .. Len(m) : cells'[i - 1] = m[i]
        BY <3>1, <4>1
      <4> QED
        BY <2>3, <3>2, <4>2, CellsAsMessage
    <3>4. MessageIsWhole'
      BY <2>3, <3>1, <3>2, <3>3 DEF MessageIsWhole
    <3> QED
      BY <2>1, <2>2, <3>1, <3>4 DEF StoreInv
  <2> QED
    BY <2>4, <2>5
<1>2. ASSUME NEW room \in 0 .. Capacity, Stores!ReadPort(room)
      PROVE  StoreInv'
  <2>1. /\ kind' = kind /\ kind \in Stores!Port /\ kind \in OneReport /\ kind # "channel"
        /\ UNCHANGED <<cells, filled, heard>>
    BY <1>2 DEF Stores!ReadPort, OneReport, Stores!Port
  <2>2. /\ DOMAIN cells = 0 .. Capacity - 1 /\ MessageIsWhole
        /\ fresh \in BOOLEAN /\ (fresh => heard # <<>>)
    BY <2>1 DEF StoreInv
  <2>3. fresh' \in BOOLEAN /\ (fresh' => heard' # <<>>)
    BY <1>2, <2>1, <2>2 DEF Stores!ReadPort
  <2>4. kind = "endpoint" /\ read' # Stores!Empty => read'.first
    BY <1>2, <2>2 DEF Stores!ReadPort, Stores!NothingToRead
  <2> QED
    BY <2>1, <2>2, <2>3, <2>4 DEF StoreInv, MessageIsWhole
<1>3. ASSUME NEW v \in Samples, NEW ok \in BOOLEAN, Stores!Ingest(v, ok)
      PROVE  StoreInv'
  <2>1. /\ kind' = kind /\ kind = "channel" /\ kind \in OneReport
        /\ UNCHANGED <<filled, fresh, read>>
    BY <1>3 DEF Stores!Ingest, OneReport
  <2>2. DOMAIN cells = 0 .. Capacity - 1 /\ WordIsLast /\ fresh \in BOOLEAN /\ (fresh => heard # <<>>)
    BY <2>1 DEF StoreInv
  <2>3. CASE ~ok
    <3>1. UNCHANGED <<cells, next, heard>>
      BY <1>3, <2>3 DEF Stores!Ingest
    <3> QED
      BY <2>1, <2>2, <3>1 DEF StoreInv, WordIsLast
  <2>4. CASE ok
    <3> DEFINE w == [value |-> v]
    <3>1. /\ cells' = [cells EXCEPT ![next % Capacity] = w]
          /\ next' = IF next < Capacity THEN next + 1 ELSE next + 1 - Capacity
          /\ heard' = Stores!Recent(Append(heard, w))
      BY <1>3, <2>4 DEF Stores!Ingest, Stores!Told
    <3>2. w \in [value : Samples]
      OBVIOUS
    <3> HIDE DEF w
    <3>3. heard' \in Seq([value : Samples]) /\ heard' # <<>> /\ heard'[Len(heard')] = w
      <4>1. heard \in Seq([value : Samples])
        BY <2>2 DEF WordIsLast
      <4> DEFINE t == Stores!Recent(Append(heard, w))
      <4>2. t \in Seq([value : Samples]) /\ t # <<>> /\ t[Len(t)] = w
        BY <3>2, <4>1, ToldIsLast, Zenon
      <4>3. heard' = t
        BY <3>1
      <4> HIDE DEF t
      <4> QED
        BY <4>2, <4>3
    <3>4. next \in 0 .. Capacity
      BY <2>2 DEF WordIsLast
    <3>5. next % Capacity = IF next < Capacity THEN next ELSE 0
      <4>1. CASE next < Capacity
        <5>1. next \in 0 .. Capacity - 1 /\ 0 \in 0 .. Capacity /\ next + 0 = next
          BY <3>4, <4>1, StoreAssumption
        <5> QED
          BY <4>1, <5>1, WrapOnce, StoreAssumption
      <4>2. CASE ~(next < Capacity)
        <5>1. next = Capacity /\ 0 \in 0 .. Capacity - 1 /\ 0 + Capacity = Capacity
              /\ Capacity \in 0 .. Capacity /\ Capacity - Capacity = 0
          BY <3>4, <4>2, StoreAssumption
        <5> QED
          BY <4>2, <5>1, WrapOnce, StoreAssumption
      <4> QED
        BY <4>1, <4>2
    <3>6. next' \in 0 .. Capacity /\ next' # 0 /\ next' - 1 = next % Capacity
      BY <3>1, <3>4, <3>5, StoreAssumption
    <3>7. next % Capacity \in 0 .. Capacity - 1
      BY <3>4, <3>5, StoreAssumption
    <3>8. (next' - 1) % Capacity = next % Capacity
      <4> DEFINE at == next % Capacity
      <4>1. at \in 0 .. Capacity - 1
        BY <3>7
      <4> HIDE DEF at
      <4>2. at + 0 = at /\ 0 \in 0 .. Capacity /\ at < Capacity
        BY <4>1, StoreAssumption
      <4>3. (at + 0) % Capacity = at
        BY <4>1, <4>2, WrapOnce, StoreAssumption
      <4> QED
        BY <3>6, <4>2, <4>3 DEF at
    <3>9. cells'[next % Capacity] = w /\ DOMAIN cells' = 0 .. Capacity - 1
      BY <2>2, <3>1, <3>7
    <3>10. WordIsLast'
      BY <3>3, <3>6, <3>8, <3>9 DEF WordIsLast
    <3> QED
      BY <2>1, <2>2, <3>3, <3>9, <3>10 DEF StoreInv
  <2> QED
    BY <2>3, <2>4
<1>4. ASSUME NEW m \in Stores!Messages, Stores!LoadScan(m)
      PROVE  StoreInv'
  <2>1. kind' = kind /\ kind = "lidar" /\ kind \in OneReport /\ UNCHANGED <<fresh, read>>
    BY <1>4 DEF Stores!LoadScan, OneReport
  <2>2. DOMAIN cells = 0 .. Capacity - 1 /\ fresh \in BOOLEAN
    BY <2>1 DEF StoreInv
  <2>3. m \in Seq({[byte |-> v] : v \in Bytes}) /\ Len(m) \in Nat
    BY MessagesAreSeqs
  <2> DEFINE k == IF Len(m) <= Capacity THEN Len(m) ELSE Capacity
  <2>4. Stores!Min({Capacity, Len(m)}) = k /\ Stores!Min({Len(m), Capacity}) = k
    BY <2>3, StoreMinMax, StoreAssumption
  <2>5. k \in 0 .. Len(m) /\ k <= Capacity /\ k \in 0 .. Capacity
    BY <2>3, StoreAssumption
  <2> HIDE DEF k
  <2>6. /\ cells' = [i \in DOMAIN cells |-> IF i < Len(m) THEN m[i + 1] ELSE cells[i]]
        /\ filled' = k /\ heard' = <<SubSeq(m, 1, k)>>
    BY <1>4, <2>4 DEF Stores!LoadScan, Stores!Cut
  <2>7. [i \in 1 .. k |-> cells'[i - 1]] = SubSeq(m, 1, k)
    <3>1. \A i \in 1 .. k : i - 1 \in DOMAIN cells /\ i - 1 < Len(m) /\ (i - 1) + 1 = i
      BY <2>2, <2>3, <2>5, StoreAssumption
    <3>2. \A i \in 1 .. k : cells'[i - 1] = m[i]
      BY <2>6, <3>1
    <3> QED
      BY <2>3, <2>5, <3>2, CellsAsMessage
  <2>8. MessageIsWhole'
    BY <2>5, <2>6, <2>7 DEF MessageIsWhole
  <2> QED
    BY <2>1, <2>2, <2>6, <2>8 DEF StoreInv
<1>5. CASE UNCHANGED Stores!storeVars
  BY <1>5 DEF Stores!storeVars, StoreInv, WordIsLast, MessageIsWhole
<1>6. ASSUME Stores!StoreNext
      PROVE  \/ \E m \in Stores!Messages : Stores!WritePort(m) \/ Stores!LoadScan(m)
             \/ \E room \in 0 .. Capacity : Stores!ReadPort(room)
             \/ \E v \in Samples, ok \in BOOLEAN : Stores!Ingest(v, ok)
  <2>1. \A v, dt : ~Stores!Sample(v, dt)
    BY DEF Stores!Sample, OneReport, Stores!Port
  <2>2. \A v, yaw, landmarks : ~Stores!InsertKeyframe(v, yaw, landmarks)
    BY DEF Stores!InsertKeyframe, OneReport, Stores!Port
  <2>3. \A v, yaw, landmarks : ~Stores!IngestCloud(v, yaw, landmarks)
    BY <2>2 DEF Stores!IngestCloud
  <2>4. \A pos, radius : ~Stores!CullKeyframes(pos, radius)
    BY DEF Stores!CullKeyframes, OneReport, Stores!Port
  <2>5. \A id, v : ~Stores!IngestPeer(id, v)
    BY DEF Stores!IngestPeer, OneReport, Stores!Port
  <2> QED
    BY <1>6, <2>1, <2>2, <2>3, <2>4, <2>5, Zenon DEF Stores!StoreNext
<1> QED
  BY <1>1, <1>2, <1>3, <1>4, <1>5, <1>6

(* A port hands over the newest message whole, an endpoint each one once, a *)
(* channel its newest word, and the board the newest scan as far as there   *)
(* is room, for every capacity and set of messages (partition.rs,           *)
(* microkernel.rs, arinc.rs, board.rs).  The stores that keep more than one *)
(* report are not in it.                                                    *)
THEOREM OneReportStoresHold == UnitsSpec => [](kind \in OneReport => StoresHoldTheNewest)
<1>1. StoreInv => (kind \in OneReport => StoresHoldTheNewest)
  <2> SUFFICES ASSUME StoreInv, kind \in OneReport PROVE Stores!StoresHoldTheNewest
    BY DEF StoresHoldTheNewest
  <2>1. CASE kind \in Stores!Port
    <3>1. /\ MessageIsWhole /\ (fresh => heard # <<>>)
          /\ kind = "endpoint" /\ read # Stores!Empty => read.first
      BY <2>1 DEF StoreInv, Stores!Port
    <3>2. heard # <<>> => Stores!Newest = [i \in 1 .. filled |-> cells[i - 1]]
      <4> DEFINE s == [i \in 1 .. filled |-> cells[i - 1]]
      <4>1. heard # <<>> => heard = <<s>>
        BY <3>1 DEF MessageIsWhole
      <4> HIDE DEF s
      <4>2. heard # <<>> => Stores!Newest = s
        BY <4>1 DEF Stores!Newest, Stores!Last
      <4> QED
        BY <4>2 DEF s
    <3>3. ASSUME fresh, Stores!NothingToRead PROVE kind = "sampling" /\ Stores!Newest = <<>>
      <4>1. kind = "sampling" /\ filled = 0
        BY <3>3 DEF Stores!NothingToRead
      <4>2. heard # <<>>
        BY <3>1, <3>3
      <4>3. [i \in 1 .. filled |-> cells[i - 1]] = <<>>
        BY <4>1
      <4> QED
        BY <3>2, <4>1, <4>2, <4>3
    <3>4. Stores!PortHoldsNewest
      BY <3>1, <3>2, <3>3, Zenon DEF Stores!PortHoldsNewest
    <3> QED
      BY <2>1, <3>4 DEF Stores!StoresHoldTheNewest, Stores!Port
  <2>2. CASE kind = "channel"
    <3>1. Stores!Receive = Stores!Newest
      BY <2>2 DEF StoreInv, WordIsLast, Stores!Receive, Stores!Newest, Stores!Last
    <3> QED
      BY <2>2, <3>1 DEF Stores!StoresHoldTheNewest, Stores!Port
  <2>3. CASE kind = "lidar"
    <3>1. MessageIsWhole
      BY <2>3 DEF StoreInv
    <3>2. ASSUME NEW room \in 0 .. Capacity, heard # <<>>
          PROVE  Stores!ReadScan(room) = Stores!Cut(Stores!Newest, room)
      <4> DEFINE s == [i \in 1 .. filled |-> cells[i - 1]]
                 k == IF room <= filled THEN room ELSE filled
      <4>1. Stores!Newest = s
        <5>1. heard = <<s>>
          BY <3>1, <3>2 DEF MessageIsWhole
        <5> HIDE DEF s
        <5> QED
          BY <3>2, <5>1 DEF Stores!Newest, Stores!Last
      <4>2. filled \in Nat /\ room \in Nat
        BY <3>1, StoreAssumption DEF MessageIsWhole
      <4>3. Len(s) = filled /\ s \in Seq({cells[i - 1] : i \in 1 .. filled})
        <5> DEFINE S == {cells[i - 1] : i \in 1 .. filled}
        <5>1. s \in [1 .. filled -> S]
          OBVIOUS
        <5> HIDE DEF s, S
        <5>2. s \in Seq(S) /\ Len(s) = filled
          BY <4>2, <5>1
        <5> QED
          BY <5>2 DEF S
      <4>4. Stores!Min({room, filled}) = k /\ k \in 0 .. filled
        BY <4>2, StoreMinMax
      <4>5. \A i \in 1 .. k : s[i] = cells[i - 1]
        BY <4>2, <4>4
      <4> HIDE DEF s, k
      <4>6. SubSeq(s, 1, k) = [i \in 1 .. k |-> cells[i - 1]]
        <5>1. k \in 0 .. Len(s) /\ \A i \in 1 .. k : cells[i - 1] = s[i]
          BY <4>3, <4>4, <4>5
        <5> QED
          BY <4>3, <5>1, CellsAsMessage
      <4> QED
        BY <4>1, <4>3, <4>4, <4>6 DEF Stores!ReadScan, Stores!Cut
    <3> QED
      BY <2>3, <3>2 DEF Stores!StoresHoldTheNewest, Stores!Port
  <2> QED
    BY <2>1, <2>2, <2>3 DEF OneReport
<1>2. StoreInv /\ [UnitsNext]_unitVars => StoreInv'
  BY UnitsSteps, StoreStepHolds
<1> QED
  BY StoreInitHolds, <1>1, <1>2, PTL DEF UnitsSpec
=============================================================================
