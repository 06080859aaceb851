---------------------------- MODULE BlockStream ----------------------------
(***************************************************************************)
(* The buffering in front of a block function: Sha256::update and finalize *)
(* (tpt-protocols/src/sha256.rs, 64-byte blocks), and Poly1305::update and *)
(* finalize (chacha.rs, 16-byte blocks), which is the same code.  A byte   *)
(* is its place in the message, so a lost, repeated or swapped byte shows. *)
(***************************************************************************)
EXTENDS Integers, Sequences, SequencesExt, FiniteSetsExt

CONSTANTS
  BlockBytes,    \* bytes in a block
  LengthBytes,   \* bytes of the length SHA-256 appends (8)
  MaxMessage     \* bound of the model: bytes fed

VARIABLES
  pending,   \* buf[..buflen]
  absorbed,  \* blocks given to compress() or block(), in order
  fed,       \* history: bytes fed
  digest     \* what finalize() hashed: none, SHA-256's blocks, Poly1305's

streamVars == <<pending, absorbed, fed, digest>>

NoDigest == {}
Zero == 0
Marker == -1            \* the byte 0x80
Length(n) == [i \in 1 .. LengthBytes |-> -1 - n]
Closed(b) == [bytes |-> b, top |-> Len(b)]   \* with the term 2^(8 top)

Message(n) == [i \in 1 .. n |-> i]
Zeros(n) == [i \in 1 .. n |-> Zero]

-----------------------------------------------------------------------------
StreamInit == pending = <<>> /\ absorbed = <<>> /\ fed = 0 /\ digest = NoDigest

Mut_TakenOne(s, data) == IF s.pending = <<>> THEN 0 ELSE Min({BlockBytes, Len(data)})

(* Bytes that top up the block in progress. *)
Taken(s, data) == IF s.pending = <<>> THEN 0 ELSE Min({BlockBytes - Len(s.pending), Len(data)})

Mut_UpdateForgetsShort(s, data) ==
  LET taken == Taken(s, data)
      topped == s.pending \o SubSeq(data, 1, taken)
      done == IF Len(topped) = BlockBytes THEN <<topped>> ELSE <<>>
      rest == SubSeq(data, taken + 1, Len(data))
      whole == Len(rest) \div BlockBytes
      last == SubSeq(rest, whole * BlockBytes + 1, Len(rest))
  IN  [pending |-> last,
       absorbed |-> s.absorbed \o done
                    \o [i \in 1 .. whole |-> SubSeq(rest, (i - 1) * BlockBytes + 1, i * BlockBytes)]]

(* update(): top up the block in progress, then whole blocks, then keep the *)
(* rest; a chunk used up by the first step leaves the buffer alone.         *)
Update(s, data) ==
  LET taken == Taken(s, data)
      topped == s.pending \o SubSeq(data, 1, taken)
      done == IF Len(topped) = BlockBytes THEN <<topped>> ELSE <<>>
      rest == SubSeq(data, taken + 1, Len(data))
      whole == Len(rest) \div BlockBytes
      last == SubSeq(rest, whole * BlockBytes + 1, Len(rest))
  IN  [pending |-> IF last # <<>> THEN last ELSE IF done # <<>> THEN <<>> ELSE topped,
       absorbed |-> s.absorbed \o done
                    \o [i \in 1 .. whole |-> SubSeq(rest, (i - 1) * BlockBytes + 1, i * BlockBytes)]]

State == [pending |-> pending, absorbed |-> absorbed]

Feed(n) ==
  LET chunk == [i \in 1 .. n |-> fed + i]
      s == Update(State, chunk)
  IN  /\ digest = NoDigest /\ fed + n <= MaxMessage
      /\ pending' = s.pending /\ absorbed' = s.absorbed
      /\ fed' = fed + n
      /\ UNCHANGED digest

(* Sha256::finalize: the marker, zeros one at a time until the length fits  *)
(* at the end of a block, the length.                                       *)
ShaBlocks(s, n) ==
  LET marked == Update(s, <<Marker>>)
      zeros == CHOOSE k \in 0 .. BlockBytes - 1 :
                 (Len(marked.pending) + k) % BlockBytes = BlockBytes - LengthBytes
      padded == FoldLeft(LAMBDA t, z : Update(t, <<Zero>>), marked, Zeros(zeros))
  IN  Update(padded, Length(n))

(* Poly1305::finalize: a block in progress is closed with its own length.   *)
PolyBlocks(s) ==
  [i \in DOMAIN s.absorbed |-> Closed(s.absorbed[i])]
    \o (IF s.pending = <<>> THEN <<>> ELSE <<Closed(s.pending)>>)

Finalize ==
  /\ digest = NoDigest
  /\ digest' = {[sha |-> ShaBlocks(State, fed), poly |-> PolyBlocks(State)]}
  /\ UNCHANGED <<pending, absorbed, fed>>

StreamNext == Finalize \/ \E n \in 0 .. BlockBytes + 1 : Feed(n)

-----------------------------------------------------------------------------
(* A digest depends on the message and not on how it was cut into chunks:   *)
(* at any time the blocks and the buffer are the message so far, and the    *)
(* padding is the standard's: the marker, fewer zeros than a block has      *)
(* bytes, and the length, which ends a block.  Empty chunks, chunks of a    *)
(* block and chunks across a boundary included.                             *)
ChunkingIsInvisible ==
  /\ FlattenSeq(absorbed) \o pending = Message(fed)
  /\ Len(pending) < BlockBytes
  /\ \A i \in DOMAIN absorbed : Len(absorbed[i]) = BlockBytes
  /\ \A d \in digest :
       /\ d.sha.pending = <<>> /\ \A i \in DOMAIN d.sha.absorbed : Len(d.sha.absorbed[i]) = BlockBytes
       /\ \E z \in 0 .. BlockBytes - 1 :
            FlattenSeq(d.sha.absorbed) = Message(fed) \o <<Marker>> \o Zeros(z) \o Length(fed)
       /\ FlattenSeq([i \in DOMAIN d.poly |-> d.poly[i].bytes]) = Message(fed)

=============================================================================
