------------------------------- MODULE Aead -------------------------------
(***************************************************************************)
(* aead_encrypt and aead_decrypt of tpt-protocols/src/chacha.rs.  The       *)
(* cipher is symbolic: chacha20_block gives a different pad for every key, *)
(* nonce and block counter, a byte is a value with the set of pads xored   *)
(* into it, and a tag stands for the one-time key and the text it was      *)
(* computed over.  Where the pads are taken from the key stream, and what  *)
(* text the tag covers, is the code's.                                     *)
(***************************************************************************)
EXTENDS Integers, Sequences, SequencesExt

CONSTANTS
  PadBytes,    \* bytes of key stream in a block (64)
  TagBlock,    \* bytes in a block of the authenticator (16)
  CounterMod   \* the block counter wraps here (2^32)

Byte(v) == [v |-> v, pads |-> {}]

(* chacha20_block: byte j of block `counter`. *)
Pad(key, nonce, counter, j) == <<key, nonce, counter % CounterMod, j>>

Mut_FirstCounterZero == 0

(* The key stream for data begins at block 1: block 0 makes the tag's key. *)
FirstCounter == 1

(* chacha20_xor from FirstCounter on. *)
Xor(key, nonce, data) ==
  [i \in DOMAIN data |->
     [data[i] EXCEPT !.pads =
        SymDiff(@, {Pad(key, nonce, FirstCounter + ((i - 1) \div PadBytes), (i - 1) % PadBytes)})]]

ZeroPad(data) ==
  data \o [i \in 1 .. (TagBlock - (Len(data) % TagBlock)) % TagBlock |-> Byte(0)]

Mut_TagTextNoLengths(aad, ct) == ZeroPad(aad) \o ZeroPad(ct)

(* finish_tag: what the authenticator is fed. *)
TagText(aad, ct) == ZeroPad(aad) \o ZeroPad(ct) \o <<Byte(Len(aad)), Byte(Len(ct))>>

(* The one-time key is the first half of block 0. *)
Tag(key, nonce, aad, ct) ==
  [otk |-> {Pad(key, nonce, 0, j) : j \in 0 .. (PadBytes \div 2) - 1}, text |-> TagText(aad, ct)]

Encrypt(key, nonce, aad, plain) ==
  LET ct == Xor(key, nonce, plain)
  IN  [ct |-> ct, tag |-> Tag(key, nonce, aad, ct)]

(* The plaintext, as a set that is empty when the tag does not match. *)
Decrypt(key, nonce, aad, ct, tag) ==
  IF tag = Tag(key, nonce, aad, ct) THEN {Xor(key, nonce, ct)} ELSE {}

=============================================================================
