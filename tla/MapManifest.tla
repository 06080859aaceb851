---------------------------- MODULE MapManifest ----------------------------
(***************************************************************************)
(* Signed map databases (tpt-protocols/src/integrity.rs) and position fixes *)
(* (antispoof.rs).  The hash is symbolic: a hash is a set with one element  *)
(* that names the set that was hashed, and the exclusive or of two hashes   *)
(* is the symmetric difference.                                             *)
(***************************************************************************)
EXTENDS FiniteSetsExt, SequencesExt

Hash(x) == {[hash |-> x]}

(* hmac_sha256: both passes are keyed, so the tag names the key. *)
Hmac(key, x) == {[key |-> key, mac |-> x]}

HashTile(tile) == Hash({[tile |-> tile]})

Mut_RootHashOfXor(tiles) ==
  FoldLeft(LAMBDA root, tile : SymDiff(root, HashTile(tile)), {}, tiles)

(* compute_root_hash: fold each tile's hash in, then hash the accumulator.  *)
RootHash(tiles) ==
  FoldLeft(LAMBDA root, tile : Hash(SymDiff(root, HashTile(tile))), {}, tiles)

BuildManifest(tiles, key) ==
  LET root == RootHash(tiles)
  IN  [rootHash |-> root, signature |-> Hmac(key, root), tiles |-> Len(tiles)]

(* verify(): the tile count of the manifest is not compared. *)
Verify(manifest, tiles, key) ==
  /\ RootHash(tiles) = manifest.rootHash
  /\ Hmac(key, RootHash(tiles)) = manifest.signature

-----------------------------------------------------------------------------
(* A signed position report (antispoof.rs, GnssAuth): the velocity is given *)
(* and left out of the signature.                                           *)
Sign(pos, vel, tow, key) == Hmac(key, [pos |-> pos, tow |-> tow])
VerifyFix(token, pos, tow, key) == token = Sign(pos, 0, tow, key)

=============================================================================
