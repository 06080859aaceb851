--------------------------- MODULE MCChannelVoting ---------------------------
(* Finite instances of ChannelVoting for TLC. *)
EXTENDS ChannelVoting

(* The correct output moves between two neighbouring values. *)
MCTruths == {2, 3}
(* A runaway low, a plausible value and a runaway high. *)
MCWild == {-5, 3, 9}
=============================================================================
