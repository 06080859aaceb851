-------------------------- MODULE MCDissimilarNav --------------------------
(* Positions on both sides of the origin, near enough to be explained by    *)
(* noise and too far to be.                                                 *)
EXTENDS DissimilarNav

MCPositions == {-4, -1, 0, 6, 14}
MCUncerts == {1, 2}
MCDrifts == {0, 25}
=============================================================================
