--------------------------- MODULE MCLiveSession ---------------------------
(* LiveSession for TLC. Symmetry is used in the runs without liveness.      *)
EXTENDS LiveSession, TLC

MCSymmetry == Permutations(Notes)
=============================================================================
