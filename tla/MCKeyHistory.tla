---------------------------- MODULE MCKeyHistory ----------------------------
(* KeyHistory for TLC: all three voices of a chip and one more note.         *)
EXTENDS KeyHistory, TLC

MCSymmetry == Permutations(Notes)
=============================================================================
