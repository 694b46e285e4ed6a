--------------------------- MODULE MCAutoScaling ----------------------------
(***************************************************************************)
(* Small instances of AutoScaling.                                         *)
(***************************************************************************)
EXTENDS AutoScaling, TLC

RequestSymmetry == Permutations(Requests)
=============================================================================
