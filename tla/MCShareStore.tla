---------------------------- MODULE MCShareStore ----------------------------
(* Small instance of ShareStore for TLC. *)
EXTENDS ShareStore, TLC

CONSTANTS d1, d2

Lengths == [d \in Digest |-> IF d = d1 THEN 1 ELSE 2]
CallSymmetry == Permutations(Call)
=============================================================================
