----------------------------- MODULE MCRestore -----------------------------
(* Instances of Restore for TLC.                                              *)
EXTENDS Restore, TLC

Symmetry == Permutations(Values \ Uncovered) \cup Permutations(Sessions)
=============================================================================
