----------------------------- MODULE MCSession -----------------------------
(* Instances of Session for TLC.                                              *)
EXTENDS AttributionInv, TLC

\* Commands are interchangeable; daemons are too (symmetry for safety runs).
Symmetry == Permutations(Cmds) \cup Permutations(Daemons)
=============================================================================
