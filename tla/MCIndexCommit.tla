---------------------------- MODULE MCIndexCommit ----------------------------
(* IndexCommit with two index runs on one small log.                         *)
EXTENDS IndexCommit, TLC

Symmetry == Permutations(Owners) \cup Permutations(Values) \cup Permutations(Imports)
=============================================================================
