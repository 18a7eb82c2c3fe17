----------------------------- MODULE MCEvidence -----------------------------
(* Evidence with one claim and no observed process.                          *)
EXTENDS Evidence, TLC

OneClaim == {[runs |-> 0, claims |-> 1, snapshots |-> 2]}

Symmetry == Permutations(Subjects)
=============================================================================
