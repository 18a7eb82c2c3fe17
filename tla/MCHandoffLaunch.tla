-------------------------- MODULE MCHandoffLaunch --------------------------
(* Instances of HandoffLaunch for TLC: handoffs of one task and workspace. *)
EXTENDS HandoffLaunch, TLC
CONSTANTS p1, p2, p3, h1, h2, r1, t1

\* Two terminals on one handoff and a third on another one.
MixedHandoffOf == (p1 :> h1) @@ (p2 :> h1) @@ (p3 :> h2)
\* One terminal on each of two handoffs.
PairHandoffOf == (p1 :> h1) @@ (p2 :> h2)
OneRoot == [h \in Handoffs |-> r1]
OneTask == [h \in Handoffs |-> t1]

\* The two terminals on the same handoff are interchangeable.
Symmetry == Permutations({p1, p2})
===========================================================================
