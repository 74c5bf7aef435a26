------------------------------- MODULE MCGate -------------------------------
EXTENDS Gate

CONSTANTS s1, s2, a1, a2, a3

(* Sequence numbers 1 and 3 share a slot of a ring of two, as do the two     *)
(* sessions' numbers 1.                                                      *)
TwoReqs == {<<s1, 1>>, <<s2, 3>>}
ThreeViews == {<<>>, <<a1>>, <<a1, a2, a3>>}
=============================================================================
