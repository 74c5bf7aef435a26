---------------------------- MODULE MCRouteCache ----------------------------
(* Model-checking instances of RouteCache. *)
EXTENDS RouteCache

CONSTANTS a1, a2, cfg1, r1, r2

TwoActors  == {a1, a2}
OneLocal   == {a1}
OneConfig  == {cfg1}
TwoReaders == {r1, r2}
=============================================================================
