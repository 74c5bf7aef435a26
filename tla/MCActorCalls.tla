---------------------------- MODULE MCActorCalls ----------------------------
(* Instances of ActorCalls for TLC.                                          *)
EXTENDS ActorCalls

CONSTANTS c1, c2, a, b

TwoCallers == {c1, c2}
OnlySecond == {c2}
TwoServers == {a, b}
=============================================================================
