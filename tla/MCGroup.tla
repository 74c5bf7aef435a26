------------------------------ MODULE MCGroup ------------------------------
EXTENDS GroupRuntime

CONSTANTS p, s

(* The configuration lists the actors in another order than their ids.       *)
MCOrder == <<2, 3, 1>>
MCEngines == <<"lua", "js">>

(* Two registrations of one actor, two of the others, sharing a message id.  *)
MCRequests ==
    <<[actor |-> 1, ids |-> {"m"}], [actor |-> 2, ids |-> {"m", "n"}], [actor |-> 1, ids |-> {"m", "n"}]>>
=============================================================================
