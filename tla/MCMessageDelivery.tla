-------------------------- MODULE MCMessageDelivery -------------------------
(* Instances of MessageDelivery for TLC.                                     *)
EXTENDS MessageDelivery, TLC

CONSTANTS m1, a1, a2, t1, tType, r1, r2, r3

OneMsg == {m1}

(* Two actors of one type.  The broadcast topic is shared like the type's,   *)
(* and the second actor's own topic is like the first one's, so both are     *)
(* left out.                                                                 *)
TwoActors == {a1, a2}
TopicLists == a1 :> <<t1, tType>> @@ a2 :> <<tType>>
SharedTopic == {tType}
OneOrTwo == {1, 2}

ThreeRemotes == {r1, r2, r3}
TwoKeys == {0, 1, 2}
=============================================================================
