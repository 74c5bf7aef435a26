---------------------------- MODULE RemoteRoutes ----------------------------
(* How a gate chooses the remote actor that is to get a message              *)
(* (zroute/remote_strategy.go, called by zgate/gate.go routeToRemoteActor):  *)
(* the first candidate, round robin, or rendezvous hashing of the session.   *)
(* The candidates come from the routing view, which ranges over a concurrent *)
(* map: their order means nothing and changes from one snapshot to the next. *)
EXTENDS Integers, Sequences, FiniteSets, SequencesExt

CONSTANTS
    Remotes,     \* remote actors that support the message id
    Keys,        \* session and RPC ids, 0 for none
    MaxPicks     \* bound: messages routed by round robin

ASSUME KeysAssumption == Keys \subseteq Nat /\ 0 \in Keys /\ MaxPicks \in Nat /\ IsFiniteSet(Remotes)

VARIABLES
    candidates,  \* what LookupOtherActorConfigsByMsgIDView returns
    strategy,    \* Server.remoteStrategy
    score,       \* hrwScore of a key and an actor
    seq,         \* RoundRobinStrategy.seq
    last,        \* history: candidates and choice of a key's last message
    since        \* history: choices since the candidates changed

routesVars == <<candidates, strategy, score, seq, last, since>>

Strategies == {"first", "roundRobin", "rendezvous"}
NotRouted == [from |-> {}, to |-> {}]
NoLast == [k \in Keys \ {0} |-> NotRouted]

(* The mixing of hrwScore permutes the 64-bit words, so the scores of one    *)
(* key tell the actors apart; which is the highest is as good as random.     *)
hrwScores == {f \in [Remotes -> 1 .. Cardinality(Remotes)] :
                 \A a, b \in Remotes : f[a] = f[b] => a = b}

RoutesInit ==
    /\ candidates = <<>> /\ strategy = "first"
    /\ score \in [Keys \ {0} -> hrwScores]
    /\ seq = 0 /\ last = NoLast /\ since = <<>>

(* Instances come and go, and the view is built anew.                        *)
ViewChanges ==
    /\ candidates' \in SetToAllKPermutations(Remotes) \ {candidates}
    /\ since' = <<>>
    /\ UNCHANGED <<strategy, score, seq, last>>

(* nil restores the first one; a new RoundRobinStrategy counts from 0.       *)
SetRemoteRouteStrategy ==
    /\ \E s \in Strategies \cup {"nil"} :
          strategy' = IF s = "nil" THEN "first" ELSE s
    /\ seq' = 0 /\ last' = NoLast /\ since' = <<>>
    /\ UNCHANGED <<candidates, score>>

DefaultRemoteRouteKey(msg) == IF msg.session # 0 THEN msg.session ELSE msg.rpc

(* Mutant of PickRoundRobin: the last candidate is left out.                 *)
PickRoundRobinShort(n) == (seq + 1) % (IF n = 1 THEN 1 ELSE n - 1)
PickRoundRobin(n) == (seq + 1) % n

(* Mutant of PickRendezvous: the key modulo the number of candidates.        *)
PickModulo(key, list) == key % Len(list)

PickRendezvous(key, list) ==
    IF Len(list) = 1 \/ key = 0 THEN 0
    ELSE CHOOSE i \in 0 .. Len(list) - 1 :
           \A j \in DOMAIN list : score[key][list[j]] <= score[key][list[i + 1]]

PickOne(key, list) ==
    CASE strategy = "first"      -> 0
      [] strategy = "roundRobin" -> PickRoundRobin(Len(list))
      [] strategy = "rendezvous" -> PickRendezvous(key, list)

(* routeToRemoteActor; an index out of range means the first candidate.      *)
RouteToRemoteActor(msg) ==
    /\ candidates # <<>>
    /\ LET key == DefaultRemoteRouteKey(msg)
           i   == PickOne(key, candidates)
           to  == candidates[1 + (IF i \in 0 .. Len(candidates) - 1 THEN i ELSE 0)]
       IN  \/ /\ strategy = "roundRobin" /\ seq < MaxPicks
              /\ seq' = seq + 1 /\ since' = Append(since, to)
              /\ UNCHANGED last
           \/ /\ strategy = "rendezvous" /\ key # 0
              /\ last' = [last EXCEPT ![key] = [from |-> ToSet(candidates), to |-> {to}]]
              /\ UNCHANGED <<seq, since>>
           \/ /\ strategy = "first" \/ (strategy = "rendezvous" /\ key = 0)
              /\ UNCHANGED <<seq, last, since>>
    /\ UNCHANGED <<candidates, strategy, score>>

RoutesNext ==
    \/ ViewChanges \/ SetRemoteRouteStrategy
    \/ \E msg \in [session : Keys, rpc : Keys] : RouteToRemoteActor(msg)

-----------------------------------------------------------------------------
Picks(a) == Cardinality({i \in DOMAIN since : since[i] = a})

(* Round robin is fair: while the candidates stay the same, none gets more   *)
(* than one message more than another, wherever the counter was when they    *)
(* changed (remote_strategy.go 55-61).                                       *)
RoundRobinFair ==
    \A a, b \in ToSet(candidates) : Picks(a) <= Picks(b) + 1

(* Rendezvous hashing is sticky: the messages of a session change their      *)
(* actor only when it has gone or when the new one has come, in whatever     *)
(* order the view lists them ("low disruption when instances scale", 65-66). *)
StickyRoute ==
    [][\A k \in Keys \ {0} :
         last[k].to # {} /\ last'[k].to \notin {{}, last[k].to} =>
            \/ ~(last[k].to \subseteq last'[k].from)
            \/ ~(last'[k].to \subseteq last[k].from)]_routesVars
=============================================================================
