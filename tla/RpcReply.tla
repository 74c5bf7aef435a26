------------------------------ MODULE RpcReply -------------------------------
(***************************************************************************)
(* How a request is answered: CallActor on one actor, Dispatcher.Dispatch  *)
(* and SendActorReply on another, and the way of the response back into    *)
(* the sender of the caller (zactor/dispatcher.go, helper.go, base.go      *)
(* Push).                                                                  *)
(*                                                                         *)
(* Every actor has a sender of its own and issues its own rpcIds, so two   *)
(* actors issue the same ones.  The slots behind an rpcId are those of     *)
(* RpcSender: here SetReply reaches the call of that id that still waits,  *)
(* and no other.                                                           *)
(***************************************************************************)
EXTENDS Integers

CONSTANTS
    Servers,     \* actors that call each other
    MaxCalls,    \* bound: calls of an actor
    MayLose      \* the bus may lose a message

RpcIds == 1 .. MaxCalls
Nobody == "nobody"

ASSUME ReplyAssumption ==
    MaxCalls \in Nat /\ MayLose \in BOOLEAN /\ Nobody \notin Servers

VARIABLES
    target,    \* whom a call was made to, Nobody while the id is unused
    fate,      \* of a call: "none", "waiting", "reply", "placeholder", "timeout"
    net,       \* messages on their way: [kind, from, to, id]
    served,    \* history: calls, <<actor, id>>, that were sent a reply
    refused    \* history: calls whose reply could not be sent

replyVars == <<target, fate, net, served, refused>>

ReplyInit ==
    /\ target = [a \in Servers |-> [i \in RpcIds |-> Nobody]]
    /\ fate = [a \in Servers |-> [i \in RpcIds |-> "none"]]
    /\ net = {} /\ served = {} /\ refused = {}

(* AddSender issues the ids of an actor in turn, and never one twice.      *)
NextId(a, i) ==
    target[a][i] = Nobody /\ \A j \in 1 .. i - 1 : target[a][j] # Nobody

(* CallActor: the request is sent, and GetReply waits.                     *)
Ask(a, b, i) ==
    /\ a # b /\ NextId(a, i)
    /\ target' = [target EXCEPT ![a][i] = b]
    /\ fate' = [fate EXCEPT ![a][i] = "waiting"]
    /\ net' = net \cup {[kind |-> "request", from |-> a, to |-> b, id |-> i]}
    /\ UNCHANGED <<served, refused>>

(* SetReply of actor a: the call of that id, if it still waits.            *)
SetReplyOf(a, i, what) ==
    fate' = [fate EXCEPT ![a][i] = IF @ = "waiting" THEN what ELSE @]

(* Dispatch drops a request of an unknown kind, and one whose handler      *)
(* returns nil is not answered.                                            *)
Unanswered(m) ==
    /\ m \in net /\ m.kind = "request"
    /\ net' = net \ {m}
    /\ UNCHANGED <<target, fate, served, refused>>

(* Mutant of SendActorReply: the response goes out under the next id.      *)
SendActorReplyNextId(m) ==
    /\ m \in net /\ m.kind = "request"
    /\ net' = (net \ {m}) \cup
              {[kind |-> "response", from |-> m.to, to |-> m.from,
                id |-> IF m.id < MaxCalls THEN m.id + 1 ELSE m.id]}
    /\ served' = served \cup {<<m.from, m.id>>}
    /\ UNCHANGED <<target, fate, refused>>

(* SendActorReply: the response goes to the caller ...                     *)
SendActorReply(m) ==
    /\ m \in net /\ m.kind = "request"
    /\ net' = (net \ {m}) \cup
              {[kind |-> "response", from |-> m.to, to |-> m.from, id |-> m.id]}
    /\ served' = served \cup {<<m.from, m.id>>}
    /\ UNCHANGED <<target, fate, refused>>

(* ... or it is nil or is not serialised: then a placeholder is put into   *)
(* the sender of the actor that replies.                                   *)
SendActorReplyFails(m) ==
    /\ m \in net /\ m.kind = "request"
    /\ net' = net \ {m}
    /\ SetReplyOf(m.to, m.id, "placeholder")
    /\ refused' = refused \cup {<<m.from, m.id>>}
    /\ UNCHANGED <<target, served>>

(* Push of a response: SetReply, at once and not through the mailbox.      *)
PushResponse(m) ==
    /\ m \in net /\ m.kind = "response"
    /\ net' = net \ {m}
    /\ SetReplyOf(m.to, m.id, "reply")
    /\ UNCHANGED <<target, served, refused>>

LoseMessage(m) ==
    /\ MayLose
    /\ m \in net
    /\ net' = net \ {m}
    /\ UNCHANGED <<target, fate, served, refused>>

(* GetReply's timer.                                                       *)
GiveUpWaiting(a, i) ==
    /\ fate[a][i] = "waiting"
    /\ fate' = [fate EXCEPT ![a][i] = "timeout"]
    /\ UNCHANGED <<target, net, served, refused>>

ReplyNext ==
    \/ \E a, b \in Servers, i \in RpcIds : Ask(a, b, i)
    \/ \E m \in net : \/ Unanswered(m) \/ SendActorReply(m) \/ SendActorReplyFails(m)
                      \/ PushResponse(m) \/ LoseMessage(m)
    \/ \E a \in Servers, i \in RpcIds : GiveUpWaiting(a, i)

-----------------------------------------------------------------------------
(* Properties *)

(* SendActorReply, Push (helper.go 45-92, base.go 240-265): a call that is *)
(* answered is answered by the actor it was made to, with the reply to     *)
(* this call; and one that ends with a placeholder does so because its     *)
(* own actor failed to reply, to a call that bears the same id.            *)
AnsweredByTarget ==
    \A a \in Servers, i \in RpcIds :
        /\ fate[a][i] = "reply" => <<a, i>> \in served
        /\ fate[a][i] = "placeholder" =>
             \E b \in Servers \ {a} : target[b][i] = a /\ <<b, i>> \in refused

(* "Write a unified internal-error placeholder instead of forcing caller   *)
(* timeout dependence" (helper.go 54): a caller whose reply failed does    *)
(* not go on waiting, unless the placeholder is still on its way.          *)
FailureTold ==
    \A c \in refused : fate[c[1]][c[2]] = "waiting" =>
        \E m \in net : m.kind = "response" /\ m.to = c[1] /\ m.id = c[2]
=============================================================================
