------------------------------ MODULE TopicBus ------------------------------
(* The bus between processes (znats/nats.go, nats_bus.go) and the            *)
(* subscriptions of actors to it (zactor/pubsub.go, base.go Init and Close). *)
(* A pool of NATS clients publishes by turns; its first client does all the  *)
(* subscribing and tracks one subscription per topic, although the actors of *)
(* a process share topics: each subscribes to its own, to the one of its     *)
(* type and to the broadcast topic.                                          *)
EXTENDS Integers, Sequences, FiniteSets

CONSTANTS
    BusActors,   \* actors of this process
    TopicsOf,    \* the topics of an actor, in the order it subscribes to them
    Published,   \* the topics messages are published to
    NoSub,       \* no subscription
    Asked,       \* pool sizes the application may ask for
    MaxRetries,  \* DefaultMaxRetries, 30 in the code
    MaxSent      \* bound: messages published

TopicSet(a) == {TopicsOf[a][i] : i \in DOMAIN TopicsOf[a]}
Topics == UNION {TopicSet(a) : a \in BusActors}

ASSUME BusAssumption ==
    /\ TopicsOf \in [BusActors -> Seq(Topics) \ {<<>>}]
    /\ Asked \subseteq Int /\ MaxRetries \in Nat \ {0} /\ MaxSent \in Nat

ASSUME PublishedAssumption == \A t \in Published : \E a \in BusActors :
    \E i \in DOMAIN TopicsOf[a] : TopicsOf[a][i] = t

Subs == {s \in BusActors \X Topics : s[2] \in TopicSet(s[1])}

VARIABLES
    asked,       \* NewDefaultNats' poolSize argument
    conn,        \* conn of each client: "nil", "open", "closed"
    connecting,  \* Connect of the pool: not called, "busy", or how it ended
    attempt,     \* its attempt
    subs,        \* subs of the first client: the item of each topic
    live,        \* subscriptions the NATS server knows
    apc,         \* an actor: in "init", "open", in "close" or "closed"
    done,        \* topics Init has gone through
    handles,     \* Actor.subs
    counter,     \* NatsPool.counter
    pipe,        \* what a client has published and the server not yet routed
    got,         \* the last message delivered to each subscription, or 0
    missed,      \* history: subscriptions that failed
    cut,         \* history: subscriptions lost with a topic or a connection
    crossed      \* history: some message arrived after a later one

clientVars == <<asked, conn, connecting, attempt>>
subVars   == <<subs, live, apc, done, handles, missed, cut>>
pubVars   == <<counter, pipe, got, crossed>>
busVars   == <<clientVars, subVars, pubVars>>

(* Mutant of PoolSize: one client more than asked for.                       *)
PoolSizeOneMore(n) == IF n <= 0 THEN 1 ELSE n + 1
PoolSize(n) == IF n <= 0 THEN 1 ELSE n
Clients == 1 .. PoolSize(asked)

BusInit ==
    /\ asked \in Asked
    /\ conn = [c \in Clients |-> "nil"]
    /\ connecting \in {"no", "busy"} /\ attempt = 1
    /\ subs = [t \in Topics |-> NoSub] /\ live = {}
    /\ apc = [a \in BusActors |-> "init"]
    /\ done = [a \in BusActors |-> 0]
    /\ handles = [a \in BusActors |-> {}]
    /\ counter = 0
    /\ pipe = [c \in Clients |-> <<>>]
    /\ got = [s \in Subs |-> 0] /\ crossed = FALSE
    /\ missed = {} /\ cut = {}

-----------------------------------------------------------------------------
(* NatsPool.Connect, which the application calls or not: the clients one     *)
(* after the other, each with its retries.                                   *)

Connected == {c \in Clients : conn[c] # "nil"}
Connecting == Cardinality(Connected) + 1

Connects ==
    /\ connecting = "busy"
    /\ conn' = [conn EXCEPT ![Connecting] = "open"]
    /\ connecting' = IF Connecting = PoolSize(asked) THEN "done" ELSE "busy"
    /\ attempt' = 1
    /\ UNCHANGED <<asked, subVars, pubVars>>

MoreRetries == attempt < MaxRetries

(* Mutant of ConnectFails: the attempts start over.                          *)
ConnectFailsForever ==
    /\ connecting = "busy"
    /\ attempt' = (attempt % MaxRetries) + 1
    /\ UNCHANGED <<asked, conn, connecting, subVars, pubVars>>

(* nats.Connect fails; a retry after a while, or the last error.             *)
ConnectFails ==
    /\ connecting = "busy"
    /\ attempt' = attempt + 1
    /\ connecting' = IF MoreRetries THEN "busy" ELSE "failed"
    /\ UNCHANGED <<asked, conn, subVars, pubVars>>

(* ctx.Done(), before an attempt or during the wait.                         *)
ConnectCancelled ==
    /\ connecting = "busy"
    /\ connecting' = "failed"
    /\ UNCHANGED <<asked, conn, attempt, subVars, pubVars>>

(* Nats.Close: the connection's subscriptions are gone.                      *)
CloseClient(c) ==
    /\ conn[c] = "open"
    /\ conn' = [conn EXCEPT ![c] = "closed"]
    /\ live' = IF c = 1 THEN {} ELSE live
    /\ cut' = IF c = 1 THEN cut \cup live ELSE cut
    /\ UNCHANGED <<asked, connecting, attempt, subs, apc, done, handles, missed,
                   pubVars>>

-----------------------------------------------------------------------------
(* Subscriptions *)

NextTopic(a) == TopicsOf[a][done[a] + 1]
Advance(a) ==
    /\ done' = [done EXCEPT ![a] = @ + 1]
    /\ apc' = IF done[a] + 1 = Len(TopicsOf[a]) THEN [apc EXCEPT ![a] = "open"] ELSE apc

(* Mutant of AddHandle: the handle replaces the ones before.                 *)
AddHandleOnly(a, s) == handles' = [handles EXCEPT ![a] = {s}]
AddHandle(a, s) == handles' = [handles EXCEPT ![a] = @ \cup {s}]

(* The last subscription of a topic is the one that is tracked.              *)
upsertSub(t, s) == subs' = [subs EXCEPT ![t] = s]

(* SubscribeCall on the first client, upsertSub, and the handle is kept.     *)
SubscribeCall(a) ==
    /\ apc[a] = "init" /\ conn[1] = "open"
    /\ LET s == <<a, NextTopic(a)>> IN
         /\ live' = live \cup {s}
         /\ upsertSub(s[2], s)
         /\ AddHandle(a, s)
    /\ Advance(a)
    /\ UNCHANGED <<clientVars, missed, cut, pubVars>>

(* The connection is nil, or closed: add forgets the error, and Init goes on *)
(* and succeeds.                                                             *)
SubscribeFails(a) ==
    /\ apc[a] = "init" /\ conn[1] # "open"
    /\ missed' = missed \cup {<<a, NextTopic(a)>>}
    /\ Advance(a)
    /\ UNCHANGED <<clientVars, subs, live, handles, cut, pubVars>>

(* Actor.Close takes the handles ...                                         *)
BeginClose(a) ==
    /\ apc[a] = "open"
    /\ apc' = [apc EXCEPT ![a] = "close"]
    /\ UNCHANGED <<clientVars, subs, live, done, handles, missed, cut, pubVars>>

(* Mutant of Unsubscribed: through the topic, whoever has it.                *)
UnsubscribedTopic(s) == live' = live \ {subs[s[2]]}
Unsubscribed(s) == live' = live \ {s}

(* ... and cancels them one by one, if they are still valid.                 *)
UnsubscribeHandle(a) ==
    /\ apc[a] = "close"
    /\ \E s \in handles[a] :
          /\ handles' = [handles EXCEPT ![a] = @ \ {s}]
          /\ Unsubscribed(s)
    /\ UNCHANGED <<clientVars, subs, apc, done, missed, cut, pubVars>>

EndClose(a) ==
    /\ apc[a] = "close" /\ handles[a] = {}
    /\ apc' = [apc EXCEPT ![a] = "closed"]
    /\ UNCHANGED <<clientVars, subs, live, done, handles, missed, cut, pubVars>>

(* Nats.UnSubscribe by the application: the tracked subscription of a topic, *)
(* the last one made.  One that is no longer valid stays in the map.         *)
UnSubscribe(t) ==
    /\ subs[t] # NoSub
    /\ subs[t] \in live
    /\ live' = live \ {subs[t]} /\ cut' = cut \cup {subs[t]}
    /\ subs' = [subs EXCEPT ![t] = NoSub]
    /\ UNCHANGED <<clientVars, apc, done, handles, missed, pubVars>>

-----------------------------------------------------------------------------
(* NatsPool.Broadcast: the next client; the server routes what it reads from *)
(* a connection, in order, to the subscriptions it knows.                    *)

Turn == 1 + ((counter + 1) % PoolSize(asked))

PoolBroadcast(t) ==
    /\ counter < MaxSent
    /\ counter' = counter + 1
    /\ \/ /\ conn[Turn] = "open"
          /\ pipe' = [pipe EXCEPT ![Turn] = Append(@, [topic |-> t, id |-> counter + 1])]
       \/ conn[Turn] # "open" /\ UNCHANGED pipe
    /\ UNCHANGED <<clientVars, subVars, got, crossed>>

RouteMsg(c) ==
    /\ pipe[c] # <<>>
    /\ LET msg == Head(pipe[c])
           to  == {s \in live : s[2] = msg.topic}
       IN  /\ got' = [s \in Subs |-> IF s \in to THEN msg.id ELSE got[s]]
           /\ crossed' = (crossed \/ \E s \in to : got[s] > msg.id)
    /\ pipe' = [pipe EXCEPT ![c] = Tail(@)]
    /\ UNCHANGED <<clientVars, subVars, counter>>

-----------------------------------------------------------------------------
ConnectStep == Connects \/ ConnectFails \/ ConnectCancelled
CloseStep(a) == UnsubscribeHandle(a) \/ EndClose(a)

BusNext ==
    \/ ConnectStep
    \/ \E c \in Clients : CloseClient(c) \/ RouteMsg(c)
    \/ \E a \in BusActors : \/ SubscribeCall(a) \/ SubscribeFails(a)
                            \/ BeginClose(a) \/ CloseStep(a)
    \/ \E t \in Topics : UnSubscribe(t)
    \/ \E t \in Published : PoolBroadcast(t)

-----------------------------------------------------------------------------
(* Types; a connection attempt more than DefaultMaxRetries is never made.    *)
BusTypeOK ==
    /\ conn \in [Clients -> {"nil", "open", "closed"}]
    /\ connecting \in {"no", "busy", "done", "failed"}
    /\ attempt \in 1 .. MaxRetries + 1 /\ (connecting = "busy" => attempt <= MaxRetries)
    /\ subs \in [Topics -> Subs \cup {NoSub}] /\ live \subseteq Subs
    /\ apc \in [BusActors -> {"init", "open", "close", "closed"}]
    /\ \A a \in BusActors : done[a] \in 0 .. Len(TopicsOf[a]) /\ handles[a] \subseteq Subs
    /\ counter \in 0 .. MaxSent
    /\ got \in [Subs -> 0 .. MaxSent] /\ crossed \in BOOLEAN
    /\ missed \subseteq Subs /\ cut \subseteq Subs

(* An actor that is open hears all its topics, whatever the other actors on  *)
(* them do, subscribing and closing (nats.go tracks only the last            *)
(* subscription of a topic).  It does not where Subscribe failed, which Init *)
(* swallows (pubsub.go 50-52) and nobody retries, or where the application   *)
(* took away the topic or the connection.                                    *)
OpenSubscribed ==
    \A a \in BusActors : apc[a] = "open" =>
        {a} \X TopicSet(a) \subseteq live \cup missed \cup cut

(* Close leaves no subscription behind, "to avoid leaks" (base.go 59).       *)
ClosedUnsubscribed ==
    \A a \in BusActors : apc[a] = "closed" =>
        ({a} \X TopicSet(a)) \cap live = {}

(* With a pool of one client the messages of a process arrive in the order   *)
(* they were published.  With more they need not: the clients take turns and *)
(* NATS orders each connection only.                                         *)
PublishedOrder == asked <= 1 => ~crossed

(* Connect returns: it is connected, cancelled, or has used its retries.     *)
ConnectEnds == connecting = "busy" ~> connecting # "busy"
=============================================================================
