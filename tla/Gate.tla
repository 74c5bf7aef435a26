-------------------------------- MODULE Gate --------------------------------
(* The gate (zgate/gate.go, rtt_tracker.go).  One goroutine per session      *)
(* reads requests and pushes them to the gate's mailbox; the gate's          *)
(* goroutine routes them to its own handler, to an actor of the process or   *)
(* to a remote actor; whoever answers sends the response to the session on   *)
(* its own goroutine (HandleToClientFastPath).  Requests                     *)
(* and responses are counted in batches and their round trip is measured by  *)
(* a lock-free tracker.  One action per atomic access of the counters and of *)
(* the tracker, and one per attempt to reach a remote actor.                 *)
EXTENDS Integers, Sequences, SequencesExt, FiniteSets

CONSTANTS
    Reqs,        \* requests: <<session, seqId>> pairs, the tracker's reqKey
    Views,       \* candidate sequences the routing view may return
    Batch,       \* 100 in the code: how many messages one update stands for
    RingSize,    \* slots of the tracker, a power of two
    None

ASSUME BatchAssumption == Batch \in Nat \ {0}
ASSUME RingAssumption == RingSize \in Nat \ {0}
ASSUME ReqAssumption == IsFiniteSet(Reqs) /\ \A r \in Reqs : Len(r) = 2 /\ r[2] \in Nat
ASSUME NoneAssumption == None \notin Reqs
(* A view lists an actor once: the supported ids of a configuration are the  *)
(* keys of a map (zactor/group.go, registerActor).                           *)
ASSUME ViewsAssumption == \A v \in Views : v \in Seq(ToSet(v)) /\ IsInjective(v)

VARIABLES
    conn,              \* sessions: "new", "open", "closed"
    read,              \* where OnRead of a request is
    queue,             \* the gate's mailbox
    fate,              \* what became of a request in gateHandler
    route,             \* view, pick and targets tried of the request
    reply,             \* where sendClient of the response is
    localCount,        \* localRecvCount and localSentCount
    total,             \* recvCountTotal and sentCountTotal
    slotTime, slotKey, \* the tracker's ring: whose time, whose key
    start,             \* the time that Complete loaded
    mixed,             \* history: slots that overlapping Records have written
    torn,              \* history: requests whose time was loaded inside a Record
    closing,           \* where Close is
    flushing           \* what Close swapped out of a counter, not yet added

routeVars == <<queue, fate, route>>
countVars == <<localCount, total>>
ringVars == <<slotTime, slotKey, mixed>>
closeVars == <<closing, flushing>>
vars == <<conn, read, queue, fate, route, reply, localCount, total,
          slotTime, slotKey, start, mixed, torn, closing, flushing>>

Session(r) == r[1]
SeqId(r) == r[2]
Sessions == {Session(r) : r \in Reqs}
Slots == 0..RingSize - 1
(* seqId & mask *)
SlotOf(r) == SeqId(r) % RingSize
Dirs == {"recv", "sent"}
NoRoute == [view |-> <<>>, pick |-> 0, tried |-> <<>>, encodes |-> TRUE]

Init ==
    /\ conn = [s \in Sessions |-> "new"]
    /\ read = [r \in Reqs |-> "new"]
    /\ queue = <<>>
    /\ fate = [r \in Reqs |-> "none"]
    /\ route = [r \in Reqs |-> NoRoute]
    /\ reply = [r \in Reqs |-> "none"]
    /\ localCount = [d \in Dirs |-> 0]
    /\ total = [d \in Dirs |-> 0]
    /\ slotTime = [i \in Slots |-> None]
    /\ slotKey = [i \in Slots |-> None]
    /\ start = [r \in Reqs |-> None]
    /\ mixed = {}
    /\ torn = {}
    /\ closing = "no"
    /\ flushing = 0

-----------------------------------------------------------------------------
(* Sessions.  The network server calls OnAccept, and channelClose when a     *)
(* connection ends; GetChannel no longer finds a closed one.                 *)

OnAccept(s) ==
    /\ conn[s] = "new" /\ closing # "done"
    /\ conn' = [conn EXCEPT ![s] = "open"]
    /\ UNCHANGED <<read, routeVars, reply, countVars, ringVars, start,
                   torn, closeVars>>

ChannelClose(s) ==
    /\ conn[s] = "open"
    /\ conn' = [conn EXCEPT ![s] = "closed"]
    /\ UNCHANGED <<read, routeVars, reply, countVars, ringVars, start,
                   torn, closeVars>>

OnlineUsers == Cardinality({s \in Sessions : conn[s] = "open"})

-----------------------------------------------------------------------------
(* OnRead.  A session's requests are read one after the other.               *)

(* The limiter may refuse the request; otherwise it is pushed.               *)
OnRead(r) ==
    /\ read[r] = "new" /\ conn[Session(r)] = "open"
    /\ \A q \in Reqs : Session(q) = Session(r) => read[q] \in {"new", "refused", "done"}
    /\ \/ /\ read' = [read EXCEPT ![r] = "refused"]
          /\ UNCHANGED <<queue, fate>>
       \/ /\ read' = [read EXCEPT ![r] = "count"]
          /\ queue' = Append(queue, r)
          /\ fate' = [fate EXCEPT ![r] = "queued"]
    /\ UNCHANGED <<conn, route, reply, countVars, ringVars, start, torn, closeVars>>

(* Add(1) % 100 == 0: this one updates the metrics for the whole batch.      *)
Counted(d) == localCount' = [localCount EXCEPT ![d] = @ + 1]
BatchFull(d) == (localCount[d] + 1) % Batch = 0

(* Mutant of AddBatch: the update stands for one message.                    *)
AddOne(d) == total' = [total EXCEPT ![d] = @ + 1]
AddBatch(d) == total' = [total EXCEPT ![d] = @ + Batch]

Tracked(r) == SeqId(r) > 0
AfterCountRecv(r) == IF Tracked(r) THEN "time" ELSE "done"

CountRecv(r) ==
    /\ read[r] = "count"
    /\ Counted("recv")
    /\ read' = [read EXCEPT ![r] = IF BatchFull("recv") THEN "flush" ELSE AfterCountRecv(r)]
    /\ UNCHANGED <<conn, routeVars, reply, total, ringVars,
                   start, torn, closeVars>>

FlushRecv(r) ==
    /\ read[r] = "flush"
    /\ AddBatch("recv")
    /\ read' = [read EXCEPT ![r] = AfterCountRecv(r)]
    /\ UNCHANGED <<conn, routeVars, reply, localCount, ringVars,
                   start, torn, closeVars>>

(* RTTTracker.Record: the time, then the key.                                *)
Recording(i) == {r \in Reqs : read[r] = "key" /\ SlotOf(r) = i}

RecordTime(r) ==
    /\ read[r] = "time"
    /\ slotTime' = [slotTime EXCEPT ![SlotOf(r)] = r]
    /\ mixed' = IF Recording(SlotOf(r)) = {} THEN mixed \ {SlotOf(r)}
                                             ELSE mixed \cup {SlotOf(r)}
    /\ read' = [read EXCEPT ![r] = "key"]
    /\ UNCHANGED <<conn, routeVars, reply, countVars, slotKey, start,
                   torn, closeVars>>

RecordKey(r) ==
    /\ read[r] = "key"
    /\ slotKey' = [slotKey EXCEPT ![SlotOf(r)] = r]
    /\ read' = [read EXCEPT ![r] = "done"]
    /\ UNCHANGED <<conn, routeVars, reply, countVars, slotTime, mixed,
                   start, torn, closeVars>>

-----------------------------------------------------------------------------
(* The gate's goroutine: HandleClientMessage, gateHandler,                   *)
(* routeToRemoteActor and sendNoRouteError.  It is busy while it tries       *)
(* remote actors, and while it sends a response itself.                      *)

LoopBusy == \E r \in Reqs :
    \/ fate[r] = "routing"
    \/ fate[r] = "gate" /\ reply[r] \notin {"unsent", "done"}

(* Whether the gate's handler, or the OnNoRoute hook, answers.               *)
MayAnswer(r) == \E answer \in {"send", "unsent"} :
    reply' = [reply EXCEPT ![r] = answer]

(* pickIdx outside the candidates means the first of them.                   *)
Preferred(view, pick) == IF pick \in 0..Len(view) - 1 THEN pick ELSE 0

(* The candidate of attempt i, both counted from 0: the preferred one, then  *)
(* the others in the order of the view.                                      *)
(* Mutant of Target: the preferred one is not skipped.                       *)
TargetUnskipped(view, pick, i) ==
    view[1 + (IF i = 0 THEN Preferred(view, pick) ELSE i - 1)]
Target(view, pick, i) ==
    LET p == Preferred(view, pick) IN
    view[1 + (IF i = 0 THEN p ELSE IF i - 1 >= p THEN i ELSE i - 1)]

StartRemote(r, view, pick, encodes) ==
    /\ fate' = [fate EXCEPT ![r] = "routing"]
    /\ route' = [route EXCEPT ![r] = [view |-> view, pick |-> pick,
                                        tried |-> <<>>, encodes |-> encodes]]
    /\ UNCHANGED reply

SendNoRouteError(r) ==
    /\ fate' = [fate EXCEPT ![r] = "gate"]
    /\ MayAnswer(r)

(* Whether the gate has a handler for the message id, what RouteLocal finds, *)
(* whether there is a bus and what the routing view holds differ from one    *)
(* message to the next.                                                      *)
GateHandler(r) ==
    \E own \in BOOLEAN, local \in {"none", "gate", "actor"}, bus \in BOOLEAN, view \in Views :
       \/ /\ own
          /\ fate' = [fate EXCEPT ![r] = "gate"]
          /\ MayAnswer(r) /\ UNCHANGED route
       \/ /\ ~own /\ local = "actor"
          /\ fate' = [fate EXCEPT ![r] = "actor"]
          /\ UNCHANGED <<route, reply>>
       \/ /\ ~own /\ local # "actor" /\ (view = <<>> \/ ~bus)
          /\ SendNoRouteError(r) /\ UNCHANGED route
       \/ /\ ~own /\ local # "actor" /\ view # <<>> /\ bus
          /\ \E pick \in -1..Len(view), encodes \in BOOLEAN :
                StartRemote(r, view, pick, encodes)

HandleClientMessage ==
    /\ queue # <<>> /\ ~LoopBusy
    /\ queue' = Tail(queue)
    /\ LET r == Head(queue) IN
       IF conn[Session(r)] = "open"
       THEN GateHandler(r)
       ELSE fate' = [fate EXCEPT ![r] = "gone"] /\ UNCHANGED <<route, reply>>
    /\ UNCHANGED <<conn, read, countVars, ringVars, start, torn, closeVars>>

(* One attempt: the broadcast succeeds, or fails and the next candidate is   *)
(* tried, or the message cannot be encoded and the routing ends.             *)
MoreCandidates(r) == Len(route[r].tried) < Len(route[r].view)
Tried(r) == Append(route[r].tried,
                   Target(route[r].view, route[r].pick, Len(route[r].tried)))

TryRemote(r) ==
    /\ fate[r] = "routing" /\ MoreCandidates(r)
    /\ \/ /\ ~route[r].encodes
          /\ route' = [route EXCEPT ![r] = NoRoute]
          /\ SendNoRouteError(r)
       \/ /\ route[r].encodes
          /\ route' = [route EXCEPT ![r] = NoRoute]
          /\ fate' = [fate EXCEPT ![r] = "actor"]
          /\ UNCHANGED reply
       \/ /\ route[r].encodes
          /\ route' = [route EXCEPT ![r].tried = Tried(r)]
          /\ UNCHANGED <<fate, reply>>
    /\ UNCHANGED <<conn, read, queue, countVars, ringVars, start, torn, closeVars>>

(* All candidates failed.                                                    *)
Exhausted(r) ==
    /\ fate[r] = "routing" /\ ~MoreCandidates(r)
    /\ route' = [route EXCEPT ![r] = NoRoute]
    /\ SendNoRouteError(r)
    /\ UNCHANGED <<conn, read, queue, countVars, ringVars, start, torn, closeVars>>

(* The actor that got the request answers, on its own goroutine.             *)
Answer(r) ==
    /\ fate[r] = "actor" /\ reply[r] = "none"
    /\ reply' = [reply EXCEPT ![r] = "send"]
    /\ UNCHANGED <<conn, read, routeVars, countVars, ringVars, start,
                   torn, closeVars>>

-----------------------------------------------------------------------------
(* sendClient and RTTTracker.Complete.                                       *)

SendClient(r) ==
    /\ reply[r] = "send"
    /\ reply' = [reply EXCEPT ![r] = IF conn[Session(r)] = "open" THEN "count" ELSE "unsent"]
    /\ UNCHANGED <<conn, read, routeVars, countVars, ringVars, start,
                   torn, closeVars>>

AfterCountSent(r) == IF Tracked(r) THEN "check" ELSE "done"

CountSent(r) ==
    /\ reply[r] = "count"
    /\ Counted("sent")
    /\ reply' = [reply EXCEPT ![r] = IF BatchFull("sent") THEN "flush" ELSE AfterCountSent(r)]
    /\ UNCHANGED <<conn, read, routeVars, total, ringVars,
                   start, torn, closeVars>>

FlushSent(r) ==
    /\ reply[r] = "flush"
    /\ AddBatch("sent")
    /\ reply' = [reply EXCEPT ![r] = AfterCountSent(r)]
    /\ UNCHANGED <<conn, read, routeVars, localCount, ringVars,
                   start, torn, closeVars>>

(* Check 1.                                                                  *)
CheckKey(r) ==
    /\ reply[r] = "check"
    /\ reply' = [reply EXCEPT ![r] = IF slotKey[SlotOf(r)] = r THEN "load" ELSE "done"]
    /\ UNCHANGED <<conn, read, routeVars, countVars, ringVars, start,
                   torn, closeVars>>

(* A slot with this request's key has a time, so start is not 0.            *)
LoadTime(r) ==
    /\ reply[r] = "load"
    /\ start' = [start EXCEPT ![r] = slotTime[SlotOf(r)]]
    /\ reply' = [reply EXCEPT ![r] = "recheck"]
    /\ torn' = IF Recording(SlotOf(r)) # {} \/ SlotOf(r) \in mixed
               THEN torn \cup {r} ELSE torn
    /\ UNCHANGED <<conn, read, routeVars, countVars, ringVars, closeVars>>

(* Check 2, then the sanity check of the cost, which may discard it.         *)
(* Mutant of SecondCheck: the second check is left out.                      *)
NoSecondCheck(r) == TRUE
SecondCheck(r) == slotKey[SlotOf(r)] = r

Recheck(r) ==
    /\ reply[r] = "recheck"
    /\ \/ /\ SecondCheck(r)
          /\ reply' = [reply EXCEPT ![r] = "rtt"]
          /\ UNCHANGED <<start, torn>>
       \/ /\ reply' = [reply EXCEPT ![r] = "done"]
          /\ start' = [start EXCEPT ![r] = None]
          /\ torn' = torn \ {r}
    /\ UNCHANGED <<conn, read, routeVars, countVars, ringVars, closeVars>>

(* The cost becomes a sample and part of the global sums, which nothing but  *)
(* reports looks at.                                                         *)
RecordRTT(r) ==
    /\ reply[r] = "rtt"
    /\ reply' = [reply EXCEPT ![r] = "done"]
    /\ start' = [start EXCEPT ![r] = None]
    /\ torn' = torn \ {r}
    /\ UNCHANGED <<conn, read, routeVars, countVars, ringVars, closeVars>>

-----------------------------------------------------------------------------
(* Close: what the batches left over is added, then the server is closed.    *)

SwapCount(d, from, to) ==
    /\ closing = from /\ closing' = to
    /\ flushing' = localCount[d]
    /\ localCount' = [localCount EXCEPT ![d] = 0]
    /\ UNCHANGED <<conn, read, routeVars, reply, total,
                   ringVars, start, torn>>

Leftover(n) == n % Batch

AddLeftover(d, from, to) ==
    /\ closing = from /\ closing' = to
    /\ total' = [total EXCEPT ![d] = @ + Leftover(flushing)]
    /\ flushing' = 0
    /\ UNCHANGED <<conn, read, routeVars, reply, localCount,
                   ringVars, start, torn>>

CloseServer ==
    /\ closing = "server" /\ closing' = "done"
    /\ conn' = [s \in Sessions |-> "closed"]
    /\ UNCHANGED <<read, routeVars, reply, countVars, ringVars, start,
                   torn, flushing>>

Close ==
    \/ SwapCount("recv", "no", "addRecv")
    \/ AddLeftover("recv", "addRecv", "sent")
    \/ SwapCount("sent", "sent", "addSent")
    \/ AddLeftover("sent", "addSent", "server")
    \/ CloseServer

-----------------------------------------------------------------------------
Next ==
    \/ \E s \in Sessions : OnAccept(s) \/ ChannelClose(s)
    \/ \E r \in Reqs :
         \/ OnRead(r) \/ CountRecv(r) \/ FlushRecv(r) \/ RecordTime(r) \/ RecordKey(r)
         \/ TryRemote(r) \/ Exhausted(r) \/ Answer(r)
         \/ SendClient(r) \/ CountSent(r) \/ FlushSent(r)
         \/ CheckKey(r) \/ LoadTime(r) \/ Recheck(r) \/ RecordRTT(r)
    \/ HandleClientMessage
    \/ Close

Spec == Init /\ [][Next]_vars

-----------------------------------------------------------------------------
(* Every variable has its type, and the counters count no more than what was *)
(* read and sent.                                                            *)
TypeOK ==
    /\ conn \in [Sessions -> {"new", "open", "closed"}]
    /\ read \in [Reqs -> {"new", "refused", "count", "flush", "time", "key", "done"}]
    /\ \A i \in DOMAIN queue : queue[i] \in Reqs
    /\ fate \in [Reqs -> {"none", "queued", "gone", "routing", "gate", "actor"}]
    /\ reply \in [Reqs -> {"none", "send", "count", "flush", "check", "load",
                           "recheck", "rtt", "done", "unsent"}]
    /\ \A d \in Dirs : /\ localCount[d] \in 0..Cardinality(Reqs)
                       /\ total[d] \in 0..Cardinality(Reqs)
    /\ slotTime \in [Slots -> Reqs \cup {None}]
    /\ slotKey \in [Slots -> Reqs \cup {None}]
    /\ flushing \in 0..Cardinality(Reqs)

(* The batched counters lose nothing and count nothing twice (gate.go 375,   *)
(* 673 and the flush of Close, 695-702), whatever readers, senders and Close *)
(* interleave: the messages counted are those in the total, those of batches *)
(* about to be added, what Close holds, and the rest of the current batch.   *)
CountsExact ==
    /\ Cardinality({r \in Reqs : read[r] \in {"flush", "time", "key", "done"}})
         = total["recv"] + Batch * Cardinality({r \in Reqs : read[r] = "flush"})
           + (localCount["recv"] % Batch)
           + (IF closing = "addRecv" THEN flushing % Batch ELSE 0)
    /\ Cardinality({r \in Reqs : reply[r] \in {"flush", "check", "load", "recheck",
                                               "rtt", "done"}})
         = total["sent"] + Batch * Cardinality({r \in Reqs : reply[r] = "flush"})
           + (localCount["sent"] % Batch)
           + (IF closing = "addSent" THEN flushing % Batch ELSE 0)

(* The fallback over remote actors (gate.go 575-636): the preferred one is   *)
(* tried first, none is tried twice, and the client is told that there is no *)
(* route only when every candidate of the view failed, there was none, or    *)
(* the message cannot be encoded.                                            *)
FallbackComplete ==
    [][\A r \in Reqs : LET v == route[r].view  t == route[r].tried IN
         fate[r] = "routing" =>
           /\ IsInjective(t)
           /\ (t # <<>> /\ route[r].pick \in 0..Len(v) - 1) => t[1] = v[route[r].pick + 1]
           /\ ((fate'[r] = "gate" /\ route[r].encodes) => ToSet(t) = ToSet(v))]_vars

(* A round trip is measured from the request's own time (rtt_tracker.go      *)
(* 89-103), although other sessions use the same slot, unless Complete read  *)
(* the slot while a Record had stored its time and not its key, or after two *)
(* Records overlapped.                                                       *)
RttOwn ==
    \A r \in Reqs :
        reply[r] = "rtt" => (start[r] = r \/ r \in torn)

(* What the gate measures (zgate/gate.go 667-720, zgate/rtt_tracker.go     *)
(* 51-122): no message is lost or counted twice, also when the gate        *)
(* closes, and a round trip is measured from the request's own time,       *)
(* unless writers of its slot overlapped.                                  *)
MeasuresExact == CountsExact /\ RttOwn
=============================================================================
