------------------------------ MODULE RpcSender ------------------------------
(***************************************************************************)
(* The pending-RPC slot pool of one actor: zactor/sender.go.               *)
(*                                                                         *)
(* ActorMsgSender owns poolSize slots.  AddSender claims a Free slot and   *)
(* issues rpcId = (version << 16) | index; SetReply, run by whatever       *)
(* goroutine delivers a response, puts it into the slot's one-element      *)
(* channel; GetReply waits for it; a watchdog goroutine recycles slots     *)
(* that were abandoned or waited too long.  None of them takes a lock:     *)
(* every access is one atomic operation, and each is one action here.      *)
(*                                                                         *)
(* Callers are the goroutines inside CallActor (the mailbox goroutine and  *)
(* the worker pool), Repliers those inside SetReply.  A reply may be late, *)
(* duplicated or missing; the timeout given to GetReply is arbitrary, so a *)
(* timer may fire at any moment.                                           *)
(***************************************************************************)
EXTENDS Integers, FiniteSets

CONSTANTS
    Callers,      \* goroutines that make calls
    Repliers,     \* goroutines that deliver responses
    NumSlots,     \* poolSize, a power of two
    Shards,       \* watchdog shards (16 in the code)
    Delay,        \* abandonedRecycleDelay
    TTL,          \* waitingForceRecycleTTL
    StartClock,   \* wall-clock reading when the pool is created
    MaxClock,     \* bound: last wall-clock reading explored
    MaxVersion    \* bound: no call starts once a slot's version got here

(* nextPowerOfTwo and the VersionShift check give 2^0 .. 2^16 slots. *)
ASSUME PoolSizeAssumption ==
    /\ NumSlots \in Nat \ {0}
    /\ \E k \in 0..16 : NumSlots = 2^k

(* A wall clock in Unix milliseconds is far beyond the 2-minute TTL, and a *)
(* fresh slot's timestamp is Go's zero value.                              *)
ASSUME TimeAssumption ==
    /\ Delay \in Nat /\ TTL \in Nat /\ StartClock \in Nat /\ MaxClock \in Nat
    /\ Delay <= TTL /\ TTL < StartClock

ASSUME BoundAssumption == Shards \in Nat \ {0} /\ MaxVersion \in Nat

Slots == 0 .. NumSlots - 1

Free      == "Free"
Waiting   == "Waiting"
Abandoned == "Abandoned"

VARIABLES
    version,    \* slot.version
    state,      \* slot.state
    stamp,      \* slot.timestamp
    ch,         \* slot.ch: the set of buffered responses, at most one
    cursor,     \* m.cursor, modulo poolSize
    clock,      \* time.Now().UnixMilli()
    done,       \* m.ctx is cancelled
    cpc,        \* where a caller is in AddSender / SendMsg / GetReply
    cslot,      \* the slot it probes or holds
    ctried,     \* i of AddSender's loop
    cver,       \* the version bits of the rpcId it was given
    cgot,       \* the response it received, as a set of at most one
    rpc,        \* where a replier is in SetReply
    rmsg,       \* the response it delivers, as a set of at most one
    wpc,        \* where the watchdog is
    wshard,     \* shardIdx
    wslot,      \* i
    wnow,       \* now
    wst,        \* st, as loaded by checkSlot
    sent,       \* history: every request sent, by rpcId and by its caller
    forced      \* history: slots ever force-recycled while Waiting

slotVars   == <<version, state, stamp, ch>>
callerVars == <<cpc, cslot, ctried, cver, cgot>>
replyVars  == <<rpc, rmsg>>
wdVars     == <<wpc, wshard, wslot, wnow, wst>>
envVars    == <<cursor, clock, done>>
history    == <<sent, forced>>
vars       == <<slotVars, callerVars, replyVars, wdVars, envVars, history>>

(* A request and the response to it carry the rpcId, here its two fields.  *)
(* "by" is not in the code: it records whose call it was.                  *)
Message == [ver : Nat, idx : Slots, by : Callers]

CallerPC  == {"idle", "scan", "bump", "stamp", "send", "enter", "fast",
              "wait", "got", "restamp"}
ReplierPC == {"idle", "state", "put"}
WatchPC   == {"sleep", "state", "stamp", "bump", "drain", "free", "stopped"}

Init ==
    /\ version = [s \in Slots |-> 1]
    /\ state   = [s \in Slots |-> Free]
    /\ stamp   = [s \in Slots |-> 0]
    /\ ch      = [s \in Slots |-> {}]
    /\ cursor = 0 /\ clock = StartClock /\ done = FALSE
    /\ cpc    = [c \in Callers |-> "idle"]
    /\ cslot  = [c \in Callers |-> 0]
    /\ ctried = [c \in Callers |-> 0]
    /\ cver   = [c \in Callers |-> 0]
    /\ cgot   = [c \in Callers |-> {}]
    /\ rpc    = [r \in Repliers |-> "idle"]
    /\ rmsg   = [r \in Repliers |-> {}]
    /\ wpc = "sleep" /\ wshard = 0 /\ wslot = 0 /\ wnow = 0 /\ wst = Free
    /\ sent = {} /\ forced = {}

-----------------------------------------------------------------------------
(* AddSender *)

(* The caller's goroutine leaves CallActor; its locals go with it.         *)
Return(c) ==
    /\ cpc'    = [cpc EXCEPT ![c] = "idle"]
    /\ cslot'  = [cslot EXCEPT ![c] = 0]
    /\ ctried' = [ctried EXCEPT ![c] = 0]
    /\ cver'   = [cver EXCEPT ![c] = 0]
    /\ cgot'   = [cgot EXCEPT ![c] = {}]

(* The call starts: atomic.AddUint64(&m.cursor, 1).                        *)
AddSender(c) ==
    /\ cpc[c] = "idle"
    /\ \A s \in Slots : version[s] < MaxVersion
    /\ cursor' = (cursor + 1) % NumSlots
    /\ cpc'    = [cpc EXCEPT ![c] = "scan"]
    /\ cslot'  = [cslot EXCEPT ![c] = cursor']
    /\ ctried' = [ctried EXCEPT ![c] = 0]
    /\ UNCHANGED <<cver, cgot, clock, done, slotVars, replyVars, wdVars, history>>

(* Mutant of Claim: the slot is taken without the compare.                 *)
ClaimWithoutCompare(c) ==
    /\ cpc[c] = "scan"
    /\ state[cslot[c]] # Abandoned
    /\ state' = [state EXCEPT ![cslot[c]] = Waiting]
    /\ cpc'   = [cpc EXCEPT ![c] = "bump"]
    /\ UNCHANGED <<cslot, ctried, cver, cgot, version, stamp, ch,
                   envVars, replyVars, wdVars, history>>

(* CompareAndSwap(Free -> Waiting) succeeds.                               *)
Claim(c) ==
    /\ cpc[c] = "scan"
    /\ state[cslot[c]] = Free
    /\ state' = [state EXCEPT ![cslot[c]] = Waiting]
    /\ cpc'   = [cpc EXCEPT ![c] = "bump"]
    /\ UNCHANGED <<cslot, ctried, cver, cgot, version, stamp, ch,
                   envVars, replyVars, wdVars, history>>

(* It fails: try the next slot, or return ErrPoolExhausted after the last. *)
Probe(c) ==
    /\ cpc[c] = "scan"
    /\ state[cslot[c]] # Free
    /\ \/ /\ ctried[c] + 1 < NumSlots
          /\ ctried' = [ctried EXCEPT ![c] = @ + 1]
          /\ cslot'  = [cslot EXCEPT ![c] = (@ + 1) % NumSlots]
          /\ UNCHANGED <<cpc, cver, cgot>>
       \/ /\ ctried[c] + 1 >= NumSlots
          /\ Return(c)
    /\ UNCHANGED <<slotVars, envVars, replyVars, wdVars, history>>

(* Mutant of BumpVersion: the version is loaded, not incremented.          *)
BumpVersionReused(c) ==
    /\ cpc[c] = "bump"
    /\ cver' = [cver EXCEPT ![c] = version[cslot[c]]]
    /\ cpc'  = [cpc EXCEPT ![c] = "stamp"]
    /\ UNCHANGED <<cslot, ctried, cgot, slotVars,
                   envVars, replyVars, wdVars, history>>

(* newVer := atomic.AddUint64(&slot.version, 1).  newVer >= 2, so the      *)
(* rpcId == 0 rollback that follows it is never taken.                     *)
BumpVersion(c) ==
    /\ cpc[c] = "bump"
    /\ version' = [version EXCEPT ![cslot[c]] = @ + 1]
    /\ cver'    = [cver EXCEPT ![c] = version'[cslot[c]]]
    /\ cpc'     = [cpc EXCEPT ![c] = "stamp"]
    /\ UNCHANGED <<cslot, ctried, cgot, state, stamp, ch,
                   envVars, replyVars, wdVars, history>>

(* StoreInt64(&slot.timestamp, now); AddSender returns the rpcId.          *)
StampClaim(c) ==
    /\ cpc[c] = "stamp"
    /\ stamp' = [stamp EXCEPT ![cslot[c]] = clock]
    /\ cpc'   = [cpc EXCEPT ![c] = "send"]
    /\ UNCHANGED <<cslot, ctried, cver, cgot, version, state, ch,
                   envVars, replyVars, wdVars, history>>

(* CallActor: m.RpcId = rpcId; a.SendMsg(...).  From here on a response to *)
(* it may turn up at any time, any number of times, or never.              *)
SendRequest(c) ==
    /\ cpc[c] = "send"
    /\ sent' = sent \cup {[ver |-> cver[c], idx |-> cslot[c], by |-> c]}
    /\ cpc'  = [cpc EXCEPT ![c] = "enter"]
    /\ UNCHANGED <<cslot, ctried, cver, cgot, forced,
                   slotVars, envVars, replyVars, wdVars>>

-----------------------------------------------------------------------------
(* GetReply *)

(* Not cancelled and timeout > 0: go on to the fast path.                  *)
EnterGetReply(c) ==
    /\ cpc[c] = "enter"
    /\ ~done
    /\ cpc' = [cpc EXCEPT ![c] = "fast"]
    /\ UNCHANGED <<cslot, ctried, cver, cgot, slotVars, envVars,
                   replyVars, wdVars, history>>

(* The fast path's non-blocking receive finds the channel empty.           *)
FastPathEmpty(c) ==
    /\ cpc[c] = "fast"
    /\ ch[cslot[c]] = {}
    /\ cpc' = [cpc EXCEPT ![c] = "wait"]
    /\ UNCHANGED <<cslot, ctried, cver, cgot, slotVars, envVars,
                   replyVars, wdVars, history>>

(* Mutant of Expected: only the slot index is compared.                    *)
ExpectedIndexOnly(c, m) == m.idx = cslot[c]

(* resp.RpcId == expectedRpcId.                                            *)
Expected(c, m) == m.ver = cver[c] /\ m.idx = cslot[c]

(* A receive, on the fast path or in the loop: a matching response ends    *)
(* the wait, another one is released and the loop goes on.                 *)
Receive(c) ==
    /\ cpc[c] \in {"fast", "wait"}
    /\ \E m \in ch[cslot[c]] :
          \/ /\ Expected(c, m)
             /\ cgot' = [cgot EXCEPT ![c] = {m}]
             /\ cpc'  = [cpc EXCEPT ![c] = "got"]
          \/ /\ ~Expected(c, m)
             /\ cpc'  = [cpc EXCEPT ![c] = "wait"]
             /\ UNCHANGED cgot
    /\ ch' = [ch EXCEPT ![cslot[c]] = {}]
    /\ UNCHANGED <<cslot, ctried, cver, version, state, stamp,
                   envVars, replyVars, wdVars, history>>

(* success(): a plain store of Free, whatever the state is by now.         *)
Success(c) ==
    /\ cpc[c] = "got"
    /\ state' = [state EXCEPT ![cslot[c]] = Free]
    /\ Return(c)
    /\ UNCHANGED <<version, stamp, ch,
                   envVars, replyVars, wdVars, history>>

(* timeout <= 0 on entry, the timer, or ctx.Done(): try Waiting ->         *)
(* Abandoned, and return at once when the swap fails.                      *)
Abandon(c) ==
    /\ cpc[c] \in {"enter", "wait"}
    /\ \/ /\ state[cslot[c]] = Waiting
          /\ state' = [state EXCEPT ![cslot[c]] = Abandoned]
          /\ cpc'   = [cpc EXCEPT ![c] = "restamp"]
          /\ UNCHANGED <<cslot, ctried, cver, cgot>>
       \/ /\ state[cslot[c]] # Waiting
          /\ UNCHANGED state
          /\ Return(c)
    /\ UNCHANGED <<version, stamp, ch,
                   envVars, replyVars, wdVars, history>>

(* StoreInt64(&slot.timestamp, now) after the swap; GetReply returns.      *)
StampAbandoned(c) ==
    /\ cpc[c] = "restamp"
    /\ stamp' = [stamp EXCEPT ![cslot[c]] = clock]
    /\ Return(c)
    /\ UNCHANGED <<version, state, ch,
                   envVars, replyVars, wdVars, history>>

-----------------------------------------------------------------------------
(* SetReply, run for a response to some request sent earlier *)

(* First check: the slot's version is still the request's.  A response     *)
(* that fails it is dropped, which changes nothing.                        *)
SetReply(r, m) ==
    /\ rpc[r] = "idle"
    /\ version[m.idx] = m.ver
    /\ rpc'  = [rpc EXCEPT ![r] = "state"]
    /\ rmsg' = [rmsg EXCEPT ![r] = {m}]
    /\ UNCHANGED <<slotVars, callerVars, wdVars, envVars, history>>

(* Second check: the slot is Waiting.                                      *)
CheckWaiting(r) ==
    /\ rpc[r] = "state"
    /\ \E m \in rmsg[r] :
          \/ /\ state[m.idx] = Waiting
             /\ rpc' = [rpc EXCEPT ![r] = "put"]
             /\ UNCHANGED rmsg
          \/ /\ state[m.idx] # Waiting
             /\ rpc'  = [rpc EXCEPT ![r] = "idle"]
             /\ rmsg' = [rmsg EXCEPT ![r] = {}]
    /\ UNCHANGED <<slotVars, callerVars, wdVars, envVars, history>>

(* The non-blocking send: a full channel drops the response.               *)
PutReply(r) ==
    /\ rpc[r] = "put"
    /\ \E m \in rmsg[r] :
          ch' = [ch EXCEPT ![m.idx] = IF @ = {} THEN {m} ELSE @]
    /\ rpc'  = [rpc EXCEPT ![r] = "idle"]
    /\ rmsg' = [rmsg EXCEPT ![r] = {}]
    /\ UNCHANGED <<version, state, stamp, callerVars, wdVars, envVars, history>>

-----------------------------------------------------------------------------
(* The watchdog goroutine *)

BatchSize == IF NumSlots \div Shards < 1 THEN 1 ELSE NumSlots \div Shards

(* Mutant of ShardEnd: not cut at poolSize.                                *)
ShardEndUncut(k) == (k + 1) * BatchSize

(* One past the last slot of a shard: start + batchSize, cut at poolSize.  *)
ShardEnd(k) ==
    IF (k + 1) * BatchSize > NumSlots THEN NumSlots ELSE (k + 1) * BatchSize

(* checkSlot is over: the next slot of the shard, or the next shard.       *)
NextSlot ==
    \/ /\ wslot + 1 < ShardEnd(wshard)
       /\ wslot' = wslot + 1
       /\ wpc' = "state"
       /\ wst' = Free
       /\ UNCHANGED <<wshard, wnow>>
    \/ /\ wslot + 1 >= ShardEnd(wshard)
       /\ wshard' = (wshard + 1) % Shards
       /\ wpc' = "sleep"
       /\ wslot' = 0 /\ wnow' = 0 /\ wst' = Free

(* A tick reads the clock once for the whole shard; a shard past the end   *)
(* of a small pool is empty.                                               *)
WatchTick ==
    /\ wpc = "sleep"
    /\ \/ /\ wshard * BatchSize < ShardEnd(wshard)
          /\ wnow' = clock
          /\ wslot' = wshard * BatchSize
          /\ wpc' = "state"
          /\ UNCHANGED wshard
       \/ /\ wshard * BatchSize >= ShardEnd(wshard)
          /\ wshard' = (wshard + 1) % Shards
          /\ UNCHANGED <<wnow, wslot, wpc>>
    /\ UNCHANGED <<wst, slotVars, callerVars, replyVars, envVars, history>>

(* st := LoadInt32(&slot.state).                                           *)
CheckState ==
    /\ wpc = "state"
    /\ \/ /\ state[wslot] = Free
          /\ NextSlot
       \/ /\ state[wslot] # Free
          /\ wst' = state[wslot]
          /\ wpc' = "stamp"
          /\ UNCHANGED <<wshard, wslot, wnow>>
    /\ UNCHANGED <<slotVars, callerVars, replyVars, envVars, history>>

(* Mutant of Limit: abandoned slots wait for the TTL as well.              *)
LimitAlwaysTTL(st) == TTL

(* The age that condemns a slot seen in state st.                          *)
Limit(st) == IF st = Abandoned THEN Delay ELSE TTL

(* ts := LoadInt64(&slot.timestamp), and the two strategies.               *)
CheckStamp ==
    /\ wpc = "stamp"
    /\ \/ /\ wnow - stamp[wslot] > Limit(wst)
          /\ wpc' = "bump"
          /\ forced' = IF wst = Waiting THEN forced \cup {wslot} ELSE forced
          /\ UNCHANGED <<wshard, wslot, wnow, wst>>
       \/ /\ wnow - stamp[wslot] <= Limit(wst)
          /\ NextSlot
          /\ UNCHANGED forced
    /\ UNCHANGED <<sent, slotVars, callerVars, replyVars, envVars>>

(* recycleSlot, its three atomic steps.                                    *)
RecycleVersion ==
    /\ wpc = "bump"
    /\ version' = [version EXCEPT ![wslot] = @ + 1]
    /\ wpc' = "drain"
    /\ UNCHANGED <<wshard, wslot, wnow, wst, state, stamp, ch,
                   callerVars, replyVars, envVars, history>>

RecycleDrain ==
    /\ wpc = "drain"
    /\ ch' = [ch EXCEPT ![wslot] = {}]
    /\ wpc' = "free"
    /\ UNCHANGED <<wshard, wslot, wnow, wst, version, state, stamp,
                   callerVars, replyVars, envVars, history>>

RecycleFree ==
    /\ wpc = "free"
    /\ state' = [state EXCEPT ![wslot] = Free]
    /\ NextSlot
    /\ UNCHANGED <<version, stamp, ch, callerVars, replyVars, envVars, history>>

(* case <-m.ctx.Done(): return.                                            *)
WatchStop ==
    /\ wpc = "sleep"
    /\ done
    /\ wpc' = "stopped"
    /\ UNCHANGED <<wshard, wslot, wnow, wst, slotVars, callerVars, replyVars,
                   envVars, history>>

-----------------------------------------------------------------------------
(* Environment: time passes; the actor's context is cancelled. *)

Tick ==
    /\ clock < MaxClock
    /\ clock' = clock + 1
    /\ UNCHANGED <<cursor, done, slotVars, callerVars, replyVars, wdVars, history>>

Cancel ==
    /\ ~done
    /\ done' = TRUE
    /\ UNCHANGED <<cursor, clock, slotVars, callerVars, replyVars, wdVars, history>>

-----------------------------------------------------------------------------
(* The steps a caller's goroutine takes once it is inside CallActor.       *)
CallerStep(c) ==
    \/ Claim(c) \/ Probe(c) \/ BumpVersion(c) \/ StampClaim(c) \/ SendRequest(c)
    \/ EnterGetReply(c) \/ FastPathEmpty(c) \/ Receive(c) \/ Success(c)
    \/ Abandon(c) \/ StampAbandoned(c)

ReplierStep(r) ==
    \/ \E m \in sent : SetReply(r, m)
    \/ CheckWaiting(r) \/ PutReply(r)

Watchdog ==
    \/ WatchTick \/ CheckState \/ CheckStamp
    \/ RecycleVersion \/ RecycleDrain \/ RecycleFree \/ WatchStop

Next ==
    \/ \E c \in Callers : AddSender(c) \/ CallerStep(c)
    \/ \E r \in Repliers : ReplierStep(r)
    \/ Watchdog
    \/ Tick \/ Cancel

Spec == Init /\ [][Next]_vars

(* Goroutines inside a call and the watchdog are scheduled by the Go       *)
(* runtime, and time passes.  Nobody has to start a call, to answer one,   *)
(* or to cancel.                                                           *)
FairSpec ==
    /\ Spec
    /\ \A c \in Callers : WF_vars(CallerStep(c))
    /\ WF_vars(Watchdog)
    /\ WF_vars(Tick)

-----------------------------------------------------------------------------
(* Properties *)

(* Every variable keeps the type sender.go gives it: in particular a       *)
(* version is never below 1, so no rpcId is 0 and the rollback branch of   *)
(* AddSender is dead.                                                      *)
TypeOK ==
    /\ version \in [Slots -> Nat \ {0}]
    /\ state \in [Slots -> {Free, Waiting, Abandoned}]
    /\ stamp \in [Slots -> Nat]
    /\ ch \in [Slots -> SUBSET Message]
    /\ cursor \in Slots /\ clock \in Nat /\ done \in BOOLEAN
    /\ cpc \in [Callers -> CallerPC]
    /\ cslot \in [Callers -> Slots]
    /\ ctried \in [Callers -> Nat]
    /\ cver \in [Callers -> Nat]
    /\ cgot \in [Callers -> SUBSET Message]
    /\ rpc \in [Repliers -> ReplierPC]
    /\ rmsg \in [Repliers -> SUBSET Message]
    /\ wpc \in WatchPC /\ wshard \in 0 .. Shards - 1 /\ wslot \in Slots
    /\ wnow \in Nat /\ wst \in {Free, Waiting, Abandoned}
    /\ sent \in SUBSET Message
    /\ forced \in SUBSET Slots

(* The caller of a request is never handed the response to another one:    *)
(* what GetReply is about to return was sent for this caller's own         *)
(* request, however late, duplicated or reordered responses are and        *)
(* whatever the watchdog recycles in between.                              *)
NoCrossTalk ==
    \A c \in Callers : cpc[c] = "got" =>
        cgot[c] = {[ver |-> cver[c], idx |-> cslot[c], by |-> c]}

(* AddSender never issues an rpcId twice: the one about to be returned     *)
(* is not that of any request ever sent.                                   *)
IssuedIdFresh ==
    \A c \in Callers : cpc[c] \in {"stamp", "send"} =>
        \A m \in sent : ~Expected(c, m)

(* A caller owns its slot from the swap to Waiting until it frees or       *)
(* abandons it.                                                            *)
Holds(c, s) ==
    /\ cslot[c] = s
    /\ cpc[c] \in {"bump", "stamp", "send", "enter", "fast", "wait", "got"}

(* Two callers hold the same slot only if the watchdog force-recycled it:  *)
(* neither the plain store of success() nor the delayed recycling of       *)
(* abandoned slots can take a slot from its owner.                         *)
ExclusiveUnlessForced ==
    \A c, d \in Callers : \A s \in Slots \ forced :
        Holds(c, s) /\ Holds(d, s) => c = d

(* An abandoned slot does not stay occupied: the watchdog's shards cover   *)
(* the whole pool, and it frees the slot unless the actor stops.  (A       *)
(* timestamp too close to MaxClock is left out: the model's time ends.)    *)
AbandonedRecycled ==
    \A s \in Slots :
        state[s] = Abandoned /\ stamp[s] + Delay < MaxClock
            ~> \/ state[s] # Abandoned
               \/ done
               \/ stamp[s] + Delay >= MaxClock
=============================================================================
