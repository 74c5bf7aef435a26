# A verification project for zhenyi

zhenyi is a Go framework for distributed game servers built from actors. An
*actor* has a mailbox, one goroutine that handles it, a pool of worker
goroutines for slow work, and an RPC sender. Actors live in a *group* (one per
process), which starts, supervises and closes them and keeps the routing tables.
Groups find each other through etcd; messages between processes travel over
NATS. A *gate* actor connects client sessions to the actors behind it. Scripts
(JavaScript, Lua, Tengo, Starlark) can run inside handlers, and an AOI grid tells
entities of a game world what they see.

This directory models the concurrent core of that system in TLA+, checks it with
TLC and proves the most important invariants with TLAPS. File names and lines
below are relative to the repository; `PROJECT.json` holds the exact
correspondence between definitions and source lines.

## 1. Inventory

| Part (source) | State | Operations | Hard behaviour | What makes it correct |
|---|---|---|---|---|
| RPC sender (`zactor/sender.go`) | slots with version, state, timestamp and a one-element channel; a cursor | AddSender, SetReply, GetReply, watchdog | lock-free: callers, repliers and the watchdog interleave between single atomic accesses; late and duplicated responses; timeouts | a call never gets another call's response; ids never repeat; abandoned slots come back |
| Cross-process routing view (`zactor/group.go` 461-637) | otherActors map, version, snapshot, mutex | watchActor, LookupOtherActorConfigsByMsgIDView | readers without a lock, table built while the map changes, bounded notification channel, writers of the discovery cache that tell it nothing | no stale answers; the view converges |
| Group life cycle, startup (`zactor/group.go`, `zstartup`) | actor lists, contexts, script engines | App.Run, Group.Run, rollbackRunInit, StartWorkers, Close | one step of several fails; a signal at any time | a failed start is undone in reverse order; a stop ends everything |
| Supervisor (`zactor/group.go` 353-431) | restart count, time of last restart | superviseActor | real time, backoff, shutdown during backoff | neither give up early nor restart for ever |
| Local routing (`zactor/group.go`, `router.go`) | copy-on-write routing table, load counts | RegisterRoutes, RouteLocal, FindPoolActorByType | concurrent registration and choice | no lost route; balanced choice |
| Handler watchdog (`zactor/watchdog.go`) | start time of each handler, time of each report | scan | samples, late ticks, a cooldown | blocked handlers are reported, and not too often |
| Circuit breaker (`zactor/circuitbreaker.go`) | state, failures, last failure | allow, recordSuccess, recordFailure, getCircuitBreaker | several goroutines between its atomic fields | opens on continuous failures, recovers |
| Fan-out calls (`zactor/helper.go` CallActorAll) | WaitGroup, results | submit, run, callback, wait | the caller, the workers and the mailbox need each other, and a remote target a second worker | complete results; no mutual waiting |
| Reply path (`zactor/helper.go`, `dispatcher.go`) | calls under way, messages on the bus | CallActor, Dispatch, SendActorReply, Push | lost messages, placeholders, equal ids in two actors | answers come from the actor that was called |
| Mailbox, tasks, ticks, hot update (`zactor/base.go`, `handlemsg.go`, `flow.go`, `hotupdate.go`) | queue, batch, reference counts, tick flag, worker pool | Push, Run, SafeHandleMessage, AsyncRunWithMsg, StartAsyncThen, RebuildWorkerPool, Close | references shared by four kinds of holders; panics; shutdown between check and dequeue; a pool replaced under its tasks | exact reference counts, graceful drain, callbacks run |
| Message pool (`zmsg`) | reference counts | GetMessage, Retain, Release | see above | no double release, no leak |
| Route strategies (`zroute`) | a counter | PickOne | candidates in any order, that change | sticky sessions, fair turns |
| NATS bus (`znats`, `zbus`, `zactor/pubsub.go`) | connections, one tracked subscription per topic | Connect, SubscribeCall, UnSubscribe, Broadcast, Close | retries; actors share topics; publications by turns over a pool | open actors hear their topics, closed ones leave nothing; order |
| Etcd registration (`zdiscovery/etcd.go`) | lease, registeredActors, keepalive goroutines | Register, Unregister, CloseAll, recreateLeaseAndReregister | lease expiry, failing calls that etcd may have executed, close during recreation | one keepalive; keys come back or stay away; nothing stays after close |
| Etcd discovery cache (`zdiscovery/etcd.go`) | copy-on-write maps, poll counters | loadAllToCache, watch, handlePut, handleDelete, FindPoll, FindMod | lost updates, gap between reload and watch | follows etcd; stable and fair finders |
| Gate (`zgate`) | sessions, counters, RTT tracker | OnRead, gateHandler, fallback, sendClient, Close | sessions that close while answers travel; batched counters; shared tracker slots | every candidate tried; exact measures |
| AOI (`zaoi`) | grids with linked lists, node pool | AddEntity, UpdateEntity, RemoveEntity, GetNearbyEntities | long sequences of moves; events | views agree with positions |
| Script engines (`zjs`, `zlua`, `ztengo`, `zstarlark`, `zscript`) | VM pools, generations, module cache, stubs, contexts, statistics | Call, load, Reload, Close | time limit fires late; loads that cross, reloads during a call or a compilation; numbers of different widths | a reload takes effect; no call is mixed up with another; values survive |
| Codec, streams, metrics, HTTP, tracing, configuration | - | - | I/O | not modelled (section 6) |

How the parts interact: a handler runs on the mailbox goroutine and may call
other actors (CallActor: circuit breaker, then RPC sender, then SendMsg through
the routing view), fan out (CallActorAll: worker pool and mailbox), or start
tasks that retain the message (AsyncRunWithMsg, StartAsyncThen). Responses come
in on NATS or on another actor's goroutine and go to SetReply. The discovery
service writes to a notification channel that the group's watcher reads. The
supervisor restarts a Run that returns. The gate asks the routing view for
candidates and a strategy for one of them, and publishes to its topic.

## 2. Modules

| Module | Models | Granularity |
|---|---|---|
| `RpcSender` | `zactor/sender.go` | one action per atomic access |
| `RpcCalls`, `RpcImplements` | what the sender promises its callers, and the mapping under which `RpcSender` implements it | one action per call, answer and return |
| `RouteCache` | the watcher and the lookups of `zactor/group.go`, with the notification channel of `zdiscovery/etcd.go` | one action per atomic access, map access, or critical section step |
| `Supervisor` | `superviseActor` | seconds of real time |
| `Group` | `App.Run`, `Group.Run`, rollback, `StartWorkers`, `Close`, script engines | one action per call to an actor, the registry or an engine |
| `LocalRoutes` | `RegisterRoutes`, `RouteLocal`, `FindPoolActorByType` | load and store are separate steps |
| `Watchdog` | `zactor/watchdog.go` | one action per scan; time in units |
| `GroupRuntime` | composes the four above | |
| `CircuitBreaker` | `zactor/circuitbreaker.go` and its use in `CallActor` | one action per atomic access; map reads have a begin and an end |
| `CallActorAll` | `CallActorAll`, worker pool, mailbox callbacks, Close | one action per blocking point |
| `RpcReply` | `CallActor`, `Dispatch`, `SendActorReply`, `Push` of responses between two actors | one action per message sent, lost, handled |
| `ActorCalls` | composes the three above | |
| `ActorMailbox` | senders, mailbox, `Run`, handlers, tasks, ticks, hot update, Close, with reference counts | one action per command, task step or release |
| `TopicBus` | `znats` and the actors' subscriptions | one action per call of the NATS client |
| `RemoteRoutes` | `zroute/remote_strategy.go` | one action per choice; the strategies as operators |
| `MessageDelivery` | composes the three above | |
| `EtcdLease` | registration and the lease life cycle, with etcd as its environment | one action per etcd call or critical section |
| `EtcdCache` | watch, reload, cache writes of all goroutines, finders | load and store are separate steps |
| `EtcdDiscovery` | composes the two above | |
| `Gate` | sessions, routing with fallback, responses, batched counters, the tracker's ring, Close | one action per atomic access and per attempt to reach a remote actor |
| `VmEngine` | the JavaScript and Lua engines: VM pool, Call and its time limit, load, reload, module cache, Close | one action per atomic access or call into the VM |
| `StubEngine` | the Tengo and Starlark engines: load, reload, stubs and index, Call and its limit, Close; pooled contexts | one action per critical section or map access |
| `ScriptStats` | `zscript/stats.go` | one action per atomic access |
| `ScriptValues` | the conversions of values of the Lua, Tengo and Starlark engines | operators; one action per value passed |
| `ScriptRuntime` | composes the engines and their statistics | |
| `ScriptEngines` | composes `ScriptRuntime` and `ScriptValues` | |
| `Aoi` | `zaoi`: grids, linked lists, node pool, events, search | one action per call, as one actor owns a zone |

`MC*` modules give TLC its constants. The theorems are in `RpcSenderProofs`,
`RoutingProofs`, `GroupProofs`, `ActorCallsProofs`, `DeliveryProofs`,
`EtcdProofs`, `ScriptProofs` and `AoiProofs` (section 5).

The composing modules put components of one subsystem side by side that share no
state but what they name (the context that `GroupRuntime` cancels, for example);
a behaviour follows one of them, selected at Init, so that the components do not
multiply each other's states. A composing module also states the properties of
the subsystem, as conjunctions of the named properties of its components.

Definitions whose comment begins with "Mutant of" are deliberately wrong variants
of the definition that follows. A property is known to fail when its mutant takes
that definition's place, which shows that it depends on the code; where a
property is a conjunction, its parts have mutants of their own next to the one
that `PROJECT.json` lists. Most modules state a type invariant, as a description
of their state. It holds on the same instances; the runs list only the one of
`RpcSender`, theorems state those of `RpcSender`, `RouteCache`, `Supervisor` and
`EtcdLease`, and the inductive invariants of the other proofs contain the types
they need.

### RpcSender, RpcCalls
`version`, `state`, `stamp`, `ch` are the fields of a slot; `cpc`, `rpc`, `wpc`
say where each caller, replier and the watchdog is. AddSender is
AddSender/Claim/Probe/BumpVersion/StampClaim, SetReply is
SetReply/CheckWaiting/PutReply, GetReply is
EnterGetReply/FastPathEmpty/Receive/Success/Abandon/StampAbandoned, and
checkSlot/recycleSlot are CheckState/CheckStamp/RecycleVersion/RecycleDrain/
RecycleFree. A replier may answer any request ever sent, at any time, any number
of times. Versions are unbounded naturals: the code's 48-bit version does not
wrap within a process's life. `RpcCalls` knows no slots: calls go out under ids
that were never used and end once, with their own reply or with none.
`RpcImplements` maps a caller between its request and its return to an open call
named by version and slot.

### RouteCache
`other`, `version`, `snap` are otherActors, otherRouteVersion and the snapshot;
`dcache` is the cache of EtcdDiscovery, `dch` its notification channel, which drops
what does not fit. The cache has the writers that the code has: events
(HandleEvent, HandleStore, then Offer on the channel), the reload after a broken
watch (Reload) and Register and Unregister (CallLoad, CallStore), each of which but
the reload loads and stores in two steps; only the first tell the channel.
`untold` is a history variable: the actors whose entry in the cache changed since
a notification carried it. Range over the
sync.Map visits the actors one by one (VisitEntry), so a table mixes states of
different moments. `window` is a history variable: for each lookup, the values
an actor had since the lookup read the version.

### Group, Supervisor, LocalRoutes, Watchdog
`main` and `item` say what App.Run is doing and how far it got; any registration,
Init, RunServer, engine creation or Unregister may fail, and the signal to stop
may come at any time. `Supervisor` keeps the count and the seconds since
`lastRestart`; Run may end at any second, by a panic or normally; the backoff
doubles up to its cap and is not interruptible; `MaxOversleep` lets the timer
fire late. In `LocalRoutes` a registrar loads the table and stores its copy in
two steps; `overlapped` names those that crossed another. In `Watchdog` times are
relative, ticks up to `Late` late; `PlainActors` are those the type assertion of
scan lets through.

### CircuitBreaker, CallActorAll, RpcReply
Breakers are named by the caller that inserts them, as two callers may each
insert one. `overlapped` is a history variable: two callers were recording
outcomes at the same time. A fan-out made inside an AsyncRun task occupies a
worker itself (`OnPool`); the pool blocks submitters when it is full and rejects
them once released. SendMsg to an actor of another process submits a second task
to the same pool: `sending` are the workers that wait there, before the timeout
of GetReply begins, `stalled` says that a handler does, in the mailbox goroutine,
and `sends` counts the workers that publish. In `RpcReply` two actors call each other over a bus that
loses messages; each issues the same ids.

### ActorMailbox
`ref` is the reference count of a pooled message, `own` what its sender holds,
`slot` the RPC channel a reply was put into, `queue` and `batch` the mailbox and
what was dequeued from it, `task` the worker's task of a message, `pool` the
worker pool, which a hot update replaces. `leaked` names messages whose reference
the code forgets.

### TopicBus, RemoteRoutes
`TopicBus` has the client's map of tracked subscriptions next to the
subscriptions NATS has; publications wait in the client that sent them. Every
call of the external client may fail. `RemoteRoutes` lets the candidates change
at any time and come in any order; `score` is any ranking of the actors for each
key: hrwScore mixes a 64-bit word of actor and process by a bijection, so the
scores of one key are distinct.

### EtcdLease, EtcdCache
Every lease comes with a keepalive goroutine, so goroutines are named by leases.
etcd may expire a lease at any time (`MayExpire`, a partition), and any call may
fail (`MayFail`), before etcd has executed it or after: the error of a Put or
Delete may mean that only its answer was lost. `unsure` is a history variable: the
keys for which that left etcd and registeredActors apart. One application goroutine registers, unregisters and closes.
A Register that finds no lease, because the first Grant had failed, grants one
(RegisterGrants). In `EtcdCache` every writer of the cache loads and
stores in two steps; `store` is what etcd holds, and the watch receives its
changes in order while it lasts.

### Gate
A request is a pair of session and sequence number, which is also the tracker's
key. `read`, `fate` and `reply` say where OnRead, gateHandler and sendClient of a
request are; times are named by the request whose Record stored them. Responses
are sent on the goroutine of whoever answers (HandleToClientFastPath), except
the gate's own. `mixed` and `torn` are history variables: slots written by
overlapping Records, and times loaded inside a Record. The candidate views are
those of `RouteCache`; the strategies may pick any index, in range or not.

### VmEngine, StubEngine, ScriptStats, ScriptValues
`VmEngine` has one script and one module that it requires at its top level, whose
programs are named by the version of their directory; each runs in a new VM before
there is a limit, and need not end (TopLevelHangs, StoreModule). Several loads may
be under way (`load`): each reads and compiles before it takes writeMu. `want` is a
history variable, what the loads have read that raised the present generation:
scripts, and modules where it was ReloadAllScripts, the only one that drops the
modules' programs; a VM keeps it from its creation. A program stored by a load that
had been overtaken, or by a require that overlapped a ReloadAllScripts, is `Any`,
of whatever version. `limited` says whether the engine has a time limit. `vm` holds the wrappers (generation, uses, timer,
the flags timeoutFired and timeoutCallbackRunning, the VM's interrupt flag, and
where each callback of its timer is), `call` the calls. Only the JavaScript engine
has timers, the Lua one a context deadline; and the Lua one raises the generation
on every load, the JavaScript one on reloads only. A VM may be destroyed after any
call, as its age is not modelled. In `StubEngine` a source maps each file to the
version that was read; loaders read files outside the mutex; what a version
defines is a constant. `ScriptValues` keeps the widths of integers on a small
scale (MaxInt64 is 7, 2^53 - 1 is 3) and states which values each engine is known
to lose; its recursive operators are for TLC only, which is why `ScriptRuntime`
exists: it is all of `ScriptEngines` that knows no recursion, and what the proofs
are about.

### Aoi
`aoi` holds the heads and counts of the grids, the list nodes with their links and
the fields of the entities; the events are collected in `known`, and `misled`
records the pairs of wide entities told of an entering twice in a row, or of a
leaving with no entering before. Coordinates are integers.

## 3. Runs

| Run | Properties | Instance | States |
|---|---|---|---|
| `rpc` | TypeOK, NoCrossTalk, ExclusiveUnlessForced, ImplementsCalls, AbandonedRecycled | 2 callers, 1 replier, 1 slot, 2 shards | 390 k |
| `route` | LookupFresh, RoutesConverge, LookupsEnd | 2 actors (1 local), 2 readers, channel of 1, 2 writers of the cache | 581 k |
| `group` | StartStopClean, GiveUpEarned, ReportsRight, LocalRoutingKept, WorkersEnd | 3 actors (2 servers), 2 engines; 3 registrations on 2 ids, 2 finders on 3 actors; 2 watched actors | 217 k |
| `calls` | OpenEarned, ResultsComplete, AnsweredByTarget, HalfOpenResolved, CallsReturn | 2 callers, threshold 2, cooldown 1; 2 fan-outs of 2 specs, one local and one remote, one fan-out on the pool of 2 workers, 1 message of a handler, panics, Close; 2 actors over a lossy bus | 341 k |
| `delivery` | RefsExact, TicksCoalesce, BusDelivers, ShutdownDrains, PicksRight, EventuallyReleased, CallbackRuns, ConnectEnds | 1 message, batches of 2, 2 runs of Run, 1 hot update, panics; 2 actors on a shared topic, pools of 1 and 2 clients, 2 retries, 2 publications; 3 remotes, 2 keys, all rankings, 4 picks | 321 k |
| `etcd` | OneKeeper, CacheFollows, RegistryFollows, FindersStable, CloseEndsAll | 2 keys (1 changing), 3 leases, expiry, failures; 2 actors (1 own), 3 changes or polls, 1 broken watch, channel of 1, 2 pollers | 206 k |
| `gate` | MeasuresExact, FallbackComplete | 2 sessions with a request each in one slot, views of 0, 1 and 3 candidates, batches of 2 | 1.8 M |
| `scripts` | ReloadsTakeEffect, CallRecordsExact, ValuesExact, LoadsKept, EveryCallEnds | VM engines: 1 caller, 1 VM, 2 goroutines that load, 2 loads, 2 versions (1 where there is a limit); stub engines: 2 actors, 2 loaders, 2 files, 2 operations; 3 recorders; all numbers of the small widths, lists and maps of them | 517 k |
| `aoi` | GridsExact, ViewsExact | 3 entities, 8 grids, 6 positions, one outside | 53 k |
| `watchdog_blind` | EveryBlockedSeen, violated | the watchdog of `group` | |
| `reply_failure` | FailureTold, violated | the two actors of `calls` | |
| `vm_timeout` | OwnTimeoutOnly, violated | the JavaScript engine of `scripts`, 2 uses, 1 load | |

What the conjunctions are made of:
* StartStopClean: FailedStartClean (after a failed start no worker runs, every
  actor is closed and unregistered, no engine is open), RollBackReversed,
  EnginesHeld. ReportsRight: BlockedSeen, DumpsSpaced. LocalRoutingKept:
  RoutesKept, PoolBalanced, RouteSticky. WorkersEnd: CrashLoopEnds, StopEndsAll.
* HalfOpenResolved: ProbeFailureReopens, BreakerRecovers.
* ShutdownDrains: DrainedOnExit, ShutdownEnds. BusDelivers: OpenSubscribed,
  ClosedUnsubscribed, PublishedOrder. PicksRight: StickyRoute, RoundRobinFair.
* CacheFollows: CacheExact, GroupTold. RegistryFollows: Reregistered,
  UnregisteredGone. FindersStable: UserStays, PollFair. CloseEndsAll:
  ClosedLeavesNothing, WatchEnds.
* MeasuresExact: CountsExact, RttOwn.
* ReloadsTakeEffect: GenFresh, ModuleFresh, RetiredAfterOneCall (VM engines),
  CallRunsLoadedCode (stub engines). LoadsKept: LoadsMonotone,
  ReloadKeepsFunctions, ClosedEmpty. CallRecordsExact: ContextsClean, StatsExact.
  ValuesExact: EchoExact, ContextIdsExact. EveryCallEnds: both kinds of engines.
* ViewsExact: NearbyExact, KnownExact.

Why the bounds are enough. *rpc*: with one slot, every claim reuses the slot of
the former call, which is the only way responses can be confused; two callers
started before the version bound make two lives of the slot plus the recycled
one in between, and the second shard is the one past the end of a small pool.
Proofs cover the other sizes. *route*: two writers of the cache make an update race
with a lookup, overflow a channel of one, overtake each other, or make a reload
meet an event; two readers contend for the mutex and
share a table. *group*: three actors put a failure first, in the middle and last,
in an order that differs from their ids; the default of three restarts with a cap
of 3 s and a window of 6 s keeps the relation the code's numbers have up to five
restarts (every backoff ends within the window); registrations of one actor and
of two share a message id; a threshold, interval and cooldown of 2, 2 and 5 with
late ticks distinguish below, at and above each limit. *calls*: threshold 2 and
cooldown 1 distinguish below, at and above each limit; four tasks compete for two
workers, one of which is taken by a call; two calls of each actor make equal ids
meet; a remote target and a message of a handler make all workers, or the mailbox,
wait for a worker. *delivery*: messages do not touch each other's counts, and one message is
at once with its sender, in the queue, in a batch, in a task and in its callback,
next to the ticks; two runs give a restart by the supervisor; an actor with a
topic of its own and two that share one are all the roles a topic can have; three
remotes are enough for a candidate to come, go and move. *etcd*: three leases give
a loss during the recovery from a loss; two actors and three changes let every
pair of writers cross once more than they need to. *gate*: two requests fill a
batch of two and share a slot; three candidates put the preferred one first, in
the middle and last, and the strategy's index lies within the view or on either
side of it. *scripts*: calls on different VMs share only programs and generation,
which the loaders change between any two steps of a call, so one caller with one
VM meets every case; two loads overtake each other or follow one another, and a
second version is what the old and the new differ by (the timer, which only an
engine with a limit has, does not touch programs, so that engine keeps to one); two loaders and two files that define the same function are
enough for loads to cross and names to collide; three recorders let a
compare-and-swap fail twice. *aoi*: the grid is wide enough for a move that shares
one, two or no columns of the neighbourhood, its last row and column are cut off,
and three entities make a node first, in the middle and last of a list.

CHECK_DEADLOCK is off where the system may come to rest: the bound on versions,
runs, leases or operations is used up, or the process, the actor or the engine is
closed. RouteCache and Aoi have no such end, and deadlock is checked.

Fairness. Goroutines inside an operation are scheduled by the Go runtime (weak
fairness of their steps). RouteCache asks for their strong fairness, for taking the mutex:
sync.Mutex hands itself to a waiter that starved for a millisecond. In
CircuitBreaker callers keep calling and their requests do not fail locally for
ever (strong fairness of Send): without calls a breaker has no occasion to
close. In EtcdLease a call that has begun goes on (weak fairness of AppStep), a Grant
does not fail for ever (strong fairness of KaRecreate), and etcd expires leases
nobody keeps alive. In CallActorAll a worker that can be had is had in the end by
who waits for one, and publishing returns. In GroupRuntime the
goroutine of App.Run goes on, time passes and Run returns once its context is
done; in ActorMailbox handlers and work return; in TopicBus nats.Connect returns.
In the script engines timers fire and calls and callbacks go on, but nothing makes
a script return, in a call or at its top level. Nothing makes anybody start a call, answer a request, cancel a
context, close an actor, register or unregister, publish or reload.

## 4. What the violated runs show, and what the properties except

* `watchdog_blind`: scan looks at `item.IActor.(*Actor)` (`zactor/watchdog.go` 70),
  which no server type that embeds an Actor passes, so a blocked handler of a gate
  or of any server an application gives to App is never reported.
* `reply_failure`: when a reply is nil or cannot be serialised, SendActorReply puts
  its placeholder into the replier's own sender (`zactor/helper.go` 60, 78). The
  caller waits for its timeout, and a call of the replier with the same id is ended
  by it (AnsweredByTarget allows exactly that).
* `vm_timeout`: the timer of a call has fired but its goroutine has not begun when
  the call ends; Call waits only for a callback that has begun (`zjs/engine.go`
  428), and the callback interrupts the next call on the same VM.

Two more disagreements can be seen by changing constants:
* superviseActor takes lastRestart before it sleeps, so a 30 s backoff alone passes
  the 30 s window and resets the count (`zactor/group.go` 389): CrashLoopEnds fails
  with MaxRestarts = 6, Window = 30, BackoffCap = 30, and holds with five.
* CallActorAll inside AsyncRun, as its comment recommends (`zactor/helper.go` 198),
  waits for workers of the pool it occupies, and so do tasks that call an actor of
  another process: the state is named Clogged, which CallsReturn excepts, and
  without the exception it fails, with OnPool = {} as well.

Some properties carry an exception because the code has the case in it:
* ExclusiveUnlessForced excepts slots that were force-recycled. The watchdog can
  force-recycle a slot that was claimed a moment ago, as AddSender stores the
  state (`zactor/sender.go` 213) before the timestamp (217).
* RoutesConverge excepts actors whose entry in the cache changed and was not
  announced since (`untold`): an event was dropped (`zdiscovery/etcd.go` 317-320),
  a reload replaced the cache (284), or a store from an overtaken load put an older
  entry back (315, 422, 452). It also excepts actors of the own process, which
  the initial load skips (`zactor/group.go` 474) and the events do not (498).
* RoutesKept and RouteSticky except registrations that overlap: RegisterRoutes
  copies and stores without a lock (`zactor/group.go` 175), and one of them is lost.
* FailedStartClean excepts actors whose Unregister failed. Group.Close closes the
  engines without waiting for the actors' Run to return (`zactor/group.go`
  337-349); EnginesHeld therefore ends where the shutdown begins.
* OpenEarned and ProbeFailureReopens except outcomes recorded at once:
  a success between another call's count and store leaves the breaker open.
* BreakerRecovers holds although two workers of CallActorAll may each insert a
  breaker: getCircuitBreaker reads and writes a plain map (`zactor/helper.go`
  95-98) that these workers share without a lock, which Go does not allow.
* CallsReturn excepts a task that panics and Close: both take away the callback
  that does wg.Done (`zactor/helper.go` 219). It excepts Clogged: all workers are
  held by who waits for a worker himself, fan-outs on the pool (line 214) or calls
  to remote actors in SendMsg (353), and nobody has a timeout there.
* RefsExact counts `leaked` messages: SendMsg's remote task is rejected by a
  released pool after its Retain (`zactor/helper.go` 353), and work that panics
  before its release. CallbackRuns and EventuallyReleased except a StartAsyncThen
  on a rebuilt pool, whose function has no case for it (`zactor/hotupdate.go`
  61-72) and always panics. A rebuild drained after Close leaves a pool that
  nobody releases. ActorBatchMax must not change after start-up
  (`zmodel/actor.go` says so); the model keeps it constant.
* OpenSubscribed excepts a Subscribe that failed, which Init swallows
  (`zactor/pubsub.go` 50-52) and nothing retries, and UnSubscribe(topic), which
  cuts off only the last subscriber of a shared topic. PublishedOrder holds for a
  pool of one client only. Subscriptions inside the process are never removed.
* Reregistered excepts actors being registered while the lease is replaced
  (`zdiscovery/etcd.go` 393) and re-registrations whose Put fails.
  UnregisteredGone excepts an Unregister that crosses the re-registration, which
  the comment at line 199 means to exclude. Both except a call that got an error
  although etcd had executed it (`unsure`): a Put (393) leaves the key of an actor
  that is not registered, a Delete (434) an actor that is registered without a key,
  which nothing but the loss of the lease puts again.
* ClosedLeavesNothing holds, but only because the lease that the keepalive
  goroutine may recreate during CloseAll (revoked at 479, cancelled at 487)
  expires in the end.
* CacheExact and GroupTold except what changed between a reload and the next Watch,
  which begins without a revision; a reload tells nobody on d.ch. CacheExact also
  excepts updates another writer's store undid. UserStays excepts a reload, which
  lists the actors in the order of their keys.
* RttOwn excepts a time loaded between another Record's store of its time and of
  its key (`zgate/rtt_tracker.go` 65-66), and slots in which two Records
  overlapped: Check 2 does not notice them.
* GenFresh excepts a load that another one overtook between its reading of the file
  (`zjs/engine.go` 613-624) and writeMu: it brings back what it has read, under a
  newer generation. ModuleFresh speaks of ReloadAllScripts only: ReloadScript (584)
  drops the program under its own path and leaves what its script requires, so
  that new VMs go on with the old module. It excepts a require that overlapped a
  ReloadAllScripts (489, 502). CallRunsLoadedCode excepts a stub whose
  compilation a load overtook (`ztengo/engine.go` 437); LoadsMonotone excepts loads
  that read their files before another took effect, and a Starlark load whose
  script panicked: the recovered error is lost (`zstarlark/engine.go` 256) and the
  file counts as empty. EveryCallEnds excepts two cases: what runs at the top level of
  scripts and modules in a new VM, inside Call and before the timer (`zjs/engine.go`
  219-229, 532) or the context (`zlua/engine.go` 146-158), has no limit, so that a
  loop there holds its call for ever; and a Timeout of 0 means no limit.
* EchoExact lists the values each engine loses; among them unsigned numbers above
  MaxInt64 that become strings in Tengo, and integers beyond 2^53 in Lua.
* NearbyExact and KnownExact are stated for entities that see no farther than a
  grid, and all of their nine grids: the search stops at the nine grids around an
  entity, whatever its view (the MMO example sees 200 with grids of 100), and a
  move within a grid sends no events. Adding an entity twice leaves its first node
  in the list, and setting a position before UpdateEntity takes the events away;
  the model does neither, as callers must not.

## 5. Proofs

All proofs hold for every value of the constants that satisfies the modules'
assumptions. Each theorem is about the specification that the runs check (the
composing one where there is one, whose steps move one component and leave the
others alone), and each inductive invariant was checked by TLC on the run's
instance before it was proved.

`RpcSenderProofs`
* `TypeCorrect`: Spec => []TypeOK, from PoolSizeAssumption (a power of two),
  TimeAssumption and BoundAssumption. The lemmas WrapInPool, BatchSizeType,
  ShardInPool do the index arithmetic of cursor and shards.
* `RepliesMatch`: NoCrossTalk and IssuedIdFresh. NoCrossTalk is not inductive:
  IdInv adds that every request, response in a channel and response in a
  replier's hands carries an id some caller was given, that a slot's version is
  at least every version issued for it, and that distinct callers holding ids of
  the same slot hold distinct versions. Then only BumpVersion issues an id, above
  all the others.
* `SlotsExclusive`: ExclusiveUnlessForced, from OwnInv: the holder of a slot that
  is not in `forced` keeps its state Waiting, and the watchdog past its checks
  of such a slot saw it Abandoned, when nobody holds it.
* `PoolImplementsCalls`: Spec => ImplementsCalls. IdInv makes the id of BumpVersion
  fresh in `RpcCalls`; GotInv adds that a caller holds a response only between its
  receive and its return. Every other step leaves the mapped variables alone.

`RoutingProofs`, about `RouteCache` and `Gate`
* `CacheTypeCorrect`; the channel bound is part of it.
* `RoutesFresh`: LookupFresh and SnapshotCoherent, from CacheInv: the watcher's
  pending stores are exactly `dirty` (WatcherInv); at most one reader builds, and
  versions read are not in the future (OrderInv); tables and snapshots of a
  version contain, for every actor, the published value or one stored since
  (TableInv); and each window contains what its reader may still see (WindowInv).
* `RoutesDoConverge`: RoutesConverge speaks of an empty channel. ConvergeInv says of
  a full one that, for an actor that is not in `untold`, the last notification
  carries the cache's value, and that where none is left the batch being stored, or
  the map, has it. OfferInv: what is about to be offered is what the cache has, or
  the actor is in `untold` since another writer changed it.
* `MeasuresAreExact`: MeasuresExact. CountInv needs FlowInv: a request is in the
  mailbox once and nobody answers it before it was handled, so that it is counted
  once in each direction; the rest is arithmetic modulo the batch (ModNext).
  RingInv: outside `mixed` slots the time and the key of a slot belong together
  unless one Record is between its two stores, and a request is recorded once, so
  a key that was overwritten never comes back and the second check can tell.
* `FallbackIsComplete`: FallbackComplete. RouteInv says that the candidates tried are
  the first ones of the order of attempts, which is a permutation of the view that
  begins with the preferred one (Permutation).

`GroupProofs`
* `StartsAndStopsAreClean`: StartStopClean, from LifeInv: which actors exist,
  are registered and are closed at each point of App.Run, that `broken` is set by a
  failure before the workers start and never otherwise, that the closed ones are
  those above the one the rollback has come to, in falling order, and which engines
  are open.
* `RoutingIsKept`: LocalRoutingKept. TableInv says that who works alone works on the
  current table, and that what it registered is in every copy taken since; PoolInv
  counts the choices that are not stored yet. That FindPoolActorByType's order of
  ids exists for every finite set is proved by a minimal counterexample.
* `ReportsAreRight`: ReportsRight, from DogInv: a handler that was over the threshold
  at the last scan was reported then or was in the cooldown then, and a report
  stays counted until its cooldown is over.
* `TypeCorrect` and `GiveUpIsEarned` of the supervisor by itself, for every limit,
  window and cap: SupInv bounds the counters, and relates the restart count to the
  returns since the last steady run. `WorkersGivenUpInTime`: the same in the
  composed runtime, where what cancels a worker's context is a step of App.Run.

`ActorCallsProofs`
* `BreakerOpensEarned`: OpenEarned. BreakerInv counts the failures that are recorded
  but not yet stored, and says that an inserted breaker is nobody's before.
* `FailedProbesReopen`: ProbeFailureReopens, the safety half of HalfOpenResolved,
  from the same invariant: the failures that opened a half-open breaker are still
  counted, so the next one is over the threshold.
* `FanoutsReturnComplete`: ResultsComplete, from WaitGroupExact: the WaitGroup is the
  number of results still owed (running tasks, callbacks in the mailbox, and tasks
  that panicked).
* `TargetAnswers`: AnsweredByTarget, from ReplyInv: what is on the bus was sent for
  the call that it names.

`DeliveryProofs`
* `RefsAreExact`: RefsExact. MailInv has one equation per message: its count is what
  the sender, the RPC channel, the mailbox, the batch and the task hold, next to
  what the commands that are handled and not released tell apart. The lemmas on
  Occurs say how Append, Head and Tail change how often a command is in a queue.
* `TicksAreCoalesced`: TicksCoalesce, from TickInv: a tick in the ticker's hands or in
  the mailbox exactly when the flag is set.
* `ShutdownDrained`: the safety half of ShutdownDrains. DrainInv: Run leaves only
  when told to, and what was in the mailbox then has been sent and is never sent
  again.
* `BusIsFaithful`: BusDelivers. SubInv relates the subscriptions that NATS has to the
  handles of the actors; OrderInv orders what is in the pipe of a single client
  before what was delivered.
* `PicksAreRight`: PicksRight. FairInv orders the candidates by their distance from
  the counter modulo their number; LastInv says that the actor of a key was the
  best of the candidates it was chosen from.

`EtcdProofs`
* `TypeCorrect` of the lease half.
* `KeeperIsUnique`: OneKeeper. KeeperInv adds that before a lease is granted nobody
  keeps one, and that the next lease has no goroutine yet.
* `UnregisteredStaysGone`: UnregisteredGone, the safety half of RegistryFollows.
  GoneInv adds the keys that a re-registration has loaded and not yet put, and
  those being removed; a call that got an error although etcd had executed it only
  leaves apart what is in `unsure`.
* `CacheDoesFollow`: CacheFollows. ToldInv says that the last event about an actor
  in the watch's queue is its present state. ListsInv says that whatever a writer
  has loaded, cloned or is about to store is a list without duplicates. From these
  ExactUnlessExcused is inductive: the list that is in the cache, or about to be,
  is right about every actor of whom no event is coming. The lemmas on lists
  (AppendEdits, ReplaceEdits, AppliedEdits, CallEdits, LoadedExact) say that each
  of the code's ways to build a list changes one actor, or shows what etcd holds.
* `FindersAreStable`: FindersStable. UserStays follows from SamePlaces: what does not
  change who is there leaves everybody where they are. PollFair compares polls,
  and is not inductive; PollInv counts turns, which the counter gives to the
  places of the list in a circle.

`ScriptProofs`

A behaviour follows one engine, so each engine has an invariant of its own
(OneEngine, RuntimeInductive).
* `ReloadsDoTakeEffect`: ReloadsTakeEffect. VmInv says of the VM engines that a VM
  belongs to one call at most and was made for nothing newer than what is wanted now
  (VmOwned), that what is in place, and what any load is about to store, is as new
  as what the generation was raised for, or marked as overtaken (LoadFresh), that
  the shared module is as new as the last ReloadAllScripts unless a require
  overlapped it, and nothing else while one is under way (ModuleShared), and that
  only a VM in a call is of an older generation and has begun a call since
  (VmRetired). StubInv says of the engines with stubs that
  each running call has seen the code of every stub it may find, of every load
  that is under way and of what that load replaces (CallsSee, StubsCurrent), as
  loads exclude each other (WriteLocked).
* `LoadsAreKept`: LoadsKept. LoadsNewer: no load holds an older version than the one
  in place, unless it crossed another or its script panicked. ValidCurrent: the
  whitelist of functions is that of the code in place or of the code about to be.
  CloseClears follows Close through its stores.
* `CallRecordsAreExact`: CallRecordsExact. For the contexts, ContextsOwned. StatsInv:
  a recorder past a loop is covered by what the loop raises, a recorder about to
  swap swaps in the right direction, and each extreme is the duration of somebody
  who has reached it.

`AoiProofs`
* `GridsStayExact`: GridsExact speaks of walks through linked lists. AoiInv says
  that each grid's list has an order, a numbering of its nodes that head, next and
  prev follow (Linked), and that an entity is listed where its position is
  (Placed). AddLinks and RemoveLinks give the order after an entry and an exit.
  GridsExact itself is a consequence: the walk is defined by a recursive function,
  and what it meets is found without induction, by taking the first place of the
  order where it would differ (ListIsMembers, OneWalk); so is the sum of the
  counters (SumIsHeld, OneSum).
* `ViewsStayExact`: ViewsExact. The nine grids around a grid are mutual, contain
  every place within the side of a grid, and nothing that a wide entity does not
  see (NineGrids, CloseIsAround, AroundIsNear); so a search can be compared with
  distances. Told, in AoiInv, says that wide entities know of each other exactly when their
  grids are neighbours; ToldOfEntry, ToldOfExit and ToldOfMove show that the events
  of each operation keep it so, and that they fit: who leaves had entered, and who
  enters had not (Fits), so that `misled` stays empty of wide pairs (Straight).

The assumptions on constants are those the code gives: sizes, limits and times are
numbers and positive where the code divides by them or waits for them; sets of
messages, requests, keys, remotes and goroutines are finite; a view lists an actor
once, as the supported ids of a configuration are keys of a map; the pool has a
context for every call that may want one (it allocates what it lacks); durations
are below MaxInt64, which the minimum starts from; and the values that stand for
"nobody" are not members of the sets they are added to. Actors, loads, loading goroutines, files and
contexts are numbers, so that a name can be compared with the one for "nobody".
A zone has integer bounds with something between them, grids of a positive size,
entities with integer positions and views, and a pool of at least as many list
nodes as entities (it, too, allocates what it lacks).

Only model-checked:
* every liveness property, and the liveness halves of ShutdownDrains,
  RegistryFollows and HalfOpenResolved: fairness and ENABLED are out of the
  prover's reach;
* ValuesExact: `ScriptValues` converts nested values by recursive operators, which
  the prover does not support, and what they compute would need an induction
  over the values.

## 6. Not modelled, and the plan

Not modelled: logging and metrics (no decision depends on them), HTTP, streams,
profiling and tracing (pure I/O), configuration parsing (its results are the
constants here), the wire codec (a sequential encoding with round-trip tests), the
examples, and of the modelled parts: setters and reports of the gate, the sample
buffer of the tracker, the registries of AOI zones, the NATS client's channel,
queue and request calls, which the framework does not use, rate limits and
adaptive batch sizes of the mailbox, the host functions that scripts may call, a
require inside a function and a ReloadScript of a module's own file,
NoopDiscovery, and the debug tracking of pooled messages.

External code is modelled by how the repository uses it: the mailbox queue takes
and yields commands after Close; the worker pool blocks when full and rejects
after Release; etcd's leases, keys and watches; NATS connections and
subscriptions; the script VMs.

A possible extension: the conversions of `ScriptValues` as recursive functions over
values of a bounded depth.
