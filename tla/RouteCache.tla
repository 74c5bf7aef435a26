----------------------------- MODULE RouteCache -----------------------------
(***************************************************************************)
(* The cross-process routing view of one process: zactor/group.go          *)
(* (watchActor and LookupOtherActorConfigsByMsgIDView), fed by the event   *)
(* channel of zdiscovery/etcd.go (handlePut, handleDelete).  The cache of  *)
(* the discovery has other writers, which tell the channel nothing: the    *)
(* reload after a broken watch, and Register and Unregister.               *)
(*                                                                         *)
(* The watcher goroutine stores discovery events into otherActors and then *)
(* increments otherActorsVersion.  Lookups run on any goroutine: while the *)
(* cached snapshot carries the current version they use it, otherwise they *)
(* take otherRouteMu, range over otherActors - a concurrent map, one entry *)
(* at a time, while the watcher goes on - and publish a new snapshot under *)
(* the version they read before ranging.                                   *)
(*                                                                         *)
(* A snapshot's table is kept as the configuration each actor was seen     *)
(* with: the candidates for a msgID are the actors seen with a             *)
(* configuration whose SupportedMsgIDs contain it.                         *)
(***************************************************************************)
EXTENDS Integers, Sequences

CONSTANTS
    Actors,      \* actor ids known to the discovery service
    Local,       \* those that belong to this process
    Configs,     \* actor configurations (with their SupportedMsgIDs)
    Absent,      \* no configuration
    Readers,     \* goroutines that look routes up
    Cap,         \* capacity of the discovery channel d.ch (100 in the code)
    MaxEvents    \* bound: writers of the discovery cache explored

ASSUME ConfigAssumption == Absent \notin Configs /\ Local \subseteq Actors
ASSUME CapAssumption == Cap \in Nat /\ MaxEvents \in Nat

Entry == Configs \cup {Absent}
View  == [Actors -> Entry]
Event == [id : Actors, cfg : Entry]

VARIABLES
    dcache,    \* EtcdDiscovery.cache
    dch,       \* EtcdDiscovery.ch, the notification channel
    handling,  \* the etcd event that watch handles, as a set
    calls,     \* Register and Unregister under way, at most one of an actor
    events,    \* number of writers of the cache so far
    untold,    \* history: actors whose cached entry d.ch was not told
    other,     \* Group.otherActors
    version,   \* Group.otherActorsVersion
    snap,      \* Group.otherRouteSnapshot: [version, table]
    lock,      \* Group.otherRouteMu: the reader that holds it, as a set
    wpc,       \* where watchActor is
    items,     \* the existing entries it still has to store
    rpc,       \* where a reader is in LookupOtherActorConfigsByMsgIDView
    rver,      \* its currentVer
    todo,      \* entries its Range has not visited yet
    rtable,    \* the table it builds, and at the end the one it answers from
    dirty,     \* history: actors stored since the last version increment
    published, \* history: otherActors at the last version increment
    window     \* history: what each actor's entry has been during a lookup

discVars   == <<dcache, dch, handling, calls, events, untold>>
watchVars  == <<other, version, wpc, items, dirty, published>>
readerVars == <<snap, lock, rpc, rver, todo, rtable>>
cacheVars  == <<discVars, watchVars, readerVars, window>>

NoView == [a \in Actors |-> Absent]

(* The cache was loaded from etcd before the watch began: it may hold any  *)
(* entries, own ones left by an earlier incarnation included.              *)
CacheInit ==
    /\ dcache \in View
    /\ dch = <<>> /\ handling = {} /\ calls = {} /\ events = 0 /\ untold = {}
    /\ other = NoView
    /\ version = 0
    /\ snap = [version |-> 0, table |-> NoView]
    /\ lock = {}
    /\ wpc = "find" /\ items = {}
    /\ rpc = [r \in Readers |-> "idle"]
    /\ rver = [r \in Readers |-> 0]
    /\ todo = [r \in Readers |-> {}]
    /\ rtable = [r \in Readers |-> NoView]
    /\ dirty = {} /\ published = NoView
    /\ window = [r \in Readers |-> [a \in Actors |-> {}]]

-----------------------------------------------------------------------------
(* The cache of EtcdDiscovery: every writer loads and clones it, changes   *)
(* the clone and stores it, without a lock.                                *)

Another == events < MaxEvents /\ events' = events + 1

(* d.cache.Store: what changes is untold until a notification says so.     *)
StoreCache(view) ==
    /\ dcache' = view
    /\ untold' = untold \cup {b \in Actors : view[b] # dcache[b]}

(* An etcd event is handled: handlePut for a configuration, handleDelete   *)
(* for Absent (an ActorConfig with ActorType 0 on the channel).            *)
HandleEvent(a, e) ==
    /\ handling = {} /\ Another
    /\ handling' = {[pc |-> "loaded", id |-> a, cfg |-> e, snap |-> dcache]}
    /\ UNCHANGED <<dcache, dch, calls, untold, watchVars, readerVars, window>>

HandleStore ==
    \E h \in handling :
        /\ h.pc = "loaded"
        /\ StoreCache([h.snap EXCEPT ![h.id] = h.cfg])
        /\ handling' = {[pc |-> "stored", id |-> h.id, cfg |-> h.cfg, snap |-> NoView]}
        /\ UNCHANGED <<dch, calls, events, watchVars, readerVars, window>>

(* The notification is offered to d.ch without blocking.  Another writer   *)
(* may have undone the update since.                                       *)
Offer ==
    \E h \in handling :
        /\ h.pc = "stored" /\ handling' = {}
        /\ \/ /\ Len(dch) < Cap
              /\ dch' = Append(dch, [id |-> h.id, cfg |-> h.cfg])
              /\ untold' = IF dcache[h.id] = h.cfg THEN untold \ {h.id} ELSE untold
           \/ Len(dch) >= Cap /\ UNCHANGED <<dch, untold>>
        /\ UNCHANGED <<dcache, calls, events, watchVars, readerVars, window>>

(* loadAllToCache, after the watch has broken: the cache is what etcd has  *)
(* by now, and nobody is told.                                             *)
Reload(view) ==
    /\ handling = {} /\ Another
    /\ StoreCache(view)
    /\ UNCHANGED <<dch, handling, calls, watchVars, readerVars, window>>

(* Register, and Unregister for Absent, of an actor of this process: the   *)
(* cache is loaded and cloned ...                                          *)
CallLoad(a, e) ==
    /\ \A c \in calls : c.id # a
    /\ Another
    /\ calls' = calls \cup {[id |-> a, cfg |-> e, snap |-> dcache]}
    /\ UNCHANGED <<dcache, dch, handling, untold, watchVars, readerVars, window>>

(* ... and stored, if the clone did not list the actor, or did.            *)
CallStore ==
    \E c \in calls :
        /\ calls' = calls \ {c}
        /\ IF (c.snap[c.id] = Absent) = (c.cfg = Absent) THEN UNCHANGED <<dcache, untold>>
           ELSE StoreCache([c.snap EXCEPT ![c.id] = c.cfg])
        /\ UNCHANGED <<dch, handling, events, watchVars, readerVars, window>>

-----------------------------------------------------------------------------
(* watchActor *)

(* One entry of otherActors changes; lookups under way may see it.         *)
Store(a, e) ==
    /\ other' = [other EXCEPT ![a] = e]
    /\ dirty' = dirty \cup {a}
    /\ window' = [r \in Readers |->
                    IF rpc[r] = "idle" THEN window[r]
                    ELSE [window[r] EXCEPT ![a] = @ \cup {e}]]

(* items := g.discoverer.FindAllByPrefix("/servers"), without those of the *)
(* current process.                                                        *)
FindExisting ==
    /\ wpc = "find"
    /\ items' = {[id |-> a, cfg |-> dcache[a]] :
                    a \in {b \in Actors \ Local : dcache[b] # Absent}}
    /\ wpc' = "load"
    /\ UNCHANGED <<other, version, dirty, published, discVars, readerVars, window>>

(* g.otherActors.Store for one of them.                                    *)
LoadItem ==
    /\ wpc = "load"
    /\ \E i \in items :
          /\ Store(i.id, i.cfg)
          /\ items' = items \ {i}
    /\ UNCHANGED <<version, wpc, published, discVars, readerVars>>

(* g.otherActorsVersion.Add(1), after the batch and after every event.     *)
Publish ==
    /\ \/ wpc = "load" /\ items = {}
       \/ wpc = "publish"
    /\ version' = version + 1
    /\ dirty' = {} /\ published' = other
    /\ wpc' = "recv"
    /\ UNCHANGED <<other, items, discVars, readerVars, window>>

(* Mutant of ReceiveEvent: deletions are ignored.                          *)
ReceivePutOnly ==
    /\ wpc = "recv"
    /\ dch # <<>>
    /\ \/ Head(dch).cfg # Absent /\ Store(Head(dch).id, Head(dch).cfg)
       \/ Head(dch).cfg = Absent /\ UNCHANGED <<other, dirty, window>>
    /\ dch' = Tail(dch)
    /\ wpc' = "publish"
    /\ UNCHANGED <<version, items, published, dcache, handling, calls, events, untold,
                   readerVars>>

(* case cfg := <-ch: Store the configuration or Delete the entry.          *)
ReceiveEvent ==
    /\ wpc = "recv"
    /\ dch # <<>>
    /\ Store(Head(dch).id, Head(dch).cfg)
    /\ dch' = Tail(dch)
    /\ wpc' = "publish"
    /\ UNCHANGED <<version, items, published, dcache, handling, calls, events, untold,
                   readerVars>>

(* case <-ctx.Done().                                                      *)
WatchStop ==
    /\ wpc = "recv"
    /\ wpc' = "stopped"
    /\ UNCHANGED <<other, version, items, dirty, published, discVars, readerVars,
                   window>>

-----------------------------------------------------------------------------
(* LookupOtherActorConfigsByMsgIDView *)

(* currentVer := g.otherActorsVersion.Load().                              *)
LoadVersion(r) ==
    /\ rpc[r] = "idle"
    /\ rver' = [rver EXCEPT ![r] = version]
    /\ rpc'  = [rpc EXCEPT ![r] = "snap"]
    /\ window' = [window EXCEPT ![r] = [a \in Actors |-> {published[a], other[a]}]]
    /\ UNCHANGED <<snap, lock, todo, rtable, discVars, watchVars>>

(* The snapshot is loaded and carries currentVer: answer from it.          *)
FastPath(r) ==
    /\ rpc[r] = "snap"
    /\ snap.version = rver[r]
    /\ rtable' = [rtable EXCEPT ![r] = snap.table]
    /\ rpc'    = [rpc EXCEPT ![r] = "done"]
    /\ UNCHANGED <<snap, lock, rver, todo, discVars, watchVars, window>>

(* It does not: wait for the lock.                                         *)
SlowPath(r) ==
    /\ rpc[r] = "snap"
    /\ snap.version # rver[r]
    /\ rpc' = [rpc EXCEPT ![r] = "lock"]
    /\ UNCHANGED <<snap, lock, rver, todo, rtable, discVars, watchVars, window>>

Acquire(r) ==
    /\ rpc[r] = "lock"
    /\ lock = {}
    /\ lock' = {r}
    /\ rpc'  = [rpc EXCEPT ![r] = "recheck"]
    /\ UNCHANGED <<snap, rver, todo, rtable, discVars, watchVars, window>>

(* Mutant of RecheckVersion: when the snapshot turns out to be current the  *)
(* lookup starts over, still with the version it read first.               *)
RecheckStartsOver(r) ==
    /\ rpc[r] = "recheck"
    /\ \/ /\ snap.version = version
          /\ rpc'  = [rpc EXCEPT ![r] = "snap"]
          /\ lock' = {}
          /\ UNCHANGED <<rver, todo, rtable>>
       \/ /\ snap.version # version
          /\ rver' = [rver EXCEPT ![r] = version]
          /\ rtable' = [rtable EXCEPT ![r] = NoView]
          /\ todo' = [todo EXCEPT ![r] = Actors]
          /\ rpc'  = [rpc EXCEPT ![r] = "range"]
          /\ UNCHANGED lock
    /\ UNCHANGED <<snap, discVars, watchVars, window>>

(* Both loads again, under the lock that guards the snapshot: answer from  *)
(* it, or start a Range over otherActors.                                  *)
RecheckVersion(r) ==
    /\ rpc[r] = "recheck"
    /\ rver' = [rver EXCEPT ![r] = version]
    /\ \/ /\ snap.version = version
          /\ rtable' = [rtable EXCEPT ![r] = snap.table]
          /\ rpc'  = [rpc EXCEPT ![r] = "done"]
          /\ lock' = {}
          /\ UNCHANGED todo
       \/ /\ snap.version # version
          /\ rtable' = [rtable EXCEPT ![r] = NoView]
          /\ todo' = [todo EXCEPT ![r] = Actors]
          /\ rpc'  = [rpc EXCEPT ![r] = "range"]
          /\ UNCHANGED lock
    /\ UNCHANGED <<snap, discVars, watchVars, window>>

(* Range visits one entry, in no particular order.                         *)
VisitEntry(r) ==
    /\ rpc[r] = "range"
    /\ \E a \in todo[r] :
          /\ rtable' = [rtable EXCEPT ![r] = [@ EXCEPT ![a] = other[a]]]
          /\ todo' = [todo EXCEPT ![r] = @ \ {a}]
    /\ UNCHANGED <<snap, lock, rpc, rver, discVars, watchVars, window>>

(* Mutant of StoreSnapshot: stamped with the version after the Range.      *)
StoreSnapshotLateVersion(r) ==
    /\ rpc[r] = "range"
    /\ todo[r] = {}
    /\ snap' = [version |-> version, table |-> rtable[r]]
    /\ lock' = {}
    /\ rpc'  = [rpc EXCEPT ![r] = "done"]
    /\ UNCHANGED <<rver, todo, rtable, discVars, watchVars, window>>

(* Range is over: publish under the version read before it, and unlock.    *)
StoreSnapshot(r) ==
    /\ rpc[r] = "range"
    /\ todo[r] = {}
    /\ snap' = [version |-> rver[r], table |-> rtable[r]]
    /\ lock' = {}
    /\ rpc'  = [rpc EXCEPT ![r] = "done"]
    /\ UNCHANGED <<rver, todo, rtable, discVars, watchVars, window>>

(* The caller has used the answer; its locals are gone.                    *)
AnswerLookup(r) ==
    /\ rpc[r] = "done"
    /\ rpc'    = [rpc EXCEPT ![r] = "idle"]
    /\ rver'   = [rver EXCEPT ![r] = 0]
    /\ rtable' = [rtable EXCEPT ![r] = NoView]
    /\ window' = [window EXCEPT ![r] = [a \in Actors |-> {}]]
    /\ UNCHANGED <<snap, lock, todo, discVars, watchVars>>

-----------------------------------------------------------------------------
Discovery ==
    \/ \E a \in Actors, e \in Entry : HandleEvent(a, e)
    \/ HandleStore \/ Offer
    \/ \E view \in View : Reload(view)
    \/ \E a \in Local, e \in Entry : CallLoad(a, e)
    \/ CallStore

Watcher == FindExisting \/ LoadItem \/ Publish \/ ReceiveEvent \/ WatchStop

(* What a reader does once it is inside a lookup.                          *)
ReaderStep(r) ==
    \/ FastPath(r) \/ SlowPath(r) \/ Acquire(r) \/ RecheckVersion(r)
    \/ VisitEntry(r) \/ StoreSnapshot(r)

Reader(r) == LoadVersion(r) \/ ReaderStep(r) \/ AnswerLookup(r)

CacheNext == Discovery \/ Watcher \/ \E r \in Readers : Reader(r)

CacheSpec == CacheInit /\ [][CacheNext]_cacheVars

(* Lookups are scheduled by the Go runtime, and sync.Mutex hands itself to *)
(* a waiter that has starved for a millisecond: only its Acquire is ever   *)
(* disabled by others and needs the strong form.  Nothing makes the        *)
(* discovery service or the watcher act.                                   *)
CacheFairSpec == CacheSpec /\ \A r \in Readers : SF_cacheVars(ReaderStep(r))

-----------------------------------------------------------------------------
(* Properties *)

(* Types; the discovery channel never holds more than its capacity.        *)
CacheTypeOK ==
    /\ dcache \in View /\ events \in Nat
    /\ dch \in Seq(Event) /\ Len(dch) <= Cap
    /\ handling \in SUBSET [pc : {"loaded", "stored"}, id : Actors, cfg : Entry, snap : View]
    /\ calls \in SUBSET [id : Local, cfg : Entry, snap : View]
    /\ untold \in SUBSET Actors
    /\ other \in View /\ version \in Nat
    /\ snap \in [version : Nat, table : View]
    /\ lock \in SUBSET Readers
    /\ wpc \in {"find", "load", "recv", "publish", "stopped"}
    /\ items \in SUBSET Event
    /\ rpc \in [Readers -> {"idle", "snap", "lock", "recheck", "range", "done"}]
    /\ rver \in [Readers -> Nat]
    /\ todo \in [Readers -> SUBSET Actors]
    /\ rtable \in [Readers -> View]
    /\ dirty \in SUBSET Actors /\ published \in View
    /\ window \in [Readers -> [Actors -> SUBSET Entry]]

(* A lookup never answers from a stale table: each actor appears with a    *)
(* configuration (or the absence) that was announced when the lookup read  *)
(* the version, or stored since.  An increment that completed before the   *)
(* lookup began is always reflected, although tables are built without     *)
(* stopping the watcher and shared between readers.                        *)
LookupFresh ==
    \A r \in Readers : rpc[r] = "done" =>
        \A a \in Actors : rtable[r][a] \in window[r][a]

(* A snapshot that carries the current version while no store is pending   *)
(* equals otherActors: the version check is a sound freshness test.        *)
SnapshotCoherent ==
    snap.version = version /\ dirty = {} => snap.table = other

(* Once the watcher has drained the channel, its view of another process's *)
(* actor is the discovery cache's: replaying events older than the initial *)
(* load does no harm, and what was missed is mended by the actor's next    *)
(* event.  Excepted are actors whose entry changed and whose next event    *)
(* has not come through yet: the notification was dropped, the cache was   *)
(* reloaded, or a store from an overtaken load put an older entry back.    *)
RoutesConverge ==
    wpc = "recv" /\ dch = <<>> =>
        \A a \in Actors \ (Local \cup untold) : other[a] = dcache[a]

(* Every lookup ends: no path through it keeps otherRouteMu, or goes round *)
(* for ever.                                                               *)
LookupsEnd ==
    \A r \in Readers : []<>(rpc[r] \in {"idle", "done"})
=============================================================================
