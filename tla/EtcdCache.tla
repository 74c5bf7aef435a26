----------------------------- MODULE EtcdCache ------------------------------
(***************************************************************************)
(* The local cache of EtcdDiscovery (zdiscovery/etcd.go): the watch loop   *)
(* with its reload, the cache writes of Register and Unregister, the       *)
(* notifications for the group, and the finders that read the cache.       *)
(*                                                                         *)
(* The cache is replaced by load, clone and store without a lock: each     *)
(* writer is two steps, and the later store wins.  All actors are of one   *)
(* type; a configuration is a number, Absent where there is none.  etcd,   *)
(* external, holds the configurations and sends the watch each change in   *)
(* order for as long as the watch lasts.                                   *)
(***************************************************************************)
EXTENDS Integers, Sequences, SequencesExt, FiniteSets

CONSTANTS
    Own,         \* ids of this process's actors
    Ids,         \* ids of all actors
    Configs,     \* the configurations of an actor
    MaxOps,      \* bound: changes in etcd and calls of FindPoll, together
    MaxBreaks,   \* bound: watches that break, and reloads that fail
    ChCap,       \* capacity of d.ch
    Pollers      \* goroutines that call FindPoll

Absent == 0
Older  == 0     \* where hits counts the polls of an older list

ASSUME CacheAssumption ==
    /\ Own \subseteq Ids /\ Ids \subseteq Nat \ {0} /\ IsFiniteSet(Ids)
    /\ Configs \subseteq Nat \ {Absent}
    /\ {MaxOps, MaxBreaks} \subseteq Nat /\ ChCap \in Nat \ {0}

Entry(i, c) == [id |-> i, cfg |-> c]

VARIABLES
    store,     \* etcd: the configuration of an actor
    changes,   \* etcd: number of changes
    breaks,    \* number of failures
    wq,        \* events on their way to the watch
    cache,     \* the cached actors, in the order the finders see
    wpc,       \* the watch goroutine
    wsnap,     \* the cache it has loaded
    acall,     \* a Register or Unregister: [pc, id, cfg, snap]
    stopped,   \* d.ctx is cancelled
    inCh,      \* notifications in d.ch
    counter,   \* FindPoll: the counter of the type
    poll,      \* FindPoll: the list a goroutine has read, <<>> if none
    told,      \* history: what the group was last told of an actor
    silent,    \* history: actors of whose change the group was not told
    excused,   \* history: actors whose cached entry no event will mend
    hits       \* history: how often the list was polled since it changed

etcdSide  == <<store, changes, breaks>>
watchSide == <<wq, wpc, wsnap, inCh>>
pollSide  == <<counter, poll>>
cacheVars == <<etcdSide, watchSide, cache, acall, stopped, pollSide,
               told, silent, excused, hits>>

Idle == [pc |-> "idle", id |-> 0, cfg |-> Absent, snap |-> <<>>]

(* NewEtcdDiscovery: the cache is loaded, and then watched.                *)
CacheInit ==
    /\ store \in [Ids -> {Absent} \cup Configs]
    /\ \A i \in Own : store[i] = Absent
    /\ changes = 0 /\ breaks = 0 /\ wq = <<>>
    /\ cache = <<>>
    /\ wpc = "load" /\ wsnap = <<>>
    /\ acall = Idle
    /\ stopped = FALSE
    /\ inCh = 0 /\ counter = 0 /\ poll = [p \in Pollers |-> <<>>]
    /\ told = store /\ silent = {} /\ excused = {}
    /\ hits = [i \in Ids \cup {Older} |-> 0]

(* Changes, and polls that have begun.                                     *)
Ops == changes + counter + Cardinality({p \in Pollers : poll[p] # <<>>})

-----------------------------------------------------------------------------
(* The list of a type *)

IdsOf(list) == {list[n].id : n \in DOMAIN list}

CfgIn(list, i) ==
    IF i \in IdsOf(list) THEN (CHOOSE e \in ToSet(list) : e.id = i).cfg ELSE Absent

(* Mutant of PutEntry: the entry is moved to the end.                      *)
PutEntryLast(list, i, c) ==
    Append(SelectSeq(list, LAMBDA e : e.id # i), Entry(i, c))

(* handlePut: the entry is replaced where it is, or appended.              *)
PutEntry(list, i, c) ==
    IF i \in IdsOf(list)
    THEN [n \in DOMAIN list |-> IF list[n].id = i THEN Entry(i, c) ELSE list[n]]
    ELSE Append(list, Entry(i, c))

(* Register: an entry that exists is left as it is.                        *)
AddEntry(list, i, c) ==
    IF i \in IdsOf(list) THEN list ELSE Append(list, Entry(i, c))

(* handleDelete, Unregister: the first entry of the actor is cut out.      *)
RemoveEntry(list, i) == RemoveFirstMatch(list, LAMBDA e : e.id = i)

(* loadAllToCache: the answer of etcd.  It is sorted by the keys, texts in *)
(* which the numbers of actors sort in ways of their own: any order here.  *)
Loaded(kvs) ==
    {[n \in DOMAIN ids |-> Entry(ids[n], kvs[ids[n]])] :
        ids \in SetToSeqs({i \in Ids : kvs[i] # Absent})}

(* The cache is replaced; the history of polls begins anew with it.        *)
StoreCache(list) ==
    /\ cache' = list
    /\ hits' = IF [n \in DOMAIN list |-> list[n].id] = [n \in DOMAIN cache |-> cache[n].id]
               THEN hits ELSE [i \in Ids \cup {Older} |-> 0]

(* What a store of list changes of others than i: updates it undoes.       *)
Undone(list, i) == {j \in Ids \ {i} : CfgIn(list, j) # CfgIn(cache, j)}

-----------------------------------------------------------------------------
(* etcd, external *)

Watching == wpc \in {"on", "handle"}

Send(i, c) == wq' = IF Watching THEN Append(wq, Entry(i, c)) ELSE wq
Unseen(i) == IF Watching THEN {} ELSE {i}

Write(i, c) ==
    /\ Ops < MaxOps
    /\ changes' = changes + 1
    /\ store' = [store EXCEPT ![i] = c]
    /\ Send(i, c)

(* Another process puts or deletes its actor; a key of ours vanishes with  *)
(* its lease and is put again under a new one, at any time, or a call puts *)
(* or deletes it and gets an error all the same.                           *)
EtcdChange(i, c) ==
    /\ c = Absent => store[i] # Absent
    /\ Write(i, c)
    /\ excused' = excused \cup Unseen(i)
    /\ silent' = silent \cup Unseen(i)
    /\ UNCHANGED <<breaks, wpc, wsnap, inCh, cache, acall, stopped, pollSide, told, hits>>

-----------------------------------------------------------------------------
(* watch *)

(* Watch: from the present revision on, whatever was loaded before.        *)
WatchStart ==
    /\ wpc = "top" /\ ~stopped
    /\ wpc' = "on"
    /\ wq' = <<>>
    /\ UNCHANGED <<etcdSide, wsnap, inCh, cache, acall, stopped, pollSide,
                   told, silent, excused, hits>>

(* handlePut, handleDelete: the cache is loaded and cloned ...             *)
HandleLoad ==
    /\ wpc = "on" /\ wq # <<>>
    /\ wpc' = "handle"
    /\ wsnap' = cache
    /\ UNCHANGED <<etcdSide, wq, inCh, cache, acall, stopped, pollSide,
                   told, silent, excused, hits>>

(* Mutant of Applied: a deleted actor stays.                               *)
AppliedPuts(list, e) ==
    IF e.cfg = Absent THEN list ELSE PutEntry(list, e.id, e.cfg)

Applied(list, e) ==
    IF e.cfg = Absent THEN RemoveEntry(list, e.id) ELSE PutEntry(list, e.id, e.cfg)

(* Mutant of Notify: a deletion is not announced.                          *)
NotifyPuts(e) ==
    IF e.cfg # Absent /\ inCh < ChCap
    THEN inCh' = inCh + 1 /\ told' = [told EXCEPT ![e.id] = e.cfg] /\ silent' = silent \ {e.id}
    ELSE UNCHANGED <<inCh, told, silent>>

(* The group is told, unless d.ch is full.                                 *)
Notify(e) ==
    IF inCh < ChCap
    THEN inCh' = inCh + 1 /\ told' = [told EXCEPT ![e.id] = e.cfg] /\ silent' = silent \ {e.id}
    ELSE silent' = silent \cup {e.id} /\ UNCHANGED <<inCh, told>>

(* ... and replaced, and the group is told.                                *)
HandleStore ==
    /\ wpc = "handle"
    /\ LET e == Head(wq)
       IN  /\ StoreCache(Applied(wsnap, e))
           /\ excused' = (excused \ {e.id}) \cup Undone(wsnap, e.id)
           /\ Notify(e)
    /\ wq' = Tail(wq)
    /\ wpc' = "on" /\ wsnap' = <<>>
    /\ UNCHANGED <<etcdSide, acall, stopped, pollSide>>

(* The watch fails, or its channel closes: what it has not delivered is    *)
(* lost.                                                                   *)
WatchBreaks ==
    /\ wpc = "on"
    /\ breaks < MaxBreaks /\ breaks' = breaks + 1
    /\ wpc' = "down"
    /\ wq' = <<>>
    /\ excused' = excused \cup IdsOf(wq)
    /\ silent' = silent \cup IdsOf(wq)
    /\ UNCHANGED <<store, changes, wsnap, inCh, cache, acall, stopped, pollSide, told, hits>>

(* The context is done: the channel closes with it.                        *)
WatchClosed ==
    /\ wpc = "on" /\ stopped
    /\ wpc' = "down"
    /\ wq' = <<>>
    /\ UNCHANGED <<etcdSide, wsnap, inCh, cache, acall, stopped, pollSide,
                   told, silent, excused, hits>>

(* At the start, and after a watch that was not cancelled.                 *)
MayLoad == wpc = "load" \/ (wpc = "down" /\ ~stopped)

(* loadAllToCache: ask etcd ...                                            *)
LoadGet ==
    /\ MayLoad
    /\ wpc' = IF wpc = "load" THEN "fill" ELSE "refill"
    /\ wsnap' \in Loaded(store)
    /\ excused' = {}
    /\ UNCHANGED <<etcdSide, wq, inCh, cache, acall, stopped, pollSide,
                   told, silent, hits>>

(* ... which may fail: the cache stays as it is ...                        *)
LoadFails ==
    /\ MayLoad
    /\ breaks < MaxBreaks /\ breaks' = breaks + 1
    /\ wpc' = IF wpc = "load" THEN "top" ELSE "sleep"
    /\ excused' = IF wpc = "load" THEN Ids ELSE excused
    /\ silent' = IF wpc = "load" THEN Ids ELSE silent
    /\ UNCHANGED <<store, changes, wq, wsnap, inCh, cache, acall, stopped, pollSide,
                   told, hits>>

(* Mutant of LoadStore: what is loaded is put into the cache on top of     *)
(* what it holds.                                                          *)
LoadStoreMerged ==
    /\ wpc \in {"fill", "refill"}
    /\ StoreCache(FoldLeft(LAMBDA list, e : PutEntry(list, e.id, e.cfg), cache, wsnap))
    /\ wpc' = IF wpc = "fill" THEN "top" ELSE "sleep"
    /\ wsnap' = <<>>
    /\ UNCHANGED <<etcdSide, wq, inCh, acall, stopped, pollSide,
                   told, silent, excused>>

(* ... and replace the cache.  The group is not told.                      *)
LoadStore ==
    /\ wpc \in {"fill", "refill"}
    /\ StoreCache(wsnap)
    /\ wpc' = IF wpc = "fill" THEN "top" ELSE "sleep"
    /\ wsnap' = <<>>
    /\ UNCHANGED <<etcdSide, wq, inCh, acall, stopped, pollSide,
                   told, silent, excused>>

WatchSleep ==
    /\ wpc = "sleep"
    /\ wpc' = "top"
    /\ UNCHANGED <<etcdSide, wq, wsnap, inCh, cache, acall, stopped, pollSide,
                   told, silent, excused, hits>>

(* Mutant of WatchLeave: looked for only where the watch has ended.        *)
WatchLeaveDown ==
    /\ wpc = "down" /\ stopped
    /\ wpc' = "gone"
    /\ UNCHANGED <<etcdSide, wq, wsnap, inCh, cache, acall, stopped, pollSide,
                   told, silent, excused, hits>>

(* The context is looked at before a watch and after it.                   *)
WatchLeave ==
    /\ wpc \in {"top", "down"} /\ stopped
    /\ wpc' = "gone"
    /\ UNCHANGED <<etcdSide, wq, wsnap, inCh, cache, acall, stopped, pollSide,
                   told, silent, excused, hits>>

(* The group takes a notification (watchActor).                            *)
GroupTakes ==
    /\ inCh > 0
    /\ inCh' = inCh - 1
    /\ UNCHANGED <<etcdSide, wq, wpc, wsnap, cache, acall, stopped, pollSide,
                   told, silent, excused, hits>>

-----------------------------------------------------------------------------
(* The application: Register, Unregister, the end of CloseAll *)

(* Register puts the configuration, Unregister deletes it ...              *)
CallWrite(i, c) ==
    /\ acall.pc = "idle" /\ ~stopped
    /\ wpc # "load" /\ wpc # "fill"
    /\ Write(i, c)
    /\ acall' = [pc |-> "written", id |-> i, cfg |-> c, snap |-> <<>>]
    /\ excused' = excused \cup Unseen(i)
    /\ silent' = silent \cup Unseen(i)
    /\ UNCHANGED <<breaks, wpc, wsnap, inCh, cache, stopped, pollSide, told, hits>>

(* ... the cache is loaded and cloned ...                                  *)
CallLoad ==
    /\ acall.pc = "written"
    /\ acall' = [acall EXCEPT !.pc = "loaded", !.snap = cache]
    /\ UNCHANGED <<etcdSide, watchSide, cache, stopped, pollSide,
                   told, silent, excused, hits>>

(* ... and replaced when the actor was missing, or was there.  An answer   *)
(* that etcd has overtaken stays until the next event of the actor.        *)
CallStore ==
    /\ acall.pc = "loaded"
    /\ LET i == acall.id
           list == IF acall.cfg = Absent THEN RemoveEntry(acall.snap, i)
                   ELSE AddEntry(acall.snap, i, acall.cfg)
           late == IF \E n \in DOMAIN wq : wq[n].id = i THEN {}
                   ELSE {j \in {i} : store[i] # acall.cfg}
       IN  IF list = acall.snap THEN UNCHANGED <<cache, hits, excused>>
           ELSE /\ StoreCache(list)
                /\ excused' = excused \cup late \cup Undone(acall.snap, i)
    /\ acall' = Idle
    /\ UNCHANGED <<etcdSide, watchSide, stopped, pollSide, told, silent>>

Cancel ==
    /\ ~stopped /\ wpc # "load" /\ wpc # "fill" /\ acall.pc = "idle"
    /\ stopped' = TRUE
    /\ UNCHANGED <<etcdSide, watchSide, cache, acall, pollSide,
                   told, silent, excused, hits>>

-----------------------------------------------------------------------------
(* The finders *)

(* FindPoll: the list is read ...                                          *)
PollRead(p) ==
    /\ poll[p] = <<>> /\ cache # <<>>
    /\ Ops < MaxOps
    /\ poll' = [poll EXCEPT ![p] = cache]
    /\ UNCHANGED <<etcdSide, watchSide, cache, acall, stopped, counter,
                   told, silent, excused, hits>>

(* Mutant of PollIndex: the first two calls see the same count.            *)
PollIndexOnce(c, n) == ((IF c = 0 THEN 1 ELSE c) % n) + 1

PollIndex(c, n) == (c % n) + 1

(* ... and its next element taken, by an atomic counter.                   *)
PollTake(p) ==
    /\ poll[p] # <<>>
    /\ counter' = counter + 1
    /\ LET picked == poll[p][PollIndex(counter, Len(poll[p]))].id
       IN  hits' = [hits EXCEPT ![IF poll[p] = cache THEN picked ELSE Older] = @ + 1]
    /\ poll' = [poll EXCEPT ![p] = <<>>]
    /\ UNCHANGED <<etcdSide, watchSide, cache, acall, stopped, told, silent, excused>>

(* FindMod: the element the user's number falls on.                        *)
FindMod(list, user) == list[(user % Len(list)) + 1].id

-----------------------------------------------------------------------------
WatchStep ==
    \/ WatchStart \/ HandleLoad \/ HandleStore \/ WatchClosed
    \/ LoadGet \/ LoadStore \/ WatchSleep \/ WatchLeave

CallStep == CallLoad \/ CallStore

CacheNext ==
    \/ \E i \in Ids, c \in Configs \cup {Absent} : EtcdChange(i, c)
    \/ WatchStep \/ WatchBreaks \/ LoadFails \/ GroupTakes
    \/ \E i \in Own, c \in Configs \cup {Absent} : CallWrite(i, c)
    \/ CallStep \/ Cancel
    \/ \E p \in Pollers : PollRead(p) \/ PollTake(p)

CacheSpec == CacheInit /\ [][CacheNext]_cacheVars

-----------------------------------------------------------------------------
(* Properties *)

(* The cache has its type, and no actor is in it twice.                    *)
CacheTypeOK ==
    /\ store \in [Ids -> Configs \cup {Absent}]
    /\ cache \in Seq([id : Ids, cfg : Configs])
    /\ \A m, n \in DOMAIN cache : cache[m].id = cache[n].id => m = n
    /\ inCh \in 0 .. ChCap

Settled == wpc = "on" /\ wq = <<>> /\ acall.pc = "idle"

(* watch, handlePut, handleDelete, loadAllToCache, Register and Unregister *)
(* (etcd.go 232-366, 406-457): when every event is handled the cache holds *)
(* of each actor what etcd holds, unless the actor changed while nothing   *)
(* watched, another writer's store undid its update, or a call's late      *)
(* store put an older state back.                                          *)
CacheExact ==
    Settled => \A i \in Ids \ excused : CfgIn(cache, i) = store[i]

(* handlePut, handleDelete (etcd.go 317-320, 360-365): when every event is *)
(* handled the group has been told the present state of each actor, unless *)
(* the actor changed while nothing watched (a reload tells nobody) or d.ch *)
(* was full.                                                               *)
GroupTold ==
    Settled => \A i \in Ids \ silent : told[i] = store[i]

(* FindPoll (etcd.go 595-614): however its callers interleave, polling an  *)
(* unchanged list picks its actors equally often, up to one, and one for   *)
(* each caller that was still at an older list.                            *)
PollFair ==
    \A i, j \in IdsOf(cache) : hits[i] <= hits[j] + 1 + hits[Older]

(* A store from a load that another store has overtaken.                   *)
Overtaken ==
    \/ wpc = "handle" /\ wpc' # wpc /\ wsnap # cache
    \/ acall.pc = "loaded" /\ acall' = Idle /\ acall.snap # cache

(* FindMod (etcd.go 618-629, "stable"): as long as the same actors are     *)
(* cached a user keeps its actor, whatever is put again.  A reload lists   *)
(* the actors in the order of their keys, and is the exception, as is a    *)
(* store from an overtaken load.                                           *)
UserStays ==
    [][IdsOf(cache') = IdsOf(cache) =>
         \/ wpc = "refill" \/ Overtaken
         \/ \A user \in DOMAIN cache : FindMod(cache', user) = FindMod(cache, user)]_cache

(* watch (etcd.go 251-289): the watch goroutine goes on until the context  *)
(* is cancelled, and then ends, also from the sleep after a reload; until  *)
(* then every event is handled in the end.                                 *)
WatchEnds ==
    /\ stopped ~> wpc = "gone"
    /\ wq # <<>> ~> wq = <<>>
=============================================================================
