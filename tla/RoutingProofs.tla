--------------------------- MODULE RoutingProofs ---------------------------
(***************************************************************************)
(* Theorems about the way of a message from a client to an actor.          *)
(*                                                                         *)
(* RouteCache: the snapshot of the routing table is fresh and one view,    *)
(* for any actors, configurations and readers and any channel capacity.    *)
(* Gate: what it counts and measures, and the fallback over remote actors, *)
(* for any number of sessions and requests, any batch, any size of the     *)
(* ring and any views.                                                     *)
(***************************************************************************)
EXTENDS RouteCache, Gate, FiniteSetTheorems, SequenceTheorems, TLAPS

-----------------------------------------------------------------------------
(* RouteCache *)

(* What the watcher's program counter says about pending stores: it is at  *)
(* most one batch ahead of the version, and a batch stores an actor once.  *)
WatcherInv ==
    /\ \A a \in Actors \ dirty : other[a] = published[a]
    /\ wpc \in {"find", "recv"} => dirty = {}
    /\ wpc = "load" => \A i, j \in items : /\ i.id \notin dirty
                                           /\ i.id = j.id => i = j

(* Versions read earlier are not above the current one, and whoever        *)
(* rebuilds holds the lock.                                                *)
OrderInv ==
    /\ snap.version <= version
    /\ \A r \in Readers : rver[r] <= version
    /\ \A r \in Readers : rpc[r] \in {"recheck", "range"} => lock = {r}

Current(a) == {published[a], other[a]}

(* Freshness against the current version: of the snapshot, and of a table  *)
(* under construction.                                                     *)
TableInv ==
    /\ snap.version = version => \A a \in Actors : snap.table[a] \in Current(a)
    /\ \A b \in Readers : rpc[b] = "range" /\ rver[b] = version =>
          \A a \in Actors \ todo[b] : rtable[b][a] \in Current(a)

(* Freshness against a lookup's window.  The third conjunct is the subtle  *)
(* one: a reader that has read the version may be handed the table some    *)
(* other reader began to build under that version before it started.       *)
WindowInv ==
    /\ \A r \in Readers : rpc[r] # "idle" =>
          \A a \in Actors : Current(a) \subseteq window[r][a]
    /\ \A r \in Readers : rpc[r] = "snap" /\ snap.version = rver[r] =>
          \A a \in Actors : snap.table[a] \in window[r][a]
    /\ \A r, b \in Readers :
          rpc[r] = "snap" /\ rpc[b] = "range" /\ rver[b] = rver[r] =>
          \A a \in Actors \ todo[b] : rtable[b][a] \in window[r][a]
    /\ \A b \in Readers : rpc[b] = "range" =>
          \A a \in Actors \ todo[b] : rtable[b][a] \in window[b][a]
    /\ LookupFresh

CacheInv == WatcherInv /\ OrderInv /\ TableInv /\ WindowInv

-----------------------------------------------------------------------------
(* The writers of the discovery cache keep its types.                      *)
LEMMA DiscoveryKeepsTypes == ASSUME CacheTypeOK, Discovery PROVE CacheTypeOK'
  <1> USE DEF CacheTypeOK, View, Entry, NoView, discVars, watchVars, readerVars
  <1>1. \A a \in Actors, e \in Entry, v \in View : [v EXCEPT ![a] = e] \in View
    OBVIOUS
  <1>2. CASE \E a \in Actors, e \in Entry : HandleEvent(a, e)
    <2>1. PICK a \in Actors, e \in Entry : HandleEvent(a, e)
      BY <1>2
    <2>2. /\ handling' = {[pc |-> "loaded", id |-> a, cfg |-> e, snap |-> dcache]}
          /\ events' = events + 1
          /\ UNCHANGED <<dcache, dch, calls, untold, watchVars, readerVars, window>>
      BY <2>1 DEF HandleEvent, Another
    <2> QED
      BY <2>2
  <1>3. CASE HandleStore
    <2>1. PICK h \in handling : StoreCache([h.snap EXCEPT ![h.id] = h.cfg])
            /\ handling' = {[pc |-> "stored", id |-> h.id, cfg |-> h.cfg, snap |-> NoView]}
            /\ UNCHANGED <<dch, calls, events, watchVars, readerVars, window>>
      BY <1>3 DEF HandleStore
    <2>2. h.id \in Actors /\ h.cfg \in Entry /\ h.snap \in View /\ NoView \in View
      OBVIOUS
    <2>3. dcache' \in View /\ untold' \in SUBSET Actors
      BY <1>1, <2>1, <2>2 DEF StoreCache
    <2> QED
      BY <2>1, <2>2, <2>3
  <1>4. CASE Offer
    <2>1. PICK h \in handling :
            /\ handling' = {}
            /\ \/ /\ Len(dch) < Cap
                  /\ dch' = Append(dch, [id |-> h.id, cfg |-> h.cfg])
                  /\ untold' = IF dcache[h.id] = h.cfg THEN untold \ {h.id} ELSE untold
               \/ Len(dch) >= Cap /\ UNCHANGED <<dch, untold>>
            /\ UNCHANGED <<dcache, calls, events, watchVars, readerVars, window>>
      BY <1>4 DEF Offer
    <2>2. [id |-> h.id, cfg |-> h.cfg] \in Event
      BY DEF Event
    <2>3. CASE Len(dch) < Cap /\ dch' = Append(dch, [id |-> h.id, cfg |-> h.cfg])
      <3>1. dch' \in Seq(Event) /\ Len(dch') = Len(dch) + 1
        BY <2>2, <2>3
      <3> QED
        BY <2>1, <2>3, <3>1, CapAssumption
    <2>4. CASE UNCHANGED dch
      BY <2>1, <2>4
    <2> QED
      BY <2>1, <2>3, <2>4
  <1>5. CASE \E v \in View : Reload(v)
    <2>1. PICK v \in View : Reload(v)
      BY <1>5
    <2>2. dcache' = v /\ untold' \in SUBSET Actors /\ events' \in Nat
      BY <2>1 DEF Reload, Another, StoreCache
    <2> QED
      BY <2>1, <2>2 DEF Reload
  <1>6. CASE \E a \in Local, e \in Entry : CallLoad(a, e)
    <2>1. PICK a \in Local, e \in Entry : CallLoad(a, e)
      BY <1>6
    <2>2. calls' \in SUBSET [id : Local, cfg : Entry, snap : View] /\ events' \in Nat
      BY <2>1 DEF CallLoad, Another
    <2> QED
      BY <2>1, <2>2 DEF CallLoad
  <1>7. CASE CallStore
    <2>1. PICK c \in calls :
            /\ calls' = calls \ {c}
            /\ IF (c.snap[c.id] = Absent) = (c.cfg = Absent) THEN UNCHANGED <<dcache, untold>>
               ELSE StoreCache([c.snap EXCEPT ![c.id] = c.cfg])
            /\ UNCHANGED <<dch, handling, events, watchVars, readerVars, window>>
      BY <1>7 DEF CallStore
    <2>2. c.id \in Actors /\ c.cfg \in Entry /\ c.snap \in View
      BY ConfigAssumption
    <2>3. dcache' \in View /\ untold' \in SUBSET Actors
      BY <1>1, <2>1, <2>2 DEF StoreCache
    <2> QED
      BY <2>1, <2>3
  <1> QED
    BY <1>2, <1>3, <1>4, <1>5, <1>6, <1>7 DEF Discovery

(* Every variable keeps its type (CacheTypeOK).                            *)
THEOREM CacheTypeCorrect == CacheSpec => []CacheTypeOK
  <1> USE DEF CacheTypeOK, View, Entry, NoView
  <1>1. CacheInit => CacheTypeOK
    <2> SUFFICES ASSUME CacheInit PROVE CacheTypeOK
      OBVIOUS
    <2>1. dch \in Seq(Event) /\ Len(dch) <= Cap
      BY CapAssumption DEF CacheInit
    <2>2. /\ handling \in SUBSET [pc : {"loaded", "stored"}, id : Actors, cfg : Entry, snap : View]
          /\ calls \in SUBSET [id : Local, cfg : Entry, snap : View]
          /\ untold \in SUBSET Actors
      BY DEF CacheInit
    <2>3. NoView \in View
      OBVIOUS
    <2>4. snap \in [version : Nat, table : View] /\ rtable \in [Readers -> View]
      BY <2>3 DEF CacheInit
    <2>5. window \in [Readers -> [Actors -> SUBSET Entry]]
      BY DEF CacheInit
    <2> QED
      BY <2>1, <2>2, <2>3, <2>4, <2>5 DEF CacheInit
  <1>2. CacheTypeOK /\ [CacheNext]_cacheVars => CacheTypeOK'
    <2> SUFFICES ASSUME CacheTypeOK, [CacheNext]_cacheVars PROVE CacheTypeOK'
      OBVIOUS
    <2> USE DEF discVars, watchVars, readerVars
    <2>1. ASSUME Discovery PROVE CacheTypeOK'
      BY <2>1, DiscoveryKeepsTypes
    <2>2. CASE FindExisting
      BY <2>2 DEF FindExisting, Event
    <2>3. CASE LoadItem
      BY <2>3 DEF LoadItem, Store, Event
    <2>4. CASE Publish
      BY <2>4 DEF Publish
    <2>5. CASE ReceiveEvent
      <3>1. /\ Head(dch) \in Event /\ dch' \in Seq(Event)
            /\ Len(dch') = Len(dch) - 1
        BY <2>5 DEF ReceiveEvent
      <3>2. Head(dch).id \in Actors /\ Head(dch).cfg \in Entry
        BY <3>1 DEF Event
      <3>3. other' \in View /\ dirty' \in SUBSET Actors
        BY <2>5, <3>2 DEF ReceiveEvent, Store
      <3>4. window' \in [Readers -> [Actors -> SUBSET Entry]]
        BY <2>5, <3>2 DEF ReceiveEvent, Store
      <3>5. Len(dch') <= Cap
        BY <3>1, CapAssumption
      <3> QED
        BY <2>5, <3>1, <3>3, <3>4, <3>5 DEF ReceiveEvent
    <2>6. CASE WatchStop
      BY <2>6 DEF WatchStop
    <2>7. ASSUME NEW r \in Readers, LoadVersion(r) PROVE CacheTypeOK'
      BY <2>7 DEF LoadVersion
    <2>8. ASSUME NEW r \in Readers, FastPath(r) PROVE CacheTypeOK'
      BY <2>8 DEF FastPath
    <2>9. ASSUME NEW r \in Readers, SlowPath(r) PROVE CacheTypeOK'
      BY <2>9 DEF SlowPath
    <2>10. ASSUME NEW r \in Readers, Acquire(r) PROVE CacheTypeOK'
      BY <2>10 DEF Acquire
    <2>11. ASSUME NEW r \in Readers, RecheckVersion(r) PROVE CacheTypeOK'
      <3>1. CASE snap.version = version
        BY <2>11, <3>1 DEF RecheckVersion
      <3>2. CASE snap.version # version
        <4>1. NoView \in View
          OBVIOUS
        <4>2. rtable' \in [Readers -> View]
          BY <2>11, <3>2, <4>1 DEF RecheckVersion
        <4>3. todo' \in [Readers -> SUBSET Actors]
          BY <2>11, <3>2 DEF RecheckVersion
        <4> QED
          BY <2>11, <3>2, <4>2, <4>3 DEF RecheckVersion
      <3> QED
        BY <3>1, <3>2
    <2>12. ASSUME NEW r \in Readers, VisitEntry(r) PROVE CacheTypeOK'
      <3>1. PICK a \in todo[r] :
               /\ rtable' = [rtable EXCEPT ![r] = [@ EXCEPT ![a] = other[a]]]
               /\ todo' = [todo EXCEPT ![r] = @ \ {a}]
        BY <2>12 DEF VisitEntry
      <3>2. [rtable[r] EXCEPT ![a] = other[a]] \in View
        OBVIOUS
      <3>3. rtable' \in [Readers -> View] /\ todo' \in [Readers -> SUBSET Actors]
        BY <3>1, <3>2
      <3> QED
        BY <2>12, <3>3 DEF VisitEntry
    <2>13. ASSUME NEW r \in Readers, StoreSnapshot(r) PROVE CacheTypeOK'
      BY <2>13 DEF StoreSnapshot
    <2>14. ASSUME NEW r \in Readers, AnswerLookup(r) PROVE CacheTypeOK'
      BY <2>14 DEF AnswerLookup
    <2>15. CASE UNCHANGED cacheVars
      BY <2>15 DEF cacheVars
    <2> QED
      BY <2>1, <2>2, <2>3, <2>4, <2>5, <2>6, <2>7, <2>8, <2>9, <2>10, <2>11,
         <2>12, <2>13, <2>14, <2>15
         DEF CacheNext, Watcher, Reader, ReaderStep
  <1> QED
    BY <1>1, <1>2, PTL DEF CacheSpec
-----------------------------------------------------------------------------
(* Storing one entry that is not pending yet, as LoadItem and ReceiveEvent *)
(* do, keeps every table fresh: the windows take the new value in.         *)
LEMMA StoreKeepsFresh ==
    ASSUME CacheTypeOK, CacheInv, NEW a \in Actors, NEW e \in Entry, a \notin dirty,
           Store(a, e), UNCHANGED <<version, published, readerVars>>
    PROVE  OrderInv' /\ TableInv' /\ WindowInv'
  <1> USE DEF CacheTypeOK, View, CacheInv, WatcherInv, OrderInv, TableInv, WindowInv,
              Current, LookupFresh, Store, readerVars
  <1>1. \A b \in Actors : /\ b # a => other'[b] = other[b]
                         /\ b = a => other'[b] = e /\ other[b] = published[b]
    OBVIOUS
  <1>2. \A r \in Readers, b \in Actors :
           /\ window[r][b] \subseteq window'[r][b]
           /\ rpc[r] # "idle" => other'[b] \in window'[r][b]
    OBVIOUS
  <1>3. OrderInv'
    OBVIOUS
  <1>4. TableInv'
    BY <1>1
  <1>5. WindowInv'
    BY <1>1, <1>2
  <1> QED
    BY <1>3, <1>4, <1>5

(* The reader that holds the lock is the only one that rebuilds.           *)
LEMMA OneBuilder ==
    ASSUME OrderInv, NEW r \in Readers, rpc[r] \in {"recheck", "range"}
    PROVE  \A b \in Readers : rpc[b] \in {"recheck", "range"} => b = r
  BY DEF OrderInv

(* Under the lock: answer from a current snapshot, or start from nothing.  *)
LEMMA RecheckKeepsFresh ==
    ASSUME CacheTypeOK, CacheInv, NEW r \in Readers, RecheckVersion(r) PROVE CacheInv'
  <1> USE DEF CacheTypeOK, View, discVars, watchVars, readerVars
  <1>1. /\ rpc[r] = "recheck" /\ rver' = [rver EXCEPT ![r] = version]
        /\ UNCHANGED <<snap, discVars, watchVars, window>>
    BY DEF RecheckVersion
  <1>2. WatcherInv'
    BY <1>1 DEF CacheInv, WatcherInv
  <1>3. OrderInv'
    <2>1. \A b \in Readers \ {r} : rpc'[b] = rpc[b] /\ rpc[b] \notin {"recheck", "range"}
      BY <1>1, OneBuilder DEF CacheInv, RecheckVersion
    <2>2. rpc'[r] \in {"recheck", "range"} => lock' = {r}
      BY <1>1 DEF CacheInv, OrderInv, RecheckVersion
    <2>3. \A b \in Readers : rpc'[b] \in {"recheck", "range"} => lock' = {b}
      BY <2>1, <2>2
    <2>4. \A b \in Readers : rver'[b] <= version'
      BY <1>1 DEF CacheInv, OrderInv
    <2> QED
      BY <1>1, <2>3, <2>4 DEF CacheInv, OrderInv
  <1>4. CASE snap.version = version
    <2>1. /\ rtable' = [rtable EXCEPT ![r] = snap.table]
          /\ rpc' = [rpc EXCEPT ![r] = "done"] /\ UNCHANGED todo
      BY <1>1, <1>4 DEF RecheckVersion
    <2>2. TableInv'
      BY <1>1, <2>1 DEF CacheInv, TableInv, Current
    <2>3. \A a \in Actors : snap.table[a] \in window[r][a]
      BY <1>1, <1>4 DEF CacheInv, TableInv, WindowInv
    <2>4. WindowInv'
      BY <1>1, <2>1, <2>3 DEF CacheInv, WindowInv, Current, LookupFresh
    <2> QED
      BY <1>2, <1>3, <2>2, <2>4 DEF CacheInv
  <1>5. CASE snap.version # version
    <2>1. /\ rtable' = [rtable EXCEPT ![r] = NoView]
          /\ todo' = [todo EXCEPT ![r] = Actors]
          /\ rpc' = [rpc EXCEPT ![r] = "range"]
      BY <1>1, <1>5 DEF RecheckVersion
    <2>2. TableInv'
      BY <1>1, <2>1 DEF CacheInv, TableInv, Current
    <2>3. WindowInv'
      BY <1>1, <2>1 DEF CacheInv, WindowInv, Current, LookupFresh
    <2> QED
      BY <1>2, <1>3, <2>2, <2>3 DEF CacheInv
  <1> QED
    BY <1>4, <1>5

(* Range sees an entry as it is now, which every open window contains.     *)
LEMMA VisitKeepsFresh ==
    ASSUME CacheTypeOK, CacheInv, NEW r \in Readers, VisitEntry(r) PROVE CacheInv'
  <1> USE DEF CacheTypeOK, View, discVars, watchVars, readerVars
  <1>1. PICK x \in todo[r] :
           /\ rtable' = [rtable EXCEPT ![r] = [@ EXCEPT ![x] = other[x]]]
           /\ todo' = [todo EXCEPT ![r] = @ \ {x}]
    BY DEF VisitEntry
  <1>2. /\ rpc[r] = "range"
        /\ UNCHANGED <<snap, lock, rpc, rver, discVars, watchVars, window>>
    BY DEF VisitEntry
  <1>3. WatcherInv' /\ OrderInv'
    BY <1>2 DEF CacheInv, WatcherInv, OrderInv
  <1>4. \A b \in Readers \ {r} : rtable'[b] = rtable[b] /\ todo'[b] = todo[b]
    BY <1>1
  <1>5. \A a \in Actors \ todo'[r] :
           \/ a = x /\ rtable'[r][a] = other[a]
           \/ a \notin todo[r] /\ rtable'[r][a] = rtable[r][a]
    BY <1>1
  <1>6. TableInv'
    BY <1>2, <1>4, <1>5 DEF CacheInv, TableInv, Current
  <1>7. \A d \in Readers : rpc[d] # "idle" => other[x] \in window[d][x]
    BY DEF CacheInv, WindowInv, Current
  <1>8. WindowInv'
    <2>1. \A d \in Readers, b \in Readers :
             rpc'[d] = "snap" /\ rpc'[b] = "range" /\ rver'[b] = rver'[d] =>
             \A a \in Actors \ todo'[b] : rtable'[b][a] \in window'[d][a]
      <3> SUFFICES ASSUME NEW d \in Readers, NEW b \in Readers,
                          rpc[d] = "snap", rpc[b] = "range", rver[b] = rver[d],
                          NEW a \in Actors \ todo'[b]
                   PROVE  rtable'[b][a] \in window[d][a]
        BY <1>2
      <3>1. \A c \in Actors \ todo[b] : rtable[b][c] \in window[d][c]
        BY DEF CacheInv, WindowInv
      <3>2. CASE b = r
        BY <1>5, <1>7, <3>1, <3>2
      <3>3. CASE b # r
        BY <1>4, <3>1, <3>3
      <3> QED
        BY <3>2, <3>3
    <2>2. \A b \in Readers : rpc'[b] = "range" =>
             \A a \in Actors \ todo'[b] : rtable'[b][a] \in window'[b][a]
      BY <1>2, <1>4, <1>5, <1>7 DEF CacheInv, WindowInv
    <2>3. LookupFresh'
      BY <1>2, <1>4 DEF CacheInv, WindowInv, LookupFresh
    <2> QED
      BY <1>2, <2>1, <2>2, <2>3 DEF CacheInv, WindowInv, Current
  <1> QED
    BY <1>3, <1>6, <1>8 DEF CacheInv

(* A finished table becomes the snapshot, for the readers waiting to load  *)
(* one as well.                                                            *)
LEMMA StoreSnapshotKeepsFresh ==
    ASSUME CacheTypeOK, CacheInv, NEW r \in Readers, StoreSnapshot(r) PROVE CacheInv'
  <1> USE DEF CacheTypeOK, View, discVars, watchVars, readerVars
  <1>1. /\ rpc[r] = "range" /\ todo[r] = {}
        /\ snap' = [version |-> rver[r], table |-> rtable[r]]
        /\ rpc'  = [rpc EXCEPT ![r] = "done"]
        /\ UNCHANGED <<rver, todo, rtable, discVars, watchVars, window>>
    BY DEF StoreSnapshot
  <1>2. snap'.version = rver[r] /\ snap'.table = rtable[r]
    BY <1>1
  <1>3. WatcherInv'
    BY <1>1 DEF CacheInv, WatcherInv
  <1>4. OrderInv'
    <2>1. \A b \in Readers : rpc'[b] \notin {"recheck", "range"}
      BY <1>1, OneBuilder DEF CacheInv
    <2> QED
      BY <1>1, <1>2, <2>1 DEF CacheInv, OrderInv
  <1>5. TableInv'
    BY <1>1, <1>2 DEF CacheInv, TableInv, Current
  <1>6. WindowInv'
    BY <1>1, <1>2 DEF CacheInv, WindowInv, Current, LookupFresh
  <1> QED
    BY <1>3, <1>4, <1>5, <1>6 DEF CacheInv

(* The discovery goroutines do not touch the group.                        *)
LEMMA DiscoveryIsApart ==
    ASSUME Discovery PROVE UNCHANGED <<other, version, wpc, items, dirty, published, snap,
                                       lock, rpc, rver, todo, rtable, window>>
  BY DEF Discovery, HandleEvent, HandleStore, Offer, Reload, CallLoad, CallStore,
         watchVars, readerVars

(* CacheInv is inductive.                                                  *)
LEMMA CacheInvInductive ==
    ASSUME CacheTypeOK, CacheTypeOK', CacheInv, [CacheNext]_cacheVars PROVE CacheInv'
  <1>1. CASE LoadItem
    <2>1. PICK i \in items : Store(i.id, i.cfg) /\ items' = items \ {i}
      BY <1>1 DEF LoadItem
    <2>2. i.id \in Actors /\ i.cfg \in Entry /\ i.id \notin dirty
      BY <1>1 DEF LoadItem, CacheTypeOK, Event, CacheInv, WatcherInv
    <2>3. OrderInv' /\ TableInv' /\ WindowInv'
      BY <1>1, <2>1, <2>2, StoreKeepsFresh DEF LoadItem
    <2>4. WatcherInv'
      BY <1>1, <2>1, <2>2 DEF LoadItem, Store, CacheTypeOK, View, CacheInv, WatcherInv
    <2> QED
      BY <2>3, <2>4 DEF CacheInv
  <1>2. CASE ReceiveEvent
    <2>1. Head(dch) \in Event
      BY <1>2 DEF ReceiveEvent, CacheTypeOK
    <2>2. Head(dch).id \in Actors /\ Head(dch).cfg \in Entry /\ dirty = {}
      BY <1>2, <2>1 DEF ReceiveEvent, Event, CacheInv, WatcherInv
    <2>3. OrderInv' /\ TableInv' /\ WindowInv'
      BY <1>2, <2>2, StoreKeepsFresh DEF ReceiveEvent
    <2>4. WatcherInv'
      BY <1>2, <2>2 DEF ReceiveEvent, Store, CacheTypeOK, View, CacheInv, WatcherInv
    <2> QED
      BY <2>3, <2>4 DEF CacheInv
  <1>11. ASSUME NEW r \in Readers, RecheckVersion(r) PROVE CacheInv'
    BY <1>11, RecheckKeepsFresh
  <1>12. ASSUME NEW r \in Readers, VisitEntry(r) PROVE CacheInv'
    BY <1>12, VisitKeepsFresh
  <1>13. ASSUME NEW r \in Readers, StoreSnapshot(r) PROVE CacheInv'
    BY <1>13, StoreSnapshotKeepsFresh
  <1> USE DEF CacheTypeOK, View, CacheInv, WatcherInv, OrderInv, TableInv, WindowInv,
              Current, LookupFresh, discVars, watchVars, readerVars
  <1>3. CASE Discovery
    BY <1>3, DiscoveryIsApart
  <1>4. CASE FindExisting
    BY <1>4 DEF FindExisting
  <1>5. CASE Publish
    BY <1>5 DEF Publish
  <1>6. CASE WatchStop
    BY <1>6 DEF WatchStop
  <1>7. ASSUME NEW r \in Readers, LoadVersion(r) PROVE CacheInv'
    BY <1>7 DEF LoadVersion
  <1>8. ASSUME NEW r \in Readers, FastPath(r) PROVE CacheInv'
    BY <1>8 DEF FastPath
  <1>9. ASSUME NEW r \in Readers, SlowPath(r) PROVE CacheInv'
    BY <1>9 DEF SlowPath
  <1>10. ASSUME NEW r \in Readers, Acquire(r) PROVE CacheInv'
    BY <1>10 DEF Acquire
  <1>14. ASSUME NEW r \in Readers, AnswerLookup(r) PROVE CacheInv'
    BY <1>14 DEF AnswerLookup
  <1>15. CASE UNCHANGED cacheVars
    BY <1>15 DEF cacheVars
  <1> QED
    BY <1>1, <1>2, <1>3, <1>4, <1>5, <1>6, <1>7, <1>8, <1>9, <1>10, <1>11,
       <1>12, <1>13, <1>14, <1>15
       DEF CacheNext, Watcher, Reader, ReaderStep

(* CacheInv holds throughout.                                              *)
LEMMA CacheAlways == CacheSpec => []CacheInv
  <1>1. CacheInit => CacheInv
    BY DEF CacheInit, NoView, CacheInv, WatcherInv, OrderInv, TableInv, WindowInv,
           Current, LookupFresh
  <1>2. CacheTypeOK /\ CacheTypeOK' /\ CacheInv /\ [CacheNext]_cacheVars => CacheInv'
    BY CacheInvInductive
  <1> QED
    BY <1>1, <1>2, CacheTypeCorrect, PTL DEF CacheSpec

(* Lookups never answer from a stale table, and the version check is a     *)
(* sound freshness test (LookupFresh, SnapshotCoherent).                   *)
THEOREM RoutesFresh == CacheSpec => [](LookupFresh /\ SnapshotCoherent)
  <1>1. CacheTypeOK /\ CacheInv => LookupFresh /\ SnapshotCoherent
    BY DEF CacheTypeOK, View, CacheInv, WatcherInv, TableInv, WindowInv, Current,
           SnapshotCoherent
  <1> QED
    BY <1>1, CacheAlways, CacheTypeCorrect, PTL

-----------------------------------------------------------------------------
(* Convergence *)

(* The i-th notification in the channel is the last one about its actor.   *)
LastOf(i, a) == dch[i].id = a /\ \A j \in 1 .. Len(dch) : i < j => dch[j].id # a

(* The last notification about an actor agrees with the discovery cache;   *)
(* without one, the entry that the initial load still has to store does,   *)
(* or the stored one.                                                      *)
Pending(a) == \E i \in 1 .. Len(dch) : dch[i].id = a
Agrees(a) ==
    /\ \A i \in 1 .. Len(dch) : LastOf(i, a) => dch[i].cfg = dcache[a]
    /\ wpc # "find" /\ ~Pending(a) =>
          /\ \A it \in items : it.id = a => it.cfg = dcache[a]
          /\ (\A it \in items : it.id # a) => other[a] = dcache[a]

(* What is about to be notified is in the cache, or the actor is untold.   *)
OfferInv ==
    \A h \in handling : h.pc = "stored" => dcache[h.id] = h.cfg \/ h.id \in untold

ConvergeInv ==
    /\ wpc = "find" => other = NoView
    /\ wpc # "load" => items = {}
    /\ \A a \in Actors \ (Local \cup untold) : Agrees(a)
    /\ OfferInv

(* Steps that leave the cache, the channel and the group's entries alone.  *)
LEMMA IdleConverges ==
    ASSUME ConvergeInv, UNCHANGED <<dcache, dch, untold, other, wpc, items>>, OfferInv'
    PROVE  ConvergeInv'
  <1>1. ASSUME NEW a \in Actors \ (Local \cup untold') PROVE Agrees(a)'
    <2>1. Agrees(a)
      BY <1>1 DEF ConvergeInv
    <2> QED
      BY <2>1, Zenon DEF Agrees, LastOf, Pending
  <1>2. (wpc' = "find" => other' = NoView) /\ (wpc' # "load" => items' = {})
    BY DEF ConvergeInv
  <1> QED
    BY <1>1, <1>2, Zenon DEF ConvergeInv

(* A store makes whatever it changes untold.                               *)
LEMMA StoreConverges ==
    ASSUME CacheTypeOK, ConvergeInv, NEW view \in View, StoreCache(view),
           UNCHANGED <<dch, other, wpc, items>>,
           \A h \in handling' : h.pc = "stored" => view[h.id] = h.cfg \/ h \in handling,
           \A h \in handling' : h.id \in Actors
    PROVE  ConvergeInv'
  <1>1. \A a \in Actors \ untold' : a \notin untold /\ dcache'[a] = dcache[a]
    BY DEF StoreCache
  <1>2. ASSUME NEW a \in Actors \ (Local \cup untold') PROVE Agrees(a)'
    <2>1. Agrees(a) /\ dcache'[a] = dcache[a]
      BY <1>1, <1>2 DEF ConvergeInv
    <2> QED
      BY <2>1, Zenon DEF Agrees, LastOf, Pending
  <1>3. OfferInv'
    BY <1>1 DEF ConvergeInv, OfferInv, StoreCache
  <1>4. (wpc' = "find" => other' = NoView) /\ (wpc' # "load" => items' = {})
    BY DEF ConvergeInv
  <1> QED
    BY <1>2, <1>3, <1>4, Zenon DEF ConvergeInv

(* A notification that fits becomes the last one about its actor.          *)
LEMMA OfferConverges == ASSUME CacheTypeOK, ConvergeInv, Offer PROVE ConvergeInv'
  <1>1. PICK h \in handling :
          /\ h.pc = "stored" /\ handling' = {}
          /\ \/ /\ Len(dch) < Cap
                /\ dch' = Append(dch, [id |-> h.id, cfg |-> h.cfg])
                /\ untold' = IF dcache[h.id] = h.cfg THEN untold \ {h.id} ELSE untold
             \/ Len(dch) >= Cap /\ UNCHANGED <<dch, untold>>
          /\ UNCHANGED <<dcache, calls, events, watchVars, readerVars, window>>
    BY DEF Offer
  <1> DEFINE a == h.id
             e == h.cfg
  <1>2. (wpc' = "find" => other' = NoView) /\ (wpc' # "load" => items' = {}) /\ OfferInv'
    BY <1>1 DEF ConvergeInv, watchVars, OfferInv
  <1>3. CASE Len(dch) < Cap /\ dch' = Append(dch, [id |-> a, cfg |-> e])
                 /\ untold' = IF dcache[a] = e THEN untold \ {a} ELSE untold
    <2>1. a \in Actors /\ e \in Entry
      BY DEF CacheTypeOK
    <2>2. dch \in Seq(Event) /\ [id |-> a, cfg |-> e] \in Event
      BY <2>1 DEF CacheTypeOK, Event
    <2>3. /\ Len(dch) \in Nat /\ Len(dch') = Len(dch) + 1
          /\ dch'[Len(dch) + 1] = [id |-> a, cfg |-> e]
          /\ \A i \in 1 .. Len(dch) : dch'[i] = dch[i]
      BY <1>3, <2>2, LenProperties, AppendProperties
    <2>4. dch'[Len(dch) + 1].id = a /\ dch'[Len(dch) + 1].cfg = e
      BY <2>3
    <2>5. \A i \in 1 .. Len(dch') : i \in 1 .. Len(dch) \/ i = Len(dch) + 1
      BY <2>3
    <2>6. \A b \in Actors \ untold' : IF b = a THEN dcache[a] = e ELSE b \notin untold
      BY <1>1, <1>3 DEF ConvergeInv, OfferInv
    <2>7. dcache' = dcache /\ UNCHANGED watchVars
      BY <1>1
    <2> HIDE DEF a, e
    <2>8. ASSUME NEW b \in Actors \ (Local \cup untold') PROVE Agrees(b)'
      <3>1. ASSUME NEW i \in 1 .. Len(dch'), LastOf(i, b)' PROVE dch'[i].cfg = dcache'[b]
        <4>1. CASE i = Len(dch) + 1
          BY <2>4, <2>6, <2>7, <3>1, <4>1 DEF LastOf
        <4>2. CASE i \in 1 .. Len(dch)
          <5>1. Len(dch) + 1 \in 1 .. Len(dch') /\ i < Len(dch) + 1
            BY <2>3, <4>2
          <5>2. b # a
            BY <2>4, <3>1, <5>1 DEF LastOf
          <5>3. LastOf(i, b)
            <6>1. \A j \in 1 .. Len(dch) : j \in 1 .. Len(dch')
              BY <2>3
            <6> QED
              BY <2>3, <3>1, <4>2, <6>1 DEF LastOf
          <5>4. Agrees(b)
            BY <2>6, <2>8, <5>2 DEF ConvergeInv
          <5> QED
            BY <2>3, <2>7, <4>2, <5>3, <5>4 DEF Agrees
        <4> QED
          BY <2>5, <4>1, <4>2
      <3>2. ASSUME wpc' # "find", ~Pending(b)'
            PROVE  /\ \A it \in items' : it.id = b => it.cfg = dcache'[b]
                   /\ (\A it \in items' : it.id # b) => other'[b] = dcache'[b]
        <4>1. \A i \in 1 .. Len(dch') : dch'[i].id # b
          BY <3>2 DEF Pending
        <4>2. Len(dch) + 1 \in 1 .. Len(dch') /\ \A i \in 1 .. Len(dch) : i \in 1 .. Len(dch')
          BY <2>3
        <4>3. b # a /\ ~Pending(b)
          BY <2>3, <2>4, <4>1, <4>2 DEF Pending
        <4>4. Agrees(b)
          BY <2>6, <2>8, <4>3 DEF ConvergeInv
        <4> QED
          BY <2>7, <3>2, <4>3, <4>4 DEF Agrees, watchVars
      <3> QED
        BY <3>1, <3>2 DEF Agrees
    <2> QED
      BY <1>2, <2>8, Zenon DEF ConvergeInv
  <1>4. CASE UNCHANGED <<dch, untold>>
    <2>1. UNCHANGED <<dcache, dch, untold, other, wpc, items>>
      BY <1>1, <1>4 DEF watchVars
    <2>2. ASSUME NEW b \in Actors \ (Local \cup untold') PROVE Agrees(b)'
      BY <2>1, <2>2, Zenon DEF ConvergeInv, Agrees, LastOf, Pending
    <2> QED
      BY <1>2, <2>2, Zenon DEF ConvergeInv
  <1> QED
    BY <1>1, <1>3, <1>4

(* Whatever the writers of the discovery cache do: it agrees with what was *)
(* notified, or the actor is untold.                                       *)
LEMMA DiscoveryConverges == ASSUME CacheTypeOK, ConvergeInv, Discovery PROVE ConvergeInv'
  <1>1. UNCHANGED <<other, wpc, items>>
    BY DiscoveryIsApart
  <1>2. \A a \in Actors, e \in Entry, v \in View : [v EXCEPT ![a] = e] \in View
    BY DEF View
  <1>3. \A h \in handling : h.id \in Actors /\ h.cfg \in Entry /\ h.snap \in View
    BY DEF CacheTypeOK
  <1>4. CASE HandleStore
    <2>1. PICK h \in handling : /\ StoreCache([h.snap EXCEPT ![h.id] = h.cfg])
                                /\ handling' = {[pc |-> "stored", id |-> h.id, cfg |-> h.cfg,
                                                  snap |-> NoView]}
                                /\ UNCHANGED dch
      BY <1>4 DEF HandleStore
    <2> DEFINE view == [h.snap EXCEPT ![h.id] = h.cfg]
    <2>2. view \in View /\ StoreCache(view) /\ view[h.id] = h.cfg /\ h.id \in Actors
      BY <1>2, <1>3, <2>1 DEF View
    <2> HIDE DEF view
    <2>3. \A g \in handling' : g.id = h.id /\ g.cfg = h.cfg
      BY <2>1
    <2> QED
      BY <1>1, <2>1, <2>2, <2>3, StoreConverges
  <1>5. CASE \E view \in View : Reload(view)
    BY <1>1, <1>3, <1>5, StoreConverges DEF Reload
  <1>6. CASE CallStore
    <2>1. PICK c \in calls :
            /\ IF (c.snap[c.id] = Absent) = (c.cfg = Absent) THEN UNCHANGED <<dcache, untold>>
               ELSE StoreCache([c.snap EXCEPT ![c.id] = c.cfg])
            /\ UNCHANGED <<dch, handling>>
      BY <1>6 DEF CallStore
    <2>2. c.id \in Actors /\ c.cfg \in Entry /\ c.snap \in View
      BY ConfigAssumption DEF CacheTypeOK
    <2>3. [c.snap EXCEPT ![c.id] = c.cfg] \in View
      BY <1>2, <2>2
    <2>4. CASE StoreCache([c.snap EXCEPT ![c.id] = c.cfg])
      BY <1>1, <1>3, <2>1, <2>3, <2>4, StoreConverges
    <2>5. CASE UNCHANGED <<dcache, untold>>
      <3>1. OfferInv'
        BY <2>1, <2>5, Zenon DEF ConvergeInv, OfferInv
      <3> QED
        BY <1>1, <2>1, <2>5, <3>1, IdleConverges
    <2> QED
      BY <2>1, <2>4, <2>5
  <1>7. CASE (\E a \in Actors, e \in Entry : HandleEvent(a, e))
             \/ (\E a \in Local, e \in Entry : CallLoad(a, e))
    <2>1. UNCHANGED <<dcache, dch, untold>>
      BY <1>7 DEF HandleEvent, CallLoad
    <2>2. \A h \in handling' : h.pc = "stored" => h \in handling
      BY <1>7 DEF HandleEvent, CallLoad
    <2>3. OfferInv'
      BY <2>1, <2>2 DEF ConvergeInv, OfferInv
    <2> QED
      BY <1>1, <2>1, <2>3, IdleConverges
  <1> QED
    BY <1>4, <1>5, <1>6, <1>7, OfferConverges DEF Discovery

(* A notification is received and stored: it was the last one about its    *)
(* actor, or another follows.                                              *)
LEMMA ReceiveEventConverges ==
    ASSUME CacheTypeOK, ConvergeInv, ReceiveEvent PROVE ConvergeInv'
  <1> DEFINE a == Head(dch).id
  <1>1. /\ wpc = "recv" /\ wpc' = "publish" /\ UNCHANGED <<items, dcache, handling, untold>>
        /\ dch # <<>> /\ dch' = Tail(dch)
        /\ other' = [other EXCEPT ![a] = Head(dch).cfg]
    BY DEF ReceiveEvent, Store
  <1>2. /\ dch \in Seq(Event) /\ Len(dch) \in Nat \ {0}
        /\ Head(dch) = dch[1] /\ Len(dch') = Len(dch) - 1
        /\ \A i \in 1 .. Len(dch') : dch'[i] = dch[i + 1]
    <2>1. dch \in Seq(Event)
      BY DEF CacheTypeOK
    <2>2. Len(dch) \in Nat \ {0}
      BY <1>1, <2>1, LenProperties, EmptySeq
    <2>3. /\ Head(dch) = dch[1] /\ Len(Tail(dch)) = Len(dch) - 1
          /\ \A i \in 1 .. Len(Tail(dch)) : Tail(dch)[i] = dch[i + 1]
      BY <1>1, <2>1, <2>2, HeadTailProperties
    <2>4. dch' = Tail(dch)
      BY <1>1
    <2> QED
      BY <2>1, <2>2, <2>3, <2>4
  <1>3. a \in Actors /\ Head(dch).cfg \in Entry
    <2>1. Head(dch) \in Event
      BY <1>1, <1>2, HeadTailProperties
    <2> QED
      BY <2>1 DEF Event
  <1>4. other'[a] = dch[1].cfg /\ \A b \in Actors \ {a} : other'[b] = other[b]
    BY <1>1, <1>2, <1>3 DEF CacheTypeOK, View
  <1>5. dch[1].id = a
    BY <1>2
  <1> HIDE DEF a
  <1>6. items = {} /\ items' = {}
    BY <1>1 DEF ConvergeInv
  <1>7. \A i \in 1 .. Len(dch) : i = 1 \/ (i - 1 \in 1 .. Len(dch') /\ dch'[i - 1] = dch[i])
    BY <1>2
  <1>8. ASSUME NEW b \in Actors \ Local, Agrees(b) PROVE Agrees(b)'
    <2>1. ASSUME NEW i \in 1 .. Len(dch'), LastOf(i, b)' PROVE dch'[i].cfg = dcache'[b]
      <3>1. i + 1 \in 1 .. Len(dch) /\ dch'[i] = dch[i + 1]
        BY <1>2
      <3>2. ASSUME NEW j \in 1 .. Len(dch), i + 1 < j PROVE dch[j].id # b
        <4>1. j - 1 \in 1 .. Len(dch') /\ i < j - 1 /\ dch'[j - 1] = dch[j]
          BY <1>2, <3>2
        <4> QED
          BY <2>1, <4>1 DEF LastOf
      <3>3. LastOf(i + 1, b)
        BY <2>1, <3>1, <3>2 DEF LastOf
      <3> QED
        BY <1>1, <1>8, <3>1, <3>3 DEF Agrees
    <2>2. ASSUME ~Pending(b)' PROVE other'[b] = dcache'[b]
      <3>1. \A i \in 1 .. Len(dch) : 1 < i => dch[i].id # b
        BY <1>7, <2>2 DEF Pending
      <3>2. 1 \in 1 .. Len(dch)
        BY <1>2
      <3>3. CASE b = a
        <4>1. LastOf(1, b)
          BY <1>5, <3>1, <3>2, <3>3 DEF LastOf
        <4> QED
          BY <1>1, <1>4, <1>8, <3>2, <3>3, <4>1 DEF Agrees
      <3>4. CASE b # a
        <4>1. ~Pending(b)
          BY <1>2, <1>5, <3>1, <3>4 DEF Pending
        <4> QED
          BY <1>1, <1>4, <1>6, <1>8, <3>4, <4>1 DEF Agrees
      <3> QED
        BY <3>3, <3>4
    <2> QED
      BY <1>6, <2>1, <2>2 DEF Agrees
  <1>9. (wpc' = "find" => other' = NoView) /\ (wpc' # "load" => items' = {})
    BY <1>1, <1>6
  <1>10. \A b \in Actors \ (Local \cup untold') : Agrees(b)'
    BY <1>1, <1>8 DEF ConvergeInv
  <1>11. OfferInv'
    BY <1>1, Zenon DEF ConvergeInv, OfferInv
  <1> QED
    BY <1>9, <1>10, <1>11, Zenon DEF ConvergeInv

(* The initial load takes what the cache holds, and stores it.             *)
LEMMA LoadConverges ==
    ASSUME CacheTypeOK, CacheInv, ConvergeInv, FindExisting \/ LoadItem \/ Publish \/ WatchStop
    PROVE  ConvergeInv'
  <1>1. UNCHANGED <<dcache, dch, handling, untold>>
    BY DEF FindExisting, LoadItem, Publish, WatchStop, discVars
  <1>2. wpc' # "find" /\ (wpc' # "load" => items' = {})
    BY DEF FindExisting, LoadItem, Publish, WatchStop, ConvergeInv
  <1>3. ASSUME NEW a \in Actors \ Local, Agrees(a) PROVE Agrees(a)'
    <2>1. \A i \in 1 .. Len(dch') : LastOf(i, a)' => dch'[i].cfg = dcache'[a]
      BY <1>1, <1>3 DEF Agrees, LastOf
    <2>2. Pending(a)' <=> Pending(a)
      BY <1>1 DEF Pending
    <2>3. CASE FindExisting
      <3>1. other' = other /\ other[a] = Absent
        BY <2>3 DEF FindExisting, ConvergeInv, NoView
      <3>2. items' = {[id |-> b, cfg |-> dcache[b]] : b \in {c \in Actors \ Local : dcache[c] # Absent}}
        BY <2>3 DEF FindExisting
      <3>3. \A it \in items' : it.id = a => it.cfg = dcache[a]
        BY <3>2
      <3>4. dcache[a] # Absent => [id |-> a, cfg |-> dcache[a]] \in items'
        BY <3>2
      <3>5. (\A it \in items' : it.id # a) => dcache[a] = Absent
        BY <3>4
      <3> QED
        BY <1>1, <2>1, <3>1, <3>3, <3>5 DEF Agrees
    <2>4. CASE LoadItem
      <3>1. PICK i \in items : Store(i.id, i.cfg) /\ items' = items \ {i}
        BY <2>4 DEF LoadItem
      <3>2. wpc = "load" /\ i \in Event /\ \A k, l \in items : k.id = l.id => k = l
        BY <2>4 DEF LoadItem, CacheTypeOK, CacheInv, WatcherInv
      <3>3. i.id \in Actors /\ other' = [other EXCEPT ![i.id] = i.cfg]
        BY <3>1, <3>2 DEF Event, Store
      <3>4. other'[i.id] = i.cfg /\ \A b \in Actors \ {i.id} : other'[b] = other[b]
        BY <3>3 DEF CacheTypeOK, View
      <3>5. ASSUME ~Pending(a), \A it \in items' : it.id # a PROVE other'[a] = dcache'[a]
        <4>1. CASE i.id = a
          BY <1>1, <1>3, <3>1, <3>2, <3>4, <3>5, <4>1 DEF Agrees
        <4>2. CASE i.id # a
          <5>1. \A it \in items : it.id # a
            BY <3>1, <3>5, <4>2
          <5> QED
            BY <1>1, <1>3, <3>2, <3>4, <3>5, <4>2, <5>1 DEF Agrees
        <4> QED
          BY <4>1, <4>2
      <3>6. ~Pending(a) => \A it \in items' : it.id = a => it.cfg = dcache'[a]
        BY <1>1, <1>3, <3>1, <3>2 DEF Agrees
      <3> QED
        BY <2>1, <2>2, <3>5, <3>6 DEF Agrees
    <2>5. CASE Publish \/ WatchStop
      <3>1. UNCHANGED <<other, items>> /\ wpc # "find"
        BY <2>5 DEF Publish, WatchStop
      <3> QED
        BY <1>1, <1>3, <2>1, <2>2, <3>1 DEF Agrees
    <2> QED
      BY <2>3, <2>4, <2>5
  <1>4. \A a \in Actors \ (Local \cup untold') : Agrees(a)'
    BY <1>1, <1>3 DEF ConvergeInv
  <1> QED
    BY <1>1, <1>2, <1>4, Zenon DEF ConvergeInv, OfferInv

(* Every step keeps the agreement of the cache, the channel and the view.  *)
LEMMA ConvergeInvInductive ==
    ASSUME CacheTypeOK, CacheInv, ConvergeInv, [CacheNext]_cacheVars PROVE ConvergeInv'
  <1>1. CASE UNCHANGED <<discVars, watchVars>>
    <2>1. UNCHANGED <<dcache, dch, handling, untold, other, wpc, items>>
      BY <1>1 DEF discVars, watchVars
    <2>2. OfferInv'
      BY <2>1, Zenon DEF ConvergeInv, OfferInv
    <2> QED
      BY <2>1, <2>2, IdleConverges
  <1>2. ASSUME NEW r \in Readers, Reader(r) PROVE UNCHANGED <<discVars, watchVars>>
    BY <1>2 DEF Reader, ReaderStep, LoadVersion, FastPath, SlowPath, Acquire, RecheckVersion,
                VisitEntry, StoreSnapshot, AnswerLookup
  <1> QED
    BY <1>1, <1>2, DiscoveryConverges, ReceiveEventConverges, LoadConverges
    DEF CacheNext, Watcher, cacheVars

(* Once the watcher has drained the channel its view of another process's  *)
(* actor is the discovery cache's, although events, reloads, registrations *)
(* and the initial load overlap, unless the cached entry changed without a *)
(* notification that came through (RoutesConverge; zactor/group.go         *)
(* watchActor).                                                            *)
THEOREM RoutesDoConverge == CacheSpec => []RoutesConverge
  <1>1. CacheInit => ConvergeInv
    <2> SUFFICES ASSUME CacheInit PROVE ConvergeInv
      OBVIOUS
    <2>1. dch = <<>> /\ wpc = "find" /\ items = {} /\ other = NoView /\ handling = {}
      BY DEF CacheInit
    <2>2. Len(dch) = 0
      BY <2>1, EmptySeq
    <2>3. \A a \in Actors : Agrees(a)
      BY <2>1, <2>2 DEF Agrees
    <2> QED
      BY <2>1, <2>3 DEF ConvergeInv, OfferInv
  <1>2. CacheTypeOK /\ CacheInv /\ ConvergeInv /\ [CacheNext]_cacheVars => ConvergeInv'
    BY ConvergeInvInductive
  <1>3. ConvergeInv => RoutesConverge
    <2> SUFFICES ASSUME ConvergeInv, wpc = "recv", dch = <<>>,
                        NEW a \in Actors \ (Local \cup untold)
                 PROVE  other[a] = dcache[a]
      BY Zenon DEF RoutesConverge
    <2>1. Agrees(a)
      BY Zenon DEF ConvergeInv
    <2>2. items = {} /\ Len(dch) = 0
      BY EmptySeq DEF ConvergeInv
    <2>3. ~Pending(a)
      BY <2>2 DEF Pending
    <2> QED
      BY <2>1, <2>2, <2>3 DEF Agrees
  <1> QED
    BY <1>1, <1>2, <1>3, CacheAlways, CacheTypeCorrect, PTL DEF CacheSpec

-----------------------------------------------------------------------------
(* Gate *)

-----------------------------------------------------------------------------
(* The inductive invariant *)

ReadStates == {"new", "refused", "count", "flush", "time", "key", "done"}
FateStates == {"none", "queued", "gone", "routing", "gate", "actor"}
ReplyStates == {"none", "send", "count", "flush", "check", "load", "recheck", "rtt", "done",
                "unsent"}

FlowTypes ==
    /\ read \in [Reqs -> ReadStates]
    /\ fate \in [Reqs -> FateStates]
    /\ reply \in [Reqs -> ReplyStates]
    /\ queue \in Seq(Reqs)

(* A request is in the mailbox once, and nobody answers it before it was     *)
(* handled.                                                                  *)
FlowInv ==
    /\ FlowTypes
    /\ \A i \in 1 .. Len(queue) : fate[queue[i]] = "queued"
    /\ \A i, j \in 1 .. Len(queue) : queue[i] = queue[j] => i = j
    /\ \A r \in Reqs : read[r] = "new" => fate[r] = "none"
    /\ \A r \in Reqs : fate[r] \in {"none", "queued", "routing"} => reply[r] = "none"

(* Who was counted, and who has a batch to add.                              *)
RecvIn == {r \in Reqs : read[r] \in {"flush", "time", "key", "done"}}
RecvFull == {r \in Reqs : read[r] = "flush"}
SentIn == {r \in Reqs : reply[r] \in {"flush", "check", "load", "recheck", "rtt", "done"}}
SentFull == {r \in Reqs : reply[r] = "flush"}

CountTypes ==
    /\ localCount \in [Dirs -> Nat] /\ total \in [Dirs -> Nat]
    /\ closing \in {"no", "addRecv", "sent", "addSent", "server", "done"} /\ flushing \in Nat

CountInv == CountTypes /\ CountsExact

RingTypes ==
    /\ slotTime \in [Slots -> Reqs \cup {None}]
    /\ slotKey \in [Slots -> Reqs \cup {None}]
    /\ start \in [Reqs -> Reqs \cup {None}]
    /\ mixed \subseteq Slots /\ torn \subseteq Reqs

(* The time and the key of a slot belong together unless Records overlapped  *)
(* or one is under way.                                                      *)
SlotInv ==
    /\ \A i \in Slots : slotKey[i] # None => read[slotKey[i]] = "done"
    /\ \A i \in Slots \ mixed :
          /\ Recording(i) = {} => slotTime[i] = slotKey[i]
          /\ \A q \in Recording(i) : Recording(i) = {q} /\ slotTime[i] = q

(* A request that finds its key was recorded, and is never recorded again:   *)
(* a time that was not its own means that its key is gone for good.          *)
CompleteInv ==
    /\ \A r \in Reqs : reply[r] \in {"load", "recheck", "rtt"} => read[r] = "done"
    /\ \A r \in Reqs : reply[r] = "recheck" =>
          start[r] = r \/ r \in torn \/ slotKey[SlotOf(r)] # r
    /\ RttOwn

RingInv == RingTypes /\ SlotInv /\ CompleteInv

Candidates == UNION {ToSet(v) : v \in Views}
RouteRecords == [view : Views \cup {<<>>}, pick : Int, tried : Seq(Candidates),
                 encodes : BOOLEAN]

(* The candidates tried so far are the first ones of the order of attempts.  *)
Attempts(t, v, p) ==
    /\ v \in Views
    /\ Len(t) <= Len(v)
    /\ \A i \in 1 .. Len(t) : t[i] = Target(v, p, i - 1)
RouteInv ==
    /\ route \in [Reqs -> RouteRecords]
    /\ \A r \in Reqs : fate[r] = "routing" =>
          Attempts(route[r].tried, route[r].view, route[r].pick)

GateInv == FlowInv /\ CountInv /\ RingInv /\ RouteInv

-----------------------------------------------------------------------------
(* The flow of requests *)

(* What one step does to the states of requests: a reader goes on, a sender  *)
(* goes on, or the gate decides.                                             *)
ReaderMoves(r) ==
    /\ read[r] \notin {"new", "refused", "done"}
    /\ \E x \in {"flush", "time", "key", "done"} : read' = [read EXCEPT ![r] = x]
    /\ UNCHANGED <<queue, fate, reply>>
SenderMoves(r) ==
    /\ fate[r] = "actor" \/ reply[r] \notin {"none", "unsent", "done"}
    /\ \E x \in ReplyStates \ {"none"} : reply' = [reply EXCEPT ![r] = x]
    /\ UNCHANGED <<queue, fate, read>>
(* A request that is being handled is decided, and answered or not.          *)
Decided(r) ==
    /\ fate[r] \in {"queued", "routing"}
    /\ \E x \in {"gone", "routing", "gate", "actor"} :
          /\ fate' = [fate EXCEPT ![r] = x]
          /\ \/ UNCHANGED reply
             \/ x = "gate" /\ \E a \in {"send", "unsent"} : reply' = [reply EXCEPT ![r] = a]
    /\ UNCHANGED read

(* Reading and recording.                                                    *)
LEMMA ReaderMovesFlow ==
    ASSUME FlowInv, NEW r \in Reqs, ReaderMoves(r) PROVE FlowInv'
  <1>1. FlowTypes'
    BY DEF FlowInv, FlowTypes, ReaderMoves, ReadStates
  <1> QED
    BY <1>1 DEF FlowInv, FlowTypes, ReaderMoves

(* Sending and measuring.                                                    *)
LEMMA SenderMovesFlow ==
    ASSUME FlowInv, NEW r \in Reqs, SenderMoves(r) PROVE FlowInv'
  <1>1. FlowTypes'
    BY DEF FlowInv, FlowTypes, SenderMoves
  <1>2. fate[r] \notin {"none", "queued", "routing"}
    BY DEF FlowInv, SenderMoves
  <1>3. \A q \in Reqs \ {r} : reply'[q] = reply[q]
    BY DEF FlowInv, FlowTypes, SenderMoves
  <1> QED
    BY <1>1, <1>2, <1>3 DEF FlowInv, SenderMoves

(* The gate decides about a request that is not in the mailbox any more.     *)
LEMMA DecidedFlow ==
    ASSUME FlowInv, NEW r \in Reqs, Decided(r), queue' \in Seq(Reqs),
           \A i \in 1 .. Len(queue') : queue'[i] # r /\ fate[queue'[i]] = "queued",
           \A i, j \in 1 .. Len(queue') : queue'[i] = queue'[j] => i = j
    PROVE  FlowInv'
  <1>1. PICK x \in {"gone", "routing", "gate", "actor"} :
           /\ fate' = [fate EXCEPT ![r] = x]
           /\ \/ UNCHANGED reply
              \/ x = "gate" /\ \E a \in {"send", "unsent"} : reply' = [reply EXCEPT ![r] = a]
    BY DEF Decided
  <1>2. /\ fate' \in [Reqs -> FateStates] /\ fate'[r] = x
        /\ \A q \in Reqs \ {r} : fate'[q] = fate[q]
    BY <1>1 DEF FlowInv, FlowTypes, FateStates
  <1>3. /\ reply' \in [Reqs -> ReplyStates]
        /\ \A q \in Reqs \ {r} : reply'[q] = reply[q]
        /\ x # "gate" => reply'[r] = reply[r]
    BY <1>1 DEF FlowInv, FlowTypes, ReplyStates
  <1>4. FlowTypes'
    BY <1>2, <1>3 DEF FlowInv, FlowTypes, Decided
  <1>5. \A i \in 1 .. Len(queue') : queue'[i] \in Reqs
    BY ElementOfSeq
  <1>6. \A i \in 1 .. Len(queue') : fate'[queue'[i]] = "queued"
    BY <1>2, <1>5
  <1>7. \A q \in Reqs : read'[q] = "new" => fate'[q] = "none"
    BY <1>2 DEF FlowInv, Decided
  <1>8. \A q \in Reqs : fate'[q] \in {"none", "queued", "routing"} => reply'[q] = "none"
    BY <1>2, <1>3 DEF FlowInv, Decided
  <1> QED
    BY <1>4, <1>6, <1>7, <1>8 DEF FlowInv

(* A request is read: it is refused, or comes last in the mailbox.           *)
LEMMA OnReadFlow == ASSUME FlowInv, NEW r \in Reqs, OnRead(r) PROVE FlowInv'
  <1>1. read[r] = "new" /\ fate[r] = "none" /\ reply' = reply /\ reply[r] = "none"
    BY DEF OnRead, FlowInv
  <1>2. CASE read' = [read EXCEPT ![r] = "refused"] /\ UNCHANGED <<queue, fate>>
    <2>1. FlowTypes'
      BY <1>1, <1>2 DEF FlowInv, FlowTypes, ReadStates
    <2> QED
      BY <1>1, <1>2, <2>1 DEF FlowInv, FlowTypes
  <1>3. CASE /\ read' = [read EXCEPT ![r] = "count"] /\ queue' = Append(queue, r)
             /\ fate' = [fate EXCEPT ![r] = "queued"]
    <2>1. /\ queue \in Seq(Reqs) /\ queue' \in Seq(Reqs) /\ Len(queue) \in Nat
          /\ Len(queue') = Len(queue) + 1 /\ queue'[Len(queue) + 1] = r
          /\ \A i \in 1 .. Len(queue) : queue'[i] = queue[i] /\ queue[i] \in Reqs
      BY <1>3, AppendProperties, LenProperties, ElementOfSeq DEF FlowInv, FlowTypes
    <2>2. \A i \in 1 .. Len(queue) : queue[i] # r
      BY <1>1 DEF FlowInv
    <2>3. \A i \in 1 .. Len(queue') : i \in 1 .. Len(queue) \/ i = Len(queue) + 1
      BY <2>1
    <2>4. /\ fate'[r] = "queued" /\ \A q \in Reqs \ {r} : fate'[q] = fate[q]
          /\ read'[r] = "count" /\ \A q \in Reqs \ {r} : read'[q] = read[q]
      BY <1>3 DEF FlowInv, FlowTypes
    <2>5. FlowTypes'
      BY <1>1, <1>3, <2>1 DEF FlowInv, FlowTypes, ReadStates, FateStates
    <2>6. \A i \in 1 .. Len(queue') : fate'[queue'[i]] = "queued"
      BY <2>1, <2>2, <2>3, <2>4 DEF FlowInv
    <2>7. ASSUME NEW i \in 1 .. Len(queue'), NEW j \in 1 .. Len(queue'), queue'[i] = queue'[j]
          PROVE  i = j
      <3>1. CASE i \in 1 .. Len(queue) /\ j \in 1 .. Len(queue)
        BY <2>1, <2>7, <3>1 DEF FlowInv
      <3>2. CASE i = Len(queue) + 1 /\ j \in 1 .. Len(queue)
        BY <2>1, <2>2, <2>7, <3>2
      <3>3. CASE i \in 1 .. Len(queue) /\ j = Len(queue) + 1
        BY <2>1, <2>2, <2>7, <3>3
      <3> QED
        BY <2>3, <3>1, <3>2, <3>3
    <2>8. /\ \A q \in Reqs : read'[q] = "new" => fate'[q] = "none"
          /\ \A q \in Reqs : fate'[q] \in {"none", "queued", "routing"} => reply'[q] = "none"
      BY <1>1, <2>4 DEF FlowInv
    <2> QED
      BY <2>5, <2>6, <2>7, <2>8 DEF FlowInv
  <1> QED
    BY <1>2, <1>3 DEF OnRead

(* The mailbox without its head, which is the request that is handled.       *)
LEMMA HandleDecides ==
    ASSUME FlowInv, HandleClientMessage
    PROVE  /\ Head(queue) \in Reqs /\ Decided(Head(queue)) /\ fate[Head(queue)] = "queued"
           /\ queue' \in Seq(Reqs)
           /\ \A i \in 1 .. Len(queue') : queue'[i] # Head(queue) /\ fate[queue'[i]] = "queued"
           /\ \A i, j \in 1 .. Len(queue') : queue'[i] = queue'[j] => i = j
  <1> DEFINE r == Head(queue)
  <1>1. queue \in Seq(Reqs) /\ queue # <<>> /\ queue' = Tail(queue) /\ UNCHANGED read
    BY DEF FlowInv, FlowTypes, HandleClientMessage
  <1>2. /\ r \in Reqs /\ Tail(queue) \in Seq(Reqs) /\ Len(Tail(queue)) = Len(queue) - 1
        /\ \A i \in 1 .. Len(Tail(queue)) : Tail(queue)[i] = queue[i + 1]
    BY <1>1, HeadTailProperties
  <1>3. r = queue[1] /\ Len(queue) \in Nat \ {0}
    BY <1>1, LenProperties, EmptySeq
  <1>4. \A i \in 1 .. Len(queue') : i + 1 \in 1 .. Len(queue) /\ queue'[i] = queue[i + 1]
    BY <1>1, <1>2, <1>3
  <1>5. 1 \in 1 .. Len(queue) /\ fate[r] = "queued"
    BY <1>3 DEF FlowInv
  <1>6. \A i \in 1 .. Len(queue') : queue'[i] # r /\ fate[queue'[i]] = "queued"
    BY <1>3, <1>4, <1>5 DEF FlowInv
  <1>7. ASSUME NEW i \in 1 .. Len(queue'), NEW j \in 1 .. Len(queue'), queue'[i] = queue'[j]
        PROVE  i = j
    <2>1. i + 1 = j + 1
      BY <1>4, <1>7 DEF FlowInv
    <2> QED
      BY <2>1
  <1>8. Decided(r)
    <2>1. CASE conn[Session(r)] = "open"
      <3>1. GateHandler(r)
        BY <2>1 DEF HandleClientMessage
      <3> HIDE DEF r
      <3> QED
        BY <1>1, <1>5, <3>1 DEF GateHandler, MayAnswer, SendNoRouteError, StartRemote, Decided
    <2>2. CASE conn[Session(r)] # "open"
      BY <1>1, <1>5, <2>2 DEF HandleClientMessage, Decided
    <2> QED
      BY <2>1, <2>2
  <1> QED
    BY <1>1, <1>2, <1>5, <1>6, <1>7, <1>8

(* An attempt at a remote actor, or the end of them.                         *)
LEMMA RemoteDecides ==
    ASSUME FlowInv, NEW r \in Reqs, TryRemote(r) \/ Exhausted(r)
    PROVE  (Decided(r) \/ UNCHANGED <<fate, reply, read>>) /\ UNCHANGED queue
  BY DEF TryRemote, Exhausted, SendNoRouteError, MayAnswer, Decided

(* The steps of readers and senders.                                         *)
LEMMA Movers ==
    ASSUME FlowInv, NEW r \in Reqs
    PROVE  /\ CountRecv(r) \/ FlushRecv(r) \/ RecordTime(r) \/ RecordKey(r) => ReaderMoves(r)
           /\ \/ Answer(r) \/ SendClient(r) \/ CountSent(r) \/ FlushSent(r)
              \/ CheckKey(r) \/ LoadTime(r) \/ Recheck(r) \/ RecordRTT(r)
              => SenderMoves(r)
  <1>1. AfterCountRecv(r) \in {"time", "done"} /\ AfterCountSent(r) \in {"check", "done"}
    BY DEF AfterCountRecv, AfterCountSent
  <1>2. CountRecv(r) \/ FlushRecv(r) \/ RecordTime(r) \/ RecordKey(r) => ReaderMoves(r)
    BY <1>1 DEF CountRecv, FlushRecv, RecordTime, RecordKey, ReaderMoves, routeVars
  <1>3. Answer(r) \/ SendClient(r) \/ CountSent(r) \/ FlushSent(r) => SenderMoves(r)
    BY <1>1 DEF Answer, SendClient, CountSent, FlushSent, SenderMoves, ReplyStates, routeVars
  <1>4. CheckKey(r) \/ LoadTime(r) \/ Recheck(r) \/ RecordRTT(r) => SenderMoves(r)
    BY DEF CheckKey, LoadTime, Recheck, RecordRTT, SenderMoves, ReplyStates, routeVars
  <1> QED
    BY <1>2, <1>3, <1>4

(* Sessions and Close do not touch requests.                                 *)
LEMMA OthersFlow ==
    ASSUME \/ \E s \in Sessions : OnAccept(s) \/ ChannelClose(s)
           \/ Close \/ UNCHANGED vars
    PROVE  UNCHANGED <<read, queue, fate, route, reply, ringVars, start, torn>>
  BY DEF OnAccept, ChannelClose, Close, SwapCount, AddLeftover, CloseServer, vars, routeVars,
         ringVars

(* Every step of the gate keeps the flow of requests.                        *)
LEMMA FlowStep == ASSUME FlowInv, [Next]_vars PROVE FlowInv'
  <1>1. ASSUME NEW r \in Reqs, ReaderMoves(r) \/ SenderMoves(r) \/ OnRead(r) PROVE FlowInv'
    BY <1>1, ReaderMovesFlow, SenderMovesFlow, OnReadFlow
  <1>2. CASE UNCHANGED <<read, queue, fate, reply>>
    BY <1>2 DEF FlowInv, FlowTypes
  <1>3. ASSUME NEW r \in Reqs, TryRemote(r) \/ Exhausted(r) PROVE FlowInv'
    <2>1. CASE UNCHANGED <<fate, reply, read>>
      BY <1>2, <1>3, <2>1, RemoteDecides
    <2>2. CASE Decided(r)
      <3>1. queue' = queue /\ fate[r] = "routing"
        BY <1>3, RemoteDecides DEF TryRemote, Exhausted
      <3>2. \A i \in 1 .. Len(queue') : queue'[i] # r /\ fate[queue'[i]] = "queued"
        BY <3>1 DEF FlowInv
      <3>3. queue' \in Seq(Reqs) /\ \A i, j \in 1 .. Len(queue') : queue'[i] = queue'[j] => i = j
        BY <3>1 DEF FlowInv, FlowTypes
      <3> QED
        BY <2>2, <3>2, <3>3, DecidedFlow
    <2> QED
      BY <1>3, <2>1, <2>2, RemoteDecides
  <1>4. CASE HandleClientMessage
    BY <1>4, HandleDecides, DecidedFlow
  <1> QED
    BY <1>1, <1>2, <1>3, <1>4, Movers, OthersFlow DEF Next

-----------------------------------------------------------------------------
(* The counters *)

(* Division with remainder.                                                  *)
LEMMA DivMod ==
    ASSUME NEW x \in Nat, NEW n \in Nat \ {0}
    PROVE  /\ x % n \in 0 .. n - 1 /\ x \div n \in Nat
           /\ x = (n * (x \div n)) + (x % n)
  OBVIOUS

(* The remainder is the one there is.                                        *)
LEMMA ModOf ==
    ASSUME NEW n \in Nat \ {0}, NEW q \in Nat, NEW r \in 0 .. n - 1
    PROVE  (n * q + r) % n = r
  OBVIOUS

(* Add(1) fills the batch, or the current batch has one more.                *)
LEMMA ModNext ==
    ASSUME NEW x \in Nat, NEW n \in Nat \ {0}
    PROVE  (x + 1) % n = IF (x % n) + 1 = n THEN 0 ELSE (x % n) + 1
  <1> DEFINE q == x \div n
             r == x % n
  <1>1. r \in 0 .. n - 1 /\ q \in Nat /\ x = n * q + r
    BY DivMod
  <1> HIDE DEF q, r
  <1>2. CASE r + 1 = n
    <2>1. x + 1 = n * (q + 1) + 0
      BY <1>1, <1>2
    <2>2. (n * (q + 1) + 0) % n = 0
      BY <1>1, ModOf
    <2> QED
      BY <1>2, <2>1, <2>2 DEF r
  <1>3. CASE r + 1 # n
    <2>1. x + 1 = n * q + (r + 1) /\ r + 1 \in 0 .. n - 1
      BY <1>1, <1>3
    <2>2. (n * q + (r + 1)) % n = r + 1
      BY <1>1, <2>1, ModOf
    <2> QED
      BY <1>3, <2>1, <2>2 DEF r
  <1> QED
    BY <1>2, <1>3

(* One direction: the messages counted are in the total, in full batches     *)
(* about to be added, in the current batch, or held by Close.                *)
Balanced(in, full, tot, loc, held) ==
    Cardinality(in) = tot + Batch * Cardinality(full) + (loc % Batch) + held

HeldRecv == IF closing = "addRecv" THEN flushing % Batch ELSE 0
HeldSent == IF closing = "addSent" THEN flushing % Batch ELSE 0

(* The two directions of CountsExact.                                        *)
LEMMA TwoDirections ==
    CountsExact <=> /\ Balanced(RecvIn, RecvFull, total["recv"], localCount["recv"], HeldRecv)
                    /\ Balanced(SentIn, SentFull, total["sent"], localCount["sent"], HeldSent)
  BY DEF CountsExact, Balanced, RecvIn, RecvFull, SentIn, SentFull, HeldRecv, HeldSent

(* A message is counted, and adds its batch when that is full.               *)
LEMMA CountOne ==
    ASSUME NEW in \in SUBSET Reqs, NEW full \in SUBSET in, NEW tot \in Nat, NEW loc \in Nat,
           NEW held \in Nat, Balanced(in, full, tot, loc, held), NEW r \in Reqs \ in
    PROVE  /\ (loc + 1) % Batch = 0 => Balanced(in \cup {r}, full \cup {r}, tot, loc + 1, held)
           /\ (loc + 1) % Batch # 0 => Balanced(in \cup {r}, full, tot, loc + 1, held)
  <1> DEFINE c == Cardinality(in)
             f == Cardinality(full)
             m == loc % Batch
  <1>1. IsFiniteSet(in) /\ IsFiniteSet(full) /\ r \notin in /\ r \notin full
    BY ReqAssumption, FS_Subset
  <1>2. c \in Nat /\ f \in Nat
    BY <1>1, FS_CardinalityType
  <1>3. Cardinality(in \cup {r}) = c + 1 /\ Cardinality(full \cup {r}) = f + 1
    BY <1>1, FS_AddElement
  <1>4. m \in 0 .. Batch - 1 /\ (loc + 1) % Batch = IF m + 1 = Batch THEN 0 ELSE m + 1
    BY BatchAssumption, DivMod, ModNext
  <1>5. c = tot + Batch * f + m + held
    BY DEF Balanced
  <1>6. Batch * (f + 1) = Batch * f + Batch /\ Batch * f \in Nat
    BY <1>2, BatchAssumption
  <1> HIDE DEF c, f, m
  <1>7. CASE (loc + 1) % Batch = 0
    <2>1. m + 1 = Batch
      BY <1>4, <1>7, BatchAssumption
    <2>2. c + 1 = tot + Batch * (f + 1) + 0 + held
      BY <1>2, <1>4, <1>5, <1>6, <2>1, BatchAssumption
    <2> QED
      BY <1>3, <1>7, <2>2 DEF Balanced
  <1>8. CASE (loc + 1) % Batch # 0
    <2>1. (loc + 1) % Batch = m + 1
      BY <1>4, <1>8
    <2>2. c + 1 = tot + Batch * f + (m + 1) + held
      BY <1>2, <1>4, <1>5, <1>6, BatchAssumption
    <2> QED
      BY <1>3, <1>8, <2>1, <2>2 DEF Balanced, f
  <1> QED
    BY <1>7, <1>8

(* A full batch is added.                                                    *)
LEMMA FlushOne ==
    ASSUME NEW in \in SUBSET Reqs, NEW full \in SUBSET in, NEW tot \in Nat, NEW loc \in Nat,
           NEW held \in Nat, Balanced(in, full, tot, loc, held), NEW r \in full
    PROVE  Balanced(in, full \ {r}, tot + Batch, loc, held)
  <1> DEFINE f == Cardinality(full)
             g == Cardinality(full \ {r})
             m == loc % Batch
  <1>1. IsFiniteSet(full) /\ IsFiniteSet(full \ {r})
    BY ReqAssumption, FS_Subset
  <1>2. f \in Nat /\ g \in Nat /\ g = f - 1
    BY <1>1, FS_CardinalityType, FS_RemoveElement
  <1>3. m \in Nat /\ Cardinality(in) = tot + Batch * f + m + held
    BY BatchAssumption, DivMod DEF Balanced
  <1> HIDE DEF f, g, m
  <1>4. Batch * f = Batch * g + Batch /\ Batch * g \in Nat
    <2>1. f = g + 1
      BY <1>2
    <2> QED
      BY <1>2, <2>1, BatchAssumption
  <1>5. Cardinality(in) = (tot + Batch) + Batch * g + m + held
    BY <1>3, <1>4, BatchAssumption
  <1> QED
    BY <1>5 DEF Balanced, g, m

(* Counters and Close untouched, and nobody counted or done with a batch.    *)
LEMMA CountsApart ==
    ASSUME CountInv, UNCHANGED <<localCount, total, closing, flushing>>,
           RecvIn' = RecvIn, RecvFull' = RecvFull, SentIn' = SentIn, SentFull' = SentFull
    PROVE  CountInv'
  <1>1. CountTypes'
    BY DEF CountInv, CountTypes
  <1>2. CountsExact'
    BY DEF CountInv, CountsExact, RecvIn, RecvFull, SentIn, SentFull
  <1> QED
    BY <1>1, <1>2 DEF CountInv

(* What is held is a number.                                                 *)
LEMMA HeldTypes == ASSUME CountTypes PROVE HeldRecv \in Nat /\ HeldSent \in Nat
  BY BatchAssumption, DivMod DEF CountTypes, HeldRecv, HeldSent

(* A reader counts its request, or adds a batch.                             *)
LEMMA CountRecvStep ==
    ASSUME FlowInv, CountInv, NEW r \in Reqs, CountRecv(r) \/ FlushRecv(r) PROVE CountInv'
  <1>1. /\ read \in [Reqs -> ReadStates] /\ UNCHANGED <<reply, closing, flushing>>
        /\ localCount \in [Dirs -> Nat] /\ total \in [Dirs -> Nat]
    BY DEF FlowInv, FlowTypes, CountInv, CountTypes, CountRecv, FlushRecv, closeVars
  <1>2. /\ SentIn' = SentIn /\ SentFull' = SentFull
        /\ HeldRecv' = HeldRecv /\ HeldSent' = HeldSent
    BY <1>1 DEF SentIn, SentFull, HeldRecv, HeldSent
  <1>3. /\ Balanced(RecvIn, RecvFull, total["recv"], localCount["recv"], HeldRecv)
        /\ Balanced(SentIn, SentFull, total["sent"], localCount["sent"], HeldSent)
    BY TwoDirections DEF CountInv
  <1>4. /\ RecvIn \in SUBSET Reqs /\ RecvFull \in SUBSET RecvIn
        /\ localCount["recv"] \in Nat /\ total["recv"] \in Nat /\ HeldRecv \in Nat
    BY <1>1, HeldTypes DEF RecvIn, RecvFull, Dirs, CountInv
  <1>5. AfterCountRecv(r) \in {"time", "done"}
    BY DEF AfterCountRecv
  <1>6. CASE CountRecv(r)
    <2>1. /\ read[r] = "count" /\ total' = total
          /\ localCount' = [localCount EXCEPT !["recv"] = @ + 1]
          /\ read' = [read EXCEPT ![r] = IF BatchFull("recv") THEN "flush" ELSE AfterCountRecv(r)]
      BY <1>6 DEF CountRecv, Counted
    <2>2. /\ localCount' \in [Dirs -> Nat] /\ localCount'["recv"] = localCount["recv"] + 1
          /\ localCount'["sent"] = localCount["sent"]
      BY <1>1, <2>1 DEF Dirs
    <2>3. r \in Reqs \ RecvIn /\ RecvIn' = RecvIn \cup {r}
      BY <1>1, <1>5, <2>1 DEF RecvIn
    <2>4. RecvFull' = IF BatchFull("recv") THEN RecvFull \cup {r} ELSE RecvFull
      BY <1>1, <1>5, <2>1 DEF RecvFull
    <2>5. Balanced(RecvIn', RecvFull', total["recv"], localCount["recv"] + 1, HeldRecv)
      BY <1>3, <1>4, <2>3, <2>4, CountOne DEF BatchFull
    <2>6. CountsExact'
      BY <1>2, <1>3, <2>1, <2>2, <2>5 DEF CountsExact, Balanced, RecvIn, RecvFull,
            SentIn, SentFull, HeldRecv, HeldSent
    <2> QED
      BY <1>1, <2>1, <2>2, <2>6 DEF CountInv, CountTypes
  <1>7. CASE FlushRecv(r)
    <2>1. /\ read[r] = "flush" /\ localCount' = localCount
          /\ total' = [total EXCEPT !["recv"] = @ + Batch]
          /\ read' = [read EXCEPT ![r] = AfterCountRecv(r)]
      BY <1>7 DEF FlushRecv, AddBatch
    <2>2. /\ total' \in [Dirs -> Nat] /\ total'["recv"] = total["recv"] + Batch
          /\ total'["sent"] = total["sent"]
      BY <1>1, <2>1, BatchAssumption DEF Dirs
    <2>3. r \in RecvFull /\ RecvIn' = RecvIn /\ RecvFull' = RecvFull \ {r}
      BY <1>1, <1>5, <2>1 DEF RecvIn, RecvFull
    <2>4. Balanced(RecvIn, RecvFull \ {r}, total["recv"] + Batch, localCount["recv"], HeldRecv)
      BY <1>3, <1>4, <2>3, FlushOne
    <2>5. CountsExact'
      BY <1>2, <1>3, <2>1, <2>2, <2>3, <2>4 DEF CountsExact, Balanced, RecvIn, RecvFull,
            SentIn, SentFull, HeldRecv, HeldSent
    <2> QED
      BY <1>1, <2>1, <2>2, <2>5 DEF CountInv, CountTypes
  <1> QED
    BY <1>6, <1>7

(* A sender counts its response, or adds a batch.                            *)
LEMMA CountSentStep ==
    ASSUME FlowInv, CountInv, NEW r \in Reqs, CountSent(r) \/ FlushSent(r) PROVE CountInv'
  <1>1. /\ reply \in [Reqs -> ReplyStates] /\ UNCHANGED <<read, closing, flushing>>
        /\ localCount \in [Dirs -> Nat] /\ total \in [Dirs -> Nat]
    BY DEF FlowInv, FlowTypes, CountInv, CountTypes, CountSent, FlushSent, closeVars
  <1>2. /\ RecvIn' = RecvIn /\ RecvFull' = RecvFull
        /\ HeldRecv' = HeldRecv /\ HeldSent' = HeldSent
    BY <1>1 DEF RecvIn, RecvFull, HeldRecv, HeldSent
  <1>3. /\ Balanced(RecvIn, RecvFull, total["recv"], localCount["recv"], HeldRecv)
        /\ Balanced(SentIn, SentFull, total["sent"], localCount["sent"], HeldSent)
    BY TwoDirections DEF CountInv
  <1>4. /\ SentIn \in SUBSET Reqs /\ SentFull \in SUBSET SentIn
        /\ localCount["sent"] \in Nat /\ total["sent"] \in Nat /\ HeldSent \in Nat
    BY <1>1, HeldTypes DEF SentIn, SentFull, Dirs, CountInv
  <1>5. AfterCountSent(r) \in {"check", "done"}
    BY DEF AfterCountSent
  <1>6. CASE CountSent(r)
    <2>1. /\ reply[r] = "count" /\ total' = total
          /\ localCount' = [localCount EXCEPT !["sent"] = @ + 1]
          /\ reply' = [reply EXCEPT ![r] = IF BatchFull("sent") THEN "flush" ELSE AfterCountSent(r)]
      BY <1>6 DEF CountSent, Counted
    <2>2. /\ localCount' \in [Dirs -> Nat] /\ localCount'["sent"] = localCount["sent"] + 1
          /\ localCount'["recv"] = localCount["recv"]
      BY <1>1, <2>1 DEF Dirs
    <2>3. r \in Reqs \ SentIn /\ SentIn' = SentIn \cup {r}
      BY <1>1, <1>5, <2>1 DEF SentIn
    <2>4. SentFull' = IF BatchFull("sent") THEN SentFull \cup {r} ELSE SentFull
      BY <1>1, <1>5, <2>1 DEF SentFull
    <2>5. Balanced(SentIn', SentFull', total["sent"], localCount["sent"] + 1, HeldSent)
      BY <1>3, <1>4, <2>3, <2>4, CountOne DEF BatchFull
    <2>6. CountsExact'
      BY <1>2, <1>3, <2>1, <2>2, <2>5 DEF CountsExact, Balanced, RecvIn, RecvFull,
            SentIn, SentFull, HeldRecv, HeldSent
    <2> QED
      BY <1>1, <2>1, <2>2, <2>6 DEF CountInv, CountTypes
  <1>7. CASE FlushSent(r)
    <2>1. /\ reply[r] = "flush" /\ localCount' = localCount
          /\ total' = [total EXCEPT !["sent"] = @ + Batch]
          /\ reply' = [reply EXCEPT ![r] = AfterCountSent(r)]
      BY <1>7 DEF FlushSent, AddBatch
    <2>2. /\ total' \in [Dirs -> Nat] /\ total'["sent"] = total["sent"] + Batch
          /\ total'["recv"] = total["recv"]
      BY <1>1, <2>1, BatchAssumption DEF Dirs
    <2>3. r \in SentFull /\ SentIn' = SentIn /\ SentFull' = SentFull \ {r}
      BY <1>1, <1>5, <2>1 DEF SentIn, SentFull
    <2>4. Balanced(SentIn, SentFull \ {r}, total["sent"] + Batch, localCount["sent"], HeldSent)
      BY <1>3, <1>4, <2>3, FlushOne
    <2>5. CountsExact'
      BY <1>2, <1>3, <2>1, <2>2, <2>3, <2>4 DEF CountsExact, Balanced, RecvIn, RecvFull,
            SentIn, SentFull, HeldRecv, HeldSent
    <2> QED
      BY <1>1, <2>1, <2>2, <2>5 DEF CountInv, CountTypes
  <1> QED
    BY <1>6, <1>7

(* Close takes what a counter holds, and adds what was left of the batch.    *)
LEMMA CloseCounts == ASSUME CountInv, Close PROVE CountInv'
  <1> USE DEF CountInv
  <1>1. /\ localCount \in [Dirs -> Nat] /\ total \in [Dirs -> Nat] /\ flushing \in Nat
        /\ UNCHANGED <<read, reply>>
    BY DEF CountTypes, Close, SwapCount, AddLeftover, CloseServer
  <1>2. RecvIn' = RecvIn /\ RecvFull' = RecvFull /\ SentIn' = SentIn /\ SentFull' = SentFull
    BY <1>1 DEF RecvIn, RecvFull, SentIn, SentFull
  <1>3. /\ Balanced(RecvIn, RecvFull, total["recv"], localCount["recv"], HeldRecv)
        /\ Balanced(SentIn, SentFull, total["sent"], localCount["sent"], HeldSent)
    BY TwoDirections
  <1>4. /\ localCount["recv"] \in Nat /\ localCount["sent"] \in Nat
        /\ total["recv"] \in Nat /\ total["sent"] \in Nat
    BY <1>1 DEF Dirs
  <1>5. \A n \in Nat : n % Batch \in Nat
    BY BatchAssumption, DivMod
  <1>6. 0 % Batch = 0
    BY BatchAssumption
  <1>7. IsFiniteSet(RecvFull) /\ IsFiniteSet(SentFull)
    BY ReqAssumption, FS_Subset DEF RecvFull, SentFull
  <1>8. Batch * Cardinality(RecvFull) \in Nat /\ Batch * Cardinality(SentFull) \in Nat
    BY <1>7, FS_CardinalityType, BatchAssumption
  <1>9. ASSUME CountTypes',
               Balanced(RecvIn, RecvFull, total'["recv"], localCount'["recv"], HeldRecv'),
               Balanced(SentIn, SentFull, total'["sent"], localCount'["sent"], HeldSent')
        PROVE  CountInv'
    BY <1>2, <1>9 DEF CountsExact, Balanced, RecvIn, RecvFull, SentIn, SentFull,
            HeldRecv, HeldSent
  <1>10. CASE SwapCount("recv", "no", "addRecv")
    <2>1. /\ closing = "no" /\ closing' = "addRecv" /\ flushing' = localCount["recv"]
          /\ localCount' = [localCount EXCEPT !["recv"] = 0] /\ total' = total
      BY <1>10 DEF SwapCount
    <2>2. CountTypes' /\ localCount'["recv"] = 0 /\ localCount'["sent"] = localCount["sent"]
      BY <1>1, <1>4, <2>1 DEF CountTypes, Dirs
    <2>3. /\ HeldRecv = 0 /\ HeldRecv' = localCount["recv"] % Batch
          /\ HeldSent = 0 /\ HeldSent' = 0
      BY <2>1 DEF HeldRecv, HeldSent
    <2>4. Balanced(RecvIn, RecvFull, total'["recv"], localCount'["recv"], HeldRecv')
      BY <1>3, <1>4, <1>5, <1>6, <1>8, <2>1, <2>2, <2>3 DEF Balanced
    <2> QED
      BY <1>3, <1>9, <2>1, <2>2, <2>3, <2>4
  <1>11. CASE AddLeftover("recv", "addRecv", "sent")
    <2>1. /\ closing = "addRecv" /\ closing' = "sent" /\ flushing' = 0
          /\ localCount' = localCount /\ total' = [total EXCEPT !["recv"] = @ + (flushing % Batch)]
      BY <1>11 DEF AddLeftover, Leftover
    <2>2. /\ CountTypes' /\ total'["recv"] = total["recv"] + (flushing % Batch)
          /\ total'["sent"] = total["sent"]
      BY <1>1, <1>4, <1>5, <2>1 DEF CountTypes, Dirs
    <2>3. HeldRecv = flushing % Batch /\ HeldRecv' = 0 /\ HeldSent = 0 /\ HeldSent' = 0
      BY <2>1 DEF HeldRecv, HeldSent
    <2>4. Balanced(RecvIn, RecvFull, total'["recv"], localCount'["recv"], HeldRecv')
      BY <1>1, <1>3, <1>4, <1>5, <1>8, <2>1, <2>2, <2>3 DEF Balanced
    <2> QED
      BY <1>3, <1>9, <2>1, <2>2, <2>3, <2>4
  <1>12. CASE SwapCount("sent", "sent", "addSent")
    <2>1. /\ closing = "sent" /\ closing' = "addSent" /\ flushing' = localCount["sent"]
          /\ localCount' = [localCount EXCEPT !["sent"] = 0] /\ total' = total
      BY <1>12 DEF SwapCount
    <2>2. CountTypes' /\ localCount'["sent"] = 0 /\ localCount'["recv"] = localCount["recv"]
      BY <1>1, <1>4, <2>1 DEF CountTypes, Dirs
    <2>3. /\ HeldSent = 0 /\ HeldSent' = localCount["sent"] % Batch
          /\ HeldRecv = 0 /\ HeldRecv' = 0
      BY <2>1 DEF HeldRecv, HeldSent
    <2>4. Balanced(SentIn, SentFull, total'["sent"], localCount'["sent"], HeldSent')
      BY <1>3, <1>4, <1>5, <1>6, <1>8, <2>1, <2>2, <2>3 DEF Balanced
    <2> QED
      BY <1>3, <1>9, <2>1, <2>2, <2>3, <2>4
  <1>13. CASE AddLeftover("sent", "addSent", "server")
    <2>1. /\ closing = "addSent" /\ closing' = "server" /\ flushing' = 0
          /\ localCount' = localCount /\ total' = [total EXCEPT !["sent"] = @ + (flushing % Batch)]
      BY <1>13 DEF AddLeftover, Leftover
    <2>2. /\ CountTypes' /\ total'["sent"] = total["sent"] + (flushing % Batch)
          /\ total'["recv"] = total["recv"]
      BY <1>1, <1>4, <1>5, <2>1 DEF CountTypes, Dirs
    <2>3. HeldSent = flushing % Batch /\ HeldSent' = 0 /\ HeldRecv = 0 /\ HeldRecv' = 0
      BY <2>1 DEF HeldRecv, HeldSent
    <2>4. Balanced(SentIn, SentFull, total'["sent"], localCount'["sent"], HeldSent')
      BY <1>1, <1>3, <1>4, <1>5, <1>8, <2>1, <2>2, <2>3 DEF Balanced
    <2> QED
      BY <1>3, <1>9, <2>1, <2>2, <2>3, <2>4
  <1>14. CASE CloseServer
    <2>1. /\ closing = "server" /\ closing' = "done"
          /\ UNCHANGED <<localCount, total, flushing>>
      BY <1>14 DEF CloseServer, countVars
    <2>2. CountTypes' /\ HeldSent' = HeldSent /\ HeldRecv' = HeldRecv
      BY <2>1 DEF CountTypes, HeldRecv, HeldSent
    <2> QED
      BY <1>3, <1>9, <2>1, <2>2
  <1> QED
    BY <1>10, <1>11, <1>12, <1>13, <1>14 DEF Close

(* Every step of the gate keeps the books.                                   *)
LEMMA CountStep == ASSUME FlowInv, CountInv, [Next]_vars PROVE CountInv'
  <1> USE DEF FlowInv, FlowTypes
  <1>1. ASSUME NEW r \in Reqs, OnRead(r) PROVE CountInv'
    <2>1. /\ UNCHANGED <<reply, localCount, total, closing, flushing>>
          /\ read[r] = "new" /\ \E x \in {"refused", "count"} : read' = [read EXCEPT ![r] = x]
      BY <1>1 DEF OnRead, countVars, closeVars
    <2>2. RecvIn' = RecvIn /\ RecvFull' = RecvFull /\ SentIn' = SentIn /\ SentFull' = SentFull
      BY <2>1 DEF RecvIn, RecvFull, SentIn, SentFull
    <2> QED
      BY <2>1, <2>2, CountsApart
  <1>2. ASSUME NEW r \in Reqs, RecordTime(r) \/ RecordKey(r) PROVE CountInv'
    <2>1. /\ UNCHANGED <<reply, localCount, total, closing, flushing>>
          /\ read[r] \in {"time", "key"}
          /\ \E x \in {"key", "done"} : read' = [read EXCEPT ![r] = x]
      BY <1>2 DEF RecordTime, RecordKey, countVars, closeVars
    <2>2. RecvIn' = RecvIn /\ RecvFull' = RecvFull /\ SentIn' = SentIn /\ SentFull' = SentFull
      BY <2>1 DEF RecvIn, RecvFull, SentIn, SentFull
    <2> QED
      BY <2>1, <2>2, CountsApart
  <1>3. ASSUME NEW r \in Reqs, Answer(r) \/ SendClient(r) PROVE CountInv'
    <2>1. /\ UNCHANGED <<read, localCount, total, closing, flushing>>
          /\ reply[r] \in {"none", "send"}
          /\ \E x \in {"send", "count", "unsent"} : reply' = [reply EXCEPT ![r] = x]
      BY <1>3 DEF Answer, SendClient, countVars, closeVars
    <2>2. RecvIn' = RecvIn /\ RecvFull' = RecvFull /\ SentIn' = SentIn /\ SentFull' = SentFull
      BY <2>1 DEF RecvIn, RecvFull, SentIn, SentFull
    <2> QED
      BY <2>1, <2>2, CountsApart
  <1>4. ASSUME NEW r \in Reqs, CheckKey(r) \/ LoadTime(r) \/ Recheck(r) \/ RecordRTT(r)
        PROVE  CountInv'
    <2>1. /\ UNCHANGED <<read, localCount, total, closing, flushing>>
          /\ reply[r] \in {"check", "load", "recheck", "rtt"}
          /\ \E x \in {"load", "recheck", "rtt", "done"} : reply' = [reply EXCEPT ![r] = x]
      BY <1>4 DEF CheckKey, LoadTime, Recheck, RecordRTT, countVars, closeVars
    <2>2. RecvIn' = RecvIn /\ RecvFull' = RecvFull /\ SentIn' = SentIn /\ SentFull' = SentFull
      BY <2>1 DEF RecvIn, RecvFull, SentIn, SentFull
    <2> QED
      BY <2>1, <2>2, CountsApart
  <1>5. ASSUME NEW r \in Reqs, Decided(r), UNCHANGED <<localCount, total, closing, flushing>>
        PROVE  CountInv'
    <2>1. /\ UNCHANGED read /\ reply[r] = "none"
          /\ \/ UNCHANGED reply
             \/ \E a \in {"send", "unsent"} : reply' = [reply EXCEPT ![r] = a]
      BY <1>5 DEF Decided
    <2>2. RecvIn' = RecvIn /\ RecvFull' = RecvFull /\ SentIn' = SentIn /\ SentFull' = SentFull
      BY <2>1 DEF RecvIn, RecvFull, SentIn, SentFull
    <2> QED
      BY <1>5, <2>2, CountsApart
  <1>6. CASE UNCHANGED <<read, reply, localCount, total, closing, flushing>>
    <2>1. RecvIn' = RecvIn /\ RecvFull' = RecvFull /\ SentIn' = SentIn /\ SentFull' = SentFull
      BY <1>6 DEF RecvIn, RecvFull, SentIn, SentFull
    <2> QED
      BY <1>6, <2>1, CountsApart
  <1> HIDE DEF FlowInv, FlowTypes
  <1>7. ASSUME NEW r \in Reqs, TryRemote(r) \/ Exhausted(r) PROVE CountInv'
    BY <1>5, <1>6, <1>7, RemoteDecides DEF TryRemote, Exhausted, countVars, closeVars
  <1>8. CASE HandleClientMessage
    BY <1>5, <1>8, HandleDecides DEF HandleClientMessage, countVars, closeVars
  <1>9. ASSUME NEW s \in Sessions, OnAccept(s) \/ ChannelClose(s) PROVE CountInv'
    BY <1>6, <1>9 DEF OnAccept, ChannelClose, countVars, closeVars
  <1>10. CASE UNCHANGED vars
    BY <1>6, <1>10 DEF vars
  <1> QED
    BY <1>1, <1>2, <1>3, <1>4, <1>7, <1>8, <1>9, <1>10, CountRecvStep, CountSentStep, CloseCounts
    DEF Next

-----------------------------------------------------------------------------
(* The tracker *)

(* Every request has its slot.                                               *)
LEMMA SlotType == ASSUME NEW r \in Reqs PROVE SlotOf(r) \in Slots
  BY ReqAssumption, RingAssumption, DivMod DEF SlotOf, SeqId, Slots

(* The tracker is not touched, no Record begins or ends, and no Complete     *)
(* gets further than its first check.                                        *)
LEMMA RingApart ==
    ASSUME RingInv, UNCHANGED <<slotTime, slotKey, start, mixed, torn>>,
           \A q \in Reqs : read'[q] = "key" <=> read[q] = "key",
           \A q \in Reqs : read[q] = "done" => read'[q] = "done",
           \A q \in Reqs : reply'[q] \in {"load", "recheck", "rtt"} => reply'[q] = reply[q]
    PROVE  RingInv'
  <1> USE DEF RingInv
  <1>1. RingTypes'
    BY DEF RingTypes
  <1>2. \A i \in Slots : Recording(i)' = Recording(i)
    BY DEF Recording
  <1>3. SlotInv'
    BY <1>2 DEF SlotInv, RingTypes
  <1>4. CompleteInv'
    BY DEF CompleteInv, RttOwn
  <1> QED
    BY <1>1, <1>3, <1>4

(* Record stores its time: it is alone with its slot, or the slot is mixed.  *)
LEMMA RecordTimeRing ==
    ASSUME FlowInv, RingInv, NEW r \in Reqs, RecordTime(r) PROVE RingInv'
  <1> USE DEF RingInv
  <1> DEFINE s == SlotOf(r)
  <1>1. /\ read[r] = "time" /\ UNCHANGED <<reply, slotKey, start, torn>>
        /\ slotTime' = [slotTime EXCEPT ![s] = r] /\ read' = [read EXCEPT ![r] = "key"]
        /\ mixed' = IF Recording(s) = {} THEN mixed \ {s} ELSE mixed \cup {s}
    BY DEF RecordTime
  <1>2. s \in Slots
    BY SlotType
  <1>3. /\ slotTime' \in [Slots -> Reqs \cup {None}] /\ slotTime'[s] = r
        /\ \A i \in Slots \ {s} : slotTime'[i] = slotTime[i]
    BY <1>1, <1>2 DEF RingTypes
  <1>4. RingTypes'
    BY <1>1, <1>2, <1>3 DEF RingTypes
  <1>5. read'[r] = "key" /\ \A q \in Reqs \ {r} : read'[q] = read[q]
    BY <1>1 DEF FlowInv, FlowTypes
  <1>6. Recording(s)' = Recording(s) \cup {r} /\ \A i \in Slots \ {s} : Recording(i)' = Recording(i)
    BY <1>1, <1>5 DEF Recording
  <1>7. \A i \in Slots : slotKey'[i] # None => read'[slotKey'[i]] = "done"
    BY <1>1, <1>5 DEF SlotInv, RingTypes
  <1>8. ASSUME NEW i \in Slots \ mixed'
        PROVE  /\ Recording(i)' = {} => slotTime'[i] = slotKey'[i]
               /\ \A q \in Recording(i)' : Recording(i)' = {q} /\ slotTime'[i] = q
    <2>1. CASE i = s
      <3>1. Recording(s) = {}
        BY <1>1, <2>1
      <3>2. Recording(i)' = {r}
        BY <1>6, <2>1, <3>1
      <3> QED
        BY <1>3, <2>1, <3>2
    <2>2. CASE i # s
      <3>1. i \in Slots \ mixed
        BY <1>1, <2>2
      <3> QED
        BY <1>1, <1>3, <1>6, <2>2, <3>1 DEF SlotInv
    <2> QED
      BY <2>1, <2>2
  <1>9. SlotInv'
    BY <1>7, <1>8 DEF SlotInv
  <1>10. CompleteInv'
    BY <1>1, <1>5 DEF CompleteInv, RttOwn
  <1> QED
    BY <1>4, <1>9, <1>10

(* Record stores its key, once in the life of a request: no Complete of this *)
(* request waits for it.                                                     *)
LEMMA RecordKeyRing ==
    ASSUME FlowInv, RingInv, NEW r \in Reqs, RecordKey(r) PROVE RingInv'
  <1> USE DEF RingInv
  <1> DEFINE s == SlotOf(r)
  <1>1. /\ read[r] = "key" /\ UNCHANGED <<reply, slotTime, mixed, start, torn>>
        /\ slotKey' = [slotKey EXCEPT ![s] = r] /\ read' = [read EXCEPT ![r] = "done"]
    BY DEF RecordKey
  <1>2. s \in Slots
    BY SlotType
  <1>3. /\ slotKey' \in [Slots -> Reqs \cup {None}] /\ slotKey'[s] = r
        /\ \A i \in Slots \ {s} : slotKey'[i] = slotKey[i]
    BY <1>1, <1>2 DEF RingTypes
  <1>4. RingTypes'
    BY <1>1, <1>3 DEF RingTypes
  <1>5. read'[r] = "done" /\ \A q \in Reqs \ {r} : read'[q] = read[q]
    BY <1>1 DEF FlowInv, FlowTypes
  <1>6. /\ Recording(s)' = Recording(s) \ {r} /\ r \in Recording(s)
        /\ \A i \in Slots \ {s} : Recording(i)' = Recording(i)
    BY <1>1, <1>5 DEF Recording
  <1>7. \A i \in Slots : slotKey'[i] # None => read'[slotKey'[i]] = "done"
    BY <1>1, <1>3, <1>5 DEF SlotInv, RingTypes
  <1>8. ASSUME NEW i \in Slots \ mixed'
        PROVE  /\ Recording(i)' = {} => slotTime'[i] = slotKey'[i]
               /\ \A q \in Recording(i)' : Recording(i)' = {q} /\ slotTime'[i] = q
    <2>1. CASE i = s
      <3>1. Recording(s) = {r} /\ slotTime[s] = r
        BY <1>1, <1>2, <1>6, <2>1 DEF SlotInv
      <3>2. Recording(i)' = {}
        BY <1>6, <2>1, <3>1
      <3> QED
        BY <1>1, <1>3, <2>1, <3>1, <3>2
    <2>2. CASE i # s
      BY <1>1, <1>3, <1>6, <2>2 DEF SlotInv
    <2> QED
      BY <2>1, <2>2
  <1>9. SlotInv'
    BY <1>7, <1>8 DEF SlotInv
  <1>10. \A q \in Reqs : reply[q] \in {"load", "recheck", "rtt"} => q # r
    BY <1>1 DEF CompleteInv
  <1>11. \A q \in Reqs : slotKey[SlotOf(q)] # q /\ q # r => slotKey'[SlotOf(q)] # q
    BY <1>3, SlotType
  <1>12. CompleteInv'
    <2>1. \A q \in Reqs : reply'[q] \in {"load", "recheck", "rtt"} => read'[q] = "done"
      BY <1>1, <1>5 DEF CompleteInv
    <2>2. \A q \in Reqs : reply'[q] = "recheck" =>
             start'[q] = q \/ q \in torn' \/ slotKey'[SlotOf(q)] # q
      BY <1>1, <1>10, <1>11 DEF CompleteInv
    <2>3. RttOwn'
      BY <1>1 DEF CompleteInv, RttOwn
    <2> QED
      BY <2>1, <2>2, <2>3 DEF CompleteInv
  <1> QED
    BY <1>4, <1>9, <1>12

(* Complete: its first check finds a key that was recorded; a time that it   *)
(* loads goes with the key; its second check tells whose it is.              *)
LEMMA CompleteRing ==
    ASSUME FlowInv, RingInv, NEW r \in Reqs,
           CheckKey(r) \/ LoadTime(r) \/ Recheck(r) \/ RecordRTT(r)
    PROVE  RingInv'
  <1> USE DEF RingInv
  <1> DEFINE s == SlotOf(r)
  <1>1. UNCHANGED <<read, slotTime, slotKey, mixed>>
    BY DEF CheckKey, LoadTime, Recheck, RecordRTT, ringVars
  <1>2. s \in Slots
    BY SlotType
  <1>3. \A i \in Slots : Recording(i)' = Recording(i)
    BY <1>1 DEF Recording
  <1>4. SlotInv'
    BY <1>1, <1>3 DEF SlotInv
  <1>5. /\ \A q \in Reqs \ {r} : reply'[q] = reply[q] /\ start'[q] = start[q]
        /\ \A q \in Reqs \ {r} : q \in torn' <=> q \in torn
    BY DEF CheckKey, LoadTime, Recheck, RecordRTT, FlowInv, FlowTypes, RingTypes
  <1>6. RingTypes'
    <2>1. slotTime[s] \in Reqs \cup {None}
      BY <1>2 DEF RingTypes
    <2>2. start' \in [Reqs -> Reqs \cup {None}] /\ torn' \subseteq Reqs
      BY <2>1 DEF CheckKey, LoadTime, Recheck, RecordRTT, RingTypes
    <2> QED
      BY <1>1, <2>2 DEF RingTypes
  <1>7. /\ reply'[r] \in {"load", "recheck", "rtt"} => read'[r] = "done"
        /\ reply'[r] = "recheck" => start'[r] = r \/ r \in torn' \/ slotKey'[SlotOf(r)] # r
        /\ reply'[r] = "rtt" => start'[r] = r \/ r \in torn'
    <2> USE DEF FlowInv, FlowTypes
    <2>1. CASE CheckKey(r)
      <3>1. reply' = [reply EXCEPT ![r] = IF slotKey[s] = r THEN "load" ELSE "done"]
        BY <2>1 DEF CheckKey
      <3>2. slotKey[s] = r => read[r] = "done"
        BY <1>2, NoneAssumption DEF SlotInv
      <3> QED
        BY <1>1, <3>1, <3>2
    <2>2. CASE LoadTime(r)
      <3>1. /\ reply[r] = "load" /\ reply' = [reply EXCEPT ![r] = "recheck"]
            /\ start' = [start EXCEPT ![r] = slotTime[s]]
            /\ torn' = IF Recording(s) # {} \/ s \in mixed THEN torn \cup {r} ELSE torn
        BY <2>2 DEF LoadTime
      <3>2. reply'[r] = "recheck" /\ start'[r] = slotTime[s] /\ read'[r] = "done"
        BY <1>1, <3>1 DEF RingTypes, CompleteInv
      <3>3. r \in torn' \/ slotTime[s] = slotKey[s]
        BY <1>2, <3>1 DEF SlotInv
      <3> QED
        BY <1>1, <3>2, <3>3
    <2>3. CASE Recheck(r)
      <3>1. reply[r] = "recheck" /\ read[r] = "done"
        BY <2>3 DEF Recheck, CompleteInv
      <3>2. CASE SecondCheck(r) /\ reply' = [reply EXCEPT ![r] = "rtt"] /\ UNCHANGED <<start, torn>>
        <4>1. start[r] = r \/ r \in torn
          BY <3>1, <3>2 DEF CompleteInv, SecondCheck
        <4> QED
          BY <1>1, <3>1, <3>2, <4>1
      <3>3. CASE reply' = [reply EXCEPT ![r] = "done"]
        BY <3>3
      <3> QED
        BY <2>3, <3>2, <3>3 DEF Recheck
    <2>4. CASE RecordRTT(r)
      <3>1. reply' = [reply EXCEPT ![r] = "done"]
        BY <2>4 DEF RecordRTT
      <3> QED
        BY <3>1
    <2> QED
      BY <2>1, <2>2, <2>3, <2>4
  <1>8. CompleteInv'
    <2>1. \A q \in Reqs : reply'[q] \in {"load", "recheck", "rtt"} => read'[q] = "done"
      BY <1>1, <1>5, <1>7 DEF CompleteInv
    <2>2. \A q \in Reqs : reply'[q] = "recheck" =>
             start'[q] = q \/ q \in torn' \/ slotKey'[SlotOf(q)] # q
      BY <1>1, <1>5, <1>7 DEF CompleteInv
    <2>3. RttOwn'
      BY <1>5, <1>7 DEF CompleteInv, RttOwn
    <2> QED
      BY <2>1, <2>2, <2>3 DEF CompleteInv
  <1> QED
    BY <1>4, <1>6, <1>8

(* Every step of the gate keeps the tracker.                                 *)
LEMMA RingStep == ASSUME FlowInv, RingInv, [Next]_vars PROVE RingInv'
  <1>1. ASSUME NEW r \in Reqs, OnRead(r) \/ CountRecv(r) \/ FlushRecv(r) PROVE RingInv'
    <2>1. /\ UNCHANGED <<reply, slotTime, slotKey, start, mixed, torn>>
          /\ read[r] \in {"new", "count", "flush"}
          /\ \E x \in {"refused", "count", "flush", "time", "done"} : read' = [read EXCEPT ![r] = x]
      BY <1>1 DEF OnRead, CountRecv, FlushRecv, AfterCountRecv, ringVars
    <2>2. /\ \A q \in Reqs : read'[q] = "key" <=> read[q] = "key"
          /\ \A q \in Reqs : read[q] = "done" => read'[q] = "done"
      BY <2>1 DEF FlowInv, FlowTypes
    <2> QED
      BY <2>1, <2>2, RingApart
  <1>2. ASSUME NEW r \in Reqs, Answer(r) \/ SendClient(r) \/ CountSent(r) \/ FlushSent(r)
        PROVE  RingInv'
    <2>1. /\ UNCHANGED <<read, slotTime, slotKey, start, mixed, torn>>
          /\ \E x \in {"send", "count", "unsent", "flush", "check", "done"} :
                reply' = [reply EXCEPT ![r] = x]
      BY <1>2 DEF Answer, SendClient, CountSent, FlushSent, AfterCountSent, ringVars
    <2>2. \A q \in Reqs : reply'[q] \in {"load", "recheck", "rtt"} => reply'[q] = reply[q]
      BY <2>1 DEF FlowInv, FlowTypes
    <2> QED
      BY <2>1, <2>2, RingApart
  <1>3. ASSUME NEW r \in Reqs, Decided(r), UNCHANGED <<slotTime, slotKey, start, mixed, torn>>
        PROVE  RingInv'
    <2>1. \A q \in Reqs : reply'[q] \in {"load", "recheck", "rtt"} => reply'[q] = reply[q]
      BY <1>3 DEF Decided, FlowInv, FlowTypes
    <2> QED
      BY <1>3, <2>1, RingApart DEF Decided
  <1>4. CASE UNCHANGED <<read, reply, slotTime, slotKey, start, mixed, torn>>
    BY <1>4, RingApart
  <1>5. ASSUME NEW r \in Reqs, TryRemote(r) \/ Exhausted(r) PROVE RingInv'
    BY <1>3, <1>4, <1>5, RemoteDecides DEF TryRemote, Exhausted, ringVars
  <1>6. CASE HandleClientMessage
    BY <1>3, <1>6, HandleDecides DEF HandleClientMessage, ringVars
  <1>7. CASE \/ \E s \in Sessions : OnAccept(s) \/ ChannelClose(s)
             \/ Close \/ UNCHANGED vars
    BY <1>4, <1>7, OthersFlow DEF ringVars
  <1> QED
    BY <1>1, <1>2, <1>5, <1>6, <1>7, RecordTimeRing, RecordKeyRing, CompleteRing DEF Next

-----------------------------------------------------------------------------
(* The fallback over remote actors *)

(* The index of the candidate of attempt i, both counted from 0.             *)
IndexOf(v, p, i) ==
    IF i = 0 THEN Preferred(v, p) ELSE IF i - 1 >= Preferred(v, p) THEN i ELSE i - 1

(* A view is a sequence without repetitions of candidates.                   *)
LEMMA ViewType ==
    ASSUME NEW v \in Views
    PROVE  /\ v \in Seq(ToSet(v)) /\ Len(v) \in Nat /\ DOMAIN v = 1 .. Len(v)
           /\ ToSet(v) \subseteq Candidates
           /\ \A i \in 1 .. Len(v) : v[i] \in ToSet(v)
           /\ \A i, j \in 1 .. Len(v) : v[i] = v[j] => i = j
  <1>1. v \in Seq(ToSet(v)) /\ IsInjective(v)
    BY ViewsAssumption
  <1>2. Len(v) \in Nat /\ DOMAIN v = 1 .. Len(v)
    BY <1>1, LenProperties
  <1>3. \A i \in 1 .. Len(v) : v[i] \in ToSet(v)
    BY <1>1, ElementOfSeq
  <1>4. ToSet(v) \subseteq Candidates
    BY DEF Candidates
  <1> QED
    BY <1>1, <1>2, <1>3, <1>4 DEF IsInjective

(* The order of attempts is a permutation of the candidates that begins with *)
(* the preferred one.                                                        *)
LEMMA Permutation ==
    ASSUME NEW v \in Views, NEW p \in Int
    PROVE  /\ \A i \in 0 .. Len(v) - 1 : /\ IndexOf(v, p, i) \in 0 .. Len(v) - 1
                                         /\ Target(v, p, i) = v[1 + IndexOf(v, p, i)]
           /\ \A i, j \in 0 .. Len(v) - 1 : IndexOf(v, p, i) = IndexOf(v, p, j) => i = j
           /\ \A k \in 0 .. Len(v) - 1 : \E i \in 0 .. Len(v) - 1 : IndexOf(v, p, i) = k
  <1>1. Len(v) \in Nat
    BY ViewType
  <1> DEFINE n == Len(v)
             f == Preferred(v, p)
  <1>2. n > 0 => f \in 0 .. n - 1
    BY <1>1 DEF Preferred
  <1>3. n \in Nat
    BY <1>1
  <1>4. \A i : Target(v, p, i) = v[1 + IndexOf(v, p, i)]
    BY DEF Target, IndexOf
  <1>5. \A i : IndexOf(v, p, i) = IF i = 0 THEN f ELSE IF i - 1 >= f THEN i ELSE i - 1
    BY DEF IndexOf
  <1> HIDE DEF n, f
  <1>6. \A i \in 0 .. n - 1 : IndexOf(v, p, i) \in 0 .. n - 1
    BY <1>2, <1>3, <1>5
  <1>7. \A i, j \in 0 .. n - 1 : IndexOf(v, p, i) = IndexOf(v, p, j) => i = j
    BY <1>2, <1>3, <1>5
  <1>8. ASSUME NEW k \in 0 .. n - 1 PROVE \E i \in 0 .. n - 1 : IndexOf(v, p, i) = k
    <2> DEFINE w == IF k = f THEN 0 ELSE IF k < f THEN k + 1 ELSE k
    <2>1. w \in 0 .. n - 1 /\ IndexOf(v, p, w) = k
      BY <1>2, <1>3, <1>5, <1>8
    <2> QED
      BY <2>1
  <1> QED
    BY <1>4, <1>6, <1>7, <1>8 DEF n

(* A route that no message has.                                              *)
LEMMA NoRouteType == NoRoute \in RouteRecords
  <1>1. <<>> \in Seq(Candidates)
    BY EmptySeq
  <1>2. 0 \in Int
    OBVIOUS
  <1> QED
    BY <1>1, <1>2, Zenon DEF NoRoute, RouteRecords

(* Every step of the gate keeps the order of attempts.                       *)
LEMMA RouteStep == ASSUME FlowInv, RouteInv, [Next]_vars PROVE RouteInv'
  <1>1. ASSUME \A q \in Reqs : fate'[q] = "routing" => fate[q] = "routing", UNCHANGED route
        PROVE  RouteInv'
    BY <1>1 DEF RouteInv
  <1>2. ASSUME NEW r \in Reqs, route' = [route EXCEPT ![r] = NoRoute],
               \A q \in Reqs : fate'[q] = "routing" => q # r /\ fate[q] = "routing"
        PROVE  RouteInv'
    <2>1. /\ route' \in [Reqs -> RouteRecords]
          /\ \A q \in Reqs \ {r} : route'[q] = route[q]
      BY <1>2, NoRouteType DEF RouteInv
    <2> QED
      BY <1>2, <2>1 DEF RouteInv
  <1>3. ASSUME NEW r \in Reqs, NEW v \in Views, NEW pick \in Int, NEW encodes \in BOOLEAN,
               StartRemote(r, v, pick, encodes)
        PROVE  RouteInv'
    <2> DEFINE new == [view |-> v, pick |-> pick, tried |-> <<>>, encodes |-> encodes]
    <2>1. <<>> \in Seq(Candidates) /\ Len(<<>>) = 0
      BY EmptySeq
    <2>2. new \in RouteRecords
      BY <2>1, Zenon DEF RouteRecords
    <2>3. new.view = v /\ new.pick = pick /\ new.tried = <<>>
      OBVIOUS
    <2>4. Attempts(<<>>, v, pick)
      BY <2>1, ViewType DEF Attempts
    <2>5. route' = [route EXCEPT ![r] = new] /\ fate' = [fate EXCEPT ![r] = "routing"]
      BY <1>3 DEF StartRemote
    <2> HIDE DEF new
    <2>6. /\ route' \in [Reqs -> RouteRecords] /\ route'[r] = new
          /\ \A q \in Reqs \ {r} : route'[q] = route[q] /\ fate'[q] = fate[q]
      BY <2>2, <2>5 DEF RouteInv, FlowInv, FlowTypes
    <2> QED
      BY <2>3, <2>4, <2>6 DEF RouteInv
  <1>4. ASSUME NEW r \in Reqs, fate[r] = "routing", MoreCandidates(r), UNCHANGED fate,
               route' = [route EXCEPT ![r].tried = Tried(r)]
        PROVE  RouteInv'
    <2> DEFINE v == route[r].view
               p == route[r].pick
               t == route[r].tried
    <2>1. route[r] \in RouteRecords /\ Attempts(t, v, p)
      BY <1>4 DEF RouteInv
    <2>2. p \in Int /\ t \in Seq(Candidates)
      BY <2>1 DEF RouteRecords
    <2>3. v \in Views /\ Len(t) \in Nat /\ Len(v) \in Nat /\ Len(t) < Len(v)
      BY <1>4, <2>1, <2>2, ViewType, LenProperties DEF Attempts, MoreCandidates
    <2>4. Target(v, p, Len(t)) \in Candidates
      <3>1. Len(t) \in 0 .. Len(v) - 1
        BY <2>3
      <3>2. /\ IndexOf(v, p, Len(t)) \in 0 .. Len(v) - 1
            /\ Target(v, p, Len(t)) = v[1 + IndexOf(v, p, Len(t))]
        BY <2>2, <2>3, <3>1, Permutation
      <3>3. 1 + IndexOf(v, p, Len(t)) \in 1 .. Len(v)
        BY <2>3, <3>2
      <3> HIDE DEF v, p, t
      <3> QED
        BY <2>3, <3>2, <3>3, ViewType
    <2> DEFINE new == Append(t, Target(v, p, Len(t)))
    <2>5. /\ new \in Seq(Candidates) /\ Len(new) = Len(t) + 1
          /\ \A i \in 1 .. Len(t) : new[i] = t[i]
          /\ new[Len(t) + 1] = Target(v, p, Len(t))
      BY <2>2, <2>4, AppendProperties
    <2>6. route' = [route EXCEPT ![r].tried = new]
      BY <1>4 DEF Tried
    <2>7. Attempts(new, v, p)
      <3> HIDE DEF v, p, t, new
      <3>1. \A i \in 1 .. Len(new) : i \in 1 .. Len(t) \/ i = Len(t) + 1
        BY <2>3, <2>5
      <3>2. Len(t) + 1 - 1 = Len(t)
        BY <2>3
      <3>3. \A i \in 1 .. Len(new) : new[i] = Target(v, p, i - 1)
        BY <2>1, <2>5, <3>1, <3>2 DEF Attempts
      <3> QED
        BY <2>3, <2>5, <3>3 DEF Attempts
    <2> HIDE DEF new
    <2>8. route'[r] = [route[r] EXCEPT !.tried = new] /\ \A q \in Reqs \ {r} : route'[q] = route[q]
      BY <2>6 DEF RouteInv
    <2>9. [route[r] EXCEPT !.tried = new] \in RouteRecords
      BY <2>1, <2>5 DEF RouteRecords
    <2>10. route' \in [Reqs -> RouteRecords]
      BY <2>6, <2>9 DEF RouteInv
    <2>11. route'[r].view = v /\ route'[r].pick = p /\ route'[r].tried = new
      BY <2>1, <2>8 DEF RouteRecords
    <2> QED
      BY <1>4, <2>7, <2>8, <2>10, <2>11 DEF RouteInv
  <1>5. ASSUME NEW r \in Reqs, TryRemote(r) \/ Exhausted(r) PROVE RouteInv'
    <2>1. CASE /\ fate[r] = "routing" /\ MoreCandidates(r) /\ UNCHANGED fate
               /\ route' = [route EXCEPT ![r].tried = Tried(r)]
      BY <1>4, <2>1
    <2>2. CASE /\ route' = [route EXCEPT ![r] = NoRoute]
               /\ \E x \in {"gate", "actor"} : fate' = [fate EXCEPT ![r] = x]
      <3>1. \A q \in Reqs : fate'[q] = "routing" => q # r /\ fate[q] = "routing"
        BY <2>2 DEF FlowInv, FlowTypes
      <3> QED
        BY <1>2, <2>2, <3>1
    <2> QED
      BY <1>5, <2>1, <2>2 DEF TryRemote, Exhausted, SendNoRouteError
  <1>6. CASE HandleClientMessage
    <2> DEFINE r == Head(queue)
    <2>1. r \in Reqs
      BY <1>6, HandleDecides
    <2>2. CASE /\ UNCHANGED route
               /\ \E x \in {"gone", "gate", "actor"} : fate' = [fate EXCEPT ![r] = x]
      <3>1. \A q \in Reqs : fate'[q] = "routing" => fate[q] = "routing"
        BY <2>1, <2>2 DEF FlowInv, FlowTypes
      <3> QED
        BY <1>1, <2>2, <3>1
    <2>3. CASE \E v \in Views : \E pick \in -1..Len(v), encodes \in BOOLEAN :
                  StartRemote(r, v, pick, encodes)
      <3>1. PICK v \in Views : \E pick \in -1..Len(v), encodes \in BOOLEAN :
                  StartRemote(r, v, pick, encodes)
        BY <2>3
      <3>2. PICK pick \in -1..Len(v), encodes \in BOOLEAN : StartRemote(r, v, pick, encodes)
        BY <3>1
      <3>3. pick \in Int
        BY ViewType
      <3> QED
        BY <1>3, <2>1, <3>2, <3>3
    <2>4. CASE conn[Session(r)] = "open"
      <3>1. GateHandler(r)
        BY <1>6, <2>4 DEF HandleClientMessage
      <3> HIDE DEF r
      <3> QED
        BY <2>2, <2>3, <3>1 DEF GateHandler, SendNoRouteError
    <2>5. CASE conn[Session(r)] # "open"
      BY <1>6, <2>2, <2>5 DEF HandleClientMessage
    <2> QED
      BY <2>4, <2>5
  <1>7. ASSUME NEW r \in Reqs, OnRead(r) PROVE RouteInv'
    <2>1. UNCHANGED route /\ (UNCHANGED fate \/ fate' = [fate EXCEPT ![r] = "queued"])
      BY <1>7 DEF OnRead
    <2>2. \A q \in Reqs : fate'[q] = "routing" => fate[q] = "routing"
      BY <2>1 DEF FlowInv, FlowTypes
    <2> QED
      BY <1>1, <2>1, <2>2
  <1>8. ASSUME NEW r \in Reqs,
               \/ CountRecv(r) \/ FlushRecv(r) \/ RecordTime(r) \/ RecordKey(r)
               \/ Answer(r) \/ SendClient(r) \/ CountSent(r) \/ FlushSent(r)
               \/ CheckKey(r) \/ LoadTime(r) \/ Recheck(r) \/ RecordRTT(r)
        PROVE  RouteInv'
    <2>1. UNCHANGED <<fate, route>>
      BY <1>8 DEF CountRecv, FlushRecv, RecordTime, RecordKey, Answer, SendClient, CountSent,
                  FlushSent, CheckKey, LoadTime, Recheck, RecordRTT, routeVars
    <2> QED
      BY <1>1, <2>1
  <1>9. CASE \/ \E s \in Sessions : OnAccept(s) \/ ChannelClose(s)
             \/ Close \/ UNCHANGED vars
    BY <1>1, <1>9, OthersFlow
  <1> QED
    BY <1>5, <1>6, <1>7, <1>8, <1>9 DEF Next

(* What FallbackComplete says of one step and one request.                   *)
FallbackOf(r) ==
    LET v == route[r].view  t == route[r].tried IN
    fate[r] = "routing" =>
      /\ IsInjective(t)
      /\ (t # <<>> /\ route[r].pick \in 0..Len(v) - 1) => t[1] = v[route[r].pick + 1]
      /\ ((fate'[r] = "gate" /\ route[r].encodes) => ToSet(t) = ToSet(v))

(* The attempts of a request: no candidate twice, the preferred one first,   *)
(* and all of them when there are as many as candidates.                     *)
LEMMA AttemptsRight ==
    ASSUME NEW v \in Views, NEW p \in Int, NEW t \in Seq(Candidates), Attempts(t, v, p)
    PROVE  /\ IsInjective(t)
           /\ t # <<>> /\ p \in 0 .. Len(v) - 1 => t[1] = v[p + 1]
           /\ Len(t) = Len(v) => ToSet(t) = ToSet(v)
  <1>1. /\ Len(v) \in Nat /\ DOMAIN v = 1 .. Len(v)
        /\ \A i, j \in 1 .. Len(v) : v[i] = v[j] => i = j
    BY ViewType
  <1>2. Len(t) \in Nat /\ DOMAIN t = 1 .. Len(t) /\ Len(t) <= Len(v)
    BY LenProperties DEF Attempts
  <1>3. \A i \in 1 .. Len(t) : /\ i - 1 \in 0 .. Len(v) - 1
                               /\ t[i] = Target(v, p, i - 1)
    BY <1>1, <1>2 DEF Attempts
  <1>4. \A i \in 0 .. Len(v) - 1 : /\ IndexOf(v, p, i) \in 0 .. Len(v) - 1
                                   /\ Target(v, p, i) = v[1 + IndexOf(v, p, i)]
    BY Permutation
  <1>5. \A i \in 1 .. Len(t) : /\ 1 + IndexOf(v, p, i - 1) \in 1 .. Len(v)
                               /\ t[i] = v[1 + IndexOf(v, p, i - 1)]
    <2>1. \A i \in 1 .. Len(t) : /\ IndexOf(v, p, i - 1) \in 0 .. Len(v) - 1
                                 /\ t[i] = v[1 + IndexOf(v, p, i - 1)]
      BY <1>3, <1>4
    <2> QED
      BY <1>1, <2>1
  <1>6. IsInjective(t)
    <2>1. SUFFICES ASSUME NEW i \in 1 .. Len(t), NEW j \in 1 .. Len(t), t[i] = t[j] PROVE i = j
      BY <1>2 DEF IsInjective
    <2>2. 1 + IndexOf(v, p, i - 1) = 1 + IndexOf(v, p, j - 1)
      BY <1>1, <1>5, <2>1
    <2>3. /\ i - 1 \in 0 .. Len(v) - 1 /\ j - 1 \in 0 .. Len(v) - 1
          /\ IndexOf(v, p, i - 1) \in 0 .. Len(v) - 1 /\ IndexOf(v, p, j - 1) \in 0 .. Len(v) - 1
      BY <1>3, <1>4
    <2>4. IndexOf(v, p, i - 1) = IndexOf(v, p, j - 1)
      BY <1>1, <2>2, <2>3
    <2>5. i - 1 = j - 1
      BY <2>3, <2>4, Permutation
    <2> QED
      BY <1>2, <2>5
  <1>7. ASSUME t # <<>>, p \in 0 .. Len(v) - 1 PROVE t[1] = v[p + 1]
    <2>1. 1 \in 1 .. Len(t)
      BY <1>2, <1>7, EmptySeq
    <2>2. IndexOf(v, p, 1 - 1) = p
      BY <1>7 DEF IndexOf, Preferred
    <2> QED
      BY <1>5, <2>1, <2>2
  <1>8. ASSUME Len(t) = Len(v) PROVE ToSet(t) = ToSet(v)
    <2>1. \A i \in 1 .. Len(t) : \E k \in 1 .. Len(v) : t[i] = v[k]
      BY <1>5
    <2>2. ASSUME NEW k \in 1 .. Len(v) PROVE \E i \in 1 .. Len(t) : t[i] = v[k]
      <3>1. k - 1 \in 0 .. Len(v) - 1
        BY <1>1
      <3>2. PICK i \in 0 .. Len(v) - 1 : IndexOf(v, p, i) = k - 1
        BY <3>1, Permutation
      <3>3. i + 1 \in 1 .. Len(t) /\ i + 1 - 1 = i /\ 1 + (k - 1) = k
        BY <1>1, <1>8
      <3>4. t[i + 1] = v[k]
        BY <1>5, <3>2, <3>3
      <3> QED
        BY <3>3, <3>4
    <2>3. ToSet(t) \subseteq ToSet(v)
      <3>1. SUFFICES ASSUME NEW i \in 1 .. Len(t) PROVE t[i] \in ToSet(v)
        BY <1>2, Zenon DEF ToSet
      <3> QED
        BY <1>1, <2>1, Zenon DEF ToSet
    <2>4. ToSet(v) \subseteq ToSet(t)
      <3>1. SUFFICES ASSUME NEW k \in 1 .. Len(v) PROVE v[k] \in ToSet(t)
        BY <1>1, Zenon DEF ToSet
      <3> QED
        BY <1>2, <2>2, Zenon DEF ToSet
    <2> QED
      BY <2>3, <2>4
  <1> QED
    BY <1>6, <1>7, <1>8

(* A client is told that there is no route when the attempts are exhausted.  *)
LEMMA FallbackStep ==
    ASSUME FlowInv, RouteInv, [Next]_vars, NEW r \in Reqs PROVE FallbackOf(r)
  <1> DEFINE v == route[r].view
             p == route[r].pick
             t == route[r].tried
  <1>1. SUFFICES ASSUME fate[r] = "routing"
                 PROVE  /\ IsInjective(t)
                        /\ t # <<>> /\ p \in 0..Len(v) - 1 => t[1] = v[p + 1]
                        /\ fate'[r] = "gate" /\ route[r].encodes => ToSet(t) = ToSet(v)
    BY DEF FallbackOf
  <1>2. route[r] \in RouteRecords /\ Attempts(t, v, p)
    BY <1>1 DEF RouteInv
  <1>3. p \in Int /\ t \in Seq(Candidates) /\ v \in Views
    BY <1>2 DEF RouteRecords, Attempts
  <1>4. Len(t) \in Nat /\ Len(v) \in Nat /\ Len(t) <= Len(v)
    BY <1>2, <1>3, ViewType, LenProperties DEF Attempts
  <1>5. ASSUME fate'[r] = "gate", route[r].encodes PROVE Len(t) = Len(v)
    <2>1. CASE TryRemote(r)
      <3>1. fate' = fate \/ fate' = [fate EXCEPT ![r] = "actor"]
        BY <1>5, <2>1 DEF TryRemote
      <3> QED
        BY <1>1, <1>5, <3>1 DEF FlowInv, FlowTypes
    <2>2. CASE Exhausted(r)
      BY <1>4, <2>2 DEF Exhausted, MoreCandidates
    <2>3. ASSUME fate'[r] = fate[r] PROVE FALSE
      BY <1>1, <1>5, <2>3
    <2>4. ASSUME NEW q \in Reqs, q # r, TryRemote(q) \/ Exhausted(q) PROVE FALSE
      <3>1. UNCHANGED fate \/ \E x \in {"gate", "actor"} : fate' = [fate EXCEPT ![q] = x]
        BY <2>4 DEF TryRemote, Exhausted, SendNoRouteError
      <3> QED
        BY <2>3, <2>4, <3>1 DEF FlowInv, FlowTypes
    <2>5. CASE HandleClientMessage
      <3>1. /\ Head(queue) \in Reqs /\ Decided(Head(queue)) /\ Head(queue) # r
        BY <1>1, <2>5, HandleDecides
      <3>2. PICK x \in FateStates : fate' = [fate EXCEPT ![Head(queue)] = x]
        BY <3>1 DEF Decided, FateStates
      <3> QED
        BY <2>3, <3>1, <3>2 DEF FlowInv, FlowTypes
    <2>6. ASSUME NEW q \in Reqs, OnRead(q) PROVE FALSE
      <3>1. read[q] = "new" /\ (UNCHANGED fate \/ fate' = [fate EXCEPT ![q] = "queued"])
        BY <2>6 DEF OnRead
      <3>2. q # r
        BY <1>1, <3>1 DEF FlowInv
      <3> QED
        BY <2>3, <3>1, <3>2 DEF FlowInv, FlowTypes
    <2>7. ASSUME NEW q \in Reqs,
                 \/ CountRecv(q) \/ FlushRecv(q) \/ RecordTime(q) \/ RecordKey(q)
                 \/ Answer(q) \/ SendClient(q) \/ CountSent(q) \/ FlushSent(q)
                 \/ CheckKey(q) \/ LoadTime(q) \/ Recheck(q) \/ RecordRTT(q)
          PROVE  FALSE
      BY <2>3, <2>7, Movers DEF ReaderMoves, SenderMoves
    <2>8. CASE \/ \E s \in Sessions : OnAccept(s) \/ ChannelClose(s)
               \/ Close \/ UNCHANGED vars
      BY <2>3, <2>8, OthersFlow
    <2> QED
      BY <2>1, <2>2, <2>4, <2>5, <2>6, <2>7, <2>8 DEF Next
  <1> HIDE DEF v, p, t
  <1> QED
    BY <1>2, <1>3, <1>5, AttemptsRight

-----------------------------------------------------------------------------
(* The theorems *)

(* The gate starts with no request, nothing counted and an empty ring.       *)
LEMMA GateStart == Init => GateInv
  <1> SUFFICES ASSUME Init PROVE GateInv
    OBVIOUS
  <1> USE DEF Init
  <1>1. FlowInv
    <2>1. queue \in Seq(Reqs) /\ Len(queue) = 0
      BY EmptySeq
    <2>2. FlowTypes
      BY <2>1 DEF FlowTypes, ReadStates, FateStates, ReplyStates
    <2> QED
      BY <2>1, <2>2 DEF FlowInv
  <1>2. CountInv
    <2>1. Cardinality({}) = 0
      BY FS_EmptySet
    <2>2. RecvIn = {} /\ RecvFull = {} /\ SentIn = {} /\ SentFull = {}
      BY DEF RecvIn, RecvFull, SentIn, SentFull
    <2>3. 0 % Batch = 0 /\ Batch * 0 = 0
      BY BatchAssumption
    <2>4. /\ localCount["recv"] = 0 /\ localCount["sent"] = 0
          /\ total["recv"] = 0 /\ total["sent"] = 0 /\ closing = "no"
      BY DEF Dirs
    <2>5. CountTypes
      BY DEF CountTypes
    <2> HIDE DEF Init
    <2>6. /\ Cardinality(RecvIn) = total["recv"] + Batch * Cardinality(RecvFull)
               + (localCount["recv"] % Batch) + 0
          /\ Cardinality(SentIn) = total["sent"] + Batch * Cardinality(SentFull)
               + (localCount["sent"] % Batch) + 0
      BY <2>1, <2>2, <2>3, <2>4
    <2>7. CountsExact
      BY <2>4, <2>6 DEF CountsExact, RecvIn, RecvFull, SentIn, SentFull
    <2> QED
      BY <2>5, <2>7 DEF CountInv
  <1>3. RingInv
    <2>1. RingTypes
      BY DEF RingTypes
    <2>2. \A i \in Slots : Recording(i) = {}
      BY DEF Recording
    <2>3. SlotInv
      BY <2>2 DEF SlotInv
    <2>4. CompleteInv
      BY DEF CompleteInv, RttOwn
    <2> QED
      BY <2>1, <2>3, <2>4 DEF RingInv
  <1>4. RouteInv
    BY NoRouteType DEF RouteInv
  <1> QED
    BY <1>1, <1>2, <1>3, <1>4 DEF GateInv

(* GateInv holds of every reachable state of the gate.                       *)
LEMMA GateAlways == Spec => []GateInv
  <1>1. GateInv /\ [Next]_vars => GateInv'
    BY FlowStep, CountStep, RingStep, RouteStep DEF GateInv
  <1> QED
    BY <1>1, GateStart, PTL DEF Spec

(* What the gate measures (zgate/gate.go 375, 673 and 695-702,               *)
(* zgate/rtt_tracker.go 51-122) is exact: the batched counters lose nothing  *)
(* and count nothing twice, whatever readers, senders and Close interleave,  *)
(* and a round trip is measured from the request's own time unless writers   *)
(* of its slot overlapped.                                                   *)
THEOREM MeasuresAreExact == Spec => []MeasuresExact
  <1>1. GateInv => MeasuresExact
    BY DEF GateInv, CountInv, RingInv, CompleteInv, MeasuresExact
  <1> QED
    BY <1>1, GateAlways, PTL

(* The fallback over remote actors (zgate/gate.go 575-636) tries the         *)
(* preferred one first and none twice, and the client is told that there is  *)
(* no route to a message that can be encoded only after every candidate of   *)
(* the view failed.                                                          *)
THEOREM FallbackIsComplete == Spec => FallbackComplete
  <1>1. GateInv /\ [Next]_vars => [\A r \in Reqs : FallbackOf(r)]_vars
    BY FallbackStep DEF GateInv
  <1>2. Spec => [][\A r \in Reqs : FallbackOf(r)]_vars
    BY <1>1, GateAlways, PTL DEF Spec
  <1> QED
    BY <1>2 DEF FallbackComplete, FallbackOf

=============================================================================
