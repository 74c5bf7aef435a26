----------------------------- MODULE EtcdProofs ------------------------------
(***************************************************************************)
(* Theorems about EtcdDiscovery, for any number of keys, leases, failures  *)
(* and changes in etcd.                                                    *)
(*                                                                         *)
(* TypeCorrect: the lease half has its types, and in particular no key is  *)
(* held by a lease that is gone.  KeeperIsUnique: recreating the lease     *)
(* neither doubles the keepalive nor drops it.  UnregisteredStaysGone: a   *)
(* key outlives its registration only by a re-registration that crossed    *)
(* it, or where a Register got an error although its Put took effect.      *)
(* CacheDoesFollow: when every event is handled, the cache is what etcd    *)
(* holds and the group knows the present state of each actor, but for what *)
(* crossed another writer, was lost with a watch or did not fit the        *)
(* channel.  FindersAreStable: users keep their actor, and polls take      *)
(* turns.                                                                  *)
(***************************************************************************)
EXTENDS EtcdDiscovery, FiniteSetTheorems, SequenceTheorems, TLAPS

(* A behaviour follows one half, so each half is invariant by itself.      *)
LEMMA OneHalf ==
    ASSUME [DiscoveryNext]_discoveryVars
    PROVE  [Next]_vars /\ [CacheNext]_cacheVars
  BY DEF DiscoveryNext, discoveryVars, Lease, Cache

-----------------------------------------------------------------------------
(* The lease half: types *)

AppLabels == {"idle", "put", "store", "remove", "closing", "closeRemove",
              "cancel", "closed"}
KaLabels == {"none", "top", "keep", "closed", "load", "reput", "gone"}

EtcdType ==
    /\ kv \in [Keys -> live \cup {NoLease}]
    /\ live \in SUBSET Leases /\ granted \in 0 .. MaxLeases
    /\ shared \in Leases \cup {NoLease}

AppType ==
    /\ app \in [pc : AppLabels, key : SUBSET Keys, lease : Leases \cup {NoLease}]
    /\ reg \in SUBSET Keys /\ closeTodo \in SUBSET Keys

KaType ==
    /\ pc \in [Leases -> KaLabels]
    /\ mine \in [Leases -> Leases \cup {NoLease}]
    /\ old \in [Leases -> Leases \cup {NoLease}]
    /\ new \in [Leases -> Leases \cup {NoLease}]
    /\ todo \in [Leases -> SUBSET Keys]

HistoryType == failed \in BOOLEAN /\ crossed \in SUBSET Keys /\ unsure \in SUBSET Keys

LeaseTypes == EtcdType /\ AppType /\ KaType /\ done \in BOOLEAN /\ HistoryType

(* createSharedLeaseLocked: the new lease, and what it is named.           *)
LEMMA CreateTypes ==
    ASSUME LeaseTypes, CreateLease
    PROVE  granted + 1 \in Leases /\ granted' \in 0 .. MaxLeases /\ live' \in SUBSET Leases
           /\ live \subseteq live' /\ shared' = granted + 1 /\ granted + 1 # NoLease
  BY BoundsAssumption DEF CreateLease, LeaseTypes, EtcdType, Leases, NoLease

(* Register and RegisterGrants, Unregister, and what follows them.         *)
LEMMA AppTypes == ASSUME LeaseTypes, App PROVE LeaseTypes'
  <1> USE KeysAssumption
      DEF LeaseTypes, HistoryType, At, Goto, Return, etcdVars, appVars, kaVars, keepVars
  <1>1. ASSUME NEW k \in Changing, Register(k) PROVE LeaseTypes'
    <2>1. EtcdType' /\ KaType'
      BY <1>1 DEF Register, EtcdType, KaType
    <2>2. AppType'
      BY <1>1 DEF Register, EtcdType, AppType, AppLabels
    <2> QED
      BY <1>1, <2>1, <2>2 DEF Register
  <1>2. ASSUME NEW k \in Changing, RegisterGrants(k) PROVE LeaseTypes'
    <2>1. EtcdType'
      BY <1>2, CreateTypes DEF RegisterGrants, EtcdType
    <2>2. AppType'
      BY <1>2, CreateTypes DEF RegisterGrants, AppType, AppLabels
    <2>3. KaType'
      BY <1>2, CreateTypes DEF RegisterGrants, KaType, KaLabels
    <2> QED
      BY <1>2, <2>1, <2>2, <2>3 DEF RegisterGrants
  <1>3. ASSUME NEW k \in Keys, NEW next \in {"remove", "closeRemove"}, Delete(k, next),
               closeTodo' \in SUBSET Keys
        PROVE  LeaseTypes'
    <2>1. EtcdType'
      BY <1>3 DEF Delete, EtcdType
    <2>4. app' = app \/ app' = [pc |-> next, key |-> {k}, lease |-> app.lease]
      BY <1>3 DEF Delete, AppType
    <2>5. UNCHANGED reg
      BY <1>3 DEF Delete
    <2>2. AppType'
      BY <1>3, <2>4, <2>5 DEF AppType, AppLabels
    <2>3. KaType'
      BY <1>3 DEF Delete, KaType
    <2> QED
      BY <1>3, <2>1, <2>2, <2>3 DEF Delete
  <1>4. ASSUME NEW k \in Changing, Unregister(k) PROVE LeaseTypes'
    BY <1>3, <1>4 DEF Unregister, AppType
  <1>5. CASE CloseUnregister
    BY <1>3, <1>5 DEF CloseUnregister, AppType
  <1>6. CASE RegisterPut
    <2>1. EtcdType'
      BY <1>6 DEF RegisterPut, Put, EtcdType, AppType
    <2>2. AppType'
      BY <1>6 DEF RegisterPut, AppType, AppLabels
    <2> QED
      BY <1>6, <2>1, <2>2 DEF RegisterPut, KaType
  <1>7. CASE RegisterFails \/ RegisterStore \/ UnregisterStore
    <2>1. EtcdType' /\ KaType'
      BY <1>7 DEF RegisterFails, RegisterStore, UnregisterStore, Put, EtcdType, AppType, KaType
    <2>5. HistoryType' /\ UNCHANGED done
      BY <1>7 DEF RegisterFails, RegisterStore, UnregisterStore, AppType
    <2>3. \/ app' = [pc |-> "idle", key |-> {}, lease |-> NoLease]
          \/ app' = [pc |-> "closing", key |-> {}, lease |-> app.lease]
      BY <1>7 DEF RegisterFails, RegisterStore, UnregisterStore, AppType
    <2>4. reg' \in SUBSET Keys /\ UNCHANGED closeTodo
      BY <1>7 DEF RegisterFails, RegisterStore, UnregisterStore, AppType
    <2>2. AppType'
      BY <2>3, <2>4 DEF AppType, AppLabels
    <2> QED
      BY <2>1, <2>2, <2>5
  <1>8. CASE CloseAll
    BY <1>8 DEF CloseAll, EtcdType, KaType, AppType, AppLabels
  <1>9. CASE CloseRevoke
    <2>1. EtcdType'
      BY <1>9 DEF CloseRevoke, Drop, EtcdType
    <2>2. AppType'
      BY <1>9 DEF CloseRevoke, AppType, AppLabels
    <2> QED
      BY <1>9, <2>1, <2>2 DEF CloseRevoke, KaType
  <1>10. CASE CloseCancel
    <2>1. AppType'
      BY <1>10 DEF CloseCancel, AppType, AppLabels
    <2> QED
      BY <1>10, <2>1 DEF CloseCancel, EtcdType, KaType
  <1> QED
    BY <1>1, <1>2, <1>4, <1>5, <1>6, <1>7, <1>8, <1>9, <1>10 DEF App, AppStep, Closing

(* The keepalive goroutines, and expiry in etcd.                           *)
LEMMA KeepaliveTypes ==
    ASSUME LeaseTypes, NEW g \in Leases, Keepalive(g) \/ Expire(g) PROVE LeaseTypes'
  <1> USE DEF LeaseTypes, HistoryType, KaGoto, KaEnd, etcdVars, appVars, kaVars, keepVars
  <1>1. CASE Expire(g)
    BY <1>1 DEF Expire, Drop, EtcdType, AppType, KaType
  <1>2. CASE KaLeave(g)
    <2>1. KaType'
      BY <1>2 DEF KaLeave, KaType, KaLabels
    <2> QED
      BY <1>2, <2>1 DEF KaLeave, EtcdType, AppType
  <1>3. CASE KaKeep(g) \/ KaClosed(g) \/ KaRecreateFails(g)
    <2>1. KaType'
      BY <1>3 DEF KaKeep, KaClosed, KaRecreateFails, KaType, KaLabels, EtcdType
    <2> QED
      BY <1>3, <2>1 DEF KaKeep, KaClosed, KaRecreateFails, EtcdType, AppType
  <1>4. CASE KaRecreate(g)
    <2>1. EtcdType'
      BY <1>4, CreateTypes DEF KaRecreate, EtcdType
    <2>2. KaType'
      BY <1>4, CreateTypes DEF KaRecreate, KaType, KaLabels, EtcdType
    <2> QED
      BY <1>4, <2>1, <2>2 DEF KaRecreate, AppType
  <1>5. CASE KaLoad(g)
    <2>1. KaType'
      BY <1>5 DEF KaLoad, KaType, KaLabels, AppType
    <2> QED
      BY <1>5, <2>1 DEF KaLoad, EtcdType, AppType
  <1>6. CASE KaPut(g)
    <2>1. PICK k \in todo[g] :
             /\ todo' = [todo EXCEPT ![g] = @ \ {k}]
             /\ UNCHANGED kv \/ Put(k, new[g])
             /\ failed' \in BOOLEAN /\ unsure' \in SUBSET Keys
      BY <1>6 DEF KaPut
    <2>2. KaType'
      BY <1>6, <2>1 DEF KaPut, KaType
    <2>3. EtcdType'
      BY <1>6, <2>1 DEF KaPut, Put, EtcdType, KaType
    <2> QED
      BY <1>6, <2>1, <2>2, <2>3 DEF KaPut, AppType
  <1>7. CASE KaRevoke(g)
    <2>1. KaType'
      BY <1>7 DEF KaRevoke, KaType, KaLabels
    <2>2. EtcdType'
      BY <1>7 DEF KaRevoke, Drop, EtcdType, KaType
    <2> QED
      BY <1>7, <2>1, <2>2 DEF KaRevoke, AppType
  <1> QED
    BY <1>1, <1>2, <1>3, <1>4, <1>5, <1>6, <1>7 DEF Keepalive

(* Nothing is registered.                                                  *)
LEMMA LeaseTypesInit == Init => LeaseTypes
  <1> SUFFICES ASSUME Init PROVE LeaseTypes
    OBVIOUS
  <1>1. EtcdType
    BY BoundsAssumption DEF Init, EtcdType, Leases, NoLease
  <1>2. AppType /\ done \in BOOLEAN /\ HistoryType
    BY DEF Init, AppType, AppLabels, HistoryType
  <1>3. KaType
    BY DEF Init, KaType, KaLabels
  <1> QED
    BY <1>1, <1>2, <1>3 DEF LeaseTypes

(* Every step keeps the types.                                             *)
LEMMA LeaseTypesInductive == ASSUME LeaseTypes, [Next]_vars PROVE LeaseTypes'
  <1>1. CASE UNCHANGED vars
    BY <1>1 DEF vars, etcdVars, appVars, kaVars, keepVars, LeaseTypes, HistoryType, EtcdType,
              AppType, KaType
  <1> QED
    BY <1>1, AppTypes, KeepaliveTypes DEF Next

(* etcd.go 181-230, 398-490: every step of registration, keepalive and     *)
(* close keeps the types, and no key in etcd outlives its lease (TypeOK).  *)
THEOREM TypeCorrect == DiscoverySpec => []TypeOK
  <1>1. DiscoveryInit => LeaseTypes
    BY LeaseTypesInit DEF DiscoveryInit
  <1>2. LeaseTypes /\ [DiscoveryNext]_discoveryVars => LeaseTypes'
    BY OneHalf, LeaseTypesInductive
  <1>3. LeaseTypes => TypeOK
    BY DEF LeaseTypes, HistoryType, EtcdType, AppType, AppLabels, KaType, KaLabels, TypeOK
  <1> QED
    BY <1>1, <1>2, <1>3, PTL DEF DiscoverySpec

-----------------------------------------------------------------------------
(* The lease half: the keepalive goroutine *)

Fresh == \A l \in Leases : l > granted => pc[l] = "none"
OnlyOne == \A g, h \in Keepers : g = h
KeptWhileOpen == shared # NoLease /\ ~done => shared \in Keepers
NoneBeforeGrant == shared = NoLease /\ ~At("cancel") /\ ~At("closed") => Keepers = {}

(* OneKeeper is not inductive: a Register that finds no lease grants one   *)
(* and starts a goroutine, so there must be none then; and the lease that  *)
(* is granted next must not have one yet.                                  *)
KeeperInv == Fresh /\ OnlyOne /\ KeptWhileOpen /\ NoneBeforeGrant

(* Calls of the application that neither grant nor close, Puts and expiry. *)
LEMMA KeeperUntouched ==
    ASSUME LeaseTypes, KeeperInv, UNCHANGED <<granted, shared, done, pc>>,
           At("cancel") => At("cancel")', At("closed") => At("closed")'
    PROVE  KeeperInv'
  BY DEF KeeperInv, Fresh, OnlyOne, KeptWhileOpen, NoneBeforeGrant, Keepers

(* RegisterGrants: there was no goroutine, and now there is one.           *)
LEMMA GrantKeepsOne ==
    ASSUME LeaseTypes, KeeperInv, NEW k \in Changing, RegisterGrants(k) PROVE KeeperInv'
  <1>1. /\ Keepers = {} /\ granted + 1 \in Leases /\ granted + 1 # NoLease
        /\ shared' = granted + 1 /\ granted' = granted + 1
        /\ pc' = [pc EXCEPT ![granted + 1] = "top"]
    BY CreateTypes DEF RegisterGrants, CreateLease, At, KeeperInv, NoneBeforeGrant
  <1>2. Keepers' = {granted + 1}
    BY <1>1 DEF LeaseTypes, KaType, Keepers
  <1>3. Fresh'
    BY <1>1 DEF LeaseTypes, KaType, KeeperInv, Fresh, EtcdType, Leases
  <1> QED
    BY <1>1, <1>2, <1>3 DEF KeeperInv, OnlyOne, KeptWhileOpen, NoneBeforeGrant

(* KaRecreate: the goroutine hands over to the one of the new lease.       *)
LEMMA RecreateKeepsOne ==
    ASSUME LeaseTypes, KeeperInv, NEW g \in Leases, KaRecreate(g) PROVE KeeperInv'
  <1>1. /\ pc[g] = "closed" /\ granted + 1 \in Leases /\ granted + 1 # NoLease
        /\ shared' = granted + 1 /\ granted' = granted + 1
        /\ pc' = [pc EXCEPT ![g] = "load", ![granted + 1] = "top"]
    BY CreateTypes DEF KaRecreate, CreateLease
  <1>2. Keepers = {g} /\ g # granted + 1
    BY <1>1 DEF KeeperInv, OnlyOne, Fresh, Keepers, LeaseTypes, EtcdType, Leases
  <1>3. Keepers' = {granted + 1}
    BY <1>1, <1>2 DEF LeaseTypes, KaType, Keepers
  <1>4. Fresh'
    BY <1>1, <1>2 DEF LeaseTypes, KaType, KeeperInv, Fresh, EtcdType, Leases
  <1> QED
    BY <1>1, <1>3, <1>4 DEF KeeperInv, OnlyOne, KeptWhileOpen, NoneBeforeGrant

(* A goroutine that goes on, and one that leaves or ends.                  *)
LEMMA KeepaliveKeepsOne ==
    ASSUME LeaseTypes, KeeperInv, NEW g \in Leases,
           \/ KaLeave(g) \/ KaKeep(g) \/ KaClosed(g) \/ KaRecreateFails(g)
           \/ KaLoad(g) \/ KaRevoke(g)
    PROVE  KeeperInv'
  <1> USE DEF KaGoto, KaEnd, etcdVars, appVars
  <1>1. /\ UNCHANGED <<granted, shared, done, app>>
        /\ pc[g] # "none" /\ \A h \in Leases \ {g} : pc'[h] = pc[h]
    BY DEF KaLeave, KaKeep, KaClosed, KaRecreateFails, KaLoad, KaRevoke, LeaseTypes, KaType
  <1>2. \/ Keepers' = Keepers
        \/ Keepers' = Keepers \ {g} /\ (done \/ shared = NoLease)
    BY DEF KaLeave, KaKeep, KaClosed, KaRecreateFails, KaLoad, KaRevoke,
           LeaseTypes, KaType, Keepers
  <1>3. Fresh'
    BY <1>1 DEF KeeperInv, Fresh
  <1>4. OnlyOne' /\ KeptWhileOpen' /\ NoneBeforeGrant'
    BY <1>1, <1>2 DEF KeeperInv, OnlyOne, KeptWhileOpen, NoneBeforeGrant, At
  <1> QED
    BY <1>3, <1>4 DEF KeeperInv

(* CloseRevoke takes the lease away, and CloseCancel ends the rule.        *)
LEMMA CloseKeepsOne ==
    ASSUME LeaseTypes, KeeperInv, CloseRevoke \/ CloseCancel PROVE KeeperInv'
  <1>1. UNCHANGED <<granted, pc>> /\ (shared' = NoLease \/ done' = TRUE)
        /\ (At("cancel")' \/ At("closed")')
    BY DEF CloseRevoke, CloseCancel, keepVars, kaVars, etcdVars, Goto, At, LeaseTypes, AppType
  <1> QED
    BY <1>1 DEF KeeperInv, Fresh, OnlyOne, KeptWhileOpen, NoneBeforeGrant, Keepers

(* Every step keeps at most one keeper.                                    *)
LEMMA KeeperInvInductive ==
    ASSUME LeaseTypes, KeeperInv, [Next]_vars PROVE KeeperInv'
  <1> USE DEF vars, etcdVars, appVars, kaVars, keepVars
  <1>1. ASSUME NEW k \in Changing, Register(k) \/ Unregister(k) PROVE KeeperInv'
    <2>1. UNCHANGED <<granted, shared, done, pc>> /\ ~At("cancel") /\ ~At("closed")
      BY <1>1 DEF Register, Unregister, Delete, At
    <2> QED
      BY <2>1, KeeperUntouched
  <1>2. CASE RegisterPut \/ RegisterFails \/ RegisterStore \/ UnregisterStore
             \/ CloseAll \/ CloseUnregister
    <2>1. UNCHANGED <<granted, shared, done, pc>> /\ ~At("cancel") /\ ~At("closed")
      BY <1>2 DEF RegisterPut, RegisterFails, RegisterStore, UnregisterStore, CloseAll,
                  CloseUnregister, Delete, At
    <2> QED
      BY <2>1, KeeperUntouched
  <1>3. ASSUME NEW g \in Leases, KaPut(g) \/ Expire(g) PROVE KeeperInv'
    <2>1. UNCHANGED <<granted, shared, done, pc, app>>
      BY <1>3 DEF KaPut, Expire
    <2> QED
      BY <2>1, KeeperUntouched DEF At
  <1>4. CASE UNCHANGED vars
    BY <1>4, KeeperUntouched DEF At
  <1> QED
    BY <1>1, <1>2, <1>3, <1>4, GrantKeepsOne, RecreateKeepsOne, KeepaliveKeepsOne, CloseKeepsOne
       DEF Next, App, AppStep, Closing, Keepalive

(* createSharedLeaseLocked, runLeaseKeepalive, CloseAll (etcd.go 125-230,  *)
(* 370-404, 464-490): however leases are lost, recreated and revoked while *)
(* the application registers and closes, at most one goroutine keeps a     *)
(* lease alive, and an open registry with a lease has one (OneKeeper).     *)
THEOREM KeeperIsUnique == DiscoverySpec => []OneKeeper
  <1>1. DiscoveryInit => LeaseTypes /\ KeeperInv
    <2> SUFFICES ASSUME Init PROVE LeaseTypes /\ KeeperInv
      BY DEF DiscoveryInit
    <2>1. /\ Keepers = live
          /\ (live = {1} /\ shared = 1) \/ (live = {} /\ shared = NoLease)
      BY BoundsAssumption DEF Init, Keepers, Leases
    <2>2. Fresh
      BY BoundsAssumption DEF Init, Fresh, Leases
    <2>3. OnlyOne /\ KeptWhileOpen /\ NoneBeforeGrant
      BY <2>1 DEF OnlyOne, KeptWhileOpen, NoneBeforeGrant, NoLease
    <2> QED
      BY <2>2, <2>3, LeaseTypesInit DEF KeeperInv
  <1>2. LeaseTypes /\ KeeperInv /\ [DiscoveryNext]_discoveryVars => LeaseTypes' /\ KeeperInv'
    BY OneHalf, LeaseTypesInductive, KeeperInvInductive
  <1>3. KeeperInv => OneKeeper
    <2> SUFFICES ASSUME KeeperInv PROVE Cardinality(Keepers) <= 1
      BY DEF KeeperInv, KeptWhileOpen, OneKeeper
    <2>1. CASE Keepers = {}
      BY <2>1, FS_EmptySet
    <2>2. CASE Keepers # {}
      <3>1. PICK g : Keepers = {g}
        BY <2>2 DEF KeeperInv, OnlyOne
      <3> QED
        BY <3>1, FS_Singleton
    <2> QED
      BY <2>1, <2>2
  <1> QED
    BY <1>1, <1>2, <1>3, PTL DEF DiscoverySpec

-----------------------------------------------------------------------------
(* The lease half: what is left in etcd *)

(* A key that a re-registration has still to put.                          *)
Pending(k) == \E g \in Leases : k \in todo[g]

JustPut(k) == At("store") /\ k \in app.key

GoneOrCrossed ==
    \A k \in Keys \ reg :
        /\ Pending(k) => k \in crossed \/ JustPut(k)
        /\ kv[k] # NoLease => k \in crossed \cup unsure \/ JustPut(k)

RemovedOrCrossed ==
    At("remove") \/ At("closeRemove") =>
        \A k \in app.key : kv[k] # NoLease \/ Pending(k) => k \in crossed

(* UnregisteredGone is not inductive: a key that is absent may be about to *)
(* be put, and one that is registered may be about to be removed.          *)
GoneInv == GoneOrCrossed /\ RemovedOrCrossed

(* Steps that put nothing, and leave the application where it is.          *)
LEMMA GoneUntouched ==
    ASSUME LeaseTypes, GoneInv, UNCHANGED <<reg, app, todo, crossed, unsure>>,
           \A k \in Keys : kv'[k] # NoLease => kv[k] # NoLease
    PROVE  GoneInv'
  <1>1. \A k \in Keys : (Pending(k)' => Pending(k)) /\ (JustPut(k)' <=> JustPut(k))
    BY DEF Pending, JustPut, At
  <1>2. GoneOrCrossed'
    BY <1>1 DEF GoneInv, GoneOrCrossed
  <1>3. RemovedOrCrossed'
    BY <1>1 DEF GoneInv, RemovedOrCrossed, At, LeaseTypes, AppType
  <1> QED
    BY <1>2, <1>3 DEF GoneInv

(* A deletion in etcd brings nothing back, whatever its answer.            *)
LEMMA DeleteGone ==
    ASSUME LeaseTypes, GoneInv, NEW k \in Keys, NEW next \in {"remove", "closeRemove"},
           Delete(k, next), At("idle") \/ At("closing")
    PROVE  GoneInv'
  <1> USE DEF kaVars, GoneInv
  <1>1. CASE UNCHANGED <<kv, app, crossed, unsure>>
    BY <1>1, GoneUntouched DEF Delete
  <1>2. CASE /\ kv' = [kv EXCEPT ![k] = NoLease]
             /\ app' = [app EXCEPT !.pc = next, !.key = {k}]
             /\ crossed' = IF \E g \in Leases : k \in todo[g] THEN crossed \cup {k}
                           ELSE crossed \ {k}
             /\ unsure' = unsure \ {k}
    <2>1. UNCHANGED <<todo, reg>>
      BY DEF Delete
    <2>2. kv'[k] = NoLease /\ (Pending(k)' => k \in crossed')
      BY <1>2, <2>1 DEF Pending, LeaseTypes, EtcdType
    <2>3. \A j \in Keys \ {k} :
             /\ kv'[j] = kv[j] /\ (Pending(j)' <=> Pending(j)) /\ ~JustPut(j)
             /\ (j \in crossed' <=> j \in crossed) /\ (j \in unsure' <=> j \in unsure)
      BY <1>2, <2>1 DEF Pending, JustPut, At, LeaseTypes, EtcdType
    <2>4. app'.key = {k}
      BY <1>2 DEF LeaseTypes, AppType
    <2>5. GoneOrCrossed'
      BY <2>1, <2>2, <2>3 DEF GoneOrCrossed
    <2>6. RemovedOrCrossed'
      BY <2>2, <2>4 DEF RemovedOrCrossed
    <2> QED
      BY <2>5, <2>6
  <1>3. CASE /\ kv' = [kv EXCEPT ![k] = NoLease] /\ UNCHANGED <<app, crossed>>
             /\ unsure' = IF At("idle") /\ k \in reg THEN unsure \cup {k} ELSE unsure \ {k}
    <2>1. UNCHANGED <<todo, reg>>
      BY DEF Delete
    <2>2. \A j \in Keys : /\ (Pending(j)' <=> Pending(j)) /\ (JustPut(j)' <=> JustPut(j))
                          /\ kv'[j] # NoLease => kv[j] # NoLease /\ j # k
      BY <1>3, <2>1 DEF Pending, JustPut, At, LeaseTypes, EtcdType
    <2>3. \A j \in Keys \ {k} : j \in unsure' <=> j \in unsure
      BY <1>3
    <2>4. GoneOrCrossed'
      BY <1>3, <2>1, <2>2, <2>3 DEF GoneOrCrossed
    <2> QED
      BY <1>3, <2>2, <2>4 DEF RemovedOrCrossed, At
  <1> QED
    BY <1>1, <1>2, <1>3 DEF Delete

(* Register's Put clears the marks, and when it got an error all the same  *)
(* it leaves one.                                                          *)
LEMMA PutsGone ==
    ASSUME LeaseTypes, GoneInv, RegisterPut \/ RegisterFails PROVE GoneInv'
  <1> USE DEF GoneInv, etcdVars, kaVars, keepVars
  <1>1. CASE RegisterPut
    <2>1. PICK k \in app.key : Put(k, app.lease)
      BY <1>1 DEF RegisterPut
    <2>2. /\ app' = [app EXCEPT !.pc = "store"] /\ crossed' = crossed \ app.key
          /\ unsure' = unsure \ app.key /\ UNCHANGED <<reg, todo>> /\ At("put")
      BY <1>1 DEF RegisterPut, Goto
    <2>3. At("store")' /\ app'.key = app.key
      BY <2>2 DEF At, LeaseTypes, AppType
    <2>4. \A j \in Keys \ app.key : (Pending(j)' <=> Pending(j)) /\ kv'[j] = kv[j]
      BY <2>1, <2>2 DEF Pending, Put, LeaseTypes, EtcdType
    <2>5. \A j \in Keys : ~JustPut(j) /\ (j \in app.key => JustPut(j)')
      BY <2>2, <2>3 DEF JustPut, At
    <2>6. GoneOrCrossed'
      BY <2>2, <2>4, <2>5 DEF GoneOrCrossed
    <2> QED
      BY <2>3, <2>6 DEF RemovedOrCrossed, At
  <1>2. CASE RegisterFails
    <2>1. UNCHANGED <<reg, todo, crossed>> /\ At("put") /\ At("idle")'
      BY <1>2 DEF RegisterFails, Return, At
    <2>2. \/ UNCHANGED <<kv, unsure>>
          \/ /\ \E k \in app.key : Put(k, app.lease)
             /\ unsure' = (unsure \ app.key) \cup (app.key \ reg)
      BY <1>2 DEF RegisterFails
    <2>3. \A j \in Keys \ reg : (j \in unsure => j \in unsure')
                                /\ (kv'[j] # NoLease => kv[j] # NoLease \/ j \in unsure')
      BY <2>2 DEF Put, LeaseTypes, EtcdType
    <2>4. \A j \in Keys : (Pending(j)' <=> Pending(j)) /\ ~JustPut(j)
      BY <2>1 DEF Pending, JustPut, At
    <2>5. GoneOrCrossed'
      BY <2>1, <2>3, <2>4 DEF GoneOrCrossed
    <2> QED
      BY <2>1, <2>5 DEF RemovedOrCrossed, At
  <1> QED
    BY <1>1, <1>2

(* Register's store adds the key, and Unregister's takes it away.          *)
LEMMA StoresGone ==
    ASSUME LeaseTypes, GoneInv, RegisterStore \/ UnregisterStore PROVE GoneInv'
  <1> USE DEF GoneInv, etcdVars, kaVars, keepVars
  <1>1. CASE RegisterStore
    <2>1. /\ reg' = reg \cup app.key /\ crossed \subseteq crossed'
          /\ UNCHANGED <<kv, todo, unsure>> /\ At("idle")'
      BY <1>1 DEF RegisterStore, Return, At
    <2>2. \A j \in Keys : (Pending(j)' <=> Pending(j)) /\ (JustPut(j) => j \in reg')
      BY <2>1 DEF Pending, JustPut
    <2>3. GoneOrCrossed'
      BY <2>1, <2>2 DEF GoneOrCrossed
    <2> QED
      BY <2>1, <2>3 DEF RemovedOrCrossed, At
  <1>2. CASE UnregisterStore
    <2>4. At("idle")' \/ At("closing")'
      <3>1. \/ app' = [pc |-> "idle", key |-> {}, lease |-> NoLease]
            \/ app' = [app EXCEPT !.pc = "closing", !.key = {}]
        BY <1>2 DEF UnregisterStore, Return
      <3>2. CASE app' = [app EXCEPT !.pc = "closing", !.key = {}]
        BY <3>2 DEF LeaseTypes, AppType, At
      <3> QED
        BY <3>1, <3>2 DEF At
    <2>1. /\ reg' = reg \ app.key /\ UNCHANGED <<kv, todo, crossed, unsure>>
          /\ At("remove") \/ At("closeRemove")
          /\ At("idle")' \/ At("closing")'
      BY <1>2, <2>4 DEF UnregisterStore, At
    <2>2. \A j \in Keys : (Pending(j)' <=> Pending(j)) /\ ~JustPut(j)
      BY <2>1 DEF Pending, JustPut, At
    <2>3. GoneOrCrossed'
      BY <2>1, <2>2 DEF GoneOrCrossed, RemovedOrCrossed
    <2> QED
      BY <2>1, <2>3 DEF RemovedOrCrossed, At
  <1> QED
    BY <1>1, <1>2

(* A re-registration loads what is registered, and puts it.                *)
LEMMA ReregisterGone ==
    ASSUME LeaseTypes, GoneInv, NEW g \in Leases, KaLoad(g) \/ KaPut(g)
    PROVE  GoneInv'
  <1> USE DEF GoneInv, etcdVars, appVars
  <1>1. CASE KaLoad(g)
    <2>1. /\ todo' = [todo EXCEPT ![g] = reg] /\ UNCHANGED <<kv, reg, app, unsure>>
          /\ crossed \subseteq crossed'
          /\ At("remove") \/ At("closeRemove") => app.key \subseteq crossed'
      BY <1>1 DEF KaLoad
    <2>2. \A k \in Keys \ reg : (Pending(k)' => Pending(k)) /\ (JustPut(k)' <=> JustPut(k))
      BY <2>1 DEF Pending, JustPut, At, LeaseTypes, KaType
    <2>3. GoneOrCrossed'
      BY <2>1, <2>2 DEF GoneOrCrossed
    <2> QED
      BY <2>1, <2>3 DEF RemovedOrCrossed, At
  <1>2. CASE KaPut(g)
    <2>1. PICK k \in todo[g] : /\ todo' = [todo EXCEPT ![g] = @ \ {k}]
                               /\ \/ UNCHANGED <<kv, unsure>>
                                  \/ Put(k, new[g]) /\ unsure' = unsure \ {k}
      BY <1>2 DEF KaPut
    <2>2. UNCHANGED <<reg, app, crossed>>
      BY <1>2 DEF KaPut
    <2>3. \A j \in Keys : (Pending(j)' => Pending(j)) /\ (JustPut(j)' <=> JustPut(j))
      BY <2>1, <2>2 DEF Pending, JustPut, At, LeaseTypes, KaType
    <2>4. Pending(k) /\ k \in Keys
      BY DEF Pending, LeaseTypes, KaType
    <2>5. \A j \in Keys \ {k} : (kv'[j] = kv[j]) /\ (j \in unsure' <=> j \in unsure)
      BY <2>1 DEF Put, LeaseTypes, EtcdType
    <2>6. GoneOrCrossed'
      BY <2>2, <2>3, <2>4, <2>5 DEF GoneOrCrossed
    <2>7. RemovedOrCrossed'
      <3>1. app.key \subseteq Keys
        BY DEF LeaseTypes, AppType
      <3> QED
        BY <2>2, <2>3, <2>4, <2>5, <3>1 DEF RemovedOrCrossed, At
    <2> QED
      BY <2>6, <2>7
  <1> QED
    BY <1>1, <1>2

(* No step brings an unregistered key back.                                *)
LEMMA GoneInvInductive ==
    ASSUME LeaseTypes, GoneInv, [Next]_vars PROVE GoneInv'
  <1> USE DEF vars, etcdVars, appVars, kaVars, keepVars
  <1>1. ASSUME NEW k \in Changing, Register(k) \/ RegisterGrants(k) PROVE GoneInv'
    <2>1. UNCHANGED <<kv, reg, todo, crossed, unsure>> /\ At("idle") /\ At("put")'
      BY <1>1 DEF Register, RegisterGrants, At
    <2>2. \A j \in Keys : (Pending(j)' <=> Pending(j)) /\ ~JustPut(j)
      BY <2>1 DEF Pending, JustPut, At
    <2>3. GoneOrCrossed'
      BY <2>1, <2>2 DEF GoneInv, GoneOrCrossed
    <2> QED
      BY <2>1, <2>3 DEF GoneInv, RemovedOrCrossed, At
  <1>2. CASE CloseAll \/ CloseRevoke \/ CloseCancel
    <2>1. /\ UNCHANGED <<reg, todo, crossed>> /\ ~At("store")
          /\ At("closing")' \/ At("cancel")' \/ At("closed")'
          /\ \A j \in Keys \ reg : j \in unsure => j \in unsure'
      BY <1>2 DEF CloseAll, CloseRevoke, CloseCancel, At, Goto, LeaseTypes, AppType
    <2>2. \A j \in Keys : /\ (Pending(j)' <=> Pending(j)) /\ ~JustPut(j)
                          /\ kv'[j] # NoLease => kv[j] # NoLease
      BY <1>2, <2>1 DEF CloseAll, CloseRevoke, CloseCancel, Drop, Pending, JustPut
    <2>3. GoneOrCrossed'
      BY <2>1, <2>2 DEF GoneInv, GoneOrCrossed
    <2> QED
      BY <2>1, <2>3 DEF GoneInv, RemovedOrCrossed, At
  <1>3. CASE \/ CloseUnregister \/ \E k \in Changing : Unregister(k)
    BY <1>3, DeleteGone, KeysAssumption DEF CloseUnregister, Unregister, LeaseTypes, AppType
  <1>4. ASSUME NEW g \in Leases,
               \/ KaLeave(g) \/ KaKeep(g) \/ KaClosed(g) \/ KaRecreate(g)
               \/ KaRecreateFails(g) \/ KaRevoke(g) \/ Expire(g)
        PROVE  GoneInv'
    <2>1. UNCHANGED <<reg, app, todo, crossed, unsure>>
      BY <1>4 DEF KaLeave, KaKeep, KaClosed, KaRecreate, KaRecreateFails, KaRevoke, Expire
    <2>2. \A k \in Keys : kv'[k] # NoLease => kv[k] # NoLease
      BY <1>4 DEF KaLeave, KaKeep, KaClosed, KaRecreate, KaRecreateFails, KaRevoke, Expire, Drop
    <2> QED
      BY <2>1, <2>2, GoneUntouched
  <1>5. CASE UNCHANGED vars
    BY <1>5, GoneUntouched
  <1> QED
    BY <1>1, <1>2, <1>3, <1>4, <1>5, PutsGone, StoresGone, ReregisterGone
       DEF Next, App, AppStep, Closing, Keepalive

(* Unregister, recreateLeaseAndReregister (etcd.go 189-230, 429-457): an   *)
(* actor that is not registered has no key in etcd, however leases are     *)
(* lost and recreated around its Unregister and whatever calls fail,       *)
(* unless a re-registration had loaded it before, or its Register got an   *)
(* error although its Put took effect (UnregisteredGone, the safety half   *)
(* of RegistryFollows).                                                    *)
THEOREM UnregisteredStaysGone == DiscoverySpec => []UnregisteredGone
  <1>1. DiscoveryInit => LeaseTypes /\ GoneInv
    <2> SUFFICES ASSUME Init PROVE LeaseTypes /\ GoneInv
      BY DEF DiscoveryInit
    <2>1. GoneOrCrossed /\ RemovedOrCrossed
      BY DEF Init, GoneOrCrossed, RemovedOrCrossed, Pending, At
    <2> QED
      BY <2>1, LeaseTypesInit DEF GoneInv
  <1>2. LeaseTypes /\ GoneInv /\ [DiscoveryNext]_discoveryVars => LeaseTypes' /\ GoneInv'
    BY OneHalf, LeaseTypesInductive, GoneInvInductive
  <1>3. GoneInv => UnregisteredGone
    BY DEF GoneInv, GoneOrCrossed, JustPut, UnregisteredGone
  <1> QED
    BY <1>1, <1>2, <1>3, PTL DEF DiscoverySpec

-----------------------------------------------------------------------------
(* The cache half: what the group is told *)

Events == [id : Ids, cfg : Configs \cup {Absent}]

Lost(i) == \A n \in 1 .. Len(wq) : wq[n].id # i

QueueType ==
    /\ store \in [Ids -> Configs \cup {Absent}] /\ told \in [Ids -> Configs \cup {Absent}]
    /\ wq \in Seq(Events)

QueueWhileWatching == wpc \notin {"on", "handle"} => wq = <<>>
HandlesOne == wpc = "handle" => wq # <<>>

(* The last event of an actor on its way bears what etcd holds.            *)
LastIsPresent ==
    \A n \in 1 .. Len(wq) :
        (\A m \in n + 1 .. Len(wq) : wq[m].id # wq[n].id) => wq[n].cfg = store[wq[n].id]

(* What is not on its way was told; but a watch that is cancelled drops    *)
(* its events, and then there is no watch again.                           *)
Cancelled == stopped /\ wpc \in {"down", "gone"}

ToldUnlessSilent ==
    ~Cancelled => \A i \in Ids \ silent : Lost(i) => told[i] = store[i]

(* GroupTold speaks of an empty queue only: the queue's content is what    *)
(* makes it inductive.                                                     *)
ToldInv == QueueType /\ QueueWhileWatching /\ HandlesOne /\ LastIsPresent /\ ToldUnlessSilent

(* A change of actor i in etcd, by another process or by a call.           *)
LEMMA WriteTold ==
    ASSUME ToldInv, NEW i \in Ids, NEW c \in Configs \cup {Absent}, Write(i, c),
           silent' = silent \cup Unseen(i), UNCHANGED <<wpc, stopped, told>>
    PROVE  ToldInv'
  <1> USE DEF ToldInv
  <1>1. store' = [store EXCEPT ![i] = c] /\ wq' = IF Watching THEN Append(wq, Entry(i, c)) ELSE wq
    BY DEF Write, Send
  <1>2. CASE Watching
    <2>1. wq' = Append(wq, Entry(i, c)) /\ UNCHANGED silent
      BY <1>1, <1>2 DEF Unseen
    <2>7. Entry(i, c) \in Events /\ Entry(i, c).id = i /\ Entry(i, c).cfg = c
      BY DEF Entry, Events
    <2>2. QueueType'
      BY <1>1, <2>1, <2>7, AppendProperties DEF QueueType
    <2>8. \A n \in 1 .. Len(wq) : wq[n].id \in Ids
      <3>1. \A n \in 1 .. Len(wq) : wq[n] \in Events
        BY ElementOfSeq DEF QueueType
      <3> QED
        BY <3>1 DEF Events
    <2>9. /\ Len(wq') = Len(wq) + 1 /\ Len(wq) \in Nat
          /\ wq'[Len(wq) + 1] = Entry(i, c)
          /\ \A n \in 1 .. Len(wq) : wq'[n] = wq[n]
      BY <2>1, <2>7, AppendProperties, LenProperties DEF QueueType
    <2>3. /\ Len(wq') = Len(wq) + 1 /\ Len(wq) \in Nat
          /\ wq'[Len(wq) + 1].id = i /\ wq'[Len(wq) + 1].cfg = c
          /\ \A n \in 1 .. Len(wq) : wq'[n] = wq[n] /\ wq[n].id \in Ids
      BY <2>7, <2>8, <2>9
    <2>4. QueueWhileWatching' /\ HandlesOne'
      BY <1>2, <2>3 DEF QueueWhileWatching, HandlesOne, Watching
    <2>5. LastIsPresent'
      <3> SUFFICES ASSUME NEW n \in 1 .. Len(wq) + 1,
                          \A m \in n + 1 .. Len(wq) + 1 : wq'[m].id # wq'[n].id
                   PROVE  wq'[n].cfg = store'[wq'[n].id]
        BY <2>3 DEF LastIsPresent
      <3>1. CASE n = Len(wq) + 1
        BY <3>1, <1>1, <2>3 DEF QueueType
      <3>2. CASE n \in 1 .. Len(wq)
        <4>1. wq[n].id # i
          BY <3>2, <2>3
        <4>2. \A m \in n + 1 .. Len(wq) : wq[m].id # wq[n].id
          BY <3>2, <2>3
        <4>3. wq[n].cfg = store[wq[n].id]
          BY <3>2, <4>2 DEF LastIsPresent
        <4> QED
          BY <3>2, <4>1, <4>3, <1>1, <2>3 DEF QueueType
      <3> QED
        BY <3>1, <3>2, <2>3
    <2>6. ToldUnlessSilent'
      <3> SUFFICES ASSUME ~Cancelled, NEW j \in Ids \ silent, Lost(j)' PROVE told[j] = store'[j]
        BY <2>1 DEF ToldUnlessSilent, Cancelled
      <3>1. j # i /\ Lost(j)
        BY <2>3 DEF Lost
      <3> QED
        BY <3>1, <1>1 DEF ToldUnlessSilent, QueueType
    <2> QED
      BY <2>2, <2>4, <2>5, <2>6
  <1>3. CASE ~Watching
    <2>1. wq = <<>> /\ wq' = <<>> /\ silent' = silent \cup {i}
      BY <1>1, <1>3 DEF QueueWhileWatching, Watching, Unseen
    <2>2. QueueType' /\ QueueWhileWatching' /\ HandlesOne' /\ LastIsPresent'
      BY <1>1, <1>3, <2>1 DEF QueueType, QueueWhileWatching, HandlesOne, LastIsPresent, Watching
    <2>3. ToldUnlessSilent'
      BY <1>1, <2>1 DEF ToldUnlessSilent, Lost, Cancelled, QueueType
    <2> QED
      BY <2>2, <2>3
  <1> QED
    BY <1>2, <1>3

(* HandleStore: the first event is told, or the channel is full.           *)
LEMMA HandleTold == ASSUME ToldInv, HandleStore PROVE ToldInv'
  <1> USE DEF ToldInv
  <1> DEFINE e == wq[1]
  <1>1. /\ wpc = "handle" /\ wpc' = "on" /\ wq' = Tail(wq) /\ wq # <<>> /\ Notify(e)
        /\ UNCHANGED <<store, stopped>>
    BY DEF HandleStore, etcdSide, HandlesOne, Head
  <1>2. /\ Len(wq) \in Nat \ {0} /\ Len(wq') = Len(wq) - 1
        /\ wq' \in Seq(Events)
        /\ \A n \in 1 .. Len(wq) - 1 : wq'[n] = wq[n + 1]
        /\ e \in Events
    BY <1>1, EmptySeq, HeadTailProperties, ElementOfSeq DEF QueueType
  <1>7. e.id \in Ids /\ e.cfg \in Configs \cup {Absent}
    BY <1>2 DEF Events
  <1>3. QueueType'
    BY <1>1, <1>2, <1>7 DEF QueueType, Notify
  <1>4. QueueWhileWatching' /\ HandlesOne'
    BY <1>1 DEF QueueWhileWatching, HandlesOne
  <1>5. LastIsPresent'
    <2> SUFFICES ASSUME NEW n \in 1 .. Len(wq) - 1,
                        \A m \in n + 1 .. Len(wq) - 1 : wq'[m].id # wq'[n].id
                 PROVE  wq'[n].cfg = store[wq'[n].id]
      BY <1>1, <1>2 DEF LastIsPresent
    <2>1. n + 1 \in 1 .. Len(wq) /\ wq'[n] = wq[n + 1]
      BY <1>2
    <2>2. ASSUME NEW m \in n + 2 .. Len(wq) PROVE wq[m].id # wq[n + 1].id
      <3>1. m - 1 \in n + 1 .. Len(wq) - 1 /\ wq'[m - 1] = wq[m]
        BY <1>2
      <3> QED
        BY <2>1, <3>1
    <2>3. \A m \in (n + 1) + 1 .. Len(wq) : wq[m].id # wq[n + 1].id
      BY <2>2
    <2> QED
      BY <2>1, <2>3 DEF LastIsPresent
  <1>6. ToldUnlessSilent'
    <2> SUFFICES ASSUME NEW i \in Ids \ silent', Lost(i)' PROVE told'[i] = store[i]
      BY <1>1 DEF ToldUnlessSilent
    <2>1. \A m \in 2 .. Len(wq) : wq[m].id # i
      <3> SUFFICES ASSUME NEW m \in 2 .. Len(wq) PROVE wq[m].id # i
        OBVIOUS
      <3>1. m - 1 \in 1 .. Len(wq) - 1 /\ wq'[m - 1] = wq[m]
        BY <1>2
      <3> QED
        BY <3>1, <1>2 DEF Lost
    <2>2. CASE i = e.id
      <3>1. e.cfg = store[i]
        BY <2>1, <2>2, <1>2 DEF LastIsPresent
      <3> QED
        BY <3>1, <2>2, <1>1, <1>7 DEF Notify, QueueType
    <2>3. CASE i # e.id
      <3>1. Lost(i)
        BY <2>1, <2>3, <1>2 DEF Lost
      <3>2. i \notin silent /\ told'[i] = told[i]
        BY <2>3, <1>1 DEF Notify, QueueType
      <3> QED
        BY <3>1, <3>2, <1>1 DEF ToldUnlessSilent, Cancelled
    <2> QED
      BY <2>2, <2>3
  <1> QED
    BY <1>3, <1>4, <1>5, <1>6

(* Steps that lose the queue, or never had one.                            *)
LEMMA QueueGoneTold ==
    ASSUME ToldInv, UNCHANGED <<store, told, stopped>>, wq' = <<>>, wpc' # "handle",
           wpc' # wpc => wq # <<>> \/ wpc \notin {"down", "gone"} \/ ~stopped \/ wpc' = "gone",
           \/ Cancelled' \/ silent' = Ids
           \/ silent \cup {wq[n].id : n \in 1 .. Len(wq)} \subseteq silent'
    PROVE  ToldInv'
  <1> USE DEF ToldInv
  <1>1. QueueType' /\ QueueWhileWatching' /\ HandlesOne' /\ LastIsPresent'
    BY DEF QueueType, QueueWhileWatching, HandlesOne, LastIsPresent
  <1>2. ToldUnlessSilent'
    <2> SUFFICES ASSUME ~Cancelled', NEW i \in Ids \ silent' PROVE told[i] = store[i]
      BY DEF ToldUnlessSilent
    <2>1. Lost(i) /\ i \notin silent
      BY DEF Lost
    <2>2. ~Cancelled
      BY DEF Cancelled, QueueWhileWatching
    <2> QED
      BY <2>1, <2>2 DEF ToldUnlessSilent
  <1> QED
    BY <1>1, <1>2

(* Steps that are not about events.                                        *)
LEMMA ToldUntouched ==
    ASSUME ToldInv, UNCHANGED <<store, told, wq, silent, wpc>>, stopped => stopped' PROVE ToldInv'
  BY DEF ToldInv, QueueType, QueueWhileWatching, HandlesOne, LastIsPresent, ToldUnlessSilent,
         Cancelled, Lost

(* Every step leaves the group told or about to be.                        *)
LEMMA ToldInvInductive == ASSUME ToldInv, [CacheNext]_cacheVars PROVE ToldInv'
  <1> USE DEF cacheVars, etcdSide, watchSide, pollSide
  <1>1. ASSUME NEW i \in Ids, NEW c \in Configs \cup {Absent}, EtcdChange(i, c) PROVE ToldInv'
    BY <1>1, WriteTold DEF EtcdChange
  <1>2. ASSUME NEW i \in Own, NEW c \in Configs \cup {Absent}, CallWrite(i, c) PROVE ToldInv'
    BY <1>2, WriteTold, CacheAssumption DEF CallWrite
  <1>3. CASE WatchStart \/ WatchSleep \/ WatchLeave \/ LoadGet \/ LoadStore \/ LoadFails
    <2>2. /\ UNCHANGED <<store, told, stopped>> /\ wq' \in {wq, <<>>} /\ wpc' # "handle"
          /\ wpc \notin {"on", "handle"} /\ (wpc \in {"down", "gone"} => ~stopped \/ wpc' = "gone")
      BY <1>3 DEF WatchStart, WatchSleep, WatchLeave, LoadGet, LoadStore, LoadFails, MayLoad,
                  StoreCache
    <2>3. silent' = silent \/ silent' = Ids
      BY <1>3 DEF WatchStart, WatchSleep, WatchLeave, LoadGet, LoadStore, LoadFails
    <2>4. wq = <<>> /\ wq' = <<>>
      BY <2>2 DEF ToldInv, QueueWhileWatching
    <2> QED
      BY <2>2, <2>3, <2>4, QueueGoneTold
  <1>4. CASE WatchBreaks
    <2>1. /\ UNCHANGED <<store, told, stopped>> /\ wq' = <<>> /\ wpc = "on" /\ wpc' = "down"
          /\ silent' = silent \cup IdsOf(wq)
      BY <1>4 DEF WatchBreaks
    <2>2. IdsOf(wq) = {wq[n].id : n \in 1 .. Len(wq)}
      BY DEF ToldInv, QueueType, IdsOf
    <2> QED
      BY <2>1, <2>2, QueueGoneTold
  <1>5. CASE WatchClosed
    BY <1>5, QueueGoneTold DEF WatchClosed, Cancelled
  <1>6. CASE HandleLoad
    BY <1>6 DEF HandleLoad, ToldInv, QueueType, QueueWhileWatching, HandlesOne, LastIsPresent,
                ToldUnlessSilent, Cancelled, Lost
  <1>7. CASE \/ GroupTakes \/ CallLoad \/ CallStore \/ Cancel \/ UNCHANGED cacheVars
             \/ \E p \in Pollers : PollRead(p) \/ PollTake(p)
    <2>1. UNCHANGED <<store, told, wq, silent, wpc>> /\ (stopped => stopped')
      BY <1>7 DEF GroupTakes, CallLoad, CallStore, Cancel, PollRead, PollTake
    <2> QED
      BY <2>1, ToldUntouched
  <1> QED
    BY <1>1, <1>2, <1>3, <1>4, <1>5, <1>6, <1>7, HandleTold DEF CacheNext, WatchStep, CallStep

-----------------------------------------------------------------------------
(* The cache half: lists of entries *)

Entries == [id : Ids, cfg : Configs]

(* What the cache may be: no actor is in it twice.                         *)
IsList(l) == l \in Seq(Entries) /\ \A m, n \in 1 .. Len(l) : l[m].id = l[n].id => m = n

(* A list is read by position.                                             *)
LEMMA ListReads ==
    ASSUME NEW l, IsList(l)
    PROVE  /\ Len(l) \in Nat /\ DOMAIN l = 1 .. Len(l)
           /\ \A n \in 1 .. Len(l) : l[n] \in Entries /\ l[n].id \in Ids /\ l[n].cfg \in Configs
           /\ \A n \in 1 .. Len(l) : l[n] = Entry(l[n].id, l[n].cfg)
           /\ \A i : i \in IdsOf(l) <=> \E n \in 1 .. Len(l) : l[n].id = i
           /\ \A i : \A n \in 1 .. Len(l) : l[n].id = i => CfgIn(l, i) = l[n].cfg
           /\ \A i : (\A n \in 1 .. Len(l) : l[n].id # i) => CfgIn(l, i) = Absent
  <1>1. l \in Seq(Entries) /\ Len(l) \in Nat /\ DOMAIN l = 1 .. Len(l)
    BY LenProperties DEF IsList
  <1>2. \A n \in 1 .. Len(l) : l[n] \in Entries
    BY <1>1, ElementOfSeq
  <1>3. \A n \in 1 .. Len(l) : l[n].id \in Ids /\ l[n].cfg \in Configs
    BY <1>2 DEF Entries
  <1>4. \A n \in 1 .. Len(l) : l[n] = Entry(l[n].id, l[n].cfg)
    BY <1>2 DEF Entries, Entry
  <1>5. \A i : i \in IdsOf(l) <=> \E n \in 1 .. Len(l) : l[n].id = i
    BY <1>1 DEF IdsOf
  <1>6. ASSUME NEW i, NEW n \in 1 .. Len(l), l[n].id = i PROVE CfgIn(l, i) = l[n].cfg
    <2> DEFINE e == CHOOSE e \in ToSet(l) : e.id = i
    <2>1. ToSet(l) = {l[m] : m \in 1 .. Len(l)}
      BY <1>1 DEF ToSet
    <2>2. e \in ToSet(l) /\ e.id = i
      BY <1>6, <2>1
    <2>3. PICK m \in 1 .. Len(l) : e = l[m]
      BY <2>1, <2>2
    <2>4. m = n
      BY <1>6, <2>2, <2>3 DEF IsList
    <2>5. CfgIn(l, i) = e.cfg
      BY <1>5, <1>6 DEF CfgIn
    <2> QED
      BY <2>3, <2>4, <2>5
  <1>7. ASSUME NEW i, \A n \in 1 .. Len(l) : l[n].id # i PROVE CfgIn(l, i) = Absent
    BY <1>5, <1>7 DEF CfgIn
  <1> QED
    BY <1>1, <1>2, <1>3, <1>4, <1>5, <1>6, <1>7

(* r is the list l with actor i set to c, and nothing else changed; and    *)
(* the actors keep their places if they are the same.                      *)
Edit(r, l, i, c) ==
    /\ IsList(r)
    /\ CfgIn(r, i) = c
    /\ \A j \in Ids \ {i} : CfgIn(r, j) = CfgIn(l, j)

SamePlaces(r, l) == Len(r) = Len(l) /\ \A n \in 1 .. Len(l) : r[n].id = l[n].id

(* handlePut and Register: an actor that is missing goes to the end.       *)
LEMMA AppendEdits ==
    ASSUME NEW l, IsList(l), NEW i \in Ids, NEW c \in Configs, i \notin IdsOf(l)
    PROVE  /\ Edit(Append(l, Entry(i, c)), l, i, c)
           /\ i \in IdsOf(Append(l, Entry(i, c)))
  <1> DEFINE r == Append(l, Entry(i, c))
  <1>1. Entry(i, c) \in Entries /\ Entry(i, c).id = i /\ Entry(i, c).cfg = c
    BY DEF Entry, Entries
  <1>2. /\ r \in Seq(Entries) /\ Len(r) = Len(l) + 1 /\ r[Len(l) + 1] = Entry(i, c)
        /\ \A n \in 1 .. Len(l) : r[n] = l[n]
    BY <1>1, AppendProperties DEF IsList
  <1> HIDE DEF r
  <1>3. Len(l) \in Nat /\ \A n \in 1 .. Len(l) : l[n].id # i
    BY ListReads
  <1>4. IsList(r)
    <2> SUFFICES ASSUME NEW m \in 1 .. Len(r), NEW n \in 1 .. Len(r), r[m].id = r[n].id
                 PROVE  m = n
      BY <1>2 DEF IsList
    <2>1. CASE m \in 1 .. Len(l) /\ n \in 1 .. Len(l)
      BY <1>2, <2>1 DEF IsList
    <2>2. CASE m = Len(l) + 1 \/ n = Len(l) + 1
      <3>1. \A k \in 1 .. Len(r) : k # Len(l) + 1 => k \in 1 .. Len(l)
        BY <1>2, <1>3
      <3> QED
        BY <1>1, <1>2, <1>3, <2>2, <3>1
    <2> QED
      BY <1>2, <1>3, <2>1, <2>2
  <1>5. Len(l) + 1 \in 1 .. Len(r) /\ r[Len(l) + 1].id = i /\ r[Len(l) + 1].cfg = c
    BY <1>1, <1>2, <1>3
  <1>6. CfgIn(r, i) = c /\ i \in IdsOf(r)
    BY <1>4, <1>5, ListReads
  <1>7. ASSUME NEW j \in Ids \ {i} PROVE CfgIn(r, j) = CfgIn(l, j)
    <2>1. CASE \E n \in 1 .. Len(l) : l[n].id = j
      <3>1. PICK n \in 1 .. Len(l) : l[n].id = j
        BY <2>1
      <3>2. n \in 1 .. Len(r) /\ r[n] = l[n]
        BY <1>2, <1>3
      <3>3. CfgIn(l, j) = l[n].cfg
        BY <3>1, ListReads
      <3>4. CfgIn(r, j) = r[n].cfg
        BY <1>4, <3>1, <3>2, ListReads
      <3> QED
        BY <3>2, <3>3, <3>4
    <2>2. CASE \A n \in 1 .. Len(l) : l[n].id # j
      <3>1. \A n \in 1 .. Len(r) : r[n].id # j
        <4> SUFFICES ASSUME NEW n \in 1 .. Len(r) PROVE r[n].id # j
          OBVIOUS
        <4>1. n \in 1 .. Len(l) \/ n = Len(l) + 1
          BY <1>2, <1>3
        <4> QED
          BY <1>2, <1>5, <2>2, <4>1
      <3> QED
        BY <1>4, <2>2, <3>1, ListReads
    <2> QED
      BY <2>1, <2>2
  <1> QED
    BY <1>4, <1>6, <1>7 DEF Edit, r

(* handlePut: an actor that is there keeps its place.                      *)
LEMMA ReplaceEdits ==
    ASSUME NEW l, IsList(l), NEW i \in Ids, NEW c \in Configs, i \in IdsOf(l)
    PROVE  Edit(PutEntry(l, i, c), l, i, c) /\ SamePlaces(PutEntry(l, i, c), l)
  <1> DEFINE r == PutEntry(l, i, c)
  <1>1. Entry(i, c) \in Entries /\ Entry(i, c).id = i /\ Entry(i, c).cfg = c
    BY DEF Entry, Entries
  <1>2. /\ Len(l) \in Nat /\ DOMAIN l = 1 .. Len(l)
        /\ \A n \in 1 .. Len(l) : l[n] \in Entries /\ l[n].id \in Ids /\ l[n].cfg \in Configs
    BY ListReads
  <1>3. r = [n \in 1 .. Len(l) |-> IF l[n].id = i THEN Entry(i, c) ELSE l[n]]
    BY <1>2 DEF PutEntry
  <1> HIDE DEF r
  <1>4. r \in Seq(Entries) /\ Len(r) = Len(l)
    <2>1. r \in [1 .. Len(l) -> Entries]
      BY <1>1, <1>2, <1>3
    <2>2. r \in Seq(Entries)
      BY <1>2, <2>1
    <2> QED
      BY <1>2, <2>1, <2>2, LenProperties
  <1>5. \A n \in 1 .. Len(l) : /\ r[n].id = l[n].id
                               /\ l[n].id = i => r[n].cfg = c
                               /\ l[n].id # i => r[n] = l[n]
    BY <1>1, <1>3
  <1>6. IsList(r) /\ SamePlaces(r, l)
    BY <1>4, <1>5 DEF IsList, SamePlaces
  <1>7. CfgIn(r, i) = c
    <2>1. PICK n \in 1 .. Len(l) : l[n].id = i
      BY ListReads
    <2> QED
      BY <1>4, <1>5, <1>6, <2>1, ListReads
  <1>8. ASSUME NEW j \in Ids \ {i} PROVE CfgIn(r, j) = CfgIn(l, j)
    <2>1. CASE \E n \in 1 .. Len(l) : l[n].id = j
      <3>1. PICK n \in 1 .. Len(l) : l[n].id = j
        BY <2>1
      <3>2. CfgIn(l, j) = l[n].cfg
        BY <3>1, ListReads
      <3>3. CfgIn(r, j) = r[n].cfg
        BY <1>4, <1>5, <1>6, <3>1, ListReads
      <3> QED
        BY <1>5, <3>1, <3>2, <3>3
    <2>2. CASE \A n \in 1 .. Len(l) : l[n].id # j
      BY <1>4, <1>5, <1>6, <2>2, ListReads
    <2> QED
      BY <2>1, <2>2
  <1> QED
    BY <1>6, <1>7, <1>8 DEF Edit, r

(* handleDelete, Unregister: the entry is cut out, if there is one.        *)
LEMMA RemoveEdits ==
    ASSUME NEW l, IsList(l), NEW i \in Ids
    PROVE  /\ Edit(RemoveEntry(l, i), l, i, Absent)
           /\ i \notin IdsOf(RemoveEntry(l, i))
           /\ i \notin IdsOf(l) => RemoveEntry(l, i) = l
  <1>1. /\ Len(l) \in Nat /\ l \in Seq(Entries)
        /\ \A n \in 1 .. Len(l) : l[n] \in Entries
    BY ListReads DEF IsList
  <1>2. CASE i \notin IdsOf(l)
    <2>1. \A n \in 1 .. Len(l) : l[n].id # i
      BY <1>2, ListReads
    <2>2. RemoveEntry(l, i) = l
      BY <2>1 DEF RemoveEntry, RemoveFirstMatch
    <2> QED
      BY <1>2, <2>1, <2>2, ListReads DEF Edit
  <1>3. CASE i \in IdsOf(l)
    <2> DEFINE r == RemoveEntry(l, i)
    <2>1. PICK k \in 1 .. Len(l) : l[k].id = i
      BY <1>3, ListReads
    <2>2. r = RemoveAt(l, k)
      <3>1. {n \in 1 .. Len(l) : l[n].id = i} = {k}
        BY <2>1 DEF IsList
      <3>2. Min({k}) = k
        BY <1>1, <2>1 DEF Min
      <3>3. SelectInSeq(l, LAMBDA e : e.id = i) = k
        BY <3>1, <3>2 DEF SelectInSeq
      <3> QED
        BY <2>1, <3>3 DEF RemoveEntry, RemoveFirstMatch
    <2> DEFINE a == SubSeq(l, 1, k - 1)
               b == SubSeq(l, k + 1, Len(l))
    <2>3. /\ a \in Seq(Entries) /\ Len(a) = k - 1
          /\ \A n \in 1 .. k - 1 : a[n] = l[n]
      <3>1. k - 1 \in Int /\ 1 \in Int /\ \A n \in 1 .. k - 1 : l[n] \in Entries
        BY <1>1
      <3>2. /\ a \in Seq(Entries)
            /\ Len(a) = IF 1 <= k - 1 THEN (k - 1) - 1 + 1 ELSE 0
            /\ \A n \in 1 .. (k - 1) - 1 + 1 : a[n] = l[1 + n - 1]
        BY <3>1, SubSeqProperties
      <3> QED
        BY <1>1, <2>1, <3>2
    <2>4. /\ b \in Seq(Entries) /\ Len(b) = Len(l) - k
          /\ \A n \in 1 .. Len(l) - k : b[n] = l[n + k]
      <3>1. k + 1 \in Int /\ Len(l) \in Int /\ \A n \in k + 1 .. Len(l) : l[n] \in Entries
        BY <1>1
      <3>2. /\ b \in Seq(Entries)
            /\ Len(b) = IF k + 1 <= Len(l) THEN Len(l) - (k + 1) + 1 ELSE 0
            /\ \A n \in 1 .. Len(l) - (k + 1) + 1 : b[n] = l[(k + 1) + n - 1]
        BY <3>1, SubSeqProperties
      <3>3. \A n \in 1 .. Len(l) - k : (k + 1) + n - 1 = n + k /\ n \in 1 .. Len(l) - (k + 1) + 1
        BY <1>1
      <3> QED
        BY <1>1, <2>1, <3>2, <3>3
    <2>5. r = a \o b
      BY <2>2 DEF RemoveAt
    <2> HIDE DEF r, a, b
    <2>6. /\ r \in Seq(Entries) /\ Len(r) = Len(l) - 1
          /\ \A n \in 1 .. Len(l) - 1 : r[n] = IF n < k THEN l[n] ELSE l[n + 1]
      <3>1. /\ r \in Seq(Entries) /\ Len(r) = Len(a) + Len(b)
            /\ \A n \in 1 .. Len(a) + Len(b) : r[n] = IF n <= Len(a) THEN a[n] ELSE b[n - Len(a)]
        BY <2>3, <2>4, <2>5, ConcatProperties
      <3>2. Len(a) + Len(b) = Len(l) - 1
        BY <1>1, <2>3, <2>4
      <3>3. ASSUME NEW n \in 1 .. Len(l) - 1 PROVE r[n] = IF n < k THEN l[n] ELSE l[n + 1]
        <4>1. CASE n < k
          BY <1>1, <2>3, <3>1, <3>2, <4>1
        <4>2. CASE n >= k
          <5>1. n - (k - 1) \in 1 .. Len(l) - k /\ (n - (k - 1)) + k = n + 1
            BY <1>1, <4>2
          <5>2. r[n] = b[n - (k - 1)]
            BY <1>1, <2>3, <3>1, <3>2, <4>2
          <5>3. b[n - (k - 1)] = l[(n - (k - 1)) + k]
            BY <2>4, <5>1
          <5>4. b[n - (k - 1)] = l[n + 1] /\ ~(n < k)
            BY <4>2, <5>1, <5>3
          <5> QED
            BY <5>2, <5>4
        <4> QED
          BY <1>1, <4>1, <4>2
      <3> QED
        BY <3>1, <3>2, <3>3
    <2>7. ASSUME NEW n \in 1 .. Len(r)
          PROVE  \E m \in 1 .. Len(l) : m # k /\ r[n] = l[m] /\ m = IF n < k THEN n ELSE n + 1
      <3>1. CASE n < k
        BY <1>1, <2>6, <3>1
      <3>2. CASE n >= k
        BY <1>1, <2>6, <3>2
      <3> QED
        BY <1>1, <2>6, <3>1, <3>2
    <2>8. IsList(r)
      <3> SUFFICES ASSUME NEW m \in 1 .. Len(r), NEW n \in 1 .. Len(r), r[m].id = r[n].id
                   PROVE  m = n
        BY <2>6 DEF IsList
      <3>1. PICK m1 \in 1 .. Len(l) : r[m] = l[m1] /\ m1 = IF m < k THEN m ELSE m + 1
        BY <2>7
      <3>2. PICK n1 \in 1 .. Len(l) : r[n] = l[n1] /\ n1 = IF n < k THEN n ELSE n + 1
        BY <2>7
      <3>3. m1 = n1
        BY <3>1, <3>2 DEF IsList
      <3> QED
        BY <1>1, <2>6, <3>1, <3>2, <3>3
    <2>9. \A n \in 1 .. Len(r) : r[n].id # i
      <3> SUFFICES ASSUME NEW n \in 1 .. Len(r), r[n].id = i PROVE FALSE
        OBVIOUS
      <3>1. PICK m \in 1 .. Len(l) : m # k /\ r[n] = l[m]
        BY <2>7
      <3> QED
        BY <2>1, <3>1 DEF IsList
    <2>10. ASSUME NEW j \in Ids \ {i} PROVE CfgIn(r, j) = CfgIn(l, j)
      <3>1. CASE \E m \in 1 .. Len(l) : l[m].id = j
        <4>1. PICK m \in 1 .. Len(l) : l[m].id = j
          BY <3>1
        <4>2. m # k
          BY <2>1, <4>1
        <4>3. PICK n \in 1 .. Len(r) : r[n] = l[m]
          <5>1. CASE m < k
            <6>1. m \in 1 .. Len(l) - 1 /\ r[m] = l[m]
              BY <1>1, <2>6, <5>1
            <6> QED
              BY <2>6, <6>1
          <5>2. CASE m > k
            <6>1. m - 1 \in 1 .. Len(l) - 1 /\ ~(m - 1 < k) /\ (m - 1) + 1 = m
              BY <1>1, <5>2
            <6>2. r[m - 1] = l[m]
              BY <2>6, <6>1
            <6> QED
              BY <2>6, <6>1, <6>2
          <5> QED
            BY <1>1, <4>2, <5>1, <5>2
        <4>4. CfgIn(l, j) = l[m].cfg
          BY <4>1, ListReads
        <4>5. CfgIn(r, j) = r[n].cfg
          BY <2>8, <4>1, <4>3, ListReads
        <4> QED
          BY <4>3, <4>4, <4>5
      <3>2. CASE \A m \in 1 .. Len(l) : l[m].id # j
        <4>1. \A n \in 1 .. Len(r) : r[n].id # j
          BY <2>7, <3>2
        <4> QED
          BY <2>8, <3>2, <4>1, ListReads
      <3> QED
        BY <3>1, <3>2
    <2>11. CfgIn(r, i) = Absent /\ i \notin IdsOf(r)
      BY <2>8, <2>9, ListReads
    <2> QED
      BY <1>3, <2>8, <2>10, <2>11 DEF Edit, r
  <1> QED
    BY <1>2, <1>3

(* loadAllToCache: the list of what etcd holds, and nothing else.          *)
LEMMA LoadedExact ==
    ASSUME store \in [Ids -> Configs \cup {Absent}], NEW l \in Loaded(store)
    PROVE  IsList(l) /\ \A i \in Ids : CfgIn(l, i) = store[i]
  <1> DEFINE there == {i \in Ids : store[i] # Absent}
             n == Cardinality(there)
  <1>1. IsFiniteSet(there) /\ n \in Nat
    BY CacheAssumption, FS_Subset, FS_CardinalityType
  <1>2. PICK ids \in SetToSeqs(there) : l = [m \in DOMAIN ids |-> Entry(ids[m], store[ids[m]])]
    BY DEF Loaded
  <1>3. ids \in [1 .. n -> there] /\ \A m, k \in 1 .. n : m # k => ids[m] # ids[k]
    BY <1>2 DEF SetToSeqs
  <1>4. \A i \in there : \E m \in 1 .. n : ids[m] = i
    <2>1. ids \in Injection(1 .. n, there)
      BY <1>3 DEF Injection, IsInjective
    <2>2. Cardinality(1 .. n) = n
      <3>1. 1 \in Int /\ n \in Int
        BY <1>1
      <3> QED
        BY <1>1, <3>1, FS_Interval
    <2>3. ids \in Surjection(1 .. n, there)
      BY <1>1, <2>1, <2>2, FS_Injection
    <2> QED
      BY <2>3 DEF Surjection
  <1> HIDE DEF n
  <1>5. /\ l \in Seq(Entries) /\ Len(l) = n
        /\ \A m \in 1 .. n : l[m].id = ids[m] /\ l[m].cfg = store[ids[m]]
    <2>1. \A m \in 1 .. n : Entry(ids[m], store[ids[m]]) \in Entries
      BY <1>3 DEF Entry, Entries
    <2>2. l \in [1 .. n -> Entries]
      BY <1>2, <1>3, <2>1
    <2>3. l \in Seq(Entries)
      BY <1>1, <2>2
    <2>4. Len(l) = n
      BY <1>1, <2>2, <2>3, LenProperties
    <2> QED
      BY <1>2, <1>3, <2>3, <2>4 DEF Entry
  <1>6. IsList(l)
    BY <1>3, <1>5 DEF IsList
  <1>7. ASSUME NEW i \in Ids PROVE CfgIn(l, i) = store[i]
    <2>1. CASE i \in there
      BY <1>4, <1>5, <1>6, <2>1, ListReads
    <2>2. CASE i \notin there
      <3>1. \A m \in 1 .. Len(l) : l[m].id # i
        BY <1>3, <1>5, <2>2
      <3> QED
        BY <1>6, <2>2, <3>1, ListReads
    <2> QED
      BY <2>1, <2>2
  <1> QED
    BY <1>6, <1>7

(* handlePut and handleDelete together.                                    *)
LEMMA AppliedEdits ==
    ASSUME NEW l, IsList(l), NEW e \in Events
    PROVE  /\ Edit(Applied(l, e), l, e.id, e.cfg)
           /\ IdsOf(Applied(l, e)) = IdsOf(l) => SamePlaces(Applied(l, e), l)
  <1>1. e.id \in Ids /\ e.cfg \in Configs \cup {Absent}
    BY DEF Events
  <1>2. CASE e.cfg = Absent
    <2>1. Applied(l, e) = RemoveEntry(l, e.id)
      BY <1>2 DEF Applied
    <2>2. IdsOf(Applied(l, e)) = IdsOf(l) => Applied(l, e) = l
      BY <1>1, <2>1, RemoveEdits
    <2> QED
      BY <1>1, <1>2, <2>1, <2>2, RemoveEdits DEF SamePlaces
  <1>3. CASE e.cfg # Absent
    <2>1. Applied(l, e) = PutEntry(l, e.id, e.cfg)
      BY <1>3 DEF Applied
    <2>2. e.id \notin IdsOf(l) => PutEntry(l, e.id, e.cfg) = Append(l, Entry(e.id, e.cfg))
      BY DEF PutEntry
    <2>3. e.cfg \in Configs
      BY <1>1, <1>3
    <2>4. CASE e.id \in IdsOf(l)
      BY <1>1, <2>1, <2>3, <2>4, ReplaceEdits
    <2>5. CASE e.id \notin IdsOf(l)
      BY <1>1, <2>1, <2>2, <2>3, <2>5, AppendEdits
    <2> QED
      BY <2>4, <2>5
  <1> QED
    BY <1>2, <1>3

(* What Register or Unregister of actor i makes of list l.                 *)
CallList(l, i, c) == IF c = Absent THEN RemoveEntry(l, i) ELSE AddEntry(l, i, c)

(* They leave the list alone or change who is in it.                       *)
LEMMA CallEdits ==
    ASSUME NEW l, IsList(l), NEW i \in Ids, NEW c \in Configs \cup {Absent}
    PROVE  \/ CallList(l, i, c) = l
           \/ Edit(CallList(l, i, c), l, i, c) /\ IdsOf(CallList(l, i, c)) # IdsOf(l)
  <1>1. CASE c = Absent
    <2>1. CallList(l, i, c) = RemoveEntry(l, i)
      BY <1>1 DEF CallList
    <2> QED
      BY <1>1, <2>1, RemoveEdits
  <1>2. CASE c # Absent /\ i \notin IdsOf(l)
    <2>1. CallList(l, i, c) = Append(l, Entry(i, c)) /\ c \in Configs
      BY <1>2 DEF CallList, AddEntry
    <2> QED
      BY <1>2, <2>1, AppendEdits
  <1>3. CASE c # Absent /\ i \in IdsOf(l)
    BY <1>3 DEF CallList, AddEntry
  <1> QED
    BY <1>1, <1>2, <1>3

-----------------------------------------------------------------------------
(* The cache half: the cache follows etcd *)

CallType ==
    /\ acall \in [pc : {"idle", "written", "loaded"}, id : Ids \cup {0},
                  cfg : Configs \cup {Absent}, snap : Seq(Entries)]
    /\ acall.pc # "idle" => acall.id \in Ids

(* The constructor loads the cache before anybody has the discovery.       *)
NewIsEmpty == wpc \in {"load", "fill"} => cache = <<>> /\ acall.pc = "idle"

ListsInv == IsList(cache) /\ IsList(wsnap) /\ IsList(acall.snap) /\ CallType /\ NewIsEmpty

(* The empty list is one.                                                  *)
LEMMA EmptyIsList == IsList(<<>>)
  BY EmptySeq DEF IsList

(* Whoever loads, clones and stores the cache stores a list.               *)
LEMMA ListsInvInductive == ASSUME ToldInv, ListsInv, [CacheNext]_cacheVars PROVE ListsInv'
  <1> USE DEF ListsInv, cacheVars, etcdSide, watchSide, pollSide
  <1>1. CASE LoadGet
    <2>1. IsList(wsnap')
      BY <1>1, LoadedExact DEF LoadGet, ToldInv, QueueType
    <2>2. /\ UNCHANGED <<cache, acall>>
          /\ wpc' \in {"fill", "refill"} /\ (wpc' = "fill" => wpc = "load")
      BY <1>1 DEF LoadGet
    <2> QED
      BY <2>1, <2>2 DEF CallType, NewIsEmpty
  <1>2. CASE HandleStore
    <2>1. IsList(cache')
      <3>1. Head(wq) \in Events
        BY <1>2, HeadTailProperties DEF HandleStore, ToldInv, QueueType, HandlesOne
      <3>2. cache' = Applied(wsnap, Head(wq))
        BY <1>2 DEF HandleStore, StoreCache
      <3> QED
        BY <3>1, <3>2, AppliedEdits DEF Edit
    <2>2. UNCHANGED acall /\ wsnap' = <<>> /\ wpc' = "on"
      BY <1>2 DEF HandleStore
    <2> QED
      BY <2>1, <2>2, EmptyIsList DEF CallType, NewIsEmpty
  <1>3. CASE LoadStore
    <2>1. cache' = wsnap /\ UNCHANGED acall /\ wsnap' = <<>> /\ wpc' \notin {"load", "fill"}
      BY <1>3 DEF LoadStore, StoreCache
    <2> QED
      BY <2>1, EmptyIsList DEF CallType, NewIsEmpty
  <1>4. CASE CallStore
    <2>1. /\ acall' = Idle /\ UNCHANGED <<wsnap, wpc>> /\ acall.pc = "loaded"
          /\ cache' = cache \/ cache' = CallList(acall.snap, acall.id, acall.cfg)
      BY <1>4 DEF CallStore, StoreCache, CallList
    <2>2. IsList(cache')
      BY <2>1, CallEdits DEF CallType, Edit
    <2>3. CallType' /\ acall'.snap = <<>>
      BY <2>1, EmptySeq DEF Idle, CallType
    <2>4. wpc' \notin {"load", "fill"}
      BY <2>1 DEF NewIsEmpty
    <2> QED
      BY <2>1, <2>2, <2>3, <2>4, EmptyIsList DEF NewIsEmpty
  <1>5. CASE CallLoad
    <2>1. acall' = [acall EXCEPT !.pc = "loaded", !.snap = cache] /\ UNCHANGED <<wsnap, wpc, cache>>
      BY <1>5 DEF CallLoad
    <2>2. acall.pc = "written"
      BY <1>5 DEF CallLoad
    <2> QED
      <3>1. acall'.snap = cache /\ acall'.id = acall.id
        BY <2>1 DEF CallType
      <3>2. CallType'
        BY <2>1, <2>2, <3>1 DEF CallType, IsList
      <3> QED
        BY <2>1, <2>2, <3>1, <3>2 DEF NewIsEmpty
  <1>6. ASSUME NEW i \in Own, NEW c \in Configs \cup {Absent}, CallWrite(i, c) PROVE ListsInv'
    <2>1. /\ acall' = [pc |-> "written", id |-> i, cfg |-> c, snap |-> <<>>]
          /\ UNCHANGED <<wsnap, wpc, cache>> /\ wpc \notin {"load", "fill"}
      BY <1>6 DEF CallWrite
    <2>2. CallType'
      BY <2>1, EmptySeq, CacheAssumption DEF CallType
    <2> QED
      BY <2>1, <2>2, EmptyIsList DEF NewIsEmpty
  <1>7. CASE \/ WatchStart \/ HandleLoad \/ WatchClosed \/ WatchSleep \/ WatchLeave \/ WatchBreaks
             \/ LoadFails
    <2>1. /\ UNCHANGED <<cache, acall>> /\ wsnap' \in {wsnap, cache}
          /\ wpc' \notin {"load", "fill"}
      BY <1>7 DEF WatchStart, HandleLoad, WatchClosed, WatchSleep, WatchLeave, WatchBreaks, LoadFails
    <2> QED
      BY <2>1 DEF CallType, NewIsEmpty
  <1>8. CASE \/ \E i \in Ids, c \in Configs \cup {Absent} : EtcdChange(i, c)
             \/ GroupTakes \/ Cancel \/ \E p \in Pollers : PollRead(p) \/ PollTake(p)
             \/ UNCHANGED cacheVars
    <2>1. UNCHANGED <<cache, acall, wsnap, wpc>>
      BY <1>8 DEF EtcdChange, GroupTakes, Cancel, PollRead, PollTake
    <2> QED
      BY <2>1 DEF CallType, NewIsEmpty
  <1> QED
    BY <1>1, <1>2, <1>3, <1>4, <1>5, <1>6, <1>7, <1>8 DEF CacheNext, WatchStep, CallStep

(* The list that is in the cache or about to be.                           *)
Coming == IF wpc \in {"fill", "refill"} THEN wsnap ELSE cache

(* CacheExact speaks of a watch at rest; on its way there the list is      *)
(* right about every actor of whom no event is coming.                     *)
ExactUnlessExcused ==
    wpc # "load" /\ ~Cancelled =>
        \A i \in Ids \ excused : Lost(i) => CfgIn(Coming, i) = store[i]

(* A change of actor i in etcd: an event comes, or the actor is excused.   *)
LEMMA WriteExact ==
    ASSUME ToldInv, ExactUnlessExcused, NEW i \in Ids, NEW c \in Configs \cup {Absent},
           Write(i, c), excused' = excused \cup Unseen(i),
           UNCHANGED <<wpc, stopped, wsnap, cache>>
    PROVE  ExactUnlessExcused'
  <1> SUFFICES ASSUME wpc # "load", ~Cancelled, NEW j \in Ids \ excused', Lost(j)'
               PROVE  CfgIn(Coming, j) = store'[j]
    BY DEF ExactUnlessExcused, Cancelled, Coming
  <1>1. store' = [store EXCEPT ![i] = c] /\ wq' = IF Watching THEN Append(wq, Entry(i, c)) ELSE wq
    BY DEF Write, Send
  <1>2. j # i /\ Lost(j)
    <2>1. CASE Watching
      <3>1. Entry(i, c) \in Events /\ Entry(i, c).id = i
        BY DEF Entry, Events
      <3>2. /\ Len(wq') = Len(wq) + 1 /\ Len(wq) \in Nat /\ wq'[Len(wq) + 1] = Entry(i, c)
            /\ \A n \in 1 .. Len(wq) : wq'[n] = wq[n]
        BY <1>1, <2>1, <3>1, AppendProperties, LenProperties DEF ToldInv, QueueType
      <3> QED
        BY <3>1, <3>2 DEF Lost
    <2>2. CASE ~Watching
      BY <1>1, <2>2 DEF Unseen, Lost
    <2> QED
      BY <2>1, <2>2
  <1> QED
    BY <1>1, <1>2 DEF ExactUnlessExcused, ToldInv, QueueType

(* HandleStore: the event's actor is right now, and a list that was        *)
(* overtaken wrongs only those who are excused.                            *)
LEMMA HandleExact ==
    ASSUME ToldInv, ListsInv, ExactUnlessExcused, HandleStore PROVE ExactUnlessExcused'
  <1> DEFINE e == wq[1]
  <1>1. /\ wpc = "handle" /\ wpc' = "on" /\ wq' = Tail(wq) /\ wq # <<>>
        /\ cache' = Applied(wsnap, e)
        /\ excused' = (excused \ {e.id}) \cup Undone(wsnap, e.id)
        /\ UNCHANGED <<store, stopped>>
    BY DEF HandleStore, StoreCache, etcdSide, ToldInv, HandlesOne, Head
  <1>2. /\ Len(wq) \in Nat \ {0} /\ Len(wq') = Len(wq) - 1
        /\ \A n \in 1 .. Len(wq) - 1 : wq'[n] = wq[n + 1]
        /\ e \in Events
    BY <1>1, EmptySeq, HeadTailProperties, ElementOfSeq DEF ToldInv, QueueType
  <1>3. Edit(cache', wsnap, e.id, e.cfg) /\ e.id \in Ids
    BY <1>1, <1>2, AppliedEdits DEF ListsInv, Events
  <1> HIDE DEF e
  <1> SUFFICES ASSUME NEW i \in Ids \ excused', Lost(i)' PROVE CfgIn(cache', i) = store[i]
    BY <1>1 DEF ExactUnlessExcused, Coming
  <1>4. \A m \in 2 .. Len(wq) : wq[m].id # i
    <2> SUFFICES ASSUME NEW m \in 2 .. Len(wq) PROVE wq[m].id # i
      OBVIOUS
    <2>1. m - 1 \in 1 .. Len(wq) - 1 /\ wq'[m - 1] = wq[m]
      BY <1>2
    <2> QED
      BY <2>1, <1>2 DEF Lost
  <1>5. CASE i = e.id
    <2>1. e.cfg = store[i]
      BY <1>2, <1>4, <1>5 DEF ToldInv, LastIsPresent, e
    <2> QED
      BY <1>3, <1>5, <2>1 DEF Edit
  <1>6. CASE i # e.id
    <2>1. Lost(i)
      BY <1>2, <1>4, <1>6 DEF Lost, e
    <2>2. i \notin excused /\ CfgIn(wsnap, i) = CfgIn(cache, i)
      BY <1>1, <1>6 DEF Undone
    <2>3. CfgIn(cache, i) = store[i]
      BY <1>1, <2>1, <2>2 DEF ExactUnlessExcused, Coming, Cancelled
    <2> QED
      BY <1>3, <1>6, <2>2, <2>3 DEF Edit
  <1> QED
    BY <1>5, <1>6

(* CallStore: a late answer, or an overtaken list, wrongs the excused.     *)
LEMMA CallExact ==
    ASSUME ToldInv, ListsInv, ExactUnlessExcused, CallStore PROVE ExactUnlessExcused'
  <1> DEFINE i == acall.id
             late == IF \E n \in DOMAIN wq : wq[n].id = i THEN {}
                     ELSE {j \in {i} : store[i] # acall.cfg}
             list == CallList(acall.snap, i, acall.cfg)
  <1>1. acall.pc = "loaded" /\ UNCHANGED <<store, wq, wpc, wsnap, stopped>>
    BY DEF CallStore, etcdSide, watchSide
  <1>2. IF list = acall.snap THEN UNCHANGED <<cache, excused>>
        ELSE cache' = list /\ excused' = excused \cup late \cup Undone(acall.snap, i)
    BY DEF CallStore, StoreCache, CallList
  <1>3. i \in Ids /\ acall.cfg \in Configs \cup {Absent}
    BY <1>1 DEF ListsInv, CallType
  <1>4. list = acall.snap \/ Edit(list, acall.snap, i, acall.cfg)
    BY <1>3, CallEdits DEF ListsInv
  <1>5. DOMAIN wq = 1 .. Len(wq)
    BY LenProperties DEF ToldInv, QueueType
  <1> SUFFICES ASSUME wpc # "load", ~Cancelled, NEW j \in Ids \ excused', Lost(j)
               PROVE  CfgIn(Coming', j) = store[j]
    BY <1>1 DEF ExactUnlessExcused, Cancelled, Lost
  <1> HIDE DEF i, late, list
  <1>6. CASE list = acall.snap \/ wpc \in {"fill", "refill"}
    BY <1>1, <1>2, <1>6 DEF ExactUnlessExcused, Coming
  <1>7. CASE list # acall.snap /\ wpc \notin {"fill", "refill"}
    <2>1. Coming' = list /\ Coming = cache
      BY <1>1, <1>2, <1>7 DEF Coming
    <2>2. CASE j = i
      <3>1. store[i] = acall.cfg
        BY <1>2, <1>5, <1>7, <2>2 DEF late, Lost
      <3> QED
        BY <1>4, <1>7, <2>1, <2>2, <3>1 DEF Edit
    <2>3. CASE j # i
      <3>1. CfgIn(acall.snap, j) = CfgIn(cache, j) /\ j \notin excused
        BY <1>2, <1>7, <2>3 DEF Undone
      <3> QED
        BY <1>4, <1>7, <2>1, <2>3, <3>1 DEF Edit, ExactUnlessExcused
    <2> QED
      BY <2>2, <2>3
  <1> QED
    BY <1>6, <1>7

(* Every step leaves the list right, or about to be.                       *)
LEMMA ExactInductive ==
    ASSUME ToldInv, ListsInv, ExactUnlessExcused, [CacheNext]_cacheVars
    PROVE  ExactUnlessExcused'
  <1> USE DEF cacheVars, etcdSide, watchSide, pollSide
  <1>1. ASSUME NEW i \in Ids, NEW c \in Configs \cup {Absent}, EtcdChange(i, c)
        PROVE  ExactUnlessExcused'
    BY <1>1, WriteExact DEF EtcdChange
  <1>2. ASSUME NEW i \in Own, NEW c \in Configs \cup {Absent}, CallWrite(i, c)
        PROVE  ExactUnlessExcused'
    BY <1>2, WriteExact, CacheAssumption DEF CallWrite
  <1>3. CASE LoadGet
    <2>1. \A i \in Ids : CfgIn(wsnap', i) = store[i]
      BY <1>3, LoadedExact DEF LoadGet, ToldInv, QueueType
    <2>2. wpc' \in {"fill", "refill"} /\ UNCHANGED store
      BY <1>3 DEF LoadGet
    <2> QED
      BY <2>1, <2>2 DEF ExactUnlessExcused, Coming
  <1>4. CASE LoadFails
    <2>1. CASE wpc = "load"
      BY <1>4, <2>1 DEF LoadFails, ExactUnlessExcused
    <2>2. CASE wpc # "load"
      <3>1. /\ wpc = "down" /\ ~stopped /\ wpc' = "sleep"
            /\ UNCHANGED <<excused, cache, store, wq>>
        BY <1>4, <2>2 DEF LoadFails, MayLoad
      <3> QED
        BY <3>1 DEF ExactUnlessExcused, Coming, Cancelled, Lost
    <2> QED
      BY <2>1, <2>2
  <1>5. CASE LoadStore
    <2>1. /\ wpc \in {"fill", "refill"} /\ wpc' \in {"top", "sleep"} /\ cache' = wsnap
          /\ UNCHANGED <<excused, store, wq, stopped>>
      BY <1>5 DEF LoadStore, StoreCache
    <2> QED
      BY <2>1 DEF ExactUnlessExcused, Coming, Cancelled, Lost
  <1>6. CASE WatchStart \/ WatchSleep \/ WatchLeave \/ HandleLoad
    <2>1. /\ UNCHANGED <<excused, store, cache, stopped>> /\ wpc \notin {"load", "fill", "refill"}
          /\ wpc' \notin {"load", "fill", "refill"} /\ (Cancelled => Cancelled')
      BY <1>6 DEF WatchStart, WatchSleep, WatchLeave, HandleLoad, Cancelled
    <2>2. \A i : Lost(i)' => Lost(i)
      <3>1. wq' = wq \/ wq = <<>>
        BY <1>6 DEF WatchStart, WatchSleep, WatchLeave, HandleLoad, ToldInv, QueueWhileWatching
      <3> QED
        BY <3>1 DEF Lost
    <2> QED
      BY <2>1, <2>2 DEF ExactUnlessExcused, Coming
  <1>7. CASE WatchBreaks
    <2>1. /\ UNCHANGED <<store, cache, stopped>> /\ wpc = "on" /\ wpc' = "down"
          /\ excused' = excused \cup IdsOf(wq)
      BY <1>7 DEF WatchBreaks
    <2>2. IdsOf(wq) = {wq[n].id : n \in 1 .. Len(wq)}
      BY DEF ToldInv, QueueType, IdsOf
    <2> QED
      BY <2>1, <2>2 DEF ExactUnlessExcused, Coming, Cancelled, Lost
  <1>8. CASE WatchClosed
    BY <1>8 DEF WatchClosed, ExactUnlessExcused, Cancelled
  <1>9. CASE \/ GroupTakes \/ CallLoad \/ Cancel \/ UNCHANGED cacheVars
             \/ \E p \in Pollers : PollRead(p) \/ PollTake(p)
    <2>1. UNCHANGED <<store, cache, wq, wpc, wsnap, excused>> /\ (stopped => stopped')
      BY <1>9 DEF GroupTakes, CallLoad, Cancel, PollRead, PollTake
    <2> QED
      BY <2>1 DEF ExactUnlessExcused, Coming, Cancelled, Lost
  <1> QED
    BY <1>1, <1>2, <1>3, <1>4, <1>5, <1>6, <1>7, <1>8, <1>9, HandleExact, CallExact
       DEF CacheNext, WatchStep, CallStep

(* At the start everything is empty, and nothing is loaded.                *)
LEMMA CacheInvInit == ASSUME CacheInit PROVE ToldInv /\ ListsInv /\ ExactUnlessExcused
  <1>1. QueueType
    BY DEF CacheInit, QueueType
  <1>2. QueueWhileWatching /\ HandlesOne /\ LastIsPresent /\ ToldUnlessSilent
    BY DEF CacheInit, QueueWhileWatching, HandlesOne, LastIsPresent, ToldUnlessSilent
  <1>3. ListsInv
    <2>1. CallType /\ acall.snap = <<>> /\ NewIsEmpty
      BY EmptySeq DEF CacheInit, Idle, CallType, NewIsEmpty
    <2> QED
      BY <2>1, EmptyIsList DEF CacheInit, ListsInv
  <1> QED
    BY <1>1, <1>2, <1>3 DEF CacheInit, ToldInv, ExactUnlessExcused

(* watch, handlePut, handleDelete, loadAllToCache, Register, Unregister    *)
(* (etcd.go 232-457): when every event of the watch is handled, the cache  *)
(* holds of each actor what etcd holds, and the group has been told it,    *)
(* however changes, reloads, broken watches and calls interleave, but for  *)
(* the exceptions that excused and silent name (CacheFollows).             *)
THEOREM CacheDoesFollow == DiscoverySpec => []CacheFollows
  <1> DEFINE Inv == ToldInv /\ ListsInv /\ ExactUnlessExcused
  <1>1. DiscoveryInit => Inv
    BY CacheInvInit DEF DiscoveryInit
  <1>2. Inv /\ [DiscoveryNext]_discoveryVars => Inv'
    BY OneHalf, ToldInvInductive, ListsInvInductive, ExactInductive
  <1>3. Inv => CacheFollows
    <2> SUFFICES ASSUME Inv, Settled
                 PROVE  /\ \A i \in Ids \ excused : CfgIn(cache, i) = store[i]
                        /\ \A i \in Ids \ silent : told[i] = store[i]
      BY DEF CacheFollows, CacheExact, GroupTold
    <2>1. wpc = "on" /\ (\A i : Lost(i)) /\ ~Cancelled
      BY DEF Settled, Lost, Cancelled
    <2> QED
      BY <2>1 DEF ExactUnlessExcused, ToldInv, ToldUnlessSilent, Coming
  <1> HIDE DEF Inv
  <1> QED
    BY <1>1, <1>2, <1>3, PTL DEF DiscoverySpec

-----------------------------------------------------------------------------
(* The cache half: the finders *)

(* Division with remainder.                                                *)
LEMMA DivMod ==
    ASSUME NEW x \in Nat, NEW n \in Nat \ {0}
    PROVE  /\ x % n \in 0 .. n - 1 /\ x \div n \in Nat
           /\ x = (n * (x \div n)) + (x % n)
  OBVIOUS

(* The remainder is the one there is.                                      *)
LEMMA ModOf ==
    ASSUME NEW n \in Nat \ {0}, NEW q \in Nat, NEW r \in 0 .. n - 1
    PROVE  (n * q + r) % n = r
  OBVIOUS

(* The turn goes to the next actor, or back to the first.                  *)
LEMMA ModNext ==
    ASSUME NEW x \in Nat, NEW n \in Nat \ {0}
    PROVE  (x + 1) % n = IF (x % n) + 1 = n THEN 0 ELSE (x % n) + 1
  <1> DEFINE q == x \div n
             r == x % n
  <1>1. r \in 0 .. n - 1 /\ q \in Nat /\ x = n * q + r
    BY DivMod
  <1> HIDE DEF q, r
  <1>2. CASE r + 1 = n
    <2>1. x + 1 = n * (q + 1) + 0
      BY <1>1, <1>2
    <2>2. (n * (q + 1) + 0) % n = 0
      BY <1>1, ModOf
    <2> QED
      BY <1>2, <2>1, <2>2 DEF r
  <1>3. CASE r + 1 # n
    <2>1. x + 1 = n * q + (r + 1) /\ r + 1 \in 0 .. n - 1
      BY <1>1, <1>3
    <2>2. (n * q + (r + 1)) % n = r + 1
      BY <1>1, <2>1, ModOf
    <2> QED
      BY <1>3, <2>1, <2>2 DEF r
  <1> QED
    BY <1>2, <1>3

(* FindMod looks at a place in the list.                                   *)
LEMMA PlacesFind ==
    ASSUME NEW l, IsList(l), NEW r, SamePlaces(r, l), NEW user \in DOMAIN l
    PROVE  FindMod(r, user) = FindMod(l, user)
  <1>1. Len(l) \in Nat /\ DOMAIN l = 1 .. Len(l)
    BY ListReads
  <1>2. user \in Nat /\ Len(l) \in Nat \ {0}
    BY <1>1
  <1> DEFINE n == Len(l)
             k == user % n
  <1>3. k \in 0 .. n - 1
    BY <1>2, DivMod
  <1> HIDE DEF n, k
  <1>4. n \in Nat /\ k + 1 \in 1 .. n
    BY <1>2, <1>3 DEF n
  <1>5. (user % Len(l)) + 1 \in 1 .. Len(l)
    BY <1>4 DEF n, k
  <1> QED
    BY <1>5 DEF FindMod, SamePlaces

(* A step of the cache that is neither a reload nor from an overtaken load *)
(* keeps every actor in its place, or changes who is there.                *)
LEMMA UserKept ==
    ASSUME ToldInv, ListsInv, [CacheNext]_cacheVars, cache' # cache,
           IdsOf(cache') = IdsOf(cache), wpc # "refill", ~Overtaken
    PROVE  \A user \in DOMAIN cache : FindMod(cache', user) = FindMod(cache, user)
  <1>1. HandleStore \/ LoadStore \/ CallStore
    BY DEF CacheNext, WatchStep, CallStep, cacheVars, etcdSide, watchSide, pollSide,
           EtcdChange, CallWrite, WatchStart, HandleLoad, WatchClosed, LoadGet, WatchSleep,
           WatchLeave, WatchBreaks, LoadFails, GroupTakes, CallLoad, Cancel, PollRead, PollTake
  <1>2. CASE HandleStore
    <2>1. /\ wpc = "handle" /\ wpc' = "on" /\ cache' = Applied(wsnap, Head(wq))
      BY <1>2 DEF HandleStore, StoreCache
    <2>2. wsnap = cache
      BY <2>1 DEF Overtaken
    <2>3. Head(wq) \in Events
      BY <2>1, HeadTailProperties DEF ToldInv, QueueType, HandlesOne
    <2>4. SamePlaces(cache', cache)
      BY <2>1, <2>2, <2>3, AppliedEdits DEF ListsInv
    <2> QED
      BY <2>4, PlacesFind DEF ListsInv
  <1>3. CASE LoadStore
    <2>1. wpc = "fill"
      BY <1>3 DEF LoadStore
    <2>2. cache = <<>>
      BY <2>1 DEF ListsInv, NewIsEmpty
    <2> QED
      BY <2>2
  <1>4. CASE CallStore
    <2>1. /\ acall.pc = "loaded" /\ acall' = Idle
          /\ cache' = CallList(acall.snap, acall.id, acall.cfg)
      BY <1>4 DEF CallStore, StoreCache, CallList
    <2>2. acall.snap = cache
      BY <2>1 DEF Overtaken
    <2>3. acall.id \in Ids /\ acall.cfg \in Configs \cup {Absent}
      BY <2>1 DEF ListsInv, CallType
    <2> QED
      BY <2>1, <2>2, <2>3, CallEdits DEF ListsInv
  <1> QED
    BY <1>1, <1>2, <1>3, <1>4

PollType ==
    /\ counter \in Nat /\ hits \in [Ids \cup {Older} -> Nat]

(* The place whose turn it is, and how far from it place j is.             *)
Turn == (counter % Len(cache)) + 1
Wait(j) == IF j >= Turn THEN j - Turn ELSE j - Turn + Len(cache)

(* N[j] counts the turns of place j since the actors of the list changed.  *)
(* The counter gives the turns in a circle; a turn was a poll of the actor *)
(* there, or of an older list.                                             *)
TurnsFair(N) ==
    \A j, k \in 1 .. Len(cache) : Wait(j) <= Wait(k) => N[j] <= N[k] /\ N[k] <= N[j] + 1
TurnsPolled(N) ==
    \A j \in 1 .. Len(cache) : /\ hits[cache[j].id] <= N[j]
                               /\ N[j] <= hits[cache[j].id] + hits[Older]

(* PollFair compares polls; the turns are what makes it inductive.         *)
PollInv == PollType /\ \E N \in [1 .. Len(cache) -> Nat] : TurnsFair(N) /\ TurnsPolled(N)

(* It is some place's turn.                                                *)
LEMMA TurnType ==
    ASSUME ListsInv, PollType, cache # <<>>
    PROVE  /\ Len(cache) \in Nat \ {0} /\ Turn \in 1 .. Len(cache)
           /\ \A j \in 1 .. Len(cache) : Wait(j) \in 0 .. Len(cache) - 1
  <1>1. Len(cache) \in Nat \ {0}
    BY EmptySeq DEF ListsInv, IsList
  <1> DEFINE n == Len(cache)
             t == counter % n
  <1>2. t \in 0 .. n - 1 /\ Turn = t + 1
    BY <1>1, DivMod DEF PollType, Turn
  <1>3. Turn \in 1 .. n
    <2> HIDE DEF n, t
    <2> QED
      BY <1>1, <1>2 DEF n
  <1>4. \A j \in 1 .. n : Wait(j) \in 0 .. n - 1
    BY <1>1, <1>3 DEF Wait
  <1> QED
    BY <1>1, <1>3, <1>4

(* A turn: the place that had it waits longest now.                        *)
LEMMA TurnTaken ==
    ASSUME ListsInv, PollType, cache # <<>>, UNCHANGED cache, counter' = counter + 1,
           NEW N \in [1 .. Len(cache) -> Nat], TurnsFair(N),
           NEW M, M = [N EXCEPT ![Turn] = @ + 1]
    PROVE  TurnsFair(M)'
  <1> DEFINE n == Len(cache)
             t == Turn
  <1>1. /\ n \in Nat \ {0} /\ t \in 1 .. n
        /\ \A j \in 1 .. n : Wait(j) \in 0 .. n - 1
    BY TurnType
  <1>2. Turn' = IF t = n THEN 1 ELSE t + 1
    <2> DEFINE u == counter % n
    <2>1. t = u + 1 /\ Turn' = ((counter + 1) % n) + 1
      BY DEF Turn
    <2>2. (counter + 1) % n = IF u + 1 = n THEN 0 ELSE u + 1
      BY <1>1, ModNext DEF PollType
    <2>3. u \in 0 .. n - 1
      BY <1>1, DivMod DEF PollType
    <2> HIDE DEF n, t, u
    <2> QED
      BY <1>1, <2>1, <2>2, <2>3
  <1>3. ASSUME NEW j \in 1 .. n PROVE M[j] = N[j] + (IF j = t THEN 1 ELSE 0) /\ N[j] \in Nat
    BY <1>1
  <1>4. ASSUME NEW j \in 1 .. n
        PROVE  /\ Wait(j)' = IF j = t THEN n - 1 ELSE Wait(j) - 1
               /\ Wait(j) = 0 <=> j = t
    <2>1. Wait(j) = IF j >= t THEN j - t ELSE j - t + n
      BY DEF Wait
    <2>2. Wait(j)' = IF j >= Turn' THEN j - Turn' ELSE j - Turn' + n
      BY DEF Wait
    <2> HIDE DEF n, t
    <2>3. n \in Nat /\ t \in Nat /\ t <= n /\ 1 <= t /\ j \in Nat /\ j <= n /\ 1 <= j
      BY <1>1
    <2>4. Wait(j) = 0 <=> j = t
      BY <2>1, <2>3
    <2>5. CASE t = n
      <3>1. Wait(j)' = j - 1
        BY <1>2, <2>2, <2>3, <2>5
      <3> QED
        BY <2>1, <2>3, <2>4, <2>5, <3>1
    <2>6. CASE t # n
      <3>1. Wait(j)' = IF j >= t + 1 THEN j - (t + 1) ELSE j - (t + 1) + n
        BY <1>2, <2>2, <2>3, <2>6
      <3> QED
        BY <2>1, <2>3, <2>4, <2>6, <3>1
    <2> QED
      BY <2>5, <2>6
  <1> HIDE DEF t
  <1>5. ASSUME NEW j \in 1 .. n, NEW k \in 1 .. n, Wait(j)' <= Wait(k)'
        PROVE  M[j] <= M[k] /\ M[k] <= M[j] + 1
    <2>1. /\ Wait(j) \in 0 .. n - 1 /\ Wait(k) \in 0 .. n - 1 /\ n \in Nat
          /\ N[j] \in Nat /\ N[k] \in Nat
      BY <1>1, <1>3
    <2>2. /\ Wait(j) <= Wait(k) => N[j] <= N[k] /\ N[k] <= N[j] + 1
          /\ Wait(k) <= Wait(j) => N[k] <= N[j] /\ N[j] <= N[k] + 1
      BY DEF TurnsFair
    <2>3. /\ M[j] = N[j] + (IF j = t THEN 1 ELSE 0)
          /\ M[k] = N[k] + (IF k = t THEN 1 ELSE 0)
      BY <1>3
    <2>4. /\ Wait(j)' = IF j = t THEN n - 1 ELSE Wait(j) - 1
          /\ Wait(k)' = IF k = t THEN n - 1 ELSE Wait(k) - 1
          /\ (Wait(j) = 0 <=> j = t) /\ (Wait(k) = 0 <=> k = t)
      BY <1>4
    <2> HIDE DEF n
    <2>5. CASE k = t
      BY <1>5, <2>1, <2>2, <2>3, <2>4, <2>5
    <2>6. CASE k # t /\ j = t
      BY <1>5, <2>1, <2>4, <2>6
    <2>7. CASE k # t /\ j # t
      BY <1>5, <2>1, <2>2, <2>3, <2>4, <2>7
    <2> QED
      BY <2>5, <2>6, <2>7
  <1> QED
    BY <1>5 DEF TurnsFair

(* PollTake: the place whose turn it is was polled, or an older list.      *)
LEMMA PollTakeFair ==
    ASSUME ListsInv, PollInv, NEW p \in Pollers, PollTake(p) PROVE PollInv'
  <1> USE DEF PollInv
  <1>1. /\ counter' = counter + 1 /\ UNCHANGED cache
        /\ poll[p] # <<>>
        /\ hits' = [hits EXCEPT ![IF poll[p] = cache THEN cache[Turn].id ELSE Older] = @ + 1]
    BY DEF PollTake, PollIndex, Turn
  <1>2. PICK N \in [1 .. Len(cache) -> Nat] : TurnsFair(N) /\ TurnsPolled(N)
    OBVIOUS
  <1>3. CASE cache = <<>>
    <2>1. hits' = [hits EXCEPT ![Older] = @ + 1] /\ PollType'
      BY <1>1, <1>3 DEF PollType
    <2>2. 1 .. Len(cache) = {} /\ cache' = cache
      BY <1>1, <1>3
    <2>3. TurnsFair(N)' /\ TurnsPolled(N)' /\ N \in [1 .. Len(cache') -> Nat]
      BY <1>2, <2>2 DEF TurnsFair, TurnsPolled
    <2> QED
      BY <2>1, <2>3
  <1>4. CASE cache # <<>>
    <2> DEFINE n == Len(cache)
               t == Turn
               here == poll[p] = cache
    <2>1. n \in Nat \ {0} /\ t \in 1 .. n
      BY <1>4, TurnType
    <2>2. /\ \A j \in 1 .. n : cache[j].id \in Ids
          /\ \A j, k \in 1 .. n : cache[j].id = cache[k].id => j = k
          /\ Older \notin Ids /\ \A j \in 1 .. n : cache[j].id # Older
      BY ListReads, CacheAssumption DEF ListsInv, IsList, Older
    <2>3. PICK M : M = [N EXCEPT ![Turn] = @ + 1]
      OBVIOUS
    <2>4. M \in [1 .. n -> Nat] /\ \A j \in 1 .. n : M[j] = N[j] + IF j = t THEN 1 ELSE 0
      BY <1>2, <2>1, <2>3
    <2>5. TurnsFair(M)'
      BY <1>1, <1>2, <1>4, <2>3, TurnTaken
    <2>6. PollType'
      BY <1>1, <2>1, <2>2 DEF PollType
    <2>7. TurnsPolled(M)'
      <3> SUFFICES ASSUME NEW j \in 1 .. n
                   PROVE  /\ hits'[cache[j].id] <= M[j]
                          /\ M[j] <= hits'[cache[j].id] + hits'[Older]
        BY <1>1 DEF TurnsPolled
      <3> DEFINE a == hits[cache[j].id]
                 b == hits[Older]
      <3>1. a <= N[j] /\ N[j] <= a + b /\ a \in Nat /\ b \in Nat /\ N[j] \in Nat
        BY <1>2, <2>2 DEF TurnsPolled, PollType
      <3>2. M[j] = N[j] + IF j = t THEN 1 ELSE 0
        BY <2>4
      <3>3. CASE here
        <4>1. hits'[cache[j].id] = a + (IF j = t THEN 1 ELSE 0) /\ hits'[Older] = b
          BY <1>1, <2>1, <2>2, <3>3 DEF PollType
        <4> HIDE DEF a, b, n, t
        <4> QED
          BY <3>1, <3>2, <4>1
      <3>4. CASE ~here
        <4>1. hits'[cache[j].id] = a /\ hits'[Older] = b + 1
          BY <1>1, <2>2, <3>4 DEF PollType
        <4> HIDE DEF a, b, n, t
        <4> QED
          BY <3>1, <3>2, <4>1
      <3> QED
        BY <3>3, <3>4
    <2> QED
      BY <1>1, <2>4, <2>5, <2>6, <2>7
  <1> QED
    BY <1>3, <1>4

(* An interval from 1 has one end.                                         *)
LEMMA OneEnd ==
    ASSUME NEW a \in Nat, NEW b \in Nat, 1 .. a = 1 .. b PROVE a = b
  <1>1. a # 0 => a \in 1 .. b
    <2>1. a # 0 => a \in 1 .. a
      OBVIOUS
    <2> QED
      BY <2>1
  <1>2. b # 0 => b \in 1 .. a
    <2>1. b # 0 => b \in 1 .. b
      OBVIOUS
    <2> QED
      BY <2>1
  <1> QED
    BY <1>1, <1>2

(* The cache is replaced: the same actors in the same places, or the       *)
(* counts begin anew.                                                      *)
LEMMA StoreFair ==
    ASSUME PollInv, ListsInv, ListsInv', NEW l, StoreCache(l), UNCHANGED counter
    PROVE  PollInv'
  <1> USE DEF PollInv
  <1>1. /\ cache' = l
        /\ hits' = IF [n \in DOMAIN l |-> l[n].id] = [n \in DOMAIN cache |-> cache[n].id]
                   THEN hits ELSE [i \in Ids \cup {Older} |-> 0]
    BY DEF StoreCache
  <1>2. DOMAIN l = 1 .. Len(l) /\ Len(l) \in Nat /\ IsList(l)
    BY <1>1, ListReads DEF ListsInv
  <1>3. DOMAIN cache = 1 .. Len(cache) /\ Len(cache) \in Nat
    BY ListReads DEF ListsInv
  <1>4. CASE [n \in DOMAIN l |-> l[n].id] = [n \in DOMAIN cache |-> cache[n].id]
    <2> DEFINE f == [n \in DOMAIN l |-> l[n].id]
               g == [n \in DOMAIN cache |-> cache[n].id]
    <2>1. f = g /\ DOMAIN f = DOMAIN l /\ DOMAIN g = DOMAIN cache
      BY <1>4
    <2>2. DOMAIN l = DOMAIN cache
      BY <2>1
    <2>3. Len(l) = Len(cache)
      BY <1>2, <1>3, <2>2, OneEnd
    <2>4. \A n \in 1 .. Len(cache) : l[n].id = cache[n].id
      <3> SUFFICES ASSUME NEW n \in 1 .. Len(cache) PROVE l[n].id = cache[n].id
        OBVIOUS
      <3>1. f[n] = l[n].id /\ g[n] = cache[n].id
        BY <1>3, <2>2
      <3> QED
        BY <2>1, <3>1
    <2>5. Turn' = Turn /\ \A j : Wait(j)' = Wait(j)
      BY <1>1, <2>3 DEF Turn, Wait
    <2>6. hits' = hits
      BY <1>1, <1>4
    <2>7. PICK N \in [1 .. Len(cache) -> Nat] : TurnsFair(N) /\ TurnsPolled(N)
      OBVIOUS
    <2>8. TurnsFair(N)'
      BY <1>1, <2>3, <2>5, <2>7 DEF TurnsFair
    <2>9. TurnsPolled(N)'
      BY <1>1, <2>3, <2>4, <2>6, <2>7 DEF TurnsPolled
    <2>10. PollType' /\ N \in [1 .. Len(cache') -> Nat]
      BY <1>1, <2>3, <2>6, <2>7 DEF PollType
    <2> QED
      BY <2>8, <2>9, <2>10
  <1>5. CASE [n \in DOMAIN l |-> l[n].id] # [n \in DOMAIN cache |-> cache[n].id]
    <2>1. hits' = [i \in Ids \cup {Older} |-> 0]
      BY <1>1, <1>5
    <2>2. PollType'
      BY <2>1 DEF PollType
    <2>3. PICK N : N = [j \in 1 .. Len(l) |-> 0]
      OBVIOUS
    <2>4. \A n \in 1 .. Len(l) : l[n].id \in Ids
      BY <1>2, ListReads
    <2>5. TurnsFair(N)' /\ TurnsPolled(N)' /\ N \in [1 .. Len(l) -> Nat]
      BY <1>1, <2>1, <2>3, <2>4 DEF TurnsFair, TurnsPolled
    <2> QED
      BY <1>1, <2>2, <2>5
  <1> QED
    BY <1>4, <1>5

(* Every step keeps the turns fair.                                        *)
LEMMA PollInvInductive ==
    ASSUME ToldInv, ListsInv, PollInv, [CacheNext]_cacheVars PROVE PollInv'
  <1> USE DEF cacheVars, etcdSide, watchSide, pollSide
  <1>1. ListsInv'
    BY ListsInvInductive
  <1>2. ASSUME NEW p \in Pollers, PollTake(p) PROVE PollInv'
    BY <1>2, PollTakeFair
  <1>3. CASE HandleStore \/ LoadStore
    BY <1>1, <1>3, StoreFair DEF HandleStore, LoadStore
  <1>4. ASSUME UNCHANGED <<cache, counter, hits>> PROVE PollInv'
    BY <1>4 DEF PollInv, PollType, TurnsFair, TurnsPolled, Wait, Turn
  <1>5. CASE CallStore
    <2>1. UNCHANGED counter /\ (UNCHANGED <<cache, hits>> \/ \E l : StoreCache(l))
      BY <1>5 DEF CallStore
    <2> QED
      BY <1>1, <1>4, <2>1, StoreFair
  <1>6. CASE \/ \E i \in Ids, c \in Configs \cup {Absent} : EtcdChange(i, c)
             \/ \E i \in Own, c \in Configs \cup {Absent} : CallWrite(i, c)
             \/ WatchStart \/ HandleLoad \/ WatchClosed \/ LoadGet \/ WatchSleep \/ WatchLeave
             \/ WatchBreaks \/ LoadFails \/ GroupTakes \/ CallLoad \/ Cancel
             \/ (\E p \in Pollers : PollRead(p)) \/ UNCHANGED cacheVars
    <2>1. UNCHANGED <<cache, counter, hits>>
      BY <1>6 DEF EtcdChange, CallWrite, WatchStart, HandleLoad, WatchClosed, LoadGet, WatchSleep,
                  WatchLeave, WatchBreaks, LoadFails, GroupTakes, CallLoad, Cancel, PollRead
    <2> QED
      BY <1>4, <2>1
  <1> QED
    BY <1>2, <1>3, <1>5, <1>6 DEF CacheNext, WatchStep, CallStep

(* The turns bound the polls.                                              *)
LEMMA TurnsBoundPolls == ASSUME ListsInv, PollInv PROVE PollFair
  <1> SUFFICES ASSUME NEW i \in IdsOf(cache), NEW j \in IdsOf(cache)
               PROVE  hits[i] <= hits[j] + 1 + hits[Older]
    BY DEF PollFair
  <1>1. PICK a \in 1 .. Len(cache), b \in 1 .. Len(cache) : cache[a].id = i /\ cache[b].id = j
    BY ListReads DEF ListsInv
  <1>2. PICK N \in [1 .. Len(cache) -> Nat] : TurnsFair(N) /\ TurnsPolled(N)
    BY DEF PollInv
  <1>3. cache # <<>>
    BY <1>1
  <1>4. Wait(a) \in Nat /\ Wait(b) \in Nat
    BY <1>3, TurnType DEF PollInv
  <1>5. N[a] \in Nat /\ N[b] \in Nat /\ N[a] <= N[b] + 1
    <2>1. Wait(a) <= Wait(b) \/ Wait(b) <= Wait(a)
      BY <1>4
    <2>2. N[a] \in Nat /\ N[b] \in Nat
      BY <1>2
    <2> QED
      BY <1>2, <2>1, <2>2 DEF TurnsFair
  <1>6. i \in Ids /\ j \in Ids
    BY <1>1, ListReads DEF ListsInv
  <1>7. hits[i] \in Nat /\ hits[j] \in Nat /\ hits[Older] \in Nat
    BY <1>6 DEF PollInv, PollType
  <1>8. hits[i] <= N[a] /\ N[b] <= hits[j] + hits[Older]
    BY <1>1, <1>2 DEF TurnsPolled
  <1> QED
    BY <1>5, <1>7, <1>8

(* FindMod, FindPoll (etcd.go 595-629): as long as the same actors are     *)
(* cached a user keeps its actor, but across a reload or a store from an   *)
(* overtaken load; and polling is fair to within one, and one for each     *)
(* caller still at an older list (FindersStable).                          *)
THEOREM FindersAreStable == DiscoverySpec => FindersStable
  <1> DEFINE Inv == ToldInv /\ ListsInv /\ PollInv
             Stays == IdsOf(cache') = IdsOf(cache) =>
                        \/ wpc = "refill" \/ Overtaken
                        \/ \A user \in DOMAIN cache : FindMod(cache', user) = FindMod(cache, user)
  <1>1. DiscoveryInit => Inv
    <2> SUFFICES ASSUME CacheInit PROVE PollInv
      BY CacheInvInit DEF DiscoveryInit
    <2>1. PollType /\ 1 .. Len(cache) = {}
      BY DEF CacheInit, PollType
    <2>2. PICK N : N = [j \in 1 .. Len(cache) |-> 0]
      OBVIOUS
    <2>3. TurnsFair(N) /\ TurnsPolled(N) /\ N \in [1 .. Len(cache) -> Nat]
      BY <2>1, <2>2 DEF TurnsFair, TurnsPolled
    <2> QED
      BY <2>1, <2>3 DEF PollInv
  <1>2. Inv /\ [DiscoveryNext]_discoveryVars => Inv'
    BY OneHalf, ToldInvInductive, ListsInvInductive, PollInvInductive
  <1>3. Inv => PollFair
    BY TurnsBoundPolls
  <1>4. Inv /\ [DiscoveryNext]_discoveryVars => [Stays]_cache
    BY OneHalf, UserKept
  <1> HIDE DEF Inv, Stays
  <1>5. DiscoverySpec => []PollFair /\ [][Stays]_cache
    BY <1>1, <1>2, <1>3, <1>4, PTL DEF DiscoverySpec
  <1> QED
    BY <1>5 DEF FindersStable, UserStays, Stays

=============================================================================
