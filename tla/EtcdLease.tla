----------------------------- MODULE EtcdLease ------------------------------
(***************************************************************************)
(* Registration of a process's actors in etcd under one shared lease:      *)
(* zdiscovery/etcd.go (Register, Unregister, CloseAll, the lease keepalive *)
(* and recreateLeaseAndReregister).                                        *)
(*                                                                         *)
(* etcd, external to the repository, is what its client's calls see of it: *)
(* leases that may expire, and keys that vanish with their lease.  The     *)
(* application goroutine registers, unregisters and finally closes; every  *)
(* lease that is granted comes with a keepalive goroutine of its own, so   *)
(* goroutines are named by leases.  What leaseMu guards is one step.       *)
(***************************************************************************)
EXTENDS Integers, FiniteSets

CONSTANTS
    Keys,        \* keys of this process's actors, all registered at first
    Changing,    \* those the application may unregister and register again
    MaxLeases,   \* bound: leases granted
    MayExpire,   \* a lease that is kept alive may expire (a partition)
    MayFail      \* calls to etcd may fail

ASSUME KeysAssumption == Changing \subseteq Keys /\ IsFiniteSet(Keys)
ASSUME BoundsAssumption ==
    MaxLeases \in Nat \ {0} /\ {MayExpire, MayFail} \subseteq BOOLEAN

Leases  == 1 .. MaxLeases
NoLease == 0

VARIABLES
    kv,       \* etcd: the lease of a key, NoLease if the key is absent
    live,     \* etcd: leases granted and neither expired nor revoked
    granted,  \* leases granted so far
    shared,   \* sharedLeaseID
    reg,      \* registeredActors
    done,     \* d.ctx is cancelled
    app,      \* the application goroutine: [pc, key, lease]
    closeTodo,\* CloseAll: the actors it still has to unregister
    pc,       \* where a keepalive goroutine is
    mine,     \* the lease it keeps alive
    old,      \* its oldLease
    new,      \* its newLease
    todo,     \* registered keys it still has to put
    failed,   \* history: a Put of a re-registration failed
    crossed,  \* history: keys whose call crossed a re-registration
    unsure    \* history: keys put or deleted by a call that got an error, and
              \* that etcd has but reg has not, or the other way round

etcdVars == <<kv, live, granted>>
appVars  == <<reg, done, app, closeTodo>>
kaVars   == <<pc, mine, old, new, todo, failed>>
keepVars == <<kaVars, crossed, unsure>>
vars     == <<etcdVars, shared, appVars, keepVars>>

(* NewEtcdDiscovery: the lease is granted, and soon the actors are         *)
(* registered; or Grant failed.                                            *)
Init ==
    /\ \/ /\ kv = [k \in Keys |-> 1]
          /\ live = {1} /\ granted = 1 /\ shared = 1
          /\ reg = Keys
       \/ /\ MayFail
          /\ kv = [k \in Keys |-> NoLease]
          /\ live = {} /\ granted = 0 /\ shared = NoLease
          /\ reg = {}
    /\ done = FALSE
    /\ app = [pc |-> "idle", key |-> {}, lease |-> NoLease]
    /\ closeTodo = {}
    /\ pc = [l \in Leases |-> IF l \in live THEN "top" ELSE "none"]
    /\ mine = [l \in Leases |-> NoLease]
    /\ old = [l \in Leases |-> NoLease] /\ new = [l \in Leases |-> NoLease]
    /\ todo = [l \in Leases |-> {}]
    /\ failed = FALSE /\ crossed = {} /\ unsure = {}

-----------------------------------------------------------------------------
(* etcd, external *)

(* Keys vanish with their lease.                                           *)
Drop(l) ==
    /\ live' = live \ {l}
    /\ kv' = [k \in Keys |-> IF kv[k] = l THEN NoLease ELSE kv[k]]

Put(k, l) == l \in live /\ kv' = [kv EXCEPT ![k] = l]

KeptAlive(l) == ~done /\ \E g \in Leases : pc[g] = "keep" /\ mine[g] = l

Expire(l) ==
    /\ l \in live
    /\ MayExpire \/ ~KeptAlive(l)
    /\ Drop(l)
    /\ UNCHANGED <<granted, shared, appVars, keepVars>>

-----------------------------------------------------------------------------
(* createSharedLeaseLocked: Grant, and a goroutine that keeps it alive.    *)
CreateLease ==
    /\ ~done
    /\ granted < MaxLeases
    /\ granted' = granted + 1
    /\ live' = live \cup {granted + 1}
    /\ shared' = granted + 1

-----------------------------------------------------------------------------
(* The application goroutine *)

At(label) == app.pc = label

Goto(label) == app' = [app EXCEPT !.pc = label]

(* Return from the call.                                                   *)
Return == app' = [pc |-> "idle", key |-> {}, lease |-> NoLease]

(* Register: the shared lease is read under leaseMu ...                    *)
Register(k) ==
    /\ At("idle")
    /\ shared # NoLease
    /\ app' = [pc |-> "put", key |-> {k}, lease |-> shared]
    /\ UNCHANGED <<etcdVars, shared, reg, done, closeTodo, keepVars>>

(* ... and granted there when the first Grant had failed ...               *)
RegisterGrants(k) ==
    /\ At("idle")
    /\ shared = NoLease
    /\ CreateLease
    /\ pc' = [pc EXCEPT ![granted + 1] = "top"]
    /\ app' = [pc |-> "put", key |-> {k}, lease |-> granted + 1]
    /\ UNCHANGED <<kv, reg, done, closeTodo, mine, old, new, todo, failed, crossed, unsure>>

(* ... the key is put under it ...                                         *)
RegisterPut ==
    /\ At("put")
    /\ \E k \in app.key : Put(k, app.lease)
    /\ Goto("store")
    /\ crossed' = crossed \ app.key /\ unsure' = unsure \ app.key
    /\ UNCHANGED <<live, granted, shared, reg, done, closeTodo, kaVars>>

(* ... which fails on a lease that is gone; an error may also mean that    *)
(* the answer was lost ...                                                 *)
RegisterFails ==
    /\ At("put")
    /\ \/ /\ MayFail \/ app.lease \notin live
          /\ UNCHANGED <<kv, unsure>>
       \/ /\ MayFail
          /\ \E k \in app.key : Put(k, app.lease)
          /\ unsure' = (unsure \ app.key) \cup (app.key \ reg)
    /\ Return
    /\ UNCHANGED <<live, granted, shared, reg, done, closeTodo, kaVars, crossed>>

(* ... and registeredActors is replaced, maybe after the lease was and its *)
(* actors were put again.                                                  *)
RegisterStore ==
    /\ At("store")
    /\ reg' = reg \cup app.key
    /\ Return
    /\ crossed' = IF app.lease = shared THEN crossed ELSE crossed \cup app.key
    /\ UNCHANGED <<etcdVars, shared, done, closeTodo, kaVars, unsure>>

(* Delete, which may fail, before or after etcd has executed it: then an   *)
(* actor is registered without a key, which CloseAll, when it does it,     *)
(* makes good by what follows.  A re-registration may still have the key   *)
(* to put.                                                                 *)
Delete(k, next) ==
    /\ \/ /\ kv' = [kv EXCEPT ![k] = NoLease]
          /\ app' = [app EXCEPT !.pc = next, !.key = {k}]
          /\ crossed' = IF \E g \in Leases : k \in todo[g] THEN crossed \cup {k}
                        ELSE crossed \ {k}
          /\ unsure' = unsure \ {k}
       \/ /\ MayFail
          /\ kv' = [kv EXCEPT ![k] = NoLease]
          /\ unsure' = IF At("idle") /\ k \in reg THEN unsure \cup {k} ELSE unsure \ {k}
          /\ UNCHANGED <<app, crossed>>
       \/ /\ MayFail
          /\ UNCHANGED <<kv, app, crossed, unsure>>
    /\ UNCHANGED <<live, granted, shared, reg, done, kaVars>>

(* Unregister: the key is deleted (an error ends it there) ...             *)
Unregister(k) ==
    /\ At("idle")
    /\ Delete(k, "remove")
    /\ UNCHANGED closeTodo

(* ... and registeredActors is replaced.                                   *)
UnregisterStore ==
    /\ reg' = reg \ app.key
    /\ \/ At("remove") /\ Return
       \/ At("closeRemove") /\ app' = [app EXCEPT !.pc = "closing", !.key = {}]
    /\ UNCHANGED <<etcdVars, shared, done, closeTodo, keepVars>>

(* CloseAll: unregister every registered actor ...                         *)
CloseAll ==
    /\ At("idle")
    /\ Goto("closing")
    /\ closeTodo' = reg
    /\ unsure' = unsure \ reg
    /\ UNCHANGED <<etcdVars, shared, reg, done, kaVars, crossed>>

CloseUnregister ==
    /\ At("closing")
    /\ \E k \in closeTodo :
          /\ Delete(k, "closeRemove")
          /\ closeTodo' = closeTodo \ {k}

(* ... revoke the lease, under leaseMu, whatever Revoke says ...           *)
CloseRevoke ==
    /\ At("closing")
    /\ closeTodo = {}
    /\ \/ Drop(shared)
       \/ MayFail /\ UNCHANGED <<kv, live>>
    /\ shared' = NoLease
    /\ Goto("cancel")
    /\ UNCHANGED <<granted, reg, done, closeTodo, keepVars>>

(* Mutant of CloseCancel: the context is never cancelled.                  *)
CloseUncancelled ==
    /\ At("cancel")
    /\ Goto("closed")
    /\ UNCHANGED <<etcdVars, shared, reg, done, closeTodo, keepVars>>

(* ... and cancel the context last.                                        *)
CloseCancel ==
    /\ At("cancel")
    /\ done' = TRUE
    /\ Goto("closed")
    /\ UNCHANGED <<etcdVars, shared, reg, closeTodo, keepVars>>

-----------------------------------------------------------------------------
(* runLeaseKeepalive, in the goroutine that came with lease g *)

KaGoto(g, label) == pc' = [pc EXCEPT ![g] = label]

(* The goroutine ends.                                                     *)
KaEnd(g) ==
    /\ KaGoto(g, "gone")
    /\ mine' = [mine EXCEPT ![g] = NoLease]
    /\ old' = [old EXCEPT ![g] = NoLease]
    /\ new' = [new EXCEPT ![g] = NoLease]

(* Leave when the context is done or there is no lease.                    *)
KaLeave(g) ==
    /\ \/ pc[g] = "top" /\ (done \/ shared = NoLease)
       \/ pc[g] = "closed" /\ done
    /\ KaEnd(g)
    /\ UNCHANGED <<etcdVars, shared, appVars, todo, failed, crossed, unsure>>

(* KeepAlive of the shared lease (an error only leads to another try).     *)
KaKeep(g) ==
    /\ pc[g] = "top"
    /\ ~done /\ shared # NoLease
    /\ mine' = [mine EXCEPT ![g] = shared]
    /\ KaGoto(g, "keep")
    /\ UNCHANGED <<etcdVars, shared, appVars, old, new, todo, failed, crossed, unsure>>

(* The keepalive channel closes: the lease is gone, or the context.        *)
KaClosed(g) ==
    /\ pc[g] = "keep"
    /\ mine[g] \notin live \/ done
    /\ KaGoto(g, "closed")
    /\ mine' = [mine EXCEPT ![g] = NoLease]
    /\ UNCHANGED <<etcdVars, shared, appVars, old, new, todo, failed, crossed, unsure>>

(* Mutant of KaRecreate: the old goroutine goes on keeping alive.          *)
KaRecreateAndStay(g) ==
    /\ pc[g] = "closed"
    /\ CreateLease
    /\ pc' = [pc EXCEPT ![g] = "top", ![granted + 1] = "top"]
    /\ UNCHANGED <<kv, appVars, mine, old, new, todo, failed, crossed, unsure>>

(* recreateLeaseAndReregister: grant a new lease under leaseMu ...         *)
KaRecreate(g) ==
    /\ pc[g] = "closed"
    /\ CreateLease
    /\ old' = [old EXCEPT ![g] = shared]
    /\ new' = [new EXCEPT ![g] = granted + 1]
    /\ pc' = [pc EXCEPT ![g] = "load", ![granted + 1] = "top"]
    /\ UNCHANGED <<kv, appVars, mine, todo, failed, crossed, unsure>>

(* ... which may fail: sleep, and start over ...                           *)
KaRecreateFails(g) ==
    /\ pc[g] = "closed"
    /\ ~done
    /\ MayFail
    /\ KaGoto(g, "top")
    /\ UNCHANGED <<etcdVars, shared, appVars, mine, old, new, todo, failed, crossed, unsure>>

(* Mutant of KaLoad: nothing is registered again.                          *)
KaLoadNothing(g) ==
    /\ pc[g] = "load"
    /\ KaGoto(g, "reput")
    /\ UNCHANGED <<etcdVars, shared, appVars, mine, old, new, todo, failed, crossed, unsure>>

(* Mutant of KaLoad: actors that were unregistered are put again.          *)
KaLoadAll(g) ==
    /\ pc[g] = "load"
    /\ todo' = [todo EXCEPT ![g] = Keys]
    /\ KaGoto(g, "reput")
    /\ UNCHANGED <<etcdVars, shared, appVars, mine, old, new, failed, crossed, unsure>>

(* ... load registeredActors, from which an Unregister may be about to     *)
(* take the key it has deleted ...                                         *)
KaLoad(g) ==
    /\ pc[g] = "load"
    /\ todo' = [todo EXCEPT ![g] = reg]
    /\ KaGoto(g, "reput")
    /\ crossed' = IF At("remove") \/ At("closeRemove") THEN crossed \cup app.key
                  ELSE crossed
    /\ UNCHANGED <<etcdVars, shared, appVars, mine, old, new, failed, unsure>>

(* ... put its keys under the new lease; a failure is only logged, so that *)
(* a lost answer makes no difference ...                                   *)
KaPut(g) ==
    /\ pc[g] = "reput"
    /\ \E k \in todo[g] :
          /\ todo' = [todo EXCEPT ![g] = @ \ {k}]
          /\ \/ /\ ~done /\ Put(k, new[g])
                /\ unsure' = unsure \ {k}
                /\ UNCHANGED failed
             \/ MayFail /\ failed' = TRUE /\ UNCHANGED <<kv, unsure>>
             \/ (done \/ new[g] \notin live) /\ UNCHANGED <<kv, failed, unsure>>
    /\ UNCHANGED <<live, granted, shared, appVars, pc, mine, old, new, crossed>>

(* ... and revoke the old lease, best-effort; the goroutine ends.          *)
KaRevoke(g) ==
    /\ pc[g] = "reput"
    /\ todo[g] = {}
    /\ \/ ~done /\ old[g] # NoLease /\ Drop(old[g])
       \/ (MayFail \/ done \/ old[g] = NoLease) /\ UNCHANGED <<kv, live>>
    /\ KaEnd(g)
    /\ UNCHANGED <<granted, shared, appVars, todo, failed, crossed, unsure>>

-----------------------------------------------------------------------------
Closing == CloseUnregister \/ CloseRevoke \/ CloseCancel

(* A call that has begun goes on.                                          *)
AppStep == RegisterPut \/ RegisterFails \/ RegisterStore \/ UnregisterStore \/ Closing

App ==
    \/ \E k \in Changing : Register(k) \/ RegisterGrants(k) \/ Unregister(k)
    \/ CloseAll \/ AppStep

Keepalive(g) ==
    \/ KaLeave(g) \/ KaKeep(g) \/ KaClosed(g) \/ KaRecreate(g)
    \/ KaRecreateFails(g) \/ KaLoad(g) \/ KaPut(g) \/ KaRevoke(g)

Next == App \/ \E l \in Leases : Keepalive(l) \/ Expire(l)

Spec == Init /\ [][Next]_vars

-----------------------------------------------------------------------------
(* Properties *)

(* Types; a key is never held by a lease that is gone.                     *)
TypeOK ==
    /\ kv \in [Keys -> live \cup {NoLease}]
    /\ live \in SUBSET Leases /\ granted \in 0 .. MaxLeases
    /\ shared \in Leases \cup {NoLease}
    /\ reg \in SUBSET Keys /\ done \in BOOLEAN
    /\ app.pc \in {"idle", "put", "store", "remove", "closing", "closeRemove",
                   "cancel", "closed"}
    /\ app.key \in SUBSET Keys /\ app.lease \in Leases \cup {NoLease}
    /\ closeTodo \in SUBSET Keys
    /\ pc \in [Leases -> {"none", "top", "keep", "closed", "load", "reput", "gone"}]
    /\ {mine, old, new} \subseteq [Leases -> Leases \cup {NoLease}]
    /\ todo \in [Leases -> SUBSET Keys] /\ failed \in BOOLEAN
    /\ crossed \in SUBSET Keys /\ unsure \in SUBSET Keys

Keepers == {g \in Leases : pc[g] \in {"top", "keep", "closed"}}

(* One goroutine at most keeps a lease alive, and while the registry is    *)
(* open and has a lease there is one: recreating a lease neither doubles   *)
(* the keepalive nor drops it.                                             *)
OneKeeper ==
    /\ Cardinality(Keepers) <= 1
    /\ shared # NoLease /\ ~done => shared \in Keepers

(* Register, recreateLeaseAndReregister (etcd.go 181-230, 398-404): after  *)
(* the lease is lost, what stays registered comes back, unless its Put     *)
(* fails, which is logged and not tried again, or the lease was replaced   *)
(* between the Put of its Register and the store that follows, or it was   *)
(* deleted by an Unregister that got an error all the same.                *)
Reregistered ==
    \A k \in Keys : k \in reg /\ kv[k] = NoLease ~>
        \/ kv[k] # NoLease \/ k \notin reg
        \/ ~At("idle") \/ granted = MaxLeases \/ failed
        \/ k \in crossed \cup unsure

(* Unregister, recreateLeaseAndReregister (etcd.go 194-222, 427-444): an   *)
(* actor that is not registered has no key in etcd, except where a         *)
(* re-registration had loaded the actor before Unregister was through with *)
(* it, and puts the key again, or its Register got an error although its   *)
(* Put took effect.                                                        *)
UnregisteredGone ==
    \A k \in Keys \ reg :
        kv[k] # NoLease => \/ k \in crossed \cup unsure
                           \/ At("store") /\ k \in app.key

(* After CloseAll no key of this process stays in etcd, even when the      *)
(* deletion or the revocation failed, or a lease was recreated meanwhile.  *)
ClosedLeavesNothing == At("closed") ~> [](\A k \in Keys : kv[k] = NoLease)
=============================================================================
