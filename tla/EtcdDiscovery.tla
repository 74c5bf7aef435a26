--------------------------- MODULE EtcdDiscovery ----------------------------
(* EtcdDiscovery: the registrations it keeps in etcd under a shared lease,   *)
(* and the cache it keeps of what etcd holds.  What one half does in etcd    *)
(* reaches the other as a change in etcd, which EtcdCache lets happen at any *)
(* time; they share nothing else but the context, and a behaviour follows    *)
(* one of them.                                                              *)
EXTENDS EtcdLease, EtcdCache

CONSTANTS Halves           \* the halves to follow

VARIABLES half

ASSUME HalvesAssumption == Halves \subseteq {"lease", "cache"}

discoveryVars == <<half, vars, cacheVars>>

(* The half that is not followed starts in one way.                          *)
DiscoveryInit ==
    /\ half \in Halves /\ Init /\ CacheInit
    /\ half = "cache" => granted = 1
    /\ half = "lease" => \A i \in Ids : store[i] = Absent

Lease(A) == half = "lease" /\ A /\ UNCHANGED <<half, cacheVars>>
Cache(A) == half = "cache" /\ A /\ UNCHANGED <<half, vars>>

DiscoveryNext == Lease(Next) \/ Cache(CacheNext)

DiscoverySpec == DiscoveryInit /\ [][DiscoveryNext]_discoveryVars

(* Goroutines are scheduled, calls that have begun go on, and etcd expires a *)
(* lease nobody keeps alive.  Nothing makes the application call.            *)
DiscoveryFairness ==
    /\ WF_discoveryVars(Lease(AppStep))
    /\ \A l \in Leases : /\ WF_discoveryVars(Lease(Keepalive(l)))
                         /\ SF_discoveryVars(Lease(KaRecreate(l)))
                         /\ WF_discoveryVars(Lease(Expire(l) /\ ~KeptAlive(l)))
    /\ WF_discoveryVars(Cache(WatchStep)) /\ WF_discoveryVars(Cache(CallStep))

FairDiscoverySpec == DiscoverySpec /\ DiscoveryFairness

-----------------------------------------------------------------------------
(* Registration (zdiscovery/etcd.go 181-230, 398-457): etcd has what is    *)
(* registered again after a lost lease, and nothing that is not, except    *)
(* where a Put fails, a re-registration crosses Register or Unregister, or *)
(* a call gets an error although etcd has executed it.                     *)
RegistryFollows == Reregistered /\ []UnregisteredGone

(* The cache and the group behind it (zdiscovery/etcd.go 232-366): they    *)
(* follow etcd through broken watches, reloads and racing writers, except  *)
(* for what changed while nothing watched, was overwritten by another      *)
(* writer, or did not fit the channel.                                     *)
CacheFollows == CacheExact /\ GroupTold

(* The finders (zdiscovery/etcd.go 595-629): FindMod keeps a user's actor  *)
(* while the same actors are cached, and FindPoll is fair to within its    *)
(* concurrent callers.                                                     *)
FindersStable == UserStays /\ []PollFair

(* The end (zdiscovery/etcd.go 251-289, 464-490): after CloseAll no key of *)
(* the process stays in etcd, and the watch goroutine ends, and not        *)
(* before.                                                                 *)
CloseEndsAll == ClosedLeavesNothing /\ WatchEnds
=============================================================================
