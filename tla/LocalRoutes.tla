---------------------------- MODULE LocalRoutes ----------------------------
(* Routing inside a process: the table from message ids to actors, which is  *)
(* copied and replaced without a lock, and the load-aware choice of an actor *)
(* of some type (zactor/group.go, zactor/router.go).                         *)
EXTENDS Naturals, Sequences, FiniteSets, FiniteSetsExt

CONSTANTS Registrars,      \* goroutines that call RegisterRoutes
          Requests,        \* the actor and the message ids of each of them
          MsgIds,          \* message ids
          Finders,         \* goroutines that call FindPoolActorByType
          Pool,            \* the actors of the type they ask for
          MaxFinds         \* bound: how often each of them asks

VARIABLES msgRouteTable,   \* the current table
          reg,             \* each registrar: what it does and the table it loaded
          overlapped,      \* history: registrars that ran at the same time as another
          count,           \* how often each actor of the pool was chosen
          finder           \* each finder: the actor it is about to count, and how often
                           \* it has asked

routeVars == <<msgRouteTable, reg, overlapped, count, finder>>

EmptyTable == [m \in MsgIds |-> <<>>]
None == 0

ASSUME RegistrarsAssumption == \A r \in Registrars :
    Requests[r].actor \in Nat \ {None} /\ Requests[r].ids \subseteq MsgIds

ASSUME FindersAssumption == IsFiniteSet(Finders) /\ None \notin Pool /\ MaxFinds \in Nat

RoutesInit ==
    /\ msgRouteTable = EmptyTable
    /\ reg = [r \in Registrars |-> [pc |-> "idle", table |-> EmptyTable]]
    /\ overlapped = {}
    /\ count = [a \in Pool |-> 0]
    /\ finder = [f \in Finders |-> [pick |-> None, finds |-> 0]]

-----------------------------------------------------------------------------
Has(list, a) == \E i \in 1..Len(list) : list[i] = a

(* Mutant of Extended: the actor replaces the others.                        *)
ExtendedAlone(table, a, ids) == [m \in MsgIds |-> IF m \in ids THEN <<a>> ELSE table[m]]
(* Mutant of Extended: the newest actor comes first.                         *)
ExtendedInFront(table, a, ids) ==
    [m \in MsgIds |-> IF m \in ids /\ ~Has(table[m], a) THEN <<a>> \o table[m] ELSE table[m]]
(* The copy of a table in which actor a handles the message ids.             *)
Extended(table, a, ids) ==
    [m \in MsgIds |-> IF m \in ids /\ ~Has(table[m], a) THEN Append(table[m], a) ELSE table[m]]

(* RegisterRoutes loads the table, ...                                       *)
LoadTable(r) ==
    LET others == {q \in Registrars \ {r} : reg[q].pc = "loaded"} IN
    /\ reg[r].pc = "idle"
    /\ reg' = [reg EXCEPT ![r] = [pc |-> "loaded", table |-> msgRouteTable]]
    /\ overlapped' = overlapped \cup (IF others = {} THEN {} ELSE others \cup {r})
    /\ UNCHANGED <<msgRouteTable, count, finder>>

(* ... and stores its extended copy.                                         *)
StoreTable(r) ==
    /\ reg[r].pc = "loaded"
    /\ msgRouteTable' = Extended(reg[r].table, Requests[r].actor, Requests[r].ids)
    /\ reg' = [reg EXCEPT ![r] = [pc |-> "done", table |-> EmptyTable]]
    /\ UNCHANGED <<overlapped, count, finder>>

(* LookupActorsByMsgIDView and RouteLocal: the first candidate.              *)
LookupActorsByMsgID(m) == msgRouteTable[m]
RouteLocal(m) == IF LookupActorsByMsgID(m) = <<>> THEN None ELSE LookupActorsByMsgID(m)[1]

-----------------------------------------------------------------------------
(* Mutant of Least: any actor of the type will do.                           *)
LeastAny(a) == a \in Pool
(* The sort finds one of the actors that were chosen least.                  *)
Least(a) == a \in Pool /\ \A b \in Pool : count[a] <= count[b]

(* FindPoolActorByType compares the counters ...                             *)
SortPool(f) ==
    /\ finder[f].pick = None /\ finder[f].finds < MaxFinds
    /\ \E a \in Pool : Least(a) /\ finder' = [finder EXCEPT ![f].pick = a]
    /\ UNCHANGED <<msgRouteTable, reg, overlapped, count>>

(* ... and counts its choice.                                                *)
CountPick(f) ==
    /\ finder[f].pick # None
    /\ count' = [count EXCEPT ![finder[f].pick] = @ + 1]
    /\ finder' = [finder EXCEPT ![f] = [pick |-> None, finds |-> @.finds + 1]]
    /\ UNCHANGED <<msgRouteTable, reg, overlapped>>

RoutesNext ==
    \/ \E r \in Registrars : LoadTable(r) \/ StoreTable(r)
    \/ \E f \in Finders : SortPool(f) \/ CountPick(f)

-----------------------------------------------------------------------------
(* RegisterRoutes (zactor/group.go 128-179): a registration that ran at the  *)
(* same time as no other stays in the table for good, once, whatever comes   *)
(* after it.                                                                 *)
RoutesKept ==
    \A r \in Registrars :
        reg[r].pc = "done" /\ r \notin overlapped =>
            \A m \in Requests[r].ids :
                Cardinality({i \in 1..Len(msgRouteTable[m]) :
                                msgRouteTable[m][i] = Requests[r].actor}) = 1

(* RouteLocal (zactor/router.go 27-50): while registrations do not overlap,  *)
(* a message id keeps going to the actor it went to first.                   *)
RouteSticky ==
    [][\A m \in MsgIds :
          overlapped' = {} /\ RouteLocal(m) # None => RouteLocal(m)' = RouteLocal(m)]_routeVars

(* FindPoolActorByType (zactor/group.go 94-112): although the comparison and *)
(* the counting are two steps, no actor is chosen more often than another by *)
(* more than the number of goroutines that ask at the same time.             *)
PoolBalanced == \A a, b \in Pool : count[a] <= count[b] + Cardinality(Finders)
=============================================================================
