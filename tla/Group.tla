------------------------------- MODULE Group -------------------------------
(* The life of a process: App.Run creates the script engines and the actors, *)
(* Group.Run registers, initialises and starts them or rolls back, and a     *)
(* shutdown closes them (zstartup/app.go, zactor/group.go,                   *)
(* zscript/adapter/group_integration.go).                                    *)
(*                                                                           *)
(* One goroutine does all of it, one call after the other; what interleaves  *)
(* with it is the signal to stop and the supervised workers (Supervisor).    *)
EXTENDS Naturals, Sequences, FiniteSets

CONSTANTS Actors,          \* the ids of the actors
          ActorOrder,      \* the order of AppConfig.Actors: a sequence of them
          Servers,         \* those of the actors that have a RunServer
          EngineOrder      \* the engines, in the order of their creation

VARIABLES main,            \* what App.Run is doing
          item,            \* how many actors or engines it has dealt with
          added,           \* Group.actors
          registered,      \* actors the discoverer knows
          lost,            \* history: actors whose Unregister failed
          inited,          \* actors whose Init succeeded
          closedOrder,     \* history: the actors that were closed, in this order
          broken,          \* the actor whose Init or RunServer failed
          engines,         \* the state of each script engine
          started,         \* StartWorkers has run
          signal           \* the process was asked to stop

lifeVars == <<main, item, added, registered, lost, inited, closedOrder, broken,
              engines, started, signal>>

N == Len(ActorOrder)
Nobody == 0

ASSUME OrderAssumption ==
    /\ Actors \subseteq Nat \ {Nobody} /\ Servers \subseteq Actors
    /\ ActorOrder \in Seq(Actors) /\ N = Cardinality(Actors)
    /\ Actors = {ActorOrder[i] : i \in 1..N}

(* Group.Run goes through the actors in the order of their ids.              *)
ById == CHOOSE s \in [1..N -> Actors] : \A i, j \in 1..N : i < j => s[i] < s[j]

Closed == {closedOrder[i] : i \in 1..Len(closedOrder)}
Engines == {EngineOrder[i] : i \in 1..Len(EngineOrder)}

LifeInit ==
    /\ main = "engines" /\ item = 0
    /\ added = {} /\ registered = {} /\ lost = {} /\ inited = {}
    /\ closedOrder = <<>> /\ broken = Nobody
    /\ engines = [k \in Engines |-> "none"]
    /\ started = FALSE /\ signal = FALSE

-----------------------------------------------------------------------------
(* InitScriptEnginesForGroup: one engine after the other; SetScriptEngine.   *)
NewEngine ==
    /\ main = "engines" /\ item < Len(EngineOrder)
    /\ engines' = [engines EXCEPT ![EngineOrder[item + 1]] = "open"]
    /\ item' = item + 1
    /\ UNCHANGED <<main, added, registered, lost, inited, closedOrder, broken, started, signal>>

(* Mutant of EnginesDone: after a failure the engines before it are closed,  *)
(* and stay registered.                                                      *)
EnginesDoneClosing ==
    /\ main = "engines"
    /\ main' = "actors" /\ item' = 0
    /\ engines' = IF item = Len(EngineOrder) THEN engines
                  ELSE [k \in Engines |-> IF engines[k] = "open" THEN "closed" ELSE engines[k]]
    /\ UNCHANGED <<added, registered, lost, inited, closedOrder, broken, started, signal>>
(* A constructor fails: the engines before it stay, and the caller ignores   *)
(* the error.  The last engine is followed by initActors as well.            *)
EnginesDone ==
    /\ main = "engines"
    /\ main' = "actors" /\ item' = 0
    /\ UNCHANGED <<added, registered, lost, inited, closedOrder, broken, engines, started, signal>>

-----------------------------------------------------------------------------
(* initActors: the factory, AddActor and RegisterRoutes of the next actor.   *)
AddActor ==
    /\ main = "actors" /\ item < N
    /\ added' = added \cup {ActorOrder[item + 1]}
    /\ item' = item + 1
    /\ UNCHANGED <<main, registered, lost, inited, closedOrder, broken, engines, started, signal>>

(* There is no factory, or it returns nil: App.Run returns the error and     *)
(* closes nothing.                                                           *)
FactoryFails ==
    /\ main = "actors" /\ item < N
    /\ main' = "unstarted"
    /\ UNCHANGED <<item, added, registered, lost, inited, closedOrder, broken, engines,
                   started, signal>>

(* All actors are there: Group.Run begins.                                   *)
BeginRun ==
    /\ main = "actors" /\ item = N
    /\ main' = "register" /\ item' = 0
    /\ UNCHANGED <<added, registered, lost, inited, closedOrder, broken, engines, started, signal>>

-----------------------------------------------------------------------------
Current == ById[item + 1]

(* registerActor: a failure is logged and ignored.                           *)
registerActor ==
    /\ main = "register" /\ item < N
    /\ registered' \in {registered, registered \cup {Current}}
    /\ main' = "init"
    /\ UNCHANGED <<item, added, lost, inited, closedOrder, broken, engines, started, signal>>

(* Init, and what follows its failure.                                       *)
InitActor ==
    /\ main = "init"
    /\ inited' = inited \cup {Current}
    /\ IF Current \in Servers
       THEN main' = "server" /\ UNCHANGED item
       ELSE main' = "register" /\ item' = item + 1
    /\ UNCHANGED <<added, registered, lost, closedOrder, broken, engines, started, signal>>

InitFails ==
    /\ main = "init"
    /\ broken' = Current /\ main' = "rollback"
    /\ UNCHANGED <<item, added, registered, lost, inited, closedOrder, engines, started, signal>>

(* RunServer, and what follows its failure.                                  *)
RunServer ==
    /\ main = "server"
    /\ main' = "register" /\ item' = item + 1
    /\ UNCHANGED <<added, registered, lost, inited, closedOrder, broken, engines, started, signal>>

ServerFails ==
    /\ main = "server"
    /\ broken' = Current /\ main' = "rollback"
    /\ UNCHANGED <<item, added, registered, lost, inited, closedOrder, engines, started, signal>>

-----------------------------------------------------------------------------
(* Actor.Close does its work once.                                           *)
CloseActor(a) ==
    closedOrder' = IF a \in Closed THEN closedOrder ELSE Append(closedOrder, a)

(* unregisterActor: a failure is logged, and the entry stays.                *)
unregisterActor(a) ==
    \/ registered' = registered \ {a} /\ UNCHANGED lost
    \/ a \in registered /\ lost' = lost \cup {a} /\ UNCHANGED registered

(* Mutant of RollBack: the first one first.                                  *)
RollBackForward ==
    /\ main = "rollback" /\ item > 0
    /\ CloseActor(ById[Len(closedOrder) + 1])
    /\ unregisterActor(ById[Len(closedOrder) + 1])
    /\ item' = item - 1
    /\ UNCHANGED <<main, added, inited, broken, engines, started, signal>>
(* rollbackRunInit: the actors that were started, the last one first.        *)
RollBack ==
    /\ main = "rollback" /\ item > 0
    /\ CloseActor(ById[item])
    /\ unregisterActor(ById[item])
    /\ item' = item - 1
    /\ UNCHANGED <<main, added, inited, broken, engines, started, signal>>

(* Mutant of RollBackFailed: the failed actor stays registered.              *)
RollBackFailedOnly ==
    /\ main = "rollback" /\ item = 0
    /\ IF broken \in inited THEN CloseActor(broken) ELSE UNCHANGED closedOrder
    /\ main' = "shutdown"
    /\ UNCHANGED <<item, added, registered, lost, inited, broken, engines, started, signal>>
(* The failed one is closed when its Init had succeeded.  Run returns the    *)
(* error and App.Run shuts down.                                             *)
RollBackFailed ==
    /\ main = "rollback" /\ item = 0
    /\ IF broken \in inited THEN CloseActor(broken) ELSE UNCHANGED closedOrder
    /\ unregisterActor(broken)
    /\ main' = "shutdown"
    /\ UNCHANGED <<item, added, inited, broken, engines, started, signal>>

(* All actors run: watchActor, StartWorkers and tick are started.            *)
StartWorkers ==
    /\ main = "register" /\ item = N
    /\ started' = TRUE /\ main' = "wait"
    /\ UNCHANGED <<item, added, registered, lost, inited, closedOrder, broken, engines, signal>>

-----------------------------------------------------------------------------
(* A signal: it is remembered from the start on, and Grace.Wait acts on it.  *)
Signal ==
    /\ ~signal
    /\ signal' = TRUE
    /\ UNCHANGED <<main, item, added, registered, lost, inited, closedOrder, broken,
                   engines, started>>

GraceWait ==
    /\ main = "wait" /\ signal
    /\ main' = "shutdown"
    /\ UNCHANGED <<item, added, registered, lost, inited, closedOrder, broken, engines,
                   started, signal>>

(* Mutant of stopCancel: the group is closed without it.                     *)
stopCancelNot(c) == main = "shutdown" /\ main' = "close" /\ UNCHANGED c
(* shutdown: first the context is cancelled.                                 *)
stopCancel(c) == main = "shutdown" /\ main' = "close" /\ c' = TRUE

Shutdown(c) ==
    /\ stopCancel(c)
    /\ UNCHANGED <<item, added, registered, lost, inited, closedOrder, broken, engines,
                   started, signal>>

(* Group.Close: the actors, in no order, ...                                 *)
CloseOne ==
    /\ main = "close"
    /\ \E a \in added \ Closed : CloseActor(a)
    /\ UNCHANGED <<main, item, added, registered, lost, inited, broken, engines, started, signal>>

(* ... then the engines.                                                     *)
CloseScriptEngines ==
    /\ main = "close" /\ added \subseteq Closed
    /\ engines' = [k \in Engines |-> IF engines[k] = "open" THEN "closed" ELSE engines[k]]
    /\ main' = IF broken = Nobody THEN "done" ELSE "failed"
    /\ UNCHANGED <<item, added, registered, lost, inited, closedOrder, broken, started, signal>>

-----------------------------------------------------------------------------
MainStep ==
    \/ NewEngine \/ EnginesDone \/ AddActor \/ FactoryFails \/ BeginRun
    \/ registerActor \/ InitActor \/ InitFails \/ RunServer \/ ServerFails
    \/ RollBack \/ RollBackFailed \/ StartWorkers \/ GraceWait
    \/ CloseOne \/ CloseScriptEngines

-----------------------------------------------------------------------------
(* Every variable has its type.                                              *)
GroupTypeOK ==
    /\ main \in {"engines", "actors", "unstarted", "register", "init", "server", "rollback",
                 "wait", "shutdown", "close", "done", "failed"}
    /\ item \in 0..N \/ main = "engines"
    /\ added \subseteq Actors /\ registered \subseteq Actors /\ lost \subseteq Actors
    /\ inited \subseteq Actors /\ Closed \subseteq Actors
    /\ broken \in Actors \cup {Nobody}
    /\ engines \in [Engines -> {"none", "open", "closed"}]
    /\ started \in BOOLEAN /\ signal \in BOOLEAN

(* A start that fails (zactor/group.go 262-325, zstartup/app.go 77-82):      *)
(* when App.Run returns the error of Group.Run no worker was started, every  *)
(* actor is closed, none is left in the registry except where Unregister     *)
(* itself failed, and no script engine is open.                              *)
FailedStartClean ==
    main = "failed" =>
        /\ ~started
        /\ Closed = Actors
        /\ registered \subseteq lost
        /\ \A k \in Engines : engines[k] # "open"

(* Closing (zactor/group.go 307-321): during a rollback an actor is closed   *)
(* before the ones it was started after.                                     *)
RollBackReversed ==
    main \in {"rollback", "shutdown"} /\ broken # Nobody =>
        \A i, j \in 1..Len(closedOrder) :
            i < j /\ closedOrder[i] # broken /\ closedOrder[j] # broken =>
                closedOrder[i] > closedOrder[j]

(* Scripts (zactor/group.go 337-349): while actors run and no shutdown has   *)
(* begun, every script engine that was created is open; when App.Run has     *)
(* returned from a shutdown, none is.                                        *)
EnginesHeld ==
    /\ main \in {"register", "init", "server", "wait"} => \A k \in Engines : engines[k] # "closed"
    /\ main = "done" => \A k \in Engines : engines[k] # "open"
=============================================================================
