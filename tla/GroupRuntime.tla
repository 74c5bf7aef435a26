---------------------------- MODULE GroupRuntime ----------------------------
(* A running group: its life, in which the worker of some actor is followed  *)
(* through its supervision loop; its local routes; and its watchdog.  The    *)
(* context that App.shutdown cancels is the one the worker watches.  The     *)
(* three parts share nothing else, and a behaviour follows one of them.      *)
EXTENDS Group, LocalRoutes, Watchdog, Supervisor

CONSTANTS Parts            \* the parts to follow

VARIABLES part

ASSUME PartsAssumption == Parts \subseteq {"life", "routes", "watchdog"}

groupVars == <<part, lifeVars, routeVars, dogVars, vars>>

GroupInit ==
    /\ part \in Parts
    /\ LifeInit /\ RoutesInit /\ DogInit
    /\ Init

Others == <<part, routeVars, dogVars>>

(* A step of the worker, which runs from StartWorkers on.                    *)
Worker(A) == part = "life" /\ started /\ A /\ UNCHANGED <<Others, lifeVars>>

(* A step of App.Run, and the one that cancels the context of the worker.    *)
Life(A) == part = "life" /\ A /\ UNCHANGED <<Others, vars>>
CancelAll ==
    /\ part = "life" /\ Shutdown(cancelled)
    /\ UNCHANGED <<Others, pc, restarts, since, left, over, up, exits>>

GroupNext ==
    \/ Life(MainStep)
    \/ Life(Signal)
    \/ CancelAll
    \/ Worker(Tick) \/ Worker(Wake) \/ Worker(RunReturns)
    \/ part = "routes" /\ RoutesNext /\ UNCHANGED <<part, lifeVars, dogVars, vars>>
    \/ part = "watchdog" /\ DogNext /\ UNCHANGED <<part, lifeVars, routeVars, vars>>

GroupSpec == GroupInit /\ [][GroupNext]_groupVars

(* The goroutine of App.Run goes on; time passes, sleeps end, and Run        *)
(* returns once its context is done.                                         *)
GroupFairness ==
    /\ WF_groupVars(Life(MainStep)) /\ WF_groupVars(CancelAll)
    /\ WF_groupVars(Worker(Tick)) /\ WF_groupVars(Worker(Wake))
    /\ WF_groupVars(Worker(cancelled /\ RunReturns))

FairGroupSpec == GroupSpec /\ GroupFairness

-----------------------------------------------------------------------------
(* Restarts (zactor/group.go 366-415): an actor whose Run keeps returning at *)
(* once is stopped for good after a while.  This needs backoffs that end     *)
(* within the restart window: with the numbers of the code, at most five     *)
(* restarts.  The sixth backoff lasts as long as the window, the count is    *)
(* forgotten, and the restarts never end.                                    *)
CrashLoopEnds == [](up = 0) => (started ~> pc \in {"done", "gaveup"})

(* Shutdown (zstartup/app.go 71-96, zactor/group.go 366-415): once the       *)
(* process is told to stop App.Run returns, whether the start succeeds or    *)
(* fails, and a worker that was started ends, also when the signal finds it  *)
(* in a backoff, which nothing interrupts.                                   *)
StopEndsAll ==
    signal ~> /\ main \in {"unstarted", "failed", "done"}
              /\ started => pc \in {"done", "gaveup"}

(* A start that fails and a stop (zactor/group.go 262-349, zstartup/app.go *)
(* 71-96): what was started is undone, in reverse order, and script        *)
(* engines are open while actors run, and not after.                       *)
StartStopClean == FailedStartClean /\ RollBackReversed /\ EnginesHeld

(* The reports of the watchdog (zactor/watchdog.go 65-89): a blocked       *)
(* handler of a plain actor is reported, and not again within the          *)
(* cooldown.                                                               *)
ReportsRight == BlockedSeen /\ DumpsSpaced

(* Local routing without a lock (zactor/group.go 94-179, zactor/router.go  *)
(* 27-50): a registration that overlaps no other stays, message ids stay   *)
(* with their actor, and the choice by load stays balanced.                *)
LocalRoutingKept == [](RoutesKept /\ PoolBalanced) /\ RouteSticky

(* A supervised worker ends when it has to (zactor/group.go 366-415): in a *)
(* crash loop, and when the process is stopped, which ends everything else *)
(* too.                                                                    *)
WorkersEnd == CrashLoopEnds /\ StopEndsAll
=============================================================================
