------------------------------ MODULE Watchdog ------------------------------
(* The handler watchdog (zactor/watchdog.go): every interval it looks how    *)
(* long the handler of each actor has been running, and reports one that is  *)
(* over the threshold, unless it reported the actor within the cooldown.     *)
(* Times are relative, in units of the model.                                *)
EXTENDS Naturals

CONSTANTS Watched,         \* the actors of the group
          PlainActors,     \* those of them that are *Actor itself, and no server
                           \* type that embeds it
          Threshold, Interval, Cooldown,
          Late             \* bound: how late a tick of the watchdog may be

VARIABLES running,         \* how long each handler has been running; Idle for none
          dumped,          \* the time since the last report of each actor
          reported,        \* history: the running handler was reported
          dumps,           \* history: reports of each actor since the last cooldown
          sinceScan        \* the time since the last scan

dogVars == <<running, dumped, reported, dumps, sinceScan>>

Idle == Threshold + Cooldown + Interval + Late + 2     \* processingStart = 0
Longest == Idle - 1
Never == Cooldown + Interval + Late + 1                \* not in lastDump
Upto(n, bound) == IF n < bound THEN n ELSE bound

ASSUME DogAssumption ==
    /\ Threshold \in Nat \ {0} /\ Interval \in Nat \ {0} /\ Cooldown \in Nat /\ Late \in Nat
    /\ PlainActors \subseteq Watched

DogInit ==
    /\ running = [a \in Watched |-> Idle]
    /\ dumped = [a \in Watched |-> Never]
    /\ reported = [a \in Watched |-> FALSE]
    /\ dumps = [a \in Watched |-> 0]
    /\ sinceScan = 0

-----------------------------------------------------------------------------
(* SafeHandleMessage sets processingStart, and resets it, also after a panic.*)
StartHandler(a) ==
    /\ running[a] = Idle
    /\ running' = [running EXCEPT ![a] = 0]
    /\ reported' = [reported EXCEPT ![a] = FALSE]
    /\ UNCHANGED <<dumped, dumps, sinceScan>>

EndHandler(a) ==
    /\ running[a] # Idle
    /\ running' = [running EXCEPT ![a] = Idle]
    /\ UNCHANGED <<dumped, reported, dumps, sinceScan>>

(* Time passes; a tick is at most Late too late.                             *)
Pass ==
    /\ sinceScan < Interval + Late
    /\ sinceScan' = sinceScan + 1
    /\ running' = [a \in Watched |-> IF running[a] = Idle THEN Idle
                                     ELSE Upto(running[a] + 1, Longest)]
    /\ dumped' = [a \in Watched |-> Upto(dumped[a] + 1, Never)]
    /\ dumps' = [a \in Watched |-> IF dumped[a] + 1 >= Cooldown THEN 0 ELSE dumps[a]]
    /\ UNCHANGED reported

-----------------------------------------------------------------------------
(* The type assertion of scan: only the type Actor itself passes it.         *)
IsActor(a) == a \in PlainActors

(* Mutant of Cooling: the time of the report is not looked at.               *)
CoolingNever(a) == FALSE
Cooling(a) == dumped[a] < Cooldown

(* Mutant of Blocked: the watchdog only sees handlers that are new.          *)
BlockedNew(a) == running[a] = Threshold
Blocked(a) == running[a] # Idle /\ running[a] >= Threshold

(* scan.                                                                     *)
Scan ==
    LET found == {a \in Watched : IsActor(a) /\ Blocked(a) /\ ~Cooling(a)} IN
    /\ sinceScan >= Interval
    /\ sinceScan' = 0
    /\ dumped' = [a \in Watched |-> IF a \in found THEN 0 ELSE dumped[a]]
    /\ reported' = [a \in Watched |-> a \in found \/ reported[a]]
    /\ dumps' = [a \in Watched |-> IF a \in found THEN Upto(dumps[a] + 1, 2) ELSE dumps[a]]
    /\ UNCHANGED running

DogNext ==
    \/ \E a \in Watched : StartHandler(a) \/ EndHandler(a)
    \/ Pass
    \/ Scan

-----------------------------------------------------------------------------
(* The reports of an actor (zactor/watchdog.go 84-89) never come twice in    *)
(* the same cooldown, however many of its handlers block.                    *)
DumpsSpaced == \A a \in Watched : dumps[a] <= 1

LongBlocked(a) == running[a] # Idle /\ running[a] >= Threshold + Interval + Late

(* A handler that runs past the threshold and one more interval has been     *)
(* reported, or its actor was within the cooldown (zactor/watchdog.go 65-89).*)
(* This holds for actors of the plain type, the only ones the tests use.     *)
BlockedSeen ==
    \A a \in PlainActors : LongBlocked(a) => reported[a] \/ dumped[a] < Cooldown + Interval + Late

(* What EnableWatchdog promises (zactor/group.go 237-239): "When a handler   *)
(* runs longer than threshold, the watchdog captures the goroutine stack     *)
(* trace and logs it"; of any actor, when nothing was reported before.       *)
EveryBlockedSeen ==
    \A a \in Watched : LongBlocked(a) => reported[a] \/ dumped[a] < Cooldown + Interval + Late
=============================================================================
