----------------------------- MODULE Supervisor -----------------------------
(***************************************************************************)
(* The supervision loop of one actor: zactor/group.go, superviseActor.     *)
(*                                                                         *)
(* The loop calls actor.Run, and when Run returns although the context is  *)
(* alive it counts a restart, backs off and calls Run again, until more    *)
(* than maxRestarts are counted.  The count is forgotten when the last     *)
(* restart is longer ago than restartWindow.  The loop is one goroutine;   *)
(* what interleaves with it is time, the cancellation of the context and   *)
(* the actor, whose Run may return at any moment.                          *)
(*                                                                         *)
(* Time is in seconds and relative: what the loop looks at is the time     *)
(* since lastRestart, kept up to one second past the window.               *)
(***************************************************************************)
EXTENDS Integers

CONSTANTS
    MaxRestarts,     \* ActorConfig.MaxRestarts, 0 for the default
    Window,          \* restartWindow (30 in the code)
    BackoffCap,      \* longest backoff (30 in the code)
    MaxOversleep     \* bound: how much longer than asked time.Sleep may take

ASSUME ConfigAssumption == MaxRestarts \in Nat
ASSUME TimeAssumption ==
    Window \in Nat /\ BackoffCap \in Nat \ {0} /\ MaxOversleep \in Nat

defaultMaxRestarts == 3

maxRestarts == IF MaxRestarts > 0 THEN MaxRestarts ELSE defaultMaxRestarts

VARIABLES
    pc,         \* "run", "sleep", "done" (context cancelled) or "gaveup"
    restarts,   \* restarts counted
    since,      \* time since lastRestart, at most Window + 1
    left,       \* sleep: what is left of the backoff
    over,       \* sleep: how long the backoff has been over
    cancelled,  \* ctx.Done() is closed
    up,         \* history: how long the current Run has lasted, at most Window + 1
    exits       \* history: returns of Run since one that lasted past the window,
                \*   that one included, at most maxRestarts + 1

vars == <<pc, restarts, since, left, over, cancelled, up, exits>>

AtMost(n, bound) == IF n <= bound THEN n ELSE bound

Init ==
    /\ pc = "run"
    /\ restarts = 0
    /\ since = 0
    /\ left = 0 /\ over = 0
    /\ cancelled = FALSE
    /\ up = 0 /\ exits = 0

-----------------------------------------------------------------------------
(* One second passes.  A finished sleep is overslept by MaxOversleep.      *)
Tick ==
    /\ \/ /\ pc = "run"
          /\ up' = AtMost(up + 1, Window + 1)
          /\ UNCHANGED <<left, over>>
       \/ /\ pc = "sleep" /\ left > 0
          /\ left' = left - 1
          /\ UNCHANGED <<over, up>>
       \/ /\ pc = "sleep" /\ left = 0 /\ over < MaxOversleep
          /\ over' = over + 1
          /\ UNCHANGED <<left, up>>
    /\ since' = AtMost(since + 1, Window + 1)
    /\ UNCHANGED <<pc, restarts, cancelled, exits>>

(* The process shuts down, at any time.                                    *)
Cancel ==
    /\ ~cancelled
    /\ cancelled' = TRUE
    /\ UNCHANGED <<pc, restarts, since, left, over, up, exits>>

-----------------------------------------------------------------------------
(* Mutant of CtxDone: the select after Run is missing.                     *)
CtxUnchecked == FALSE

(* select { case <-ctx.Done(): return }                                    *)
CtxDone == cancelled

(* Mutants of Counted: the window is ignored, or forgets every restart.    *)
CountedForGood == restarts + 1
CountedAfresh  == 1

(* The restart count once this return of Run is counted.                   *)
Counted == (IF since > Window THEN 0 ELSE restarts) + 1

(* time.Second << uint(min(restarts-1, 5)).                                *)
Shifted(n) == <<1, 2, 4, 8, 16, 32>>[AtMost(n, 6)]

(* Exponential backoff, cut at 30 s.                                       *)
Backoff(n) == AtMost(Shifted(n), BackoffCap)

NoteExit ==
    exits' = IF up > Window THEN 1 ELSE AtMost(exits + 1, maxRestarts + 1)

(* Run returned and the context is done.                                   *)
GracefulExit ==
    /\ pc = "run"
    /\ CtxDone
    /\ pc' = "done"
    /\ UNCHANGED <<restarts, since, left, over, cancelled, up, exits>>

(* Run returned once too often: permanently stopped.                       *)
GiveUp ==
    /\ pc = "run"
    /\ ~CtxDone
    /\ Counted > maxRestarts
    /\ restarts' = Counted
    /\ pc' = "gaveup"
    /\ NoteExit
    /\ UNCHANGED <<since, left, over, cancelled, up>>

(* Run returned: lastRestart = time.Now(), then the backoff.               *)
Restart ==
    /\ pc = "run"
    /\ ~CtxDone
    /\ Counted <= maxRestarts
    /\ restarts' = Counted
    /\ since' = 0
    /\ left' = Backoff(Counted) /\ over' = 0
    /\ pc' = "sleep"
    /\ up' = 0
    /\ NoteExit
    /\ UNCHANGED cancelled

(* time.Sleep returns and Run is called again, cancelled or not.           *)
Wake ==
    /\ pc = "sleep"
    /\ left = 0
    /\ pc' = "run"
    /\ over' = 0
    /\ UNCHANGED <<restarts, since, left, cancelled, up, exits>>

-----------------------------------------------------------------------------
RunReturns == GracefulExit \/ GiveUp \/ Restart

Next == Tick \/ Cancel \/ RunReturns \/ Wake

Spec == Init /\ [][Next]_vars

-----------------------------------------------------------------------------
(* Properties *)

(* Types; a backoff never exceeds its cap, and the count never passes the  *)
(* limit by more than one.                                                 *)
TypeOK ==
    /\ pc \in {"run", "sleep", "done", "gaveup"}
    /\ restarts \in 0 .. maxRestarts + 1
    /\ since \in 0 .. Window + 1
    /\ left \in 0 .. BackoffCap
    /\ over \in 0 .. MaxOversleep
    /\ cancelled \in BOOLEAN
    /\ up \in 0 .. Window + 1
    /\ exits \in 0 .. maxRestarts + 1

(* An actor is stopped for good only after maxRestarts + 1 returns of Run  *)
(* since it last ran past the window: a long steady run earns it all its   *)
(* restarts back, whatever happened before.                                *)
GiveUpEarned == pc = "gaveup" => exits = maxRestarts + 1
=============================================================================
