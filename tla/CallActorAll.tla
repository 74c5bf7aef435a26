---------------------------- MODULE CallActorAll ----------------------------
(***************************************************************************)
(* Fan-out calls: zactor/helper.go CallActorAll, with the worker pool of   *)
(* base.go (ants, blocking when full) and the task of AsyncRunResult       *)
(* (handlemsg.go).                                                         *)
(*                                                                         *)
(* A call submits one task per spec to the actor's worker pool and waits   *)
(* on a WaitGroup.  The task runs CallActor on a worker; its callback goes *)
(* through the actor's mailbox, and it is the mailbox goroutine that does  *)
(* wg.Done.  Three parties have to make progress: the caller, the workers, *)
(* and the mailbox.                                                        *)
(*                                                                         *)
(* SendMsg publishes to an actor of another process in a task of its own   *)
(* on the same pool.  So a CallActor to such an actor waits for a second   *)
(* worker while it holds its own, before the timeout of GetReply begins;   *)
(* and a handler that sends to one holds the mailbox up until it has one.  *)
(***************************************************************************)
EXTENDS Integers, FiniteSets

CONSTANTS
    Fanouts,    \* calls of CallActorAll
    OnPool,     \* those made inside an AsyncRun task, on a worker
    Specs,      \* indices of the specs of one call
    Remote,     \* those whose target is in another process
    MaxSends,   \* bound: messages that handlers send to other processes
    Workers,    \* size of the worker pool (WorkSize)
    MayPanic,   \* CallActor may panic (in the codec of a message)
    MayClose    \* the actor may be closed

ASSUME FanoutsAssumption == OnPool \subseteq Fanouts /\ IsFiniteSet(Fanouts)
ASSUME PoolAssumption ==
    /\ Workers \in Nat \ {0} /\ MaxSends \in Nat
    /\ Remote \subseteq Specs /\ IsFiniteSet(Specs)
    /\ {MayPanic, MayClose} \subseteq BOOLEAN

Tasks == Fanouts \X Specs

VARIABLES
    fpc,       \* of a call: "idle", "submit", "wait", "done"
    todo,     \* specs it has not submitted yet
    wg,       \* its WaitGroup's counter
    out,      \* its results: "none", "reply" or "error"
    running,  \* tasks on a worker
    sending,  \* those that wait for a second worker, in SendMsg
    sends,    \* workers that publish a message
    handlers, \* messages that handlers have sent to other processes
    stalled,  \* the mailbox goroutine waits for a worker, in a handler's SendMsg
    mailbox,  \* callbacks (CmdTypeAsync) in the mailbox
    closed,   \* Close was called: the pool is released
    exited    \* the actor's Run has returned

sendVars == <<sending, sends, handlers, stalled>>
fanVars  == <<fpc, todo, wg, out, running, sendVars, mailbox, closed, exited>>

FanInit ==
    /\ fpc = [c \in Fanouts |-> "idle"]
    /\ todo = [c \in Fanouts |-> {}]
    /\ wg = [c \in Fanouts |-> 0]
    /\ out = [c \in Fanouts |-> [i \in Specs |-> "none"]]
    /\ running = {} /\ mailbox = {}
    /\ sending = {} /\ sends = 0 /\ handlers = 0 /\ stalled = FALSE
    /\ closed = FALSE /\ exited = FALSE

(* Workers occupied: by tasks, by messages that are published, and by      *)
(* calls that are themselves tasks.                                        *)
Busy == Cardinality(running) + sends
        + Cardinality({c \in OnPool : fpc[c] \in {"submit", "wait"}})

FreeWorker == Busy < Workers

-----------------------------------------------------------------------------
(* CallActorAll begins; a call made inside AsyncRun has taken a worker.    *)
Begin(c) ==
    /\ fpc[c] = "idle"
    /\ c \in OnPool => FreeWorker /\ ~closed
    /\ fpc' = [fpc EXCEPT ![c] = "submit"]
    /\ todo' = [todo EXCEPT ![c] = Specs]
    /\ UNCHANGED <<wg, out, running, sendVars, mailbox, closed, exited>>

(* wg.Add(1), AsyncRunResult: Invoke blocks until a worker is free.  The   *)
(* order of the specs does not matter.  The task will come to SendMsg, for *)
(* a remote target, unless the breaker is open or its codec fails.         *)
Submit(c) ==
    /\ fpc[c] = "submit"
    /\ ~closed
    /\ FreeWorker
    /\ \E i \in todo[c] :
          /\ todo' = [todo EXCEPT ![c] = @ \ {i}]
          /\ running' = running \cup {<<c, i>>}
          /\ \/ i \in Remote /\ sending' = sending \cup {<<c, i>>}
             \/ UNCHANGED sending
    /\ wg' = [wg EXCEPT ![c] = @ + 1]
    /\ UNCHANGED <<fpc, out, sends, handlers, stalled, mailbox, closed, exited>>

(* Invoke fails on a released pool: an error result and wg.Done.           *)
SubmitFails(c) ==
    /\ fpc[c] = "submit"
    /\ closed
    /\ \E i \in todo[c] :
          /\ todo' = [todo EXCEPT ![c] = @ \ {i}]
          /\ out' = [out EXCEPT ![c][i] = "error"]
    /\ UNCHANGED <<fpc, wg, running, sendVars, mailbox, closed, exited>>

(* All submitted: wg.Wait.                                                 *)
Wait(c) ==
    /\ fpc[c] = "submit"
    /\ todo[c] = {}
    /\ fpc' = [fpc EXCEPT ![c] = "wait"]
    /\ UNCHANGED <<todo, wg, out, running, sendVars, mailbox, closed, exited>>

(* Mutant of FanReturn: it does not wait for the last task.                *)
ReturnEarly(c) ==
    /\ fpc[c] = "wait"
    /\ wg[c] <= 1
    /\ fpc' = [fpc EXCEPT ![c] = "done"]
    /\ UNCHANGED <<todo, wg, out, running, sendVars, mailbox, closed, exited>>

(* wg.Wait returns, and CallActorAll.                                      *)
FanReturn(c) ==
    /\ fpc[c] = "wait"
    /\ wg[c] = 0
    /\ fpc' = [fpc EXCEPT ![c] = "done"]
    /\ UNCHANGED <<todo, wg, out, running, sendVars, mailbox, closed, exited>>

-----------------------------------------------------------------------------
(* SendMsg to another process, AsyncRun: Invoke blocks until a worker is   *)
(* free, and fails on a released pool.                                     *)
AsyncRun ==
    \/ ~closed /\ FreeWorker /\ sends' = sends + 1
    \/ closed /\ UNCHANGED sends

(* A task of a call gets its worker, and goes on to GetReply ...           *)
SendMsg(t) ==
    /\ t \in sending
    /\ AsyncRun
    /\ sending' = sending \ {t}
    /\ UNCHANGED <<fpc, todo, wg, out, running, handlers, stalled, mailbox, closed, exited>>

(* ... a handler comes to SendMsg, and waits in the mailbox goroutine ...  *)
HandlerSends ==
    /\ ~stalled /\ ~exited
    /\ handlers < MaxSends
    /\ handlers' = handlers + 1
    /\ stalled' = TRUE
    /\ UNCHANGED <<fpc, todo, wg, out, running, sending, sends, mailbox, closed, exited>>

(* ... until it gets its worker ...                                        *)
HandlerSent ==
    /\ stalled
    /\ AsyncRun
    /\ stalled' = FALSE
    /\ UNCHANGED <<fpc, todo, wg, out, running, sending, handlers, mailbox, closed, exited>>

(* ... and a message is published: its worker is free again.               *)
Published ==
    /\ sends > 0
    /\ sends' = sends - 1
    /\ UNCHANGED <<fpc, todo, wg, out, running, sending, handlers, stalled, mailbox,
                   closed, exited>>

-----------------------------------------------------------------------------
(* Mutant of Finish: the callback is not pushed.                           *)
FinishSilently(t) ==
    /\ t \in running \ sending
    /\ out' = [out EXCEPT ![t[1]][t[2]] = "reply"]
    /\ running' = running \ {t}
    /\ UNCHANGED <<fpc, todo, wg, sendVars, mailbox, closed, exited>>

(* runSimple: CallActor returned (a reply, a timeout, an error); the       *)
(* callback is pushed.  The mailbox takes it after Close as well, as Run,  *)
(* which drains it then, presumes.                                         *)
Finish(t) ==
    /\ t \in running \ sending
    /\ out' = [out EXCEPT ![t[1]][t[2]] = "reply"]
    /\ running' = running \ {t}
    /\ mailbox' = mailbox \cup {t}
    /\ UNCHANGED <<fpc, todo, wg, sendVars, closed, exited>>

(* CallActor panics: runSimple recovers, and pushes nothing.               *)
Panic(t) ==
    /\ MayPanic
    /\ t \in running \ sending
    /\ running' = running \ {t}
    /\ UNCHANGED <<fpc, todo, wg, out, sendVars, mailbox, closed, exited>>

(* The mailbox goroutine runs a callback: wg.Done.                         *)
Callback ==
    /\ ~exited /\ ~stalled
    /\ \E t \in mailbox :
          /\ mailbox' = mailbox \ {t}
          /\ wg' = [wg EXCEPT ![t[1]] = @ - 1]
    /\ UNCHANGED <<fpc, todo, out, running, sendVars, closed, exited>>

(* Close releases the pool ...                                             *)
CloseActor ==
    /\ MayClose
    /\ ~closed
    /\ closed' = TRUE
    /\ UNCHANGED <<fpc, todo, wg, out, running, sendVars, mailbox, exited>>

(* ... and lets Run return once it finds its mailbox empty.                *)
RunExit ==
    /\ closed
    /\ ~exited /\ ~stalled
    /\ mailbox = {}
    /\ exited' = TRUE
    /\ UNCHANGED <<fpc, todo, wg, out, running, sendVars, mailbox, closed>>

-----------------------------------------------------------------------------
FanoutStep(c) == Submit(c) \/ SubmitFails(c) \/ Wait(c) \/ FanReturn(c)

FanNext ==
    \/ \E c \in Fanouts : Begin(c) \/ FanoutStep(c)
    \/ \E t \in Tasks : SendMsg(t) \/ Finish(t) \/ Panic(t)
    \/ HandlerSends \/ HandlerSent \/ Published
    \/ Callback \/ CloseActor \/ RunExit

FanSpec == FanInit /\ [][FanNext]_fanVars

-----------------------------------------------------------------------------
(* Properties *)

(* Types; the WaitGroup never goes below zero (which would panic).         *)
FanTypeOK ==
    /\ fpc \in [Fanouts -> {"idle", "submit", "wait", "done"}]
    /\ todo \in [Fanouts -> SUBSET Specs]
    /\ wg \in [Fanouts -> Nat]
    /\ out \in [Fanouts -> [Specs -> {"none", "reply", "error"}]]
    /\ running \in SUBSET Tasks /\ mailbox \in SUBSET Tasks
    /\ sending \in SUBSET Tasks /\ sends \in Nat
    /\ handlers \in 0 .. MaxSends /\ stalled \in BOOLEAN
    /\ closed \in BOOLEAN /\ exited \in BOOLEAN

(* Whatever panics and whenever the actor is closed, a call that returns   *)
(* has a result for every spec, and no task of it is left to write one.    *)
ResultsComplete ==
    \A c \in Fanouts : fpc[c] = "done" =>
        \A i \in Specs : out[c][i] # "none" /\ <<c, i>> \notin running

(* A task of the call panicked: there is neither a result nor a callback.  *)
LostTask(c) ==
    \E i \in Specs \ todo[c] : out[c][i] = "none" /\ <<c, i>> \notin running

(* Everybody on the pool waits for a worker: no task is about to finish,   *)
(* no message to be published and no callback to be run, and every call    *)
(* that is itself a task has some to submit or to wait for.                *)
Clogged ==
    /\ ~FreeWorker
    /\ running \subseteq sending /\ sends = 0
    /\ mailbox = {} \/ stalled
    /\ \A c \in OnPool : /\ fpc[c] = "submit" => todo[c] # {}
                         /\ fpc[c] = "wait" => wg[c] # 0

(* "blocks until all return (or each times out)": every call returns, with *)
(* other calls and messages in the pool and the mailbox.  But a panic in a *)
(* task or Close takes the callbacks away that it waits for; and when      *)
(* everybody on the pool waits for a worker there is no timeout.           *)
CallsReturn ==
    \A c \in Fanouts :
        fpc[c] = "submit" ~> fpc[c] = "done" \/ LostTask(c) \/ closed \/ Clogged
=============================================================================
