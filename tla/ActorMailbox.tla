---------------------------- MODULE ActorMailbox ----------------------------
(***************************************************************************)
(* One actor at run time: its mailbox and main loop (zactor/base.go), the  *)
(* handling of commands and the asynchronous tasks a handler starts        *)
(* (handlemsg.go, flow.go), the updates of a running actor (hotupdate.go), *)
(* the group's ticker (group.go), and the reference counts of the pooled   *)
(* messages that travel through all of them (zmsg/msgpool.go, helper.go).  *)
(*                                                                         *)
(* The actor's goroutine runs Run.  Senders, the ticker, the workers of    *)
(* the pool and whoever closes the actor are other goroutines.  Each       *)
(* element of Msgs is one life of a pooled message, from GetMessage to the *)
(* Release that returns it to the pool.                                    *)
(***************************************************************************)
EXTENDS Integers, Sequences, FiniteSets, SequencesExt

CONSTANTS
    Msgs,       \* messages
    None,       \* no message, in a command that carries none
    MaxBatch,   \* ActorBatchMax
    MaxRuns,    \* bound: times Run is called by the supervisor
    MaxUpdates, \* bound: hot updates requested
    MayPanic    \* the work of a task may panic

ASSUME MsgsAssumption == IsFiniteSet(Msgs) /\ None \notin Msgs
ASSUME BatchAssumption ==
    /\ MaxBatch \in Nat \ {0} /\ MaxRuns \in Nat /\ MaxUpdates \in Nat
    /\ MayPanic \in BOOLEAN

(* How a handler passes its message on: AsyncRunWithMsg and StartAsyncThen *)
(* without and with a callback; "flowAsSimple" is a StartAsyncThen that    *)
(* the pool takes for an AsyncRun; "remote" is the task of SendMsg.        *)
Modes == {"withMsg", "withMsgCallback", "flow", "flowThen", "flowAsSimple", "remote"}

Cmd == [type : {"msg", "async"}, msg : Msgs] \cup [type : {"tick", "fn"}, msg : {None}]

VARIABLES
    ref,          \* RefCount of a message
    own,          \* references its sender holds; -1 before it is sent
    slot,         \* replies held by an RPC slot (see RpcSender)
    queue,        \* mailBoxQueue
    batch,        \* the commands Run has dequeued and not finished
    pc,           \* where Run is
    shouldExit,   \* Run's local
    runs,         \* times Run was called
    task,         \* the task that carries a message: "none", "work", "callback"
    mode,         \* its kind
    pool,         \* workerPool: the "original", a "rebuilt" or a "released" one
    updates,      \* hot updates requested
    tickPending,  \* the CAS flag of MarkTickPending
    ticker,       \* the group's ticker: "idle" or about to "push"
    closing,      \* Close: "no", "signalled" (closeCh), "released" (pool)
    cancelled,    \* the group's ctx is done
    leaked,       \* history: messages a reference to which was forgotten
    failed,       \* history: messages whose task panicked
    called,       \* history: messages whose callback was taken up
    due           \* history: messages in the mailbox when shutdown was signalled

runVars  == <<queue, batch, pc, shouldExit, runs>>
tickVars == <<tickPending, ticker>>
downVars == <<closing, cancelled, due>>
poolVars == <<pool, updates>>
histVars == <<leaked, failed, called>>
restVars == <<poolVars, histVars>>
vars     == <<ref, own, slot, runVars, task, mode, tickVars, downVars, restVars>>

Init ==
    /\ ref = [m \in Msgs |-> 0] /\ own = [m \in Msgs |-> -1]
    /\ slot = {} /\ queue = <<>> /\ batch = <<>>
    /\ pc = "check" /\ shouldExit = FALSE /\ runs = 1
    /\ task = [m \in Msgs |-> "none"] /\ mode = [m \in Msgs |-> "withMsg"]
    /\ tickPending = FALSE /\ ticker = "idle"
    /\ closing = "no" /\ cancelled = FALSE
    /\ pool = "original" /\ updates = 0
    /\ leaked = {} /\ failed = {} /\ called = {} /\ due = {}

-----------------------------------------------------------------------------
(* SendActor and its kin on another goroutine: GetMessage, SendMsg(Retain) *)
(* and, for the delivery, one more Retain.  The sender's two references    *)
(* are released afterwards, one by one.                                    *)

Sent(m, held, refs) ==
    /\ own[m] = -1
    /\ own' = [own EXCEPT ![m] = held]
    /\ ref' = [ref EXCEPT ![m] = held + refs]

(* By a sender in this process, or by receiveRemote, which hands its one   *)
(* reference over.                                                         *)
Delivered(m, refs) == \E held \in {0, 2} : Sent(m, held, refs)

(* Push of a request, or of a ToClient message the fast path declines.     *)
PushMailbox(m) ==
    /\ Delivered(m, 1)
    /\ queue' = Append(queue, [type |-> "msg", msg |-> m])
    /\ UNCHANGED <<slot, batch, pc, shouldExit, runs, task, mode, tickVars, downVars,
                   restVars>>

(* Push of a reply: SetReply retains it for the slot that takes it, and    *)
(* Push releases its own reference.                                        *)
PushReply(m) ==
    /\ \/ Delivered(m, 1) /\ slot' = slot \cup {m}
       \/ Delivered(m, 0) /\ UNCHANGED slot
    /\ UNCHANGED <<runVars, task, mode, tickVars, downVars, restVars>>

(* Push of a ToClient message the fast path handles and releases.          *)
PushToClient(m) ==
    /\ Delivered(m, 0)
    /\ UNCHANGED <<slot, runVars, task, mode, tickVars, downVars, restVars>>

(* The target is in another process: Retain, and a task that publishes and *)
(* releases.  AsyncRun drops the result of the submission.                 *)
SendRemote(m) ==
    /\ Sent(m, 2, 1)
    /\ \/ /\ pool # "released"
          /\ task' = [task EXCEPT ![m] = "work"]
          /\ mode' = [mode EXCEPT ![m] = "remote"]
          /\ UNCHANGED leaked
       \/ /\ pool = "released"
          /\ leaked' = leaked \cup {m}
          /\ UNCHANGED <<task, mode>>
    /\ UNCHANGED <<slot, runVars, tickVars, downVars, poolVars, failed, called>>

(* Broadcast in one process: every subscriber of the topic, this actor     *)
(* among them, retains the message and pushes it (OnChange); only then is  *)
(* the publisher's reference released.                                     *)
Broadcast(m) ==
    /\ Sent(m, 1, 1)
    /\ queue' = Append(queue, [type |-> "msg", msg |-> m])
    /\ UNCHANGED <<slot, batch, pc, shouldExit, runs, task, mode, tickVars, downVars,
                   restVars>>

(* The deferred releases of SendMsg and of its caller.                     *)
SenderRelease(m) ==
    /\ own[m] > 0
    /\ own' = [own EXCEPT ![m] = @ - 1]
    /\ ref' = [ref EXCEPT ![m] = @ - 1]
    /\ UNCHANGED <<slot, runVars, task, mode, tickVars, downVars, restVars>>

(* CallActor has read the reply: defer data.Release().                     *)
SlotRelease(m) ==
    /\ m \in slot
    /\ slot' = slot \ {m}
    /\ ref' = [ref EXCEPT ![m] = @ - 1]
    /\ UNCHANGED <<own, runVars, task, mode, tickVars, downVars, restVars>>

-----------------------------------------------------------------------------
(* Group.tick: every 1/30 s, unless a tick is pending already.             *)
TickMark ==
    /\ ticker = "idle"
    /\ ~cancelled
    /\ ~tickPending
    /\ tickPending' = TRUE
    /\ ticker' = "push"
    /\ UNCHANGED <<ref, own, slot, runVars, task, mode, downVars, restVars>>

TickPush ==
    /\ ticker = "push"
    /\ ticker' = "idle"
    /\ queue' = Append(queue, [type |-> "tick", msg |-> None])
    /\ UNCHANGED <<ref, own, slot, batch, pc, shouldExit, runs, task, mode,
                   tickPending, downVars, restVars>>
-----------------------------------------------------------------------------
(* Run *)

(* Mutant of Check: ctx.Done() is not looked at.                           *)
CheckCloseOnly ==
    /\ pc = "check"
    /\ shouldExit' = (shouldExit \/ closing # "no")
    /\ pc' = "dequeue"
    /\ UNCHANGED <<ref, own, slot, queue, batch, runs, task, mode, tickVars, downVars,
                   restVars>>

(* select on ctx.Done() and closeCh, with a default.                       *)
Check ==
    /\ pc = "check"
    /\ shouldExit' = (shouldExit \/ cancelled \/ closing # "no")
    /\ pc' = "dequeue"
    /\ UNCHANGED <<ref, own, slot, queue, batch, runs, task, mode, tickVars, downVars,
                   restVars>>

(* DequeueBatch returns some commands: the batch size adapts.              *)
Dequeue ==
    /\ pc = "dequeue"
    /\ \E n \in 1 .. MaxBatch :
          /\ n <= Len(queue)
          /\ batch' = SubSeq(queue, 1, n)
          /\ queue' = SubSeq(queue, n + 1, Len(queue))
    /\ pc' = "handle"
    /\ UNCHANGED <<ref, own, slot, shouldExit, runs, task, mode, tickVars, downVars,
                   restVars>>

(* Nothing to do: back off and look again.                                 *)
Idle ==
    /\ pc = "dequeue"
    /\ queue = <<>>
    /\ ~shouldExit
    /\ pc' = "check"
    /\ UNCHANGED <<ref, own, slot, queue, batch, shouldExit, runs, task, mode,
                   tickVars, downVars, restVars>>

(* Mutant of Exit: the mailbox is not drained.                             *)
ExitUndrained ==
    /\ pc = "dequeue"
    /\ shouldExit
    /\ pc' = "exited"
    /\ UNCHANGED <<ref, own, slot, queue, batch, shouldExit, runs, task, mode,
                   tickVars, downVars, restVars>>

(* Shutdown was seen and the mailbox is empty: Run returns.                *)
Exit ==
    /\ pc = "dequeue"
    /\ shouldExit
    /\ queue = <<>>
    /\ pc' = "exited"
    /\ UNCHANGED <<ref, own, slot, queue, batch, shouldExit, runs, task, mode,
                   tickVars, downVars, restVars>>

(* superviseActor calls Run again while the context is alive, also after   *)
(* Close.                                                                  *)
RunAgain ==
    /\ pc = "exited"
    /\ ~cancelled
    /\ runs < MaxRuns
    /\ runs' = runs + 1
    /\ pc' = "check" /\ shouldExit' = FALSE
    /\ UNCHANGED <<ref, own, slot, queue, batch, task, mode, tickVars, downVars, restVars>>

-----------------------------------------------------------------------------
(* SafeHandleMessage.  A panic of the handler is recovered and the command *)
(* released as usual, so it is the same step.                              *)

(* Mutant of HandleTick: the flag stays set.                               *)
HandleTickUncleared ==
    /\ pc = "handle" /\ Head(batch).type = "tick"
    /\ pc' = "release"
    /\ UNCHANGED <<ref, own, slot, queue, batch, shouldExit, runs, task, mode, tickVars,
                   downVars, restVars>>

(* CmdTypeTick: the flag is cleared before Update runs.                    *)
HandleTick ==
    /\ pc = "handle" /\ Head(batch).type = "tick"
    /\ tickPending' = FALSE
    /\ pc' = "release"
    /\ UNCHANGED <<ref, own, slot, queue, batch, shouldExit, runs, task, mode, ticker,
                   downVars, restVars>>

(* CmdTypeMsg; the handler keeps nothing.  A task whose pre-check or whose *)
(* submission fails comes to the same: the reference taken is given back.  *)
HandleMsg ==
    /\ pc = "handle" /\ Head(batch).type = "msg"
    /\ pc' = "release"
    /\ UNCHANGED <<ref, own, slot, queue, batch, shouldExit, runs, task, mode, tickVars,
                   downVars, restVars>>

(* Mutant of StartTask: the task does not retain the message.              *)
StartTaskUnretained(kinds) ==
    /\ pc = "handle" /\ Head(batch).type = "msg"
    /\ pool # "released"
    /\ task' = [task EXCEPT ![Head(batch).msg] = "work"]
    /\ \E k \in kinds : mode' = [mode EXCEPT ![Head(batch).msg] = k]
    /\ pc' = "release"
    /\ UNCHANGED <<ref, own, slot, queue, batch, shouldExit, runs, tickVars, downVars,
                   restVars>>

(* CmdTypeMsg; the handler starts a task: Retain, and Invoke accepts it.   *)
StartTask(kinds) ==
    /\ pc = "handle" /\ Head(batch).type = "msg"
    /\ pool # "released"
    /\ task' = [task EXCEPT ![Head(batch).msg] = "work"]
    /\ \E k \in kinds : mode' = [mode EXCEPT ![Head(batch).msg] = k]
    /\ ref' = [ref EXCEPT ![Head(batch).msg] = @ + 1]
    /\ pc' = "release"
    /\ UNCHANGED <<own, slot, queue, batch, shouldExit, runs, tickVars, downVars, restVars>>

AsyncRunWithMsg == StartTask({"withMsg", "withMsgCallback"})

(* The function of a rebuilt pool has no case for it.                      *)
FlowKinds == IF pool = "rebuilt" THEN {"flowAsSimple"} ELSE {"flow", "flowThen"}
StartAsyncThen  == StartTask(FlowKinds)

(* CmdTypeAsync: runCallbackOnActor releases the message and puts the task *)
(* back, whether the validators let the callback run or not.               *)
HandleCallback ==
    /\ pc = "handle" /\ Head(batch).type = "async"
    /\ ref'  = [ref EXCEPT ![Head(batch).msg] = @ - 1]
    /\ task' = [task EXCEPT ![Head(batch).msg] = "none"]
    /\ called' = called \cup {Head(batch).msg}
    /\ pc' = "release"
    /\ UNCHANGED <<own, slot, queue, batch, shouldExit, runs, mode, tickVars, downVars,
                   poolVars, leaked, failed>>

(* safeUpdate from any goroutine: a function for the actor to run.         *)
SafeUpdate ==
    /\ updates < MaxUpdates
    /\ updates' = updates + 1
    /\ queue' = Append(queue, [type |-> "fn", msg |-> None])
    /\ UNCHANGED <<ref, own, slot, batch, pc, shouldExit, runs, task, mode, tickVars,
                   downVars, pool, histVars>>

(* CmdTypeSafeFn.  RebuildWorkerPool creates a pool, puts it in place and  *)
(* releases the old one, whose running tasks finish: also after Close, and *)
(* then nobody releases the new one.                                       *)
RebuildWorkerPool ==
    /\ pc = "handle" /\ Head(batch).type = "fn"
    /\ pool' = "rebuilt"
    /\ pc' = "release"
    /\ UNCHANGED <<ref, own, slot, queue, batch, shouldExit, runs, task, mode, tickVars,
                   downVars, updates, histVars>>

(* UpdateRateLimit, UpdateMaxRPCPending and UpdateWorkerPoolSize store or  *)
(* pass on numbers, and a pool that cannot be created changes nothing.     *)
UpdateNumbers ==
    /\ pc = "handle" /\ Head(batch).type = "fn"
    /\ pc' = "release"
    /\ UNCHANGED <<ref, own, slot, queue, batch, shouldExit, runs, task, mode, tickVars,
                   downVars, restVars>>

(* Mutant of ReleaseCmd: the command's message is not released.            *)
ReleaseForgotten ==
    /\ pc = "release"
    /\ batch' = Tail(batch)
    /\ pc' = IF Tail(batch) = <<>> THEN "check" ELSE "handle"
    /\ UNCHANGED <<ref, own, slot, queue, shouldExit, runs, task, mode, tickVars,
                   downVars, restVars>>

(* msgs[i].Release(); the next command, or the next round.                 *)
ReleaseCmd ==
    /\ pc = "release"
    /\ ref' = IF Head(batch).type = "msg"
              THEN [ref EXCEPT ![Head(batch).msg] = @ - 1] ELSE ref
    /\ batch' = Tail(batch)
    /\ pc' = IF Tail(batch) = <<>> THEN "check" ELSE "handle"
    /\ UNCHANGED <<own, slot, queue, shouldExit, runs, task, mode, tickVars, downVars,
                   restVars>>

-----------------------------------------------------------------------------
(* Worker pool *)

(* The work is done and there is no callback: release.                     *)
WorkDone(m) ==
    /\ task[m] = "work"
    /\ mode[m] \in {"withMsg", "flow", "remote"}
    /\ task' = [task EXCEPT ![m] = "none"]
    /\ ref'  = [ref EXCEPT ![m] = @ - 1]
    /\ UNCHANGED <<own, slot, runVars, mode, tickVars, downVars, restVars>>

(* Mutant of WorkCallback: the worker keeps the task, as if it had no      *)
(* callback.                                                               *)
WorkCallbackDropped(m) ==
    /\ task[m] = "work"
    /\ mode[m] \in {"withMsgCallback", "flowThen"}
    /\ task' = [task EXCEPT ![m] = "none"]
    /\ ref'  = [ref EXCEPT ![m] = @ - 1]
    /\ UNCHANGED <<own, slot, runVars, mode, tickVars, downVars, restVars>>

(* The work is done: the task itself goes to the mailbox.                  *)
WorkCallback(m) ==
    /\ task[m] = "work"
    /\ mode[m] \in {"withMsgCallback", "flowThen"}
    /\ task' = [task EXCEPT ![m] = "callback"]
    /\ queue' = Append(queue, [type |-> "async", msg |-> m])
    /\ UNCHANGED <<ref, own, slot, batch, pc, shouldExit, runs, mode, tickVars, downVars,
                   restVars>>

(* The work panics: runFlow and the task of SendMsg release the message,   *)
(* runWithMsg does not.  runSimple does not either when it calls the       *)
(* fSimple that a StartAsyncThen has not set, which always panics.         *)
WorkPanic(m) ==
    /\ MayPanic \/ mode[m] = "flowAsSimple"
    /\ task[m] = "work"
    /\ failed' = failed \cup {m}
    /\ task' = [task EXCEPT ![m] = "none"]
    /\ \/ /\ mode[m] \in {"flow", "flowThen", "remote"}
          /\ ref' = [ref EXCEPT ![m] = @ - 1]
          /\ UNCHANGED leaked
       \/ /\ mode[m] \in {"withMsg", "withMsgCallback", "flowAsSimple"}
          /\ leaked' = leaked \cup {m}
          /\ UNCHANGED ref
    /\ UNCHANGED <<own, slot, runVars, mode, tickVars, downVars, poolVars, called>>

-----------------------------------------------------------------------------
(* Shutdown *)

InMailbox == {c.msg : c \in {d \in ToSet(queue) \cup ToSet(batch) : d.type = "msg"}}

NoteDue == due' = IF cancelled \/ closing # "no" THEN due ELSE InMailbox

(* Actor.Close: cancel, close(closeCh), and the mailbox, which still       *)
(* yields what it holds ...                                                *)
CloseSignal ==
    /\ closing = "no"
    /\ closing' = "signalled"
    /\ NoteDue
    /\ UNCHANGED <<ref, own, slot, runVars, task, mode, tickVars, cancelled, restVars>>

(* ... then workerPool.Release(): running work finishes, nothing starts.   *)
CloseRelease ==
    /\ closing = "signalled"
    /\ closing' = "released"
    /\ pool' = "released"
    /\ UNCHANGED <<ref, own, slot, runVars, task, mode, tickVars, cancelled, due, updates,
                   histVars>>

(* The group's context is done.                                            *)
Cancel ==
    /\ ~cancelled
    /\ cancelled' = TRUE
    /\ NoteDue
    /\ UNCHANGED <<ref, own, slot, runVars, task, mode, tickVars, closing, restVars>>

-----------------------------------------------------------------------------
Sender(m) ==
    \/ PushMailbox(m) \/ PushReply(m) \/ PushToClient(m) \/ SendRemote(m)
    \/ Broadcast(m) \/ SenderRelease(m) \/ SlotRelease(m)

Worker(m) == WorkDone(m) \/ WorkCallback(m) \/ WorkPanic(m)

Run == Check \/ Dequeue \/ Idle \/ Exit \/ HandleTick \/ HandleMsg
       \/ AsyncRunWithMsg \/ StartAsyncThen \/ HandleCallback \/ ReleaseCmd
       \/ RebuildWorkerPool \/ UpdateNumbers

Next ==
    \/ \E m \in Msgs : Sender(m) \/ Worker(m)
    \/ TickMark \/ TickPush
    \/ Run \/ RunAgain \/ SafeUpdate
    \/ CloseSignal \/ CloseRelease \/ Cancel

Spec == Init /\ [][Next]_vars

(* Goroutines that have something to do are scheduled, handlers and work   *)
(* return, and an RPC slot that got a reply has a caller that reads it.    *)
FairSpec ==
    /\ Spec
    /\ WF_vars(Run) /\ WF_vars(TickPush) /\ WF_vars(CloseRelease)
    /\ \A m \in Msgs : /\ WF_vars(SenderRelease(m)) /\ WF_vars(SlotRelease(m))
                       /\ WF_vars(Worker(m))

-----------------------------------------------------------------------------
(* Properties *)

(* Types; reference counts never go below zero (a double release).         *)
TypeOK ==
    /\ ref \in [Msgs -> Nat] /\ own \in [Msgs -> -1 .. 2]
    /\ slot \in SUBSET Msgs
    /\ queue \in Seq(Cmd) /\ batch \in Seq(Cmd)
    /\ pc \in {"check", "dequeue", "handle", "release", "exited"}
    /\ shouldExit \in BOOLEAN /\ runs \in Nat
    /\ task \in [Msgs -> {"none", "work", "callback"}]
    /\ mode \in [Msgs -> Modes]
    /\ tickPending \in BOOLEAN /\ ticker \in {"idle", "push"}
    /\ closing \in {"no", "signalled", "released"} /\ cancelled \in BOOLEAN
    /\ pool \in {"original", "rebuilt", "released"} /\ updates \in 0 .. MaxUpdates
    /\ leaked \in SUBSET Msgs /\ failed \in SUBSET Msgs /\ called \in SUBSET Msgs
    /\ due \in SUBSET Msgs

Occurs(s, c) == Cardinality({i \in DOMAIN s : s[i] = c})

(* Who holds a reference to a message.                                     *)
Holders(m) ==
    LET One(b) == IF b THEN 1 ELSE 0
        cmd    == [type |-> "msg", msg |-> m]
    IN  One(own[m] > 0) * own[m] + One(m \in slot) + One(task[m] # "none")
        + One(m \in leaked) + Occurs(queue, cmd) + Occurs(batch, cmd)

(* Every reference count is the number of goroutines, commands, tasks and  *)
(* slots that use the message: none goes back to the pool while in use,    *)
(* and none stays out of it but the leaked ones.                           *)
RefsExact == \A m \in Msgs : ref[m] = Holders(m)

(* Ticks still to be handled, the one the ticker is about to push too.     *)
TicksAhead ==
    LET tick == [type |-> "tick", msg |-> None]
    IN  Occurs(queue, tick) + Occurs(batch, tick)
        + (IF ticker = "push" THEN 1 ELSE 0)
        - (IF pc = "release" /\ Head(batch) = tick THEN 1 ELSE 0)

(* tickPending is exact: ticks never pile up in the mailbox, and the flag  *)
(* is never left set without a tick, which would stop them for good.       *)
TicksCoalesce == TicksAhead = IF tickPending THEN 1 ELSE 0

(* Graceful shutdown: when Run returns, every message that was in the      *)
(* mailbox when shutdown was signalled has been handled.                   *)
DrainedOnExit == pc = "exited" => due \cap InMailbox = {}

(* Every message that is sent is eventually back in the pool, unless it is *)
(* leaked or was pushed to an actor whose Run had returned.                *)
EventuallyReleased ==
    \A m \in Msgs : ref[m] > 0 ~> ref[m] = 0 \/ m \in leaked \/ pc = "exited"

(* An accepted task with a callback gets it run on the actor's goroutine   *)
(* (handlemsg.go 75-76, 110-111): it is never lost between the worker and  *)
(* the mailbox, whatever closes or rebuilds the pool meanwhile, unless the *)
(* work panics or Run has returned.  A StartAsyncThen that a rebuilt pool  *)
(* takes always panics (hotupdate.go 61-72).                               *)
CallbackRuns ==
    \A m \in Msgs :
        task[m] = "work" /\ mode[m] \in {"withMsgCallback", "flowThen", "flowAsSimple"}
            ~> m \in called \/ m \in failed \/ pc = "exited"

(* A shutdown drains the mailbox and ends Run.                             *)
ShutdownEnds == cancelled ~> pc = "exited"
=============================================================================
