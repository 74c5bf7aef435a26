--------------------------- MODULE ActorCallsProofs --------------------------
(***************************************************************************)
(* Safety of the calls of actors, for any number of callers, specs,        *)
(* workers, actors and calls, and every threshold: when a circuit breaker  *)
(* may be open, what a fan-out returns with, and who answers a call.       *)
(***************************************************************************)
EXTENDS ActorCalls, FiniteSetTheorems, TLAPS

(* One step of the composition is a step of each part, or leaves it alone. *)
LEMMA OneSide ==
    [CallsNext]_callVars => /\ [Next]_vars
                            /\ [FanNext]_fanVars
                            /\ [ReplyNext]_replyVars
  BY DEF CallsNext, callVars, Breaker, Fanout, Replying

-----------------------------------------------------------------------------
(* The circuit breaker *)

(* The failures the breaker counts are the failures since a success.  When *)
(* outcomes are recorded one at a time, a breaker that is not closed has   *)
(* its streak, or the success that ended it is about to close it.          *)
StreakCounted == \A b \in Breakers : streak[b] = AtMost(failures[b], Threshold)

RecordedInTurn ==
    /\ \A c, d \in Callers : Recording(c) /\ Recording(d) => c = d
    /\ \A c \in Callers : pc[c] = "open" => streak[cb[c]] = Threshold
    /\ \A b \in Breakers : state[b] # "closed" =>
         streak[b] = Threshold \/ \E c \in Callers : pc[c] = "close" /\ cb[c] = b

(* A breaker about to be inserted is nobody's yet.                         *)
InsertsNew ==
    /\ entry = {} => \A d \in Callers : cb[d] = "known"
    /\ \A c \in Callers : pc[c] = "write" => c \notin entry /\ \A d \in Callers : cb[d] # c

BreakerInv == InsertsNew /\ StreakCounted /\ (~overlapped => RecordedInTurn)

(* CallActor and the breaker keep the types of the fields.                 *)
LEMMA BreakerTypes == ASSUME TypeOK, [Next]_vars PROVE TypeOK'
  <1> USE LimitsAssumption DEF TypeOK, breakerVars, Goto, Breakers
  <1>2. ASSUME NEW c \in Callers, LookUp(c) \/ Found(c) \/ Missing(c) PROVE TypeOK'
    BY <1>2 DEF LookUp, Found, Missing
  <1>3. ASSUME NEW c \in Callers, Insert(c) PROVE TypeOK'
    BY <1>3 DEF Insert
  <1>4. ASSUME NEW c \in Callers, Allow(c) \/ Probe(c) \/ FastFail(c) \/ LocalError(c)
        PROVE  TypeOK'
    BY <1>4 DEF Allow, Probe, FastFail, LocalError
  <1>5. ASSUME NEW c \in Callers, HalfOpen(c) PROVE TypeOK'
    BY <1>5 DEF HalfOpen
  <1>6. ASSUME NEW c \in Callers, Send(c) PROVE TypeOK'
    BY <1>6 DEF Send
  <1>7. ASSUME NEW c \in Callers, Reply(c) \/ Timeout(c) PROVE TypeOK'
    <2>1. overlapped' \in BOOLEAN
      BY <1>7 DEF Reply, Timeout, NoteOverlap
    <2> QED
      BY <1>7, <2>1 DEF Reply, Timeout
  <1>8. ASSUME NEW c \in Callers, Close(c) \/ Open(c) PROVE TypeOK'
    BY <1>8 DEF Close, Open
  <1>9. ASSUME NEW c \in Callers, Count(c) PROVE TypeOK'
    <2>1. /\ AtMost(failures[cb[c]] + 1, Threshold + 1) \in 0 .. Threshold + 1
          /\ AtMost(streak[cb[c]] + 1, Threshold) \in 0 .. Threshold
      BY DEF AtMost
    <2> QED
      BY <1>9, <2>1 DEF Count
  <1>10. CASE Toggle
    BY <1>10 DEF Toggle
  <1>11. CASE Tick
    <2>1. \A b \in Breakers : AtMost(age[b] + 1, Cooldown + 1) \in 0 .. Cooldown + 1
      BY DEF AtMost
    <2> QED
      BY <1>11, <2>1 DEF Tick
  <1>12. CASE UNCHANGED vars
    BY <1>12 DEF vars
  <1> QED
    BY <1>2, <1>3, <1>4, <1>5, <1>6, <1>7, <1>8, <1>9, <1>10, <1>11, <1>12
       DEF Next, CallStep

(* getCircuitBreaker inserts a breaker only into an empty map, and no map   *)
(* is emptied.                                                             *)
LEMMA InsertsNewInductive ==
    ASSUME TypeOK, InsertsNew, [Next]_vars PROVE InsertsNew'
  <1> USE CallersAssumption DEF TypeOK, InsertsNew, breakerVars, Goto, Breakers
  <1>1. ASSUME NEW c \in Callers, LookUp(c) \/ Found(c) \/ Missing(c) \/ Insert(c)
        PROVE  InsertsNew'
    <2>1. CASE LookUp(c) \/ Missing(c)
      BY <2>1 DEF LookUp, Missing
    <2>2. CASE Found(c)
      BY <2>2 DEF Found
    <2>3. CASE Insert(c)
      BY <2>3 DEF Insert
    <2> QED
      BY <1>1, <2>1, <2>2, <2>3
  <1>2. ASSUME NEW c \in Callers, CallStep(c),
               ~(LookUp(c) \/ Found(c) \/ Missing(c) \/ Insert(c))
        PROVE  /\ UNCHANGED <<entry, cb>> /\ pc'[c] # "write"
               /\ \A d \in Callers \ {c} : pc'[d] = pc[d]
    BY <1>2 DEF CallStep, Allow, Probe, HalfOpen, FastFail, LocalError, Send, Reply,
                Close, Timeout, Count, Open
  <1>3. CASE Toggle \/ Tick \/ UNCHANGED vars
    BY <1>3 DEF Toggle, Tick, vars
  <1> QED
    BY <1>1, <1>2, <1>3 DEF Next

(* A step that moves caller c between positions where it records nothing,  *)
(* without changing counts, and at most half-opens a breaker.              *)
LEMMA NotRecording ==
    ASSUME TypeOK, BreakerInv, NEW c \in Callers, ~Recording(c), ~Recording(c)',
           \A d \in Callers \ {c} : pc'[d] = pc[d] /\ cb'[d] = cb[d],
           UNCHANGED <<failures, streak, overlapped>>,
           \A b \in Breakers : state'[b] # "closed" => state[b] # "closed"
    PROVE  StreakCounted' /\ (~overlapped' => RecordedInTurn')
  BY DEF BreakerInv, StreakCounted, RecordedInTurn, Recording, TypeOK

(* Every step of the breaker and of its callers keeps the invariant.       *)
LEMMA BreakerInvInductive ==
    ASSUME TypeOK, BreakerInv, [Next]_vars PROVE BreakerInv'
  <1> DEFINE Kept == StreakCounted' /\ (~overlapped' => RecordedInTurn')
  <1>12. InsertsNew'
    BY InsertsNewInductive DEF BreakerInv
  <1> USE LimitsAssumption DEF TypeOK, breakerVars, Goto, Breakers
  <1>1. ASSUME NEW c \in Callers, LookUp(c) \/ Found(c) \/ Missing(c) PROVE Kept
    BY <1>1, NotRecording DEF LookUp, Found, Missing, Recording
  <1>2. ASSUME NEW c \in Callers, Insert(c) PROVE Kept
    <2>1. StreakCounted'
      <3>1. AtMost(0, Threshold) = 0
        BY DEF AtMost
      <3> QED
        BY <1>2, <3>1 DEF Insert, BreakerInv, StreakCounted
    <2>2. ~overlapped' => RecordedInTurn'
      BY <1>2 DEF Insert, BreakerInv, InsertsNew, RecordedInTurn, Recording
    <2> QED
      BY <2>1, <2>2
  <1>3. ASSUME NEW c \in Callers, Allow(c) \/ Probe(c) \/ FastFail(c) \/ LocalError(c)
        PROVE  Kept
    BY <1>3, NotRecording DEF Allow, Probe, FastFail, LocalError, Recording
  <1>4. ASSUME NEW c \in Callers, HalfOpen(c) \/ Send(c) PROVE Kept
    BY <1>4, NotRecording DEF HalfOpen, Send, Recording
  <1>5. ASSUME NEW c \in Callers, Reply(c) PROVE Kept
    <2>1. StreakCounted'
      <3>1. AtMost(0, Threshold) = 0
        BY DEF AtMost
      <3> QED
        BY <1>5, <3>1 DEF Reply, BreakerInv, StreakCounted
    <2>2. ~overlapped' => RecordedInTurn'
      <3> SUFFICES ASSUME ~overlapped' PROVE RecordedInTurn'
        OBVIOUS
      <3>1. ~overlapped /\ \A d \in Callers \ {c} : ~Recording(d)
        BY <1>5 DEF Reply, NoteOverlap
      <3> QED
        BY <1>5, <3>1 DEF Reply, BreakerInv, RecordedInTurn, Recording
    <2> QED
      BY <2>1, <2>2
  <1>6. ASSUME NEW c \in Callers, Timeout(c) PROVE Kept
    BY <1>6 DEF Timeout, NoteOverlap, BreakerInv, StreakCounted, RecordedInTurn, Recording
  <1>7. ASSUME NEW c \in Callers, Close(c) PROVE Kept
    BY <1>7 DEF Close, BreakerInv, StreakCounted, RecordedInTurn, Recording
  <1>8. ASSUME NEW c \in Callers, Count(c) PROVE Kept
    <2>1. StreakCounted'
      <3>1. \A n \in 0 .. Threshold + 1 :
               AtMost(AtMost(n, Threshold) + 1, Threshold)
                 = AtMost(AtMost(n + 1, Threshold + 1), Threshold)
        BY DEF AtMost
      <3> QED
        BY <1>8, <3>1 DEF Count, BreakerInv, StreakCounted
    <2>2. failures[cb[c]] + 1 >= Threshold => streak'[cb[c]] = Threshold
      BY <1>8 DEF Count, BreakerInv, StreakCounted, AtMost
    <2>3. \A b \in Breakers : streak[b] = Threshold => streak'[b] = Threshold
      BY <1>8 DEF Count, AtMost
    <2>4. ~overlapped' => RecordedInTurn'
      BY <1>8, <2>2, <2>3 DEF Count, BreakerInv, RecordedInTurn, Recording
    <2> QED
      BY <2>1, <2>4
  <1>9. ASSUME NEW c \in Callers, Open(c) PROVE Kept
    BY <1>9 DEF Open, BreakerInv, StreakCounted, RecordedInTurn, Recording
  <1>10. Toggle \/ Tick => Kept
    BY DEF Toggle, Tick, BreakerInv, StreakCounted, RecordedInTurn, Recording
  <1>11. UNCHANGED vars => Kept
    BY DEF vars, BreakerInv, StreakCounted, RecordedInTurn, Recording
  <1> QED
    BY <1>1, <1>2, <1>3, <1>4, <1>5, <1>6, <1>7, <1>8, <1>9, <1>10, <1>11, <1>12
       DEF Next, CallStep, BreakerInv

(* The types and the invariant hold in every behaviour.                    *)
LEMMA BreakerInvHolds == CallsSpec => [](TypeOK /\ BreakerInv)
  <1>1. CallsInit => TypeOK /\ BreakerInv
    <2> SUFFICES ASSUME CallsInit PROVE TypeOK /\ BreakerInv
      OBVIOUS
    <2>1. TypeOK
      <3>1. entry \in SUBSET Breakers
        BY CallersAssumption DEF CallsInit, Init, Breakers
      <3>2. lost \in [Callers -> BOOLEAN] /\ up \in BOOLEAN /\ overlapped \in BOOLEAN
        BY DEF CallsInit, Init
      <3>3. /\ failures \in [Breakers -> 0 .. Threshold + 1]
            /\ age \in [Breakers -> 0 .. Cooldown + 1]
            /\ streak \in [Breakers -> 0 .. Threshold]
        BY LimitsAssumption DEF CallsInit, Init
      <3> QED
        BY <3>1, <3>2, <3>3 DEF CallsInit, Init, TypeOK, Breakers
    <2>2. AtMost(0, Threshold) = 0
      BY LimitsAssumption DEF AtMost
    <2>3. BreakerInv
      BY <2>2 DEF CallsInit, Init, BreakerInv, InsertsNew, StreakCounted, RecordedInTurn, Recording
    <2> QED
      BY <2>1, <2>3
  <1>2. TypeOK /\ BreakerInv /\ [CallsNext]_callVars => TypeOK' /\ BreakerInv'
    BY OneSide, BreakerTypes, BreakerInvInductive
  <1> QED
    BY <1>1, <1>2, PTL DEF CallsSpec

(* recordSuccess and recordFailure (circuitbreaker.go): when all outcomes  *)
(* are recorded and no two were at once, a breaker that rejects or probes  *)
(* has seen Threshold failures in a row (OpenEarned).                      *)
THEOREM BreakerOpensEarned == CallsSpec => []OpenEarned
  <1>1. TypeOK /\ BreakerInv => OpenEarned
    BY DEF BreakerInv, RecordedInTurn, OpenEarned, Recording
  <1> QED
    BY <1>1, BreakerInvHolds, PTL

(* A step that ends a failed call on a half-open breaker opens it: the     *)
(* failures that opened it are still counted, as no success came between.  *)
LEMMA FailureReopens ==
    ASSUME TypeOK, BreakerInv, [Next]_vars, ~overlapped, NEW c \in Callers,
           pc[c] \in {"count", "open"}, pc'[c] = "idle", state[cb[c]] = "half"
    PROVE  state'[cb[c]] = "open"
  <1> USE LimitsAssumption DEF TypeOK, breakerVars, Goto
  <1>1. pc' # pc /\ RecordedInTurn
    BY DEF BreakerInv
  <1>2. PICK d \in Callers : CallStep(d)
    BY <1>1 DEF Next, Toggle, Tick, vars
  <1>3. d = c
    BY <1>2 DEF CallStep, LookUp, Found, Missing, Insert, Allow, Probe, HalfOpen, FastFail,
                LocalError, Send, Reply, Close, Timeout, Count, Open
  <1>4. Count(c) \/ Open(c)
    BY <1>2, <1>3 DEF CallStep, LookUp, Found, Missing, Insert, Allow, Probe, HalfOpen, FastFail,
                      LocalError, Send, Reply, Close, Timeout
  <1>5. ~Count(c)
    <2> SUFFICES ASSUME Count(c) PROVE FALSE
      OBVIOUS
    <2>1. failures[cb[c]] + 1 < Threshold
      BY DEF Count
    <2>2. streak[cb[c]] = failures[cb[c]]
      BY <2>1 DEF BreakerInv, StreakCounted, AtMost
    <2>3. \A e \in Callers : pc[e] # "close"
      BY <1>1 DEF RecordedInTurn, Recording, Count
    <2>4. streak[cb[c]] = Threshold
      BY <1>1, <2>3 DEF RecordedInTurn
    <2> QED
      BY <2>1, <2>2, <2>4
  <1> QED
    BY <1>4, <1>5 DEF Open

(* recordFailure (circuitbreaker.go): a probe that fails never leaves the  *)
(* breaker half-open, unless two outcomes were recorded at once            *)
(* (ProbeFailureReopens, the safety half of HalfOpenResolved).             *)
THEOREM FailedProbesReopen == CallsSpec => ProbeFailureReopens
  <1> DEFINE Reopens == \A c \in Callers :
                 /\ pc[c] \in {"count", "open"} /\ pc'[c] = "idle"
                 /\ state[cb[c]] = "half"
                 => state'[cb[c]] = "open" \/ overlapped
  <1>1. TypeOK /\ BreakerInv /\ [CallsNext]_callVars => [Reopens]_vars
    BY OneSide, FailureReopens
  <1> QED
    BY <1>1, BreakerInvHolds, PTL DEF CallsSpec, ProbeFailureReopens

-----------------------------------------------------------------------------
(* Fan-out *)

(* Specs of a call that was made for which wg.Done is still owed: their    *)
(* task runs, waits in the mailbox for its callback, or has panicked.      *)
Owed(c) == {i \in Specs \ todo[c] : <<c, i>> \in running \cup mailbox \/ out[c][i] = "none"}

(* Where a task is, and what is known of its result there.                 *)
TasksPlaced ==
    \A c \in Fanouts, i \in Specs :
        /\ i \in todo[c] => out[c][i] = "none"
        /\ <<c, i>> \in running =>
             i \notin todo[c] /\ out[c][i] = "none" /\ <<c, i>> \notin mailbox
        /\ <<c, i>> \in mailbox => i \notin todo[c] /\ out[c][i] = "reply"

(* A call that has not begun owns nothing.                                 *)
IdleEmpty ==
    \A c \in Fanouts : fpc[c] = "idle" =>
        /\ wg[c] = 0
        /\ \A i \in Specs : out[c][i] = "none" /\ <<c, i>> \notin running \cup mailbox

(* The WaitGroup counts what is owed, and is at zero when the call returns.*)
WaitGroupExact ==
    \A c \in Fanouts :
        /\ fpc[c] # "idle" => wg[c] = Cardinality(Owed(c))
        /\ fpc[c] \in {"wait", "done"} => todo[c] = {}
        /\ fpc[c] = "done" => wg[c] = 0

FanInv == FanTypeOK /\ TasksPlaced /\ IdleEmpty /\ WaitGroupExact

(* wg.Add and wg.Done, by what they do to the number of owed results.      *)
LEMMA OwedFinite ==
    ASSUME NEW c \in Fanouts
    PROVE  IsFiniteSet(Owed(c)) /\ Cardinality(Owed(c)) \in Nat
  <1>1. Owed(c) \in SUBSET Specs
    BY DEF Owed
  <1>2. IsFiniteSet(Owed(c))
    BY <1>1, PoolAssumption, FS_Subset
  <1> QED
    BY <1>2, FS_CardinalityType

(* CallActorAll begins: nothing is submitted.                              *)
LEMMA BeginFanInv == ASSUME FanInv, NEW c \in Fanouts, Begin(c) PROVE FanInv'
  <1> USE DEF FanInv, sendVars
  <1>1. FanTypeOK'
    BY DEF Begin, FanTypeOK
  <1>2. TasksPlaced' /\ IdleEmpty'
    BY DEF Begin, FanTypeOK, TasksPlaced, IdleEmpty
  <1>3. Owed(c)' = {} /\ \A d \in Fanouts \ {c} : Owed(d)' = Owed(d)
    BY DEF Begin, FanTypeOK, Owed
  <1>4. WaitGroupExact'
    BY <1>3, FS_EmptySet DEF Begin, FanTypeOK, IdleEmpty, WaitGroupExact
  <1> QED
    BY <1>1, <1>2, <1>4

(* AsyncRunResult: one more result is owed, and wg.Add(1) was called.      *)
LEMMA SubmitFanInv == ASSUME FanInv, NEW c \in Fanouts, Submit(c) PROVE FanInv'
  <1> USE DEF FanInv
  <1>1. PICK i \in todo[c] : /\ todo' = [todo EXCEPT ![c] = @ \ {i}]
                             /\ running' = running \cup {<<c, i>>}
                             /\ sending' \in {sending, sending \cup {<<c, i>>}}
    BY DEF Submit
  <1>2. /\ fpc[c] = "submit" /\ wg' = [wg EXCEPT ![c] = @ + 1]
        /\ UNCHANGED <<fpc, out, sends, handlers, stalled, mailbox, closed, exited>>
    BY DEF Submit
  <1>3. i \in Specs /\ i \notin Owed(c)
    BY DEF FanTypeOK, Owed
  <1>4. FanTypeOK'
    BY <1>1, <1>2, <1>3 DEF FanTypeOK, Tasks
  <1>5. TasksPlaced' /\ IdleEmpty'
    BY <1>1, <1>2, <1>3 DEF FanTypeOK, TasksPlaced, IdleEmpty
  <1>6. /\ Owed(c)' = Owed(c) \cup {i}
        /\ \A d \in Fanouts \ {c} : Owed(d)' = Owed(d)
    BY <1>1, <1>2, <1>3 DEF FanTypeOK, Owed
  <1>7. Cardinality(Owed(c)') = Cardinality(Owed(c)) + 1
    BY <1>3, <1>6, OwedFinite, FS_AddElement
  <1>8. WaitGroupExact'
    BY <1>1, <1>2, <1>6, <1>7 DEF FanTypeOK, WaitGroupExact
  <1> QED
    BY <1>4, <1>5, <1>8

(* Invoke fails: the error result is there at once, and wg.Done called.    *)
LEMMA SubmitFailsFanInv == ASSUME FanInv, NEW c \in Fanouts, SubmitFails(c) PROVE FanInv'
  <1> USE DEF FanInv
  <1>1. PICK i \in todo[c] : /\ todo' = [todo EXCEPT ![c] = @ \ {i}]
                             /\ out' = [out EXCEPT ![c][i] = "error"]
    BY DEF SubmitFails
  <1>2. fpc[c] = "submit" /\ UNCHANGED <<fpc, wg, running, sendVars, mailbox, closed, exited>>
    BY DEF SubmitFails
  <1>3. i \in Specs /\ <<c, i>> \notin running \cup mailbox
    BY DEF FanTypeOK, TasksPlaced
  <1>4. \A d \in Fanouts, j \in Specs :
            out'[d][j] = IF d = c /\ j = i THEN "error" ELSE out[d][j]
    BY <1>1, <1>3 DEF FanTypeOK
  <1>5. FanTypeOK'
    BY <1>1, <1>2, <1>3 DEF FanTypeOK, sendVars
  <1>6. TasksPlaced' /\ IdleEmpty'
    BY <1>1, <1>2, <1>3, <1>4 DEF FanTypeOK, TasksPlaced, IdleEmpty
  <1>7. ASSUME NEW d \in Fanouts PROVE Owed(d)' = Owed(d)
    <2>1. todo \in [Fanouts -> SUBSET Specs]
      BY DEF FanTypeOK
    <2>2. \A j \in Specs : j \in todo'[d] <=> j \in todo[d] /\ ~(d = c /\ j = i)
      BY <1>1, <2>1
    <2>3. \A j \in Specs : j \in Owed(d)' <=> j \in Owed(d)
      BY <1>2, <1>3, <1>4, <2>2 DEF Owed
    <2> QED
      BY <2>3 DEF Owed
  <1>8. WaitGroupExact'
    BY <1>1, <1>2, <1>7 DEF FanTypeOK, WaitGroupExact
  <1> QED
    BY <1>5, <1>6, <1>8

(* The end of the loop, and wg.Wait.                                       *)
LEMMA WaitFanInv ==
    ASSUME FanInv, NEW c \in Fanouts, Wait(c) \/ FanReturn(c) PROVE FanInv'
  <1> USE DEF FanInv
  <1>1. /\ UNCHANGED <<todo, wg, out, running, sendVars, mailbox, closed, exited>>
        /\ fpc' \in [Fanouts -> {"idle", "submit", "wait", "done"}]
        /\ \A d \in Fanouts : fpc'[d] = "idle" => fpc[d] = "idle"
    BY DEF Wait, FanReturn, FanTypeOK
  <1>4. FanTypeOK' /\ TasksPlaced'
    BY <1>1 DEF FanTypeOK, TasksPlaced, sendVars
  <1>5. IdleEmpty'
    BY <1>1 DEF IdleEmpty
  <1>2. \A d \in Fanouts : Owed(d)' = Owed(d)
    BY DEF Wait, FanReturn, Owed
  <1>3. WaitGroupExact'
    BY <1>2 DEF Wait, FanReturn, FanTypeOK, WaitGroupExact
  <1> QED
    BY <1>4, <1>5, <1>3

(* A task ends on its worker, with its callback pushed or with a panic:    *)
(* wg.Done is still owed.                                                  *)
LEMMA TaskFanInv ==
    ASSUME FanInv, NEW c \in Fanouts, NEW i \in Specs,
           Finish(<<c, i>>) \/ Panic(<<c, i>>)
    PROVE  FanInv'
  <1> USE DEF FanInv
  <1>1. /\ <<c, i>> \in running /\ running' = running \ {<<c, i>>}
        /\ UNCHANGED <<fpc, todo, wg, sendVars, closed, exited>>
        /\ \/ mailbox' = mailbox \cup {<<c, i>>} /\ out' = [out EXCEPT ![c][i] = "reply"]
           \/ UNCHANGED <<mailbox, out>>
    BY DEF Finish, Panic
  <1>8. out' \in [Fanouts -> [Specs -> {"none", "reply", "error"}]]
    <2>1. out \in [Fanouts -> [Specs -> {"none", "reply", "error"}]]
      BY DEF FanTypeOK
    <2> QED
      BY <1>1, <2>1
  <1>2. FanTypeOK'
    BY <1>1, <1>8 DEF FanTypeOK, Tasks, sendVars
  <1>3. \A d \in Fanouts, j \in Specs :
            out'[d][j] = IF d = c /\ j = i THEN out'[c][i] ELSE out[d][j]
    BY <1>1 DEF FanTypeOK
  <1>9. out[c][i] = "none" /\ <<c, i>> \notin mailbox
    BY <1>1 DEF TasksPlaced
  <1>4. \/ out'[c][i] = "reply" /\ <<c, i>> \in mailbox'
        \/ out'[c][i] = "none" /\ <<c, i>> \notin mailbox'
    BY <1>1, <1>9 DEF FanTypeOK
  <1>5. TasksPlaced' /\ IdleEmpty'
    BY <1>1, <1>3, <1>4 DEF FanTypeOK, TasksPlaced, IdleEmpty
  <1>6. \A d \in Fanouts : Owed(d)' = Owed(d)
    BY <1>1, <1>3, <1>4 DEF FanTypeOK, TasksPlaced, Owed
  <1>7. WaitGroupExact'
    BY <1>1, <1>6 DEF FanTypeOK, WaitGroupExact
  <1> QED
    BY <1>2, <1>5, <1>7

(* The callback: wg.Done, for a result that is there.                      *)
LEMMA CallbackFanInv == ASSUME FanInv, Callback PROVE FanInv'
  <1> USE DEF FanInv
  <1>1. PICK t \in mailbox : /\ mailbox' = mailbox \ {t}
                             /\ wg' = [wg EXCEPT ![t[1]] = @ - 1]
    BY DEF Callback
  <1>2. PICK c \in Fanouts, i \in Specs : t = <<c, i>>
    BY DEF FanTypeOK, Tasks
  <1>3. UNCHANGED <<fpc, todo, out, running, sendVars, closed, exited>>
    BY DEF Callback
  <1>4. /\ fpc[c] # "idle" /\ i \in Owed(c)
        /\ Owed(c)' = Owed(c) \ {i}
        /\ \A d \in Fanouts \ {c} : Owed(d)' = Owed(d)
    BY <1>1, <1>2, <1>3 DEF FanTypeOK, TasksPlaced, IdleEmpty, Owed
  <1>5. /\ wg[c] = Cardinality(Owed(c)) /\ wg[c] > 0
        /\ Cardinality(Owed(c)') = Cardinality(Owed(c)) - 1
    <2>1. IsFiniteSet(Owed(c)) /\ Cardinality(Owed(c)) \in Nat
      BY OwedFinite
    <2>2. Cardinality(Owed(c)) # 0
      BY <1>4, <2>1, FS_EmptySet
    <2>3. Cardinality(Owed(c)') = Cardinality(Owed(c)) - 1
      BY <1>4, <2>1, FS_RemoveElement
    <2> QED
      BY <1>4, <2>1, <2>2, <2>3 DEF WaitGroupExact
  <1>6. /\ wg' \in [Fanouts -> Nat] /\ wg'[c] = wg[c] - 1
        /\ \A d \in Fanouts \ {c} : wg'[d] = wg[d]
    BY <1>1, <1>2, <1>5 DEF FanTypeOK
  <1>7. FanTypeOK'
    BY <1>1, <1>3, <1>6 DEF FanTypeOK, sendVars
  <1>8. TasksPlaced' /\ IdleEmpty'
    BY <1>1, <1>2, <1>3, <1>4, <1>6 DEF TasksPlaced, IdleEmpty
  <1>9. WaitGroupExact'
    <2> SUFFICES ASSUME NEW d \in Fanouts
                 PROVE  /\ fpc'[d] # "idle" => wg'[d] = Cardinality(Owed(d)')
                        /\ fpc'[d] \in {"wait", "done"} => todo'[d] = {}
                        /\ fpc'[d] = "done" => wg'[d] = 0
      BY DEF WaitGroupExact
    <2>1. CASE d = c
      BY <2>1, <1>3, <1>4, <1>5, <1>6 DEF WaitGroupExact
    <2>2. CASE d # c
      BY <2>2, <1>3, <1>4, <1>6 DEF WaitGroupExact
    <2> QED
      BY <2>1, <2>2
  <1> QED
    BY <1>7, <1>8, <1>9

(* Messages that are sent to other processes owe nobody anything.          *)
LEMMA SendFanInv ==
    ASSUME FanInv,
           (\E t \in Tasks : SendMsg(t)) \/ HandlerSends \/ HandlerSent \/ Published
    PROVE  FanInv'
  <1> USE DEF FanInv
  <1>1. UNCHANGED <<fpc, todo, wg, out, running, mailbox, closed, exited>>
    BY DEF SendMsg, HandlerSends, HandlerSent, Published
  <1>2. sending' \in SUBSET Tasks /\ stalled' \in BOOLEAN
    BY DEF SendMsg, HandlerSends, HandlerSent, Published, FanTypeOK
  <1>3. sends' \in Nat /\ handlers' \in 0 .. MaxSends
    BY PoolAssumption DEF SendMsg, HandlerSends, HandlerSent, Published, AsyncRun, FanTypeOK
  <1>4. FanTypeOK'
    BY <1>1, <1>2, <1>3 DEF FanTypeOK
  <1>5. \A d \in Fanouts : Owed(d)' = Owed(d)
    BY <1>1 DEF Owed
  <1> QED
    BY <1>1, <1>4, <1>5 DEF TasksPlaced, IdleEmpty, WaitGroupExact

(* Every step of the fan-out keeps the invariant.                          *)
LEMMA FanInvInductive == ASSUME FanInv, [FanNext]_fanVars PROVE FanInv'
  <1>1. ASSUME NEW c \in Fanouts, Begin(c) \/ FanoutStep(c) PROVE FanInv'
    BY <1>1, BeginFanInv, SubmitFanInv, SubmitFailsFanInv, WaitFanInv DEF FanoutStep
  <1>2. ASSUME NEW t \in Tasks, Finish(t) \/ Panic(t) PROVE FanInv'
    <2>1. PICK c \in Fanouts, i \in Specs : t = <<c, i>>
      BY DEF Tasks
    <2> QED
      BY <1>2, <2>1, TaskFanInv
  <1>3. CASE CloseActor \/ RunExit \/ UNCHANGED fanVars
    <2>1. /\ UNCHANGED <<fpc, todo, wg, out, running, sending, sends, handlers, stalled, mailbox>>
          /\ closed' \in BOOLEAN /\ exited' \in BOOLEAN
      BY <1>3 DEF CloseActor, RunExit, fanVars, sendVars, FanInv, FanTypeOK
    <2>2. \A d \in Fanouts : Owed(d)' = Owed(d)
      BY <2>1 DEF Owed
    <2> QED
      BY <2>1, <2>2 DEF FanInv, FanTypeOK, TasksPlaced, IdleEmpty, WaitGroupExact
  <1> QED
    BY <1>1, <1>2, <1>3, CallbackFanInv, SendFanInv DEF FanNext

(* CallActorAll (helper.go): a fan-out that returns has a result for every *)
(* spec, and no task is left that would write into what it returned        *)
(* (ResultsComplete).                                                      *)
THEOREM FanoutsReturnComplete == CallsSpec => []ResultsComplete
  <1>1. CallsInit => FanInv
    <2> SUFFICES ASSUME FanInit PROVE FanInv
      BY DEF CallsInit
    <2>1. FanTypeOK
      <3>1. handlers \in 0 .. MaxSends
        BY PoolAssumption DEF FanInit
      <3>2. wg \in [Fanouts -> Nat] /\ sends \in Nat
        BY DEF FanInit
      <3>3. out \in [Fanouts -> [Specs -> {"none", "reply", "error"}]]
        BY DEF FanInit
      <3> QED
        BY <3>1, <3>2, <3>3 DEF FanInit, FanTypeOK
    <2>2. TasksPlaced /\ IdleEmpty /\ WaitGroupExact
      BY DEF FanInit, TasksPlaced, IdleEmpty, WaitGroupExact
    <2> QED
      BY <2>1, <2>2 DEF FanInv
  <1>2. FanInv /\ [CallsNext]_callVars => FanInv'
    BY OneSide, FanInvInductive
  <1>3. FanInv => ResultsComplete
    <2> SUFFICES ASSUME FanInv, NEW c \in Fanouts, fpc[c] = "done"
                 PROVE  \A i \in Specs : out[c][i] # "none" /\ <<c, i>> \notin running
      BY DEF ResultsComplete
    <2>1. Owed(c) = {} /\ todo[c] = {}
      BY OwedFinite, FS_EmptySet DEF FanInv, WaitGroupExact
    <2> QED
      BY <2>1 DEF Owed
  <1> QED
    BY <1>1, <1>2, <1>3, PTL DEF CallsSpec

-----------------------------------------------------------------------------
(* Replies *)

(* Requests on their way are calls to whom they go, and responses on their *)
(* way were sent for the call they name.                                   *)
ReplyInv ==
    /\ target \in [Servers -> [RpcIds -> Servers \cup {Nobody}]]
    /\ fate \in [Servers -> [RpcIds -> {"none", "waiting", "reply", "placeholder", "timeout"}]]
    /\ net \subseteq [kind : {"request", "response"}, from : Servers, to : Servers, id : RpcIds]
    /\ \A m \in net : m.kind = "request" => m.from # m.to /\ target[m.from][m.id] = m.to
    /\ \A m \in net : m.kind = "response" => <<m.to, m.id>> \in served
    /\ AnsweredByTarget

(* Answers given stay right, whatever else happens to waiting calls.       *)
LEMMA AnswersKept ==
    ASSUME ReplyInv,
           \A c \in Servers, j \in RpcIds :
               fate'[c][j] = fate[c][j] \/ fate'[c][j] \in {"waiting", "timeout"},
           \A c \in Servers, j \in RpcIds :
               target[c][j] # Nobody => target'[c][j] = target[c][j],
           served \subseteq served', refused \subseteq refused'
    PROVE  AnsweredByTarget'
  <1> SUFFICES ASSUME NEW c \in Servers, NEW j \in RpcIds
               PROVE  /\ fate'[c][j] = "reply" => <<c, j>> \in served'
                      /\ fate'[c][j] = "placeholder" =>
                           \E d \in Servers \ {c} : target'[d][j] = c /\ <<d, j>> \in refused'
    BY DEF AnsweredByTarget
  <1>1. fate'[c][j] = "reply" => <<c, j>> \in served'
    BY DEF ReplyInv, AnsweredByTarget
  <1>2. ASSUME fate'[c][j] = "placeholder"
        PROVE  \E d \in Servers \ {c} : target'[d][j] = c /\ <<d, j>> \in refused'
    <2>1. PICK d \in Servers \ {c} : target[d][j] = c /\ <<d, j>> \in refused
      BY <1>2 DEF ReplyInv, AnsweredByTarget
    <2>2. target'[d][j] = c
      BY <2>1, ReplyAssumption
    <2> QED
      BY <2>1, <2>2
  <1> QED
    BY <1>1, <1>2

(* CallActor: the id is new, so nothing that is known of other calls       *)
(* changes.                                                                *)
LEMMA AskReplyInv ==
    ASSUME ReplyInv, NEW a \in Servers, NEW b \in Servers, NEW i \in RpcIds, Ask(a, b, i)
    PROVE  ReplyInv'
  <1> USE ReplyAssumption DEF ReplyInv
  <1> DEFINE msg == [kind |-> "request", from |-> a, to |-> b, id |-> i]
  <1>1. /\ a # b /\ target[a][i] = Nobody
        /\ target' = [target EXCEPT ![a][i] = b]
        /\ fate' = [fate EXCEPT ![a][i] = "waiting"]
        /\ net' = net \cup {msg} /\ UNCHANGED <<served, refused>>
    BY DEF Ask, NextId
  <1>2. \A c \in Servers, j \in RpcIds :
            /\ target'[c][j] = IF c = a /\ j = i THEN b ELSE target[c][j]
            /\ fate'[c][j] = IF c = a /\ j = i THEN "waiting" ELSE fate[c][j]
    BY <1>1
  <1>3. /\ target' \in [Servers -> [RpcIds -> Servers \cup {Nobody}]]
        /\ fate' \in [Servers -> [RpcIds -> {"none", "waiting", "reply", "placeholder", "timeout"}]]
    BY <1>1
  <1>4. net' \subseteq [kind : {"request", "response"}, from : Servers, to : Servers, id : RpcIds]
    BY <1>1
  <1>5. \A m \in net' : m.kind = "request" => m.from # m.to /\ target'[m.from][m.id] = m.to
    BY <1>1, <1>2
  <1>6. \A m \in net' : m.kind = "response" => <<m.to, m.id>> \in served'
    BY <1>1
  <1>7. AnsweredByTarget'
    BY <1>1, <1>2, AnswersKept
  <1> QED
    BY <1>3, <1>4, <1>5, <1>6, <1>7

(* What SetReply of actor a does to the fates of calls.                    *)
LEMMA SetReplyFates ==
    ASSUME ReplyInv, NEW a \in Servers, NEW i \in RpcIds,
           NEW what \in {"reply", "placeholder"}, SetReplyOf(a, i, what)
    PROVE  /\ fate' \in [Servers ->
                 [RpcIds -> {"none", "waiting", "reply", "placeholder", "timeout"}]]
           /\ \A c \in Servers, j \in RpcIds :
                 fate'[c][j] = fate[c][j] \/ (c = a /\ j = i /\ fate'[c][j] = what)
  BY DEF SetReplyOf, ReplyInv

(* Every step of the reply path keeps the invariant.                       *)
LEMMA ReplyInvInductive == ASSUME ReplyInv, [ReplyNext]_replyVars PROVE ReplyInv'
  <1>1. ASSUME NEW a \in Servers, NEW b \in Servers, NEW i \in RpcIds, Ask(a, b, i)
        PROVE  ReplyInv'
    BY <1>1, AskReplyInv
  <1>2. ASSUME NEW m \in net, Unanswered(m) \/ LoseMessage(m) PROVE ReplyInv'
    BY <1>2 DEF Unanswered, LoseMessage, ReplyInv, AnsweredByTarget
  <1>3. ASSUME NEW m \in net, SendActorReply(m) PROVE ReplyInv'
    <2> DEFINE msg == [kind |-> "response", from |-> m.to, to |-> m.from, id |-> m.id]
    <2>1. m.from \in Servers /\ m.to \in Servers /\ m.id \in RpcIds
      BY DEF ReplyInv
    <2>2. /\ net' = (net \ {m}) \cup {msg} /\ served' = served \cup {<<m.from, m.id>>}
          /\ UNCHANGED <<target, fate, refused>>
      BY <1>3 DEF SendActorReply
    <2>3. AnsweredByTarget'
      BY <2>2, AnswersKept
    <2>4. net' \subseteq [kind : {"request", "response"}, from : Servers, to : Servers, id : RpcIds]
      BY <2>1, <2>2 DEF ReplyInv
    <2>5. \A n \in net' : n.kind = "request" => n.from # n.to /\ target'[n.from][n.id] = n.to
      BY <2>2 DEF ReplyInv
    <2>6. \A n \in net' : n.kind = "response" => <<n.to, n.id>> \in served'
      BY <2>2 DEF ReplyInv
    <2> QED
      BY <2>2, <2>3, <2>4, <2>5, <2>6 DEF ReplyInv
  <1>4. ASSUME NEW m \in net, SendActorReplyFails(m) PROVE ReplyInv'
    <2>1. /\ m.from \in Servers /\ m.to \in Servers /\ m.id \in RpcIds
          /\ m.from # m.to /\ target[m.from][m.id] = m.to
      BY <1>4 DEF SendActorReplyFails, ReplyInv
    <2>2. /\ SetReplyOf(m.to, m.id, "placeholder") /\ net' = net \ {m}
          /\ refused' = refused \cup {<<m.from, m.id>>} /\ UNCHANGED <<target, served>>
      BY <1>4 DEF SendActorReplyFails
    <2>4. /\ fate' \in [Servers ->
                 [RpcIds -> {"none", "waiting", "reply", "placeholder", "timeout"}]]
          /\ \A c \in Servers, j \in RpcIds :
                 \/ fate'[c][j] = fate[c][j]
                 \/ c = m.to /\ j = m.id /\ fate'[c][j] = "placeholder"
      BY <2>1, <2>2, SetReplyFates
    <2>3. AnsweredByTarget'
      <3> SUFFICES ASSUME NEW c \in Servers, NEW j \in RpcIds
                   PROVE  /\ fate'[c][j] = "reply" => <<c, j>> \in served'
                          /\ fate'[c][j] = "placeholder" =>
                               \E d \in Servers \ {c} : target'[d][j] = c /\ <<d, j>> \in refused'
        BY DEF AnsweredByTarget
      <3>1. CASE fate'[c][j] = fate[c][j]
        BY <3>1, <2>2 DEF ReplyInv, AnsweredByTarget
      <3>2. CASE c = m.to /\ j = m.id /\ fate'[c][j] = "placeholder"
        BY <3>2, <2>1, <2>2
      <3> QED
        BY <3>1, <3>2, <2>4
    <2> QED
      BY <2>1, <2>2, <2>3, <2>4 DEF ReplyInv
  <1>5. ASSUME NEW m \in net, PushResponse(m) PROVE ReplyInv'
    <2>1. m.to \in Servers /\ m.id \in RpcIds /\ <<m.to, m.id>> \in served
      BY <1>5 DEF PushResponse, ReplyInv
    <2>2. /\ SetReplyOf(m.to, m.id, "reply") /\ net' = net \ {m}
          /\ UNCHANGED <<target, served, refused>>
      BY <1>5 DEF PushResponse
    <2>4. /\ fate' \in [Servers ->
                 [RpcIds -> {"none", "waiting", "reply", "placeholder", "timeout"}]]
          /\ \A c \in Servers, j \in RpcIds :
                 \/ fate'[c][j] = fate[c][j]
                 \/ c = m.to /\ j = m.id /\ fate'[c][j] = "reply"
      BY <2>1, <2>2, SetReplyFates
    <2>3. AnsweredByTarget'
      <3> SUFFICES ASSUME NEW c \in Servers, NEW j \in RpcIds
                   PROVE  /\ fate'[c][j] = "reply" => <<c, j>> \in served'
                          /\ fate'[c][j] = "placeholder" =>
                               \E d \in Servers \ {c} : target'[d][j] = c /\ <<d, j>> \in refused'
        BY DEF AnsweredByTarget
      <3>1. CASE fate'[c][j] = fate[c][j]
        BY <3>1, <2>2 DEF ReplyInv, AnsweredByTarget
      <3>2. CASE c = m.to /\ j = m.id /\ fate'[c][j] = "reply"
        BY <3>2, <2>1, <2>2
      <3> QED
        BY <3>1, <3>2, <2>4
    <2> QED
      BY <2>1, <2>2, <2>3, <2>4 DEF ReplyInv
  <1>6. ASSUME NEW a \in Servers, NEW i \in RpcIds, GiveUpWaiting(a, i) PROVE ReplyInv'
    <2>1. \A c \in Servers, j \in RpcIds :
              fate'[c][j] = fate[c][j] \/ fate'[c][j] = "timeout"
      BY <1>6 DEF GiveUpWaiting, ReplyInv
    <2>2. fate' \in [Servers -> [RpcIds -> {"none", "waiting", "reply", "placeholder", "timeout"}]]
      BY <1>6 DEF GiveUpWaiting, ReplyInv
    <2>3. UNCHANGED <<target, net, served, refused>>
      BY <1>6 DEF GiveUpWaiting
    <2>4. AnsweredByTarget'
      BY <2>1, <2>3, AnswersKept
    <2> QED
      BY <2>2, <2>3, <2>4 DEF ReplyInv
  <1>7. CASE UNCHANGED replyVars
    BY <1>7 DEF replyVars, ReplyInv, AnsweredByTarget
  <1> QED
    BY <1>1, <1>2, <1>3, <1>4, <1>5, <1>6, <1>7 DEF ReplyNext

(* SendActorReply and Push (helper.go, base.go): a call is answered by the *)
(* actor it was made to; a placeholder ends a call only when its own actor *)
(* failed to answer a call of the same id (AnsweredByTarget).              *)
THEOREM TargetAnswers == CallsSpec => []AnsweredByTarget
  <1>1. CallsInit => ReplyInv
    BY DEF CallsInit, ReplyInit, ReplyInv, AnsweredByTarget
  <1>2. ReplyInv /\ [CallsNext]_callVars => ReplyInv'
    BY OneSide, ReplyInvInductive
  <1>3. ReplyInv => AnsweredByTarget
    BY DEF ReplyInv
  <1> QED
    BY <1>1, <1>2, <1>3, PTL DEF CallsSpec

=============================================================================
