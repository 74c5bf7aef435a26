----------------------------- MODULE GroupProofs -----------------------------
(* Proofs about GroupRuntime: what the watchdog reports, local routing and   *)
(* the choice by load, how a start fails and a process ends, and that a      *)
(* worker of a running group is given up for a reason.  Each part has its    *)
(* own inductive invariant; every step of the composition keeps them all,    *)
(* since a part changes none of the variables of another.                    *)
EXTENDS GroupRuntime, FiniteSetTheorems, SequenceTheorems, WellFoundedInduction, TLAPS

-----------------------------------------------------------------------------
(* The supervisor by itself: its types, and that an actor is given up only   *)
(* after maxRestarts + 1 returns since its last steady run.                  *)

(* The count never runs ahead of the returns it stands for.  A Run cannot  *)
(* have lasted longer than the last restart is ago, so a steady Run always *)
(* finds the window expired.                                               *)
SupInv ==
    /\ pc \in {"run", "sleep"} => restarts <= exits /\ restarts <= maxRestarts
    /\ up <= since
    /\ pc = "sleep" => up = 0
    /\ GiveUpEarned

(* What maxRestarts and Backoff return.                                    *)
LEMMA LimitType == maxRestarts \in Nat \ {0}
  BY ConfigAssumption DEF maxRestarts, defaultMaxRestarts

(* The back-off is between nothing and its cap.                            *)
LEMMA BackoffType == \A n \in Nat \ {0} : Backoff(n) \in 0 .. BackoffCap
  <1> SUFFICES ASSUME NEW n \in Nat \ {0} PROVE Backoff(n) \in 0 .. BackoffCap
    OBVIOUS
  <1>1. AtMost(n, 6) \in 1 .. 6
    BY DEF AtMost
  <1>2. \A k \in 1 .. 6 : <<1, 2, 4, 8, 16, 32>>[k] \in Nat
    OBVIOUS
  <1>3. Shifted(n) \in Nat
    BY <1>1, <1>2 DEF Shifted
  <1> QED
    BY <1>3, TimeAssumption DEF Backoff, AtMost

(* Counting one more return of Run.                                        *)
LEMMA CountedType ==
    ASSUME TypeOK PROVE Counted \in Nat \ {0} /\ Counted <= restarts + 1
  BY LimitType DEF TypeOK, Counted

-----------------------------------------------------------------------------
(* The loop starts within its bounds.                                      *)
LEMMA SupInit == Init => TypeOK /\ SupInv
  <1> SUFFICES ASSUME Init PROVE TypeOK /\ SupInv
    OBVIOUS
  <1> USE LimitType, TimeAssumption
  <1>1. cancelled \in BOOLEAN
    BY Zenon DEF Init
  <1> QED
    BY <1>1 DEF Init, TypeOK, SupInv, GiveUpEarned

(* Every step of the loop keeps the types and the bounds.                  *)
LEMMA SupStep == ASSUME TypeOK, SupInv, [Next]_vars PROVE TypeOK' /\ SupInv'
  <1> USE LimitType, TimeAssumption
  <1> USE DEF TypeOK, SupInv, GiveUpEarned
  <1>1. CASE Tick
    BY <1>1 DEF Tick, AtMost
  <1>2. CASE Cancel
    BY <1>2 DEF Cancel
  <1>3. CASE GracefulExit
    BY <1>3 DEF GracefulExit
  <1>4. CASE GiveUp
    BY <1>4, CountedType DEF GiveUp, NoteExit, AtMost, Counted
  <1>5. CASE Restart
    BY <1>5, CountedType, BackoffType DEF Restart, NoteExit, AtMost, Counted
  <1>6. CASE Wake
    BY <1>6 DEF Wake
  <1>7. CASE UNCHANGED vars
    BY <1>7 DEF vars
  <1> QED
    BY <1>1, <1>2, <1>3, <1>4, <1>5, <1>6, <1>7 DEF Next, RunReturns

(* Every variable keeps its type, and the supervision counters their       *)
(* bounds (TypeOK).                                                        *)
THEOREM TypeCorrect == Spec => [](TypeOK /\ SupInv)
  <1>1. TypeOK /\ SupInv /\ [Next]_vars => TypeOK' /\ SupInv'
    BY SupStep
  <1> QED
    BY <1>1, SupInit, PTL DEF Spec

(* No actor is stopped for good (GiveUpEarned) before it used up all its   *)
(* restarts since its last steady run, for every limit and every window.   *)
THEOREM GiveUpIsEarned == Spec => []GiveUpEarned
  <1>1. TypeOK /\ SupInv => GiveUpEarned
    BY DEF SupInv
  <1> QED
    BY <1>1, TypeCorrect, PTL

-----------------------------------------------------------------------------
(* The watchdog *)

(* Times and counts within their bounds.                                     *)
DogTypes ==
    /\ running \in [Watched -> 0 .. Idle]
    /\ dumped \in [Watched -> 0 .. Never]
    /\ reported \in [Watched -> BOOLEAN]
    /\ dumps \in [Watched -> 0 .. 2]
    /\ sinceScan \in 0 .. Interval + Late

(* A report is counted until its cooldown is over; with no cooldown at all,  *)
(* until the next moment.                                                    *)
DumpInv ==
    \A a \in Watched :
        \/ dumps[a] = 0
        \/ dumps[a] = 1 /\ (dumped[a] < Cooldown \/ sinceScan = 0)

(* A handler that was over the threshold at the last scan was reported then, *)
(* or was in the cooldown then.                                              *)
BlockInv ==
    \A a \in PlainActors :
        running[a] # Idle /\ running[a] >= Threshold + sinceScan =>
            reported[a] \/ dumped[a] < Cooldown + sinceScan

DogInv == DogTypes /\ DumpInv /\ BlockInv

-----------------------------------------------------------------------------
(* Local routes *)

(* Lists of actors without repetitions.                                      *)
Lists == {s \in Seq(Nat \ {None}) : \A i, j \in 1 .. Len(s) : s[i] = s[j] => i = j}

TableTypes ==
    /\ msgRouteTable \in [MsgIds -> Lists]
    /\ reg \in [Registrars -> [pc : {"idle", "loaded", "done"}, table : [MsgIds -> Lists]]]
    /\ overlapped \subseteq Registrars

(* Who works alone works on the current table, and what it registered is in  *)
(* every copy made since.                                                    *)
TableInv ==
    /\ \A r, q \in Registrars :
          r # q /\ reg[r].pc = "loaded" /\ reg[q].pc = "loaded" => r \in overlapped
    /\ \A r \in Registrars \ overlapped : reg[r].pc = "loaded" => reg[r].table = msgRouteTable
    /\ \A r \in Registrars \ overlapped : reg[r].pc = "done" =>
          \A m \in Requests[r].ids :
              /\ Has(msgRouteTable[m], Requests[r].actor)
              /\ \A q \in Registrars :
                    reg[q].pc = "loaded" => Has(reg[q].table[m], Requests[r].actor)

(* Choices that are not counted yet count as if they were.                   *)
Pending(a) == {f \in Finders : finder[f].pick = a}
PoolTypes ==
    /\ count \in [Pool -> Nat]
    /\ finder \in [Finders -> [pick : Pool \cup {None}, finds : Nat]]
PoolInv ==
    \A a, b \in Pool :
        count[a] + Cardinality(Pending(a)) <= count[b] + Cardinality(Finders)

RoutesInv == TableTypes /\ TableInv /\ PoolTypes /\ PoolInv

-----------------------------------------------------------------------------
(* The life of a group *)

Starting == {"register", "init", "server"}

LifeTypes ==
    /\ main \in {"engines", "actors", "unstarted", "rollback", "wait", "shutdown", "close",
                 "done", "failed"} \cup Starting
    /\ item \in Nat /\ (main # "engines" => item <= N)
    /\ added \subseteq Actors /\ inited \subseteq Actors
    /\ closedOrder \in Seq(Actors)
    /\ broken \in Actors \cup {Nobody}
    /\ engines \in [Engines -> {"none", "open", "closed"}]
StartedType == started \in BOOLEAN

(* Who is there: the actors made so far, in the order of the configuration;  *)
(* all of them from Group.Run on.                                            *)
AddedInv ==
    /\ main = "engines" => added = {}
    /\ main = "actors" => \A i \in 1 .. item : ActorOrder[i] \in added
    /\ main \notin {"engines", "actors", "unstarted"} => added = Actors

(* How far it got: an actor that is being started is one of the group, and   *)
(* broken is set by a failure before the workers are started, and never      *)
(* otherwise.                                                                *)
BrokenInv ==
    /\ main \in {"init", "server"} => item < N
    /\ main \in {"engines", "actors", "wait"} \cup Starting => broken = Nobody
    /\ main \in {"engines", "actors", "unstarted", "rollback"} \cup Starting => ~started
    /\ started => broken = Nobody
    /\ main \in {"rollback", "failed"} => broken # Nobody

(* The actors that were started before the k-th one was done, by their ids.  *)
Earlier(k) == {ById[i] : i \in 1 .. k}

RegisteredInv ==
    /\ main \in {"engines", "actors"} => registered = {}
    /\ main = "register" => registered \subseteq Earlier(item)
    /\ main \in {"init", "server"} => registered \subseteq Earlier(item + 1)
    /\ main = "rollback" => registered \subseteq Earlier(item) \cup {broken} \cup lost
    /\ main \in {"shutdown", "close", "failed"} /\ broken # Nobody => registered \subseteq lost

(* Nothing is closed before the rollback or the shutdown; a rollback has     *)
(* closed actors after the ones it still has to close, the last one first.   *)
Falling(s) == \A i, j \in 1 .. Len(s) : i < j => s[i] > s[j]
ClosedInv ==
    /\ main \in {"engines", "actors", "wait"} \cup Starting => closedOrder = <<>>
    /\ main = "rollback" =>
          /\ \A i \in 1 .. Len(closedOrder) : \E j \in item + 1 .. N : closedOrder[i] = ById[j]
          /\ Falling(closedOrder)
    /\ main = "shutdown" /\ broken # Nobody => RollBackReversed
    /\ main \in {"done", "failed"} => Actors \subseteq Closed

EnginesInv ==
    /\ main \notin {"done", "failed"} => \A k \in Engines : engines[k] # "closed"
    /\ main \in {"done", "failed"} => \A k \in Engines : engines[k] # "open"

LifeInv ==
    /\ LifeTypes /\ StartedType
    /\ AddedInv /\ BrokenInv /\ RegisteredInv /\ ClosedInv /\ EnginesInv

-----------------------------------------------------------------------------
(* Proofs: the watchdog *)

(* Nothing runs and nothing was reported at first.                           *)
LEMMA DogStart == DogInit => DogInv
  <1> SUFFICES ASSUME DogInit PROVE DogInv
    OBVIOUS
  <1> USE DogAssumption DEF DogInit
  <1>1. Idle \in Nat /\ Never \in Nat
    BY DEF Idle, Never
  <1>2. DogTypes
    <2>1. running \in [Watched -> 0 .. Idle]
      BY <1>1
    <2>2. dumped \in [Watched -> 0 .. Never]
      BY <1>1
    <2>3. reported \in [Watched -> BOOLEAN]
      BY Zenon
    <2>4. dumps \in [Watched -> 0 .. 2] /\ sinceScan \in 0 .. Interval + Late
      OBVIOUS
    <2> QED
      BY <2>1, <2>2, <2>3, <2>4 DEF DogTypes
  <1>3. DumpInv /\ BlockInv
    BY DEF DumpInv, BlockInv
  <1> QED
    BY <1>2, <1>3 DEF DogInv

(* The handler of one actor begins or ends.                                  *)
LEMMA HandlerDogInv ==
    ASSUME DogInv, NEW a \in Watched, StartHandler(a) \/ EndHandler(a) PROVE DogInv'
  <1> USE DogAssumption DEF DogInv
  <1>1. Idle \in Nat /\ Idle > 0
    BY DEF Idle
  <1>2. /\ UNCHANGED <<dumped, dumps, sinceScan>>
        /\ running' \in [Watched -> 0 .. Idle]
        /\ \A b \in Watched : running'[b] = running[b] \/ running'[b] \in {0, Idle}
    BY <1>1 DEF StartHandler, EndHandler, DogTypes
  <1>3. reported' \in [Watched -> BOOLEAN]
    <2>1. CASE StartHandler(a)
      BY <2>1, Zenon DEF StartHandler, DogTypes
    <2>2. CASE EndHandler(a)
      BY <2>2, Zenon DEF EndHandler, DogTypes
    <2> QED
      BY <2>1, <2>2
  <1>4. DogTypes' /\ DumpInv'
    BY <1>2, <1>3 DEF DogTypes, DumpInv
  <1>5. BlockInv'
    <2> SUFFICES ASSUME NEW b \in PlainActors, running'[b] # Idle,
                        running'[b] >= Threshold + sinceScan'
                 PROVE  reported'[b] \/ dumped'[b] < Cooldown + sinceScan'
      BY DEF BlockInv
    <2>1. b \in Watched /\ running'[b] = running[b]
      BY <1>2 DEF DogTypes
    <2>2. reported[b] \/ dumped[b] < Cooldown + sinceScan
      BY <1>2, <2>1 DEF BlockInv
    <2>3. reported'[b] = reported[b]
      <3>1. CASE StartHandler(a)
        <4>1. a # b
          BY <2>1, <3>1, <1>2 DEF StartHandler, DogTypes
        <4> QED
          BY <2>1, <3>1, <4>1, Zenon DEF StartHandler, DogTypes
      <3>2. CASE EndHandler(a)
        BY <3>2, Zenon DEF EndHandler
      <3> QED
        BY <3>1, <3>2
    <2> QED
      BY <1>2, <2>2, <2>3, Zenon
  <1> QED
    BY <1>4, <1>5

(* Time passes for handlers, reports and the watchdog alike.                 *)
LEMMA PassDogInv == ASSUME DogInv, Pass PROVE DogInv'
  <1> USE DogAssumption DEF DogInv
  <1>1. /\ Idle \in Nat /\ Never \in Nat /\ Longest \in Nat /\ Longest < Idle
        /\ Longest > Threshold + Interval + Late /\ Never > Cooldown + Interval + Late
    BY DEF Idle, Never, Longest
  <1>2. sinceScan' = sinceScan + 1 /\ sinceScan' \in 0 .. Interval + Late /\ UNCHANGED reported
    BY DEF Pass, DogTypes
  <1>3. ASSUME NEW a \in Watched
        PROVE  /\ running[a] \in 0 .. Idle /\ dumped[a] \in 0 .. Never /\ dumps[a] \in 0 .. 2
               /\ running'[a] = IF running[a] = Idle THEN Idle
                                ELSE IF running[a] + 1 < Longest THEN running[a] + 1 ELSE Longest
               /\ dumped'[a] = IF dumped[a] + 1 < Never THEN dumped[a] + 1 ELSE Never
               /\ dumps'[a] = IF dumped[a] + 1 >= Cooldown THEN 0 ELSE dumps[a]
    BY DEF Pass, DogTypes, Upto
  <1>4. DogTypes'
    <2>1. running' \in [Watched -> 0 .. Idle]
      BY <1>1, <1>3 DEF Pass
    <2>2. dumped' \in [Watched -> 0 .. Never]
      BY <1>1, <1>3 DEF Pass
    <2>3. dumps' \in [Watched -> 0 .. 2]
      BY <1>3 DEF Pass
    <2>4. reported' \in [Watched -> BOOLEAN]
      BY <1>2 DEF DogTypes
    <2> QED
      BY <1>2, <2>1, <2>2, <2>3, <2>4 DEF DogTypes
  <1>5. DumpInv'
    <2> SUFFICES ASSUME NEW a \in Watched
                 PROVE  dumps'[a] = 0 \/ (dumps'[a] = 1 /\ dumped'[a] < Cooldown)
      BY DEF DumpInv
    <2>1. dumps[a] = 0 \/ dumps[a] = 1
      BY DEF DumpInv
    <2> QED
      BY <1>1, <1>3, <2>1
  <1>6. BlockInv'
    <2> SUFFICES ASSUME NEW a \in PlainActors, running'[a] # Idle,
                        running'[a] >= Threshold + sinceScan'
                 PROVE  reported'[a] \/ dumped'[a] < Cooldown + sinceScan'
      BY DEF BlockInv
    <2>1. a \in Watched /\ sinceScan \in 0 .. Interval + Late
      BY DEF DogTypes
    <2>2. running[a] # Idle /\ running[a] >= Threshold + sinceScan
      BY <1>1, <1>2, <1>3, <2>1
    <2>3. reported[a] \/ dumped[a] < Cooldown + sinceScan
      BY <2>2 DEF BlockInv
    <2>4. ASSUME dumped[a] < Cooldown + sinceScan PROVE dumped'[a] < Cooldown + sinceScan'
      BY <1>1, <1>2, <1>3, <2>1, <2>4
    <2>5. reported'[a] = reported[a]
      BY <1>2
    <2> QED
      BY <2>3, <2>4, <2>5, Zenon
  <1> QED
    BY <1>4, <1>5, <1>6

(* A scan reports every blocked handler that is not in its cooldown.         *)
LEMMA ScanDogInv == ASSUME DogInv, Scan PROVE DogInv'
  <1> USE DogAssumption DEF DogInv
  <1> DEFINE found == {a \in Watched : IsActor(a) /\ Blocked(a) /\ ~Cooling(a)}
  <1>1. Idle \in Nat /\ Never \in Nat
    BY DEF Idle, Never
  <1>2. sinceScan >= Interval /\ sinceScan' = 0 /\ UNCHANGED running
    BY DEF Scan
  <1>3. /\ dumped' = [a \in Watched |-> IF a \in found THEN 0 ELSE dumped[a]]
        /\ reported' = [a \in Watched |-> a \in found \/ reported[a]]
        /\ dumps' = [a \in Watched |-> IF a \in found THEN Upto(dumps[a] + 1, 2) ELSE dumps[a]]
    BY DEF Scan
  <1>4. \A a \in found : dumps[a] = 0
    <2> SUFFICES ASSUME NEW a \in found PROVE dumps[a] = 0
      OBVIOUS
    <2>1. a \in Watched /\ ~(dumped[a] < Cooldown)
      BY DEF Cooling
    <2>2. sinceScan # 0
      BY <1>2 DEF DogTypes
    <2> QED
      BY <2>1, <2>2 DEF DumpInv
  <1>5. \A a \in PlainActors : Blocked(a) => a \in found \/ Cooling(a)
    BY DEF IsActor
  <1>6. found \subseteq Watched
    OBVIOUS
  <1> HIDE DEF found
  <1>7. DogTypes'
    <2>1. dumped' \in [Watched -> 0 .. Never]
      BY <1>1, <1>3 DEF DogTypes
    <2>2. dumps' \in [Watched -> 0 .. 2]
      BY <1>3, <1>4 DEF DogTypes, Upto
    <2>3. reported' \in [Watched -> BOOLEAN]
      BY <1>3, Zenon DEF DogTypes
    <2>4. sinceScan' \in 0 .. Interval + Late /\ running' \in [Watched -> 0 .. Idle]
      BY <1>2 DEF DogTypes
    <2> QED
      BY <2>1, <2>2, <2>3, <2>4 DEF DogTypes
  <1>8. DumpInv'
    <2> SUFFICES ASSUME NEW a \in Watched PROVE dumps'[a] = 0 \/ dumps'[a] = 1
      BY <1>2 DEF DumpInv
    <2>1. dumps[a] = 0 \/ dumps[a] = 1
      BY DEF DumpInv
    <2>2. dumps'[a] = IF a \in found THEN Upto(dumps[a] + 1, 2) ELSE dumps[a]
      BY <1>3
    <2> QED
      BY <1>4, <2>1, <2>2 DEF Upto
  <1>9. BlockInv'
    <2> SUFFICES ASSUME NEW a \in PlainActors, running[a] # Idle, running[a] >= Threshold
                 PROVE  reported'[a] \/ dumped'[a] < Cooldown
      BY <1>2 DEF BlockInv
    <2>1. a \in Watched /\ (a \in found \/ Cooling(a))
      BY <1>5 DEF Blocked
    <2>2. CASE a \in found
      BY <1>3, <2>1, <2>2, Zenon
    <2>3. CASE a \notin found
      <3>1. dumped'[a] = dumped[a]
        BY <1>3, <2>1, <2>3
      <3> QED
        BY <2>1, <2>3, <3>1 DEF Cooling
    <2> QED
      BY <2>2, <2>3
  <1> QED
    BY <1>7, <1>8, <1>9

(* Every step of the watchdog and of the handlers keeps the invariant.       *)
LEMMA DogStep == ASSUME DogInv, [DogNext]_dogVars PROVE DogInv'
  <1>1. CASE UNCHANGED dogVars
    BY <1>1 DEF dogVars, DogInv, DogTypes, DumpInv, BlockInv
  <1> QED
    BY <1>1, HandlerDogInv, PassDogInv, ScanDogInv DEF DogNext

(* The invariant says what the reports promise, at every moment between two  *)
(* scans.                                                                    *)
LEMMA DogMeans == DogInv => ReportsRight
  <1> SUFFICES ASSUME DogInv PROVE ReportsRight
    OBVIOUS
  <1> USE DogAssumption DEF DogInv, DogTypes
  <1>1. DumpsSpaced
    BY DEF DumpInv, DumpsSpaced
  <1>2. BlockedSeen
    <2> SUFFICES ASSUME NEW a \in PlainActors, LongBlocked(a)
                 PROVE  reported[a] \/ dumped[a] < Cooldown + Interval + Late
      BY DEF BlockedSeen
    <2>1. Idle \in Nat /\ Never \in Nat
      BY DEF Idle, Never
    <2>2. running[a] # Idle /\ running[a] >= Threshold + sinceScan
      BY <2>1 DEF LongBlocked
    <2>3. reported[a] \/ dumped[a] < Cooldown + sinceScan
      BY <2>2 DEF BlockInv
    <2>4. dumped[a] < Cooldown + sinceScan => dumped[a] < Cooldown + Interval + Late
      BY <2>1
    <2> QED
      BY <2>3, <2>4, Zenon
  <1> QED
    BY <1>1, <1>2 DEF ReportsRight

-----------------------------------------------------------------------------
(* Proofs: local routes *)

(* A list is a sequence of ids, each of them once.                           *)
LEMMA ListType ==
    ASSUME NEW s \in Lists
    PROVE  /\ s \in Seq(Nat \ {None}) /\ Len(s) \in Nat
           /\ \A i \in 1 .. Len(s) : s[i] \in Nat \ {None}
           /\ \A i, j \in 1 .. Len(s) : s[i] = s[j] => i = j
  BY LenProperties, ElementOfSeq DEF Lists

(* RegisterRoutes keeps what a list has, adds the actor, and adds it at the  *)
(* end.                                                                      *)
LEMMA ExtendedLists ==
    ASSUME NEW T \in [MsgIds -> Lists], NEW a \in Nat \ {None}, NEW ids \in SUBSET MsgIds
    PROVE  /\ Extended(T, a, ids) \in [MsgIds -> Lists]
           /\ \A m \in MsgIds : \A b : Has(T[m], b) => Has(Extended(T, a, ids)[m], b)
           /\ \A m \in ids : Has(Extended(T, a, ids)[m], a)
           /\ \A m \in MsgIds : T[m] # <<>> =>
                 Extended(T, a, ids)[m] # <<>> /\ Extended(T, a, ids)[m][1] = T[m][1]
  <1> DEFINE X == Extended(T, a, ids)
  <1>1. ASSUME NEW m \in MsgIds
        PROVE  /\ X[m] \in Lists
               /\ \A b : Has(T[m], b) => Has(X[m], b)
               /\ m \in ids => Has(X[m], a)
               /\ T[m] # <<>> => X[m] # <<>> /\ X[m][1] = T[m][1]
    <2>1. X[m] = IF m \in ids /\ ~Has(T[m], a) THEN Append(T[m], a) ELSE T[m]
      BY DEF Extended
    <2>2. T[m] \in Lists
      OBVIOUS
    <2>3. CASE m \in ids /\ ~Has(T[m], a)
      <3> DEFINE s == T[m]
                 t == Append(s, a)
      <3>1. /\ s \in Seq(Nat \ {None}) /\ Len(s) \in Nat
            /\ \A i \in 1 .. Len(s) : s[i] \in Nat \ {None}
            /\ \A i, j \in 1 .. Len(s) : s[i] = s[j] => i = j
        BY <2>2, ListType
      <3>2. /\ t \in Seq(Nat \ {None}) /\ Len(t) = Len(s) + 1
            /\ \A i \in 1 .. Len(s) : t[i] = s[i]
            /\ t[Len(s) + 1] = a
        BY <3>1, AppendProperties
      <3>3. \A i \in 1 .. Len(s) : s[i] # a
        BY <2>3 DEF Has
      <3>4. X[m] = t
        BY <2>1, <2>3
      <3>5. s # <<>> => 1 \in 1 .. Len(s) /\ t # <<>>
        BY <3>1, <3>2, EmptySeq
      <3> HIDE DEF X, s, t
      <3>6. t \in Lists
        <4>1. ASSUME NEW i \in 1 .. Len(t), NEW j \in 1 .. Len(t), t[i] = t[j]
              PROVE  i = j
          <5>1. CASE i \in 1 .. Len(s) /\ j \in 1 .. Len(s)
            BY <3>1, <3>2, <4>1, <5>1
          <5>2. CASE i = Len(s) + 1 /\ j \in 1 .. Len(s)
            BY <3>2, <3>3, <4>1, <5>2
          <5>3. CASE i \in 1 .. Len(s) /\ j = Len(s) + 1
            BY <3>2, <3>3, <4>1, <5>3
          <5> QED
            BY <3>1, <3>2, <5>1, <5>2, <5>3
        <4> QED
          BY <3>2, <4>1, Zenon DEF Lists
      <3>7. Has(t, a) /\ \A b : Has(s, b) => Has(t, b)
        <4>1. Len(s) + 1 \in 1 .. Len(t) /\ 1 .. Len(s) \subseteq 1 .. Len(t)
          BY <3>1, <3>2
        <4> QED
          BY <3>2, <4>1, Zenon DEF Has
      <3> QED
        BY <3>2, <3>4, <3>5, <3>6, <3>7 DEF s
    <2>4. CASE ~(m \in ids /\ ~Has(T[m], a))
      BY <2>1, <2>2, <2>4
    <2> QED
      BY <2>3, <2>4
  <1>2. X = [m \in MsgIds |-> X[m]]
    BY DEF Extended
  <1> HIDE DEF X
  <1>3. X \in [MsgIds -> Lists]
    BY <1>1, <1>2
  <1> QED
    BY <1>1, <1>3 DEF X

(* The tables are empty at first.                                            *)
LEMMA RoutesStart == RoutesInit => RoutesInv
  <1> SUFFICES ASSUME RoutesInit PROVE RoutesInv
    OBVIOUS
  <1> USE DEF RoutesInit
  <1>1. <<>> \in Lists
    BY EmptySeq DEF Lists
  <1>2. EmptyTable \in [MsgIds -> Lists]
    BY <1>1 DEF EmptyTable
  <1>3. TableTypes /\ TableInv
    BY <1>2 DEF TableTypes, TableInv
  <1>4. PoolTypes
    BY DEF PoolTypes
  <1>5. PoolInv
    <2> SUFFICES ASSUME NEW a \in Pool, NEW b \in Pool
                 PROVE  count[a] + Cardinality(Pending(a)) <= count[b] + Cardinality(Finders)
      BY DEF PoolInv
    <2>1. Pending(a) = {}
      BY FindersAssumption DEF Pending
    <2>2. Cardinality(Pending(a)) = 0 /\ Cardinality(Finders) \in Nat
      BY <2>1, FS_EmptySet, FS_CardinalityType, FindersAssumption
    <2> QED
      BY <2>2
  <1> QED
    BY <1>3, <1>4, <1>5 DEF RoutesInv

(* A registrar copies the table: whoever copied it before and has not stored *)
(* its copy overlaps with this one.                                          *)
LEMMA LoadTableInv ==
    ASSUME TableTypes, TableInv, NEW r \in Registrars, LoadTable(r)
    PROVE  TableTypes' /\ TableInv'
  <1> DEFINE others == {q \in Registrars \ {r} : reg[q].pc = "loaded"}
  <1>1. /\ UNCHANGED msgRouteTable
        /\ overlapped' = overlapped \cup (IF others = {} THEN {} ELSE others \cup {r})
        /\ reg' = [reg EXCEPT ![r] = [pc |-> "loaded", table |-> msgRouteTable]]
    BY DEF LoadTable
  <1>2. /\ reg'[r] = [pc |-> "loaded", table |-> msgRouteTable]
        /\ \A q \in Registrars \ {r} : reg'[q] = reg[q]
    BY <1>1 DEF TableTypes
  <1>3. reg'[r].pc = "loaded" /\ reg'[r].table = msgRouteTable
    BY <1>2
  <1>4. TableTypes'
    <2>1. [pc |-> "loaded", table |-> msgRouteTable]
             \in [pc : {"idle", "loaded", "done"}, table : [MsgIds -> Lists]]
      BY DEF TableTypes
    <2>2. overlapped' \subseteq Registrars
      BY <1>1 DEF TableTypes
    <2> QED
      BY <1>1, <2>1, <2>2 DEF TableTypes
  <1>5. overlapped \subseteq overlapped' /\ others \subseteq overlapped'
        /\ (others # {} => r \in overlapped')
    BY <1>1
  <1>6. ASSUME NEW p \in Registrars, NEW q \in Registrars, p # q,
               reg'[p].pc = "loaded", reg'[q].pc = "loaded"
        PROVE  p \in overlapped'
    <2>1. CASE p = r
      BY <1>2, <1>5, <1>6, <2>1
    <2>2. CASE q = r
      BY <1>2, <1>5, <1>6, <2>2
    <2>3. CASE p # r /\ q # r
      BY <1>2, <1>5, <1>6, <2>3 DEF TableInv
    <2> QED
      BY <2>1, <2>2, <2>3
  <1>7. ASSUME NEW p \in Registrars \ overlapped', reg'[p].pc = "loaded"
        PROVE  reg'[p].table = msgRouteTable'
    <2>1. CASE p = r
      BY <1>1, <1>3, <2>1
    <2>2. CASE p # r
      BY <1>1, <1>2, <1>5, <1>7, <2>2 DEF TableInv
    <2> QED
      BY <2>1, <2>2
  <1>8. ASSUME NEW p \in Registrars \ overlapped', reg'[p].pc = "done",
               NEW m \in Requests[p].ids
        PROVE  /\ Has(msgRouteTable'[m], Requests[p].actor)
               /\ \A q \in Registrars :
                     reg'[q].pc = "loaded" => Has(reg'[q].table[m], Requests[p].actor)
    <2>1. p # r /\ p \notin overlapped /\ reg[p].pc = "done"
      BY <1>2, <1>3, <1>5, <1>8
    <2>2. /\ Has(msgRouteTable[m], Requests[p].actor)
          /\ \A q \in Registrars :
                reg[q].pc = "loaded" => Has(reg[q].table[m], Requests[p].actor)
      BY <2>1 DEF TableInv
    <2> QED
      BY <1>1, <1>2, <1>3, <2>2
  <1>9. TableInv'
    BY <1>6, <1>7, <1>8 DEF TableInv
  <1> QED
    BY <1>4, <1>9

(* A registrar stores its copy: everything that was there stays when it was  *)
(* alone.                                                                    *)
LEMMA StoreTableInv ==
    ASSUME TableTypes, TableInv, NEW r \in Registrars, StoreTable(r)
    PROVE  TableTypes' /\ TableInv'
  <1> DEFINE T == reg[r].table
             a == Requests[r].actor
             ids == Requests[r].ids
  <1>1. /\ UNCHANGED overlapped /\ reg[r].pc = "loaded"
        /\ msgRouteTable' = Extended(T, a, ids)
        /\ reg' = [reg EXCEPT ![r] = [pc |-> "done", table |-> EmptyTable]]
    BY DEF StoreTable
  <1>2. /\ reg'[r].pc = "done"
        /\ \A q \in Registrars \ {r} : reg'[q] = reg[q]
    BY <1>1 DEF TableTypes
  <1>3. T \in [MsgIds -> Lists] /\ a \in Nat \ {None} /\ ids \in SUBSET MsgIds
    BY RegistrarsAssumption DEF TableTypes
  <1>4. /\ msgRouteTable' \in [MsgIds -> Lists]
        /\ \A m \in MsgIds : \A b : Has(T[m], b) => Has(msgRouteTable'[m], b)
        /\ \A m \in ids : Has(msgRouteTable'[m], a)
    <2> HIDE DEF T, a, ids
    <2> QED
      BY <1>1, <1>3, ExtendedLists
  <1>5. TableTypes'
    <2>1. <<>> \in Lists
      BY EmptySeq DEF Lists
    <2>2. [pc |-> "done", table |-> EmptyTable]
             \in [pc : {"idle", "loaded", "done"}, table : [MsgIds -> Lists]]
      BY <2>1 DEF EmptyTable
    <2>3. reg' \in [Registrars -> [pc : {"idle", "loaded", "done"}, table : [MsgIds -> Lists]]]
      BY <1>1, <2>2 DEF TableTypes
    <2> QED
      BY <1>1, <1>4, <2>3 DEF TableTypes
  <1>6. ASSUME NEW p \in Registrars, NEW q \in Registrars, p # q,
               reg'[p].pc = "loaded", reg'[q].pc = "loaded"
        PROVE  p \in overlapped'
    BY <1>1, <1>2, <1>6 DEF TableInv
  <1>7. ASSUME NEW p \in Registrars \ overlapped', reg'[p].pc = "loaded" PROVE FALSE
    <2>1. p # r /\ reg[p].pc = "loaded" /\ p \notin overlapped
      BY <1>1, <1>2, <1>7
    <2> QED
      BY <1>1, <2>1 DEF TableInv
  <1>8. ASSUME NEW p \in Registrars \ overlapped', reg'[p].pc = "done",
               NEW m \in Requests[p].ids
        PROVE  /\ Has(msgRouteTable'[m], Requests[p].actor)
               /\ \A q \in Registrars :
                     reg'[q].pc = "loaded" => Has(reg'[q].table[m], Requests[p].actor)
    <2>1. CASE p = r
      <3>1. Has(msgRouteTable'[m], Requests[p].actor)
        BY <1>4, <1>8, <2>1
      <3>2. ASSUME NEW q \in Registrars, reg'[q].pc = "loaded" PROVE FALSE
        <4>1. q # r /\ reg[q].pc = "loaded"
          BY <1>2, <3>2
        <4>2. r \in overlapped
          BY <1>1, <4>1 DEF TableInv
        <4> QED
          BY <1>1, <1>8, <2>1, <4>2
      <3> QED
        BY <3>1, <3>2
    <2>2. CASE p # r
      <3>1. p \in Registrars \ overlapped /\ reg[p].pc = "done" /\ m \in MsgIds
        BY <1>1, <1>2, <1>8, <2>2, RegistrarsAssumption
      <3>2. \A q \in Registrars :
               reg[q].pc = "loaded" => Has(reg[q].table[m], Requests[p].actor)
        BY <3>1 DEF TableInv
      <3>3. Has(msgRouteTable'[m], Requests[p].actor)
        BY <1>1, <1>4, <3>1, <3>2
      <3>4. ASSUME NEW q \in Registrars, reg'[q].pc = "loaded"
            PROVE  Has(reg'[q].table[m], Requests[p].actor)
        BY <1>2, <3>2, <3>4
      <3> QED
        BY <3>3, <3>4
    <2> QED
      BY <2>1, <2>2
  <1>9. TableInv'
    BY <1>6, <1>7, <1>8 DEF TableInv
  <1> QED
    BY <1>5, <1>9

(* The part of the routes that the registrars do not touch.                  *)
LEMMA TablesApart ==
    ASSUME TableTypes, TableInv, UNCHANGED <<msgRouteTable, reg, overlapped>>
    PROVE  TableTypes' /\ TableInv'
  BY DEF TableTypes, TableInv

(* The part of the routes that the finders do not touch.                     *)
LEMMA PoolApart ==
    ASSUME PoolTypes, PoolInv, UNCHANGED <<count, finder>>
    PROVE  PoolTypes' /\ PoolInv'
  BY DEF PoolTypes, PoolInv, Pending

(* How many finders have chosen an actor: no more than there are.            *)
LEMMA PendingType ==
    ASSUME NEW a
    PROVE  /\ IsFiniteSet(Pending(a)) /\ Cardinality(Pending(a)) \in Nat
           /\ Cardinality(Finders) \in Nat /\ Cardinality(Pending(a)) <= Cardinality(Finders)
  BY FindersAssumption, FS_Subset, FS_CardinalityType DEF Pending

(* A finder chooses one of the actors chosen least, ...                      *)
LEMMA SortPoolInv ==
    ASSUME PoolTypes, PoolInv, NEW f \in Finders, SortPool(f) PROVE PoolTypes' /\ PoolInv'
  <1>1. UNCHANGED count /\ finder[f].pick = None
    BY DEF SortPool
  <1>2. PICK a \in Pool : Least(a) /\ finder' = [finder EXCEPT ![f].pick = a]
    BY DEF SortPool
  <1>3. /\ finder'[f].pick = a /\ finder'[f].finds = finder[f].finds
        /\ \A g \in Finders \ {f} : finder'[g] = finder[g]
        /\ finder' \in [Finders -> [pick : Pool \cup {None}, finds : Nat]]
    BY <1>2 DEF PoolTypes
  <1>4. PoolTypes'
    BY <1>1, <1>3 DEF PoolTypes
  <1>5. PoolInv'
    <2> SUFFICES ASSUME NEW b \in Pool, NEW c \in Pool
                 PROVE  count[b] + Cardinality(Pending(b)') <= count[c] + Cardinality(Finders)
      BY <1>1 DEF PoolInv
    <2>1. count[b] \in Nat /\ count[c] \in Nat
      BY DEF PoolTypes
    <2>2. CASE b = a
      <3>1. count[b] <= count[c]
        BY <1>2, <2>2 DEF Least
      <3>2. Pending(b)' \subseteq Finders
        BY DEF Pending
      <3>3. /\ Cardinality(Pending(b)') \in Nat /\ Cardinality(Finders) \in Nat
            /\ Cardinality(Pending(b)') <= Cardinality(Finders)
        BY <3>2, FindersAssumption, FS_Subset, FS_CardinalityType
      <3> QED
        BY <2>1, <3>1, <3>3
    <2>3. CASE b # a
      <3>1. Pending(b)' = Pending(b)
        BY <1>1, <1>3, <2>3, FindersAssumption DEF Pending
      <3> QED
        BY <3>1 DEF PoolInv
    <2> QED
      BY <2>2, <2>3
  <1> QED
    BY <1>4, <1>5

(* ... and counts its choice.                                                *)
LEMMA CountPickInv ==
    ASSUME PoolTypes, PoolInv, NEW f \in Finders, CountPick(f) PROVE PoolTypes' /\ PoolInv'
  <1> DEFINE a == finder[f].pick
  <1>1. a \in Pool
    BY DEF CountPick, PoolTypes
  <1>2. /\ count' = [count EXCEPT ![a] = @ + 1]
        /\ finder' = [finder EXCEPT ![f] = [pick |-> None, finds |-> @.finds + 1]]
    BY DEF CountPick
  <1>3. /\ finder'[f] = [pick |-> None, finds |-> finder[f].finds + 1]
        /\ \A g \in Finders \ {f} : finder'[g] = finder[g]
        /\ finder' \in [Finders -> [pick : Pool \cup {None}, finds : Nat]]
    BY <1>2 DEF PoolTypes
  <1>4. /\ count' \in [Pool -> Nat] /\ count'[a] = count[a] + 1
        /\ \A b \in Pool \ {a} : count'[b] = count[b]
    BY <1>1, <1>2 DEF PoolTypes
  <1>5. \A b \in Pool : count[b] \in Nat /\ count'[b] \in Nat /\ count[b] <= count'[b]
    BY <1>1, <1>4 DEF PoolTypes
  <1>6. finder'[f].pick = None
    BY <1>3
  <1>7. PoolInv'
    <2> SUFFICES ASSUME NEW b \in Pool, NEW c \in Pool
                 PROVE  count'[b] + Cardinality(Pending(b)') <= count'[c] + Cardinality(Finders)
      BY DEF PoolInv
    <2>1. count[b] + Cardinality(Pending(b)) <= count[c] + Cardinality(Finders)
      BY DEF PoolInv
    <2>2. /\ IsFiniteSet(Pending(b)) /\ Cardinality(Pending(b)) \in Nat
          /\ Cardinality(Finders) \in Nat
      BY PendingType
    <2>3. CASE b = a
      <3>1. Pending(b)' = Pending(b) \ {f} /\ f \in Pending(b)
        BY <1>1, <1>3, <1>6, <2>3, FindersAssumption DEF Pending
      <3>2. Cardinality(Pending(b)') = Cardinality(Pending(b)) - 1
        BY <2>2, <3>1, FS_RemoveElement
      <3> HIDE DEF a
      <3> QED
        BY <1>4, <1>5, <2>1, <2>2, <2>3, <3>2
    <2>4. CASE b # a
      <3>1. Pending(b)' = Pending(b)
        BY <1>3, <1>6, <2>4, FindersAssumption DEF Pending
      <3>2. count'[b] = count[b]
        BY <1>4, <2>4
      <3> QED
        BY <1>5, <2>1, <2>2, <3>1, <3>2
    <2> QED
      BY <2>3, <2>4
  <1> QED
    BY <1>3, <1>4, <1>7 DEF PoolTypes

(* Every step of registrars and finders keeps the invariant.                 *)
LEMMA RoutesStep == ASSUME RoutesInv, [RoutesNext]_routeVars PROVE RoutesInv'
  <1> USE DEF RoutesInv
  <1>1. ASSUME NEW r \in Registrars, LoadTable(r) PROVE RoutesInv'
    BY <1>1, LoadTableInv, PoolApart DEF LoadTable
  <1>2. ASSUME NEW r \in Registrars, StoreTable(r) PROVE RoutesInv'
    BY <1>2, StoreTableInv, PoolApart DEF StoreTable
  <1>3. ASSUME NEW f \in Finders, SortPool(f) PROVE RoutesInv'
    BY <1>3, SortPoolInv, TablesApart DEF SortPool
  <1>4. ASSUME NEW f \in Finders, CountPick(f) PROVE RoutesInv'
    BY <1>4, CountPickInv, TablesApart DEF CountPick
  <1>5. CASE UNCHANGED routeVars
    BY <1>5, TablesApart, PoolApart DEF routeVars
  <1> HIDE DEF RoutesInv
  <1> QED
    BY <1>1, <1>2, <1>3, <1>4, <1>5 DEF RoutesNext

(* The invariant says that registrations stay and that the pool is balanced. *)
LEMMA RoutesMeans == RoutesInv => RoutesKept /\ PoolBalanced
  <1> SUFFICES ASSUME RoutesInv PROVE RoutesKept /\ PoolBalanced
    OBVIOUS
  <1> USE DEF RoutesInv
  <1>1. RoutesKept
    <2> SUFFICES ASSUME NEW r \in Registrars, reg[r].pc = "done", r \notin overlapped,
                        NEW m \in Requests[r].ids
                 PROVE  Cardinality({i \in 1 .. Len(msgRouteTable[m]) :
                                        msgRouteTable[m][i] = Requests[r].actor}) = 1
      BY DEF RoutesKept
    <2> DEFINE s == msgRouteTable[m]
               a == Requests[r].actor
    <2>1. m \in MsgIds /\ Has(s, a)
      BY RegistrarsAssumption DEF TableInv
    <2>2. s \in Lists
      BY <2>1 DEF TableTypes
    <2>3. PICK i \in 1 .. Len(s) : s[i] = a
      BY <2>1 DEF Has
    <2>4. \A j \in 1 .. Len(s) : s[j] = a => j = i
      BY <2>2, <2>3, ListType
    <2>5. {j \in 1 .. Len(s) : s[j] = a} = {i}
      BY <2>3, <2>4
    <2> QED
      BY <2>5, FS_Singleton
  <1>2. PoolBalanced
    <2> SUFFICES ASSUME NEW a \in Pool, NEW b \in Pool
                 PROVE  count[a] <= count[b] + Cardinality(Finders)
      BY DEF PoolBalanced
    <2> QED
      BY PendingType DEF PoolInv, PoolTypes
  <1> QED
    BY <1>1, <1>2

(* A step of the routes leaves the first actor of every list alone, as long  *)
(* as no two registrations overlapped.                                       *)
LEMMA StickyStep ==
    ASSUME RoutesInv, [RoutesNext]_routeVars, NEW m \in MsgIds, overlapped' = {},
           RouteLocal(m) # None
    PROVE  RouteLocal(m)' = RouteLocal(m)
  <1> USE DEF RoutesInv
  <1>1. msgRouteTable[m] # <<>>
    BY DEF RouteLocal, LookupActorsByMsgID
  <1>2. CASE UNCHANGED msgRouteTable
    BY <1>2 DEF RouteLocal, LookupActorsByMsgID
  <1>3. ASSUME NEW r \in Registrars, StoreTable(r) PROVE RouteLocal(m)' = RouteLocal(m)
    <2>1. /\ reg[r].pc = "loaded" /\ overlapped = {}
          /\ msgRouteTable' = Extended(reg[r].table, Requests[r].actor, Requests[r].ids)
      BY <1>3 DEF StoreTable
    <2>2. reg[r].table = msgRouteTable
      BY <2>1 DEF TableInv
    <2>3. msgRouteTable' = Extended(msgRouteTable, Requests[r].actor, Requests[r].ids)
      BY <2>1, <2>2
    <2>4. /\ msgRouteTable \in [MsgIds -> Lists]
          /\ Requests[r].actor \in Nat \ {None} /\ Requests[r].ids \in SUBSET MsgIds
      BY RegistrarsAssumption DEF TableTypes
    <2>5. msgRouteTable'[m] # <<>> /\ msgRouteTable'[m][1] = msgRouteTable[m][1]
      BY <1>1, <2>3, <2>4, ExtendedLists
    <2> QED
      BY <1>1, <2>5 DEF RouteLocal, LookupActorsByMsgID
  <1> QED
    BY <1>2, <1>3 DEF RoutesNext, routeVars, LoadTable, SortPool, CountPick

-----------------------------------------------------------------------------
(* Proofs: the life of a group *)

(* A set of numbers has a least one.                                         *)
LEMMA LeastNumber ==
    ASSUME NEW T \in SUBSET Nat, T # {}
    PROVE  \E x \in T : \A y \in T : x <= y
  <1> DEFINE R == {ss \in Nat \X Nat : ss[1] < ss[2]}
  <1>1. IsWellFoundedOn(R, Nat)
    BY NatLessThanWellFounded, Zenon DEF OpToRel
  <1>2. PICK x \in T : \A y \in T : ~(<<y, x>> \in R)
    <2> HIDE DEF R
    <2> QED
      BY <1>1, WFMin, Zenon
  <1>3. ASSUME NEW y \in T, ~(x <= y) PROVE FALSE
    <2>1. <<y, x>> \in Nat \X Nat /\ y < x
      BY <1>3
    <2>2. <<y, x>> \in R
      BY <2>1
    <2> QED
      BY <1>2, <2>2
  <1> QED
    BY <1>3

(* A finite set of numbers in increasing order.                              *)
Rising(s, n) == \A i, j \in 1 .. n : i < j => s[i] < s[j]
Sortable(T, n) == \E s \in [1 .. n -> T] : Rising(s, n)

(* One more number, below all others, goes to the front.                     *)
LEMMA SortOneMore ==
    ASSUME NEW T \in SUBSET Nat, NEW m \in T, \A y \in T : m <= y,
           NEW n \in Nat, Sortable(T \ {m}, n)
    PROVE  Sortable(T, n + 1)
  <1>1. PICK s \in [1 .. n -> T \ {m}] : Rising(s, n)
    BY DEF Sortable
  <1> DEFINE t == [i \in 1 .. n + 1 |-> IF i = 1 THEN m ELSE s[i - 1]]
  <1>2. \A i \in 1 .. n : s[i] \in T \ {m} /\ s[i] \in Nat
    BY <1>1
  <1>3. t \in [1 .. n + 1 -> T]
    BY <1>2
  <1>4. ASSUME NEW i \in 1 .. n + 1, NEW j \in 1 .. n + 1, i < j PROVE t[i] < t[j]
    <2>1. j # 1 /\ j - 1 \in 1 .. n /\ t[j] = s[j - 1]
      BY <1>4
    <2>2. CASE i = 1
      <3>1. s[j - 1] \in T \ {m} /\ t[i] = m
        BY <1>2, <2>1, <2>2
      <3>2. m <= s[j - 1] /\ m # s[j - 1] /\ m \in Nat /\ s[j - 1] \in Nat
        BY <3>1
      <3> HIDE DEF t
      <3> QED
        BY <2>1, <3>1, <3>2
    <2>3. CASE i # 1
      <3>1. i - 1 \in 1 .. n /\ t[i] = s[i - 1] /\ i - 1 < j - 1
        BY <1>4, <2>3
      <3> QED
        BY <1>1, <2>1, <3>1 DEF Rising
    <2> QED
      BY <2>2, <2>3
  <1> HIDE DEF t
  <1> QED
    BY <1>3, <1>4 DEF Sortable, Rising

(* Every finite set of numbers can be put in increasing order; otherwise     *)
(* there would be a smallest size for which it fails.                        *)
LEMMA EverySetSorts ==
    ASSUME NEW T \in SUBSET Nat, IsFiniteSet(T)
    PROVE  Sortable(T, Cardinality(T))
  <1> DEFINE Bad(S) == S \in SUBSET Nat /\ IsFiniteSet(S) /\ ~Sortable(S, Cardinality(S))
             Sizes == {n \in Nat : \E S \in SUBSET Nat : Bad(S) /\ Cardinality(S) = n}
  <1>1. SUFFICES ASSUME Sizes # {} PROVE FALSE
    <2>1. Cardinality(T) \in Nat
      BY FS_CardinalityType
    <2> QED
      BY <2>1
  <1>2. PICK n \in Sizes : \A k \in Sizes : n <= k
    <2>1. Sizes \in SUBSET Nat
      OBVIOUS
    <2> HIDE DEF Sizes
    <2> QED
      BY <1>1, <2>1, LeastNumber
  <1>3. PICK S \in SUBSET Nat : Bad(S) /\ Cardinality(S) = n
    BY <1>2
  <1>4. n \in Nat
    BY <1>2
  <1>5. CASE n = 0
    <2>1. S = {}
      BY <1>3, <1>5, FS_EmptySet
    <2> DEFINE e == [i \in 1 .. 0 |-> 0]
    <2>2. e \in [1 .. 0 -> S] /\ Rising(e, 0)
      BY DEF Rising
    <2>3. Sortable(S, 0)
      BY <2>2, Zenon DEF Sortable
    <2> QED
      BY <1>3, <1>5, <2>3
  <1>6. CASE n # 0
    <2>1. S # {}
      BY <1>3, <1>6, FS_EmptySet
    <2>2. PICK m \in S : \A y \in S : m <= y
      BY <2>1, LeastNumber
    <2> DEFINE S2 == S \ {m}
    <2>3. IsFiniteSet(S2) /\ Cardinality(S2) = n - 1 /\ S2 \in SUBSET Nat /\ n - 1 \in Nat
      BY <1>3, <1>4, <1>6, <2>2, FS_RemoveElement
    <2>4. n - 1 \notin Sizes
      <3> HIDE DEF Sizes
      <3> QED
        BY <1>2, <1>4
    <2>5. Sortable(S2, n - 1)
      BY <2>3, <2>4
    <2>6. Sortable(S, (n - 1) + 1) /\ (n - 1) + 1 = n
      BY <1>4, <2>2, <2>3, <2>5, SortOneMore
    <2> QED
      BY <1>3, <2>6
  <1> QED
    BY <1>5, <1>6

(* The ids in order: what the loop of Group.Run goes through.                *)
LEMMA IdsInOrder ==
    /\ N \in Nat /\ Actors \subseteq Nat \ {Nobody}
    /\ ById \in [1 .. N -> Actors]
    /\ \A i, j \in 1 .. N : i < j => ById[i] < ById[j]
  <1>1. N \in Nat
    BY OrderAssumption, LenProperties DEF N
  <1>2. Actors \subseteq Nat /\ N = Cardinality(Actors)
    BY OrderAssumption
  <1>3. IsFiniteSet(Actors)
    <2> DEFINE f == [i \in 1 .. N |-> ActorOrder[i]]
    <2>1. IsFiniteSet(1 .. N)
      BY <1>1, FS_Interval
    <2>2. f \in Surjection(1 .. N, Actors)
      BY OrderAssumption, Zenon DEF Surjection
    <2> QED
      BY <2>1, <2>2, FS_Surjection
  <1>4. \E s \in [1 .. N -> Actors] : \A i, j \in 1 .. N : i < j => s[i] < s[j]
    BY <1>2, <1>3, EverySetSorts DEF Sortable, Rising
  <1> QED
    BY <1>1, <1>4, OrderAssumption DEF ById

(* App.Run begins with nothing.                                              *)
LEMMA LifeStart == LifeInit => LifeInv
  <1> SUFFICES ASSUME LifeInit PROVE LifeInv
    OBVIOUS
  <1> USE DEF LifeInit
  <1>1. started \in BOOLEAN /\ ~started
    BY Zenon
  <1>2. LifeTypes /\ StartedType
    BY <1>1, EmptySeq DEF LifeTypes, StartedType, Starting
  <1>3. AddedInv /\ BrokenInv /\ RegisteredInv /\ ClosedInv /\ EnginesInv
    BY <1>1 DEF AddedInv, BrokenInv, RegisteredInv, ClosedInv, EnginesInv, Starting
  <1> QED
    BY <1>2, <1>3 DEF LifeInv

(* The engines and the actors are made.                                      *)
LEMMA BuildStep ==
    ASSUME LifeInv, NewEngine \/ EnginesDone \/ AddActor \/ FactoryFails \/ BeginRun
    PROVE  LifeInv'
  <1> USE DEF LifeInv
  <1>1. N \in Nat /\ Actors \subseteq Nat \ {Nobody} /\ item \in Nat
    BY IdsInOrder DEF LifeTypes
  <1>2. ActorOrder \in Seq(Actors) /\ \A i \in 1 .. N : ActorOrder[i] \in Actors
    BY OrderAssumption, ElementOfSeq DEF N
  <1>3. UNCHANGED started
    BY DEF NewEngine, EnginesDone, AddActor, FactoryFails, BeginRun
  <1>4. StartedType'
    BY <1>3 DEF StartedType
  <1>5. CASE NewEngine
    <2>1. LifeTypes'
      <3>1. engines' \in [Engines -> {"none", "open", "closed"}]
        BY <1>5 DEF NewEngine, LifeTypes
      <3>2. item' \in Nat /\ main' = "engines"
        BY <1>1, <1>5 DEF NewEngine
      <3> QED
        BY <1>5, <3>1, <3>2 DEF NewEngine, LifeTypes
    <2>2. AddedInv' /\ BrokenInv' /\ RegisteredInv' /\ ClosedInv'
      BY <1>5 DEF NewEngine, AddedInv, BrokenInv, RegisteredInv, ClosedInv, Starting
    <2>3. EnginesInv'
      BY <1>5 DEF NewEngine, EnginesInv, LifeTypes
    <2> QED
      BY <1>4, <2>1, <2>2, <2>3
  <1>6. CASE EnginesDone
    <2>1. LifeTypes'
      BY <1>1, <1>6 DEF EnginesDone, LifeTypes
    <2>2. AddedInv' /\ BrokenInv' /\ RegisteredInv' /\ ClosedInv' /\ EnginesInv'
      BY <1>6 DEF EnginesDone, AddedInv, BrokenInv, RegisteredInv, ClosedInv, EnginesInv, Starting
    <2> QED
      BY <1>4, <2>1, <2>2
  <1>7. CASE AddActor
    <2>1. item + 1 \in 1 .. N /\ main = "actors"
      BY <1>1, <1>7 DEF AddActor
    <2>2. LifeTypes'
      <3>1. item' \in Nat /\ item' <= N /\ main' = main
        BY <1>1, <1>7, <2>1 DEF AddActor
      <3>2. added' \subseteq Actors
        BY <1>2, <1>7, <2>1 DEF AddActor, LifeTypes
      <3> QED
        BY <1>7, <3>1, <3>2 DEF AddActor, LifeTypes
    <2>3. AddedInv'
      <3>1. \A i \in 1 .. item + 1 : i \in 1 .. item \/ i = item + 1
        BY <1>1
      <3> QED
        BY <1>7, <2>1, <3>1 DEF AddActor, AddedInv
    <2>4. BrokenInv' /\ RegisteredInv' /\ ClosedInv' /\ EnginesInv'
      BY <1>7, <2>1 DEF AddActor, BrokenInv, RegisteredInv, ClosedInv, EnginesInv, Starting
    <2> QED
      BY <1>4, <2>2, <2>3, <2>4
  <1>8. CASE FactoryFails
    <2>1. LifeTypes'
      BY <1>8 DEF FactoryFails, LifeTypes
    <2>2. AddedInv' /\ BrokenInv' /\ RegisteredInv' /\ ClosedInv' /\ EnginesInv'
      BY <1>8 DEF FactoryFails, AddedInv, BrokenInv, RegisteredInv, ClosedInv, EnginesInv, Starting
    <2> QED
      BY <1>4, <2>1, <2>2
  <1>9. CASE BeginRun
    <2>1. LifeTypes'
      BY <1>1, <1>9 DEF BeginRun, LifeTypes, Starting
    <2>2. AddedInv'
      BY <1>9, OrderAssumption DEF BeginRun, AddedInv, LifeTypes
    <2>3. BrokenInv' /\ RegisteredInv' /\ ClosedInv' /\ EnginesInv'
      BY <1>9 DEF BeginRun, BrokenInv, RegisteredInv, ClosedInv, EnginesInv, Starting
    <2> QED
      BY <1>4, <2>1, <2>2, <2>3
  <1> QED
    BY <1>5, <1>6, <1>7, <1>8, <1>9

(* Actors are registered, initialised and started, one after the other.      *)
LEMMA StartStep ==
    ASSUME LifeInv, \/ registerActor \/ InitActor \/ InitFails
                    \/ RunServer \/ ServerFails
    PROVE  LifeInv'
  <1> USE DEF LifeInv
  <1>1. /\ N \in Nat /\ Actors \subseteq Nat \ {Nobody} /\ item \in Nat
        /\ \A i \in 1 .. N : ById[i] \in Actors
    BY IdsInOrder DEF LifeTypes
  <1>2. UNCHANGED <<started, closedOrder, added, lost, engines>> /\ main \in Starting
    BY DEF registerActor, InitActor, InitFails, RunServer, ServerFails, Starting
  <1>3. StartedType'
    BY <1>2 DEF StartedType
  <1>4. item < N
    BY DEF registerActor, InitActor, InitFails, RunServer, ServerFails, BrokenInv
  <1>5. item + 1 \in 1 .. N /\ Current \in Actors
    BY <1>1, <1>4 DEF Current
  <1>6. Earlier(item) \subseteq Earlier(item + 1) /\ Current \in Earlier(item + 1)
    BY <1>1, <1>5 DEF Earlier, Current
  <1>7. Earlier(item + 1) \subseteq Earlier(item) \cup {Current}
    BY <1>1 DEF Earlier, Current
  <1>8. main' \in Starting \cup {"rollback"}
    BY DEF registerActor, InitActor, InitFails, RunServer, ServerFails, Starting
  <1>9. LifeTypes'
    <2>1. added' \subseteq Actors /\ closedOrder' \in Seq(Actors)
          /\ engines' \in [Engines -> {"none", "open", "closed"}]
      BY <1>2 DEF LifeTypes
    <2>2. item' \in Nat /\ item' <= N
      BY <1>1, <1>4 DEF registerActor, InitActor, InitFails, RunServer, ServerFails
    <2>3. inited' \subseteq Actors /\ broken' \in Actors \cup {Nobody}
      BY <1>5 DEF registerActor, InitActor, InitFails, RunServer, ServerFails, LifeTypes
    <2> QED
      BY <1>8, <2>1, <2>2, <2>3 DEF LifeTypes
  <1>10. AddedInv' /\ EnginesInv'
    BY <1>2, <1>8 DEF AddedInv, EnginesInv, Starting
  <1>11. ClosedInv'
    <2>1. closedOrder = <<>>
      BY <1>2 DEF ClosedInv
    <2>2. Len(closedOrder') = 0 /\ closedOrder' = <<>>
      BY <1>2, <2>1, EmptySeq
    <2> QED
      BY <1>8, <2>2 DEF ClosedInv, Falling, Starting
  <1>12. BrokenInv'
    <2>1. CASE InitFails \/ ServerFails
      BY <1>1, <1>2, <1>5, <2>1 DEF InitFails, ServerFails, BrokenInv, Starting
    <2>2. CASE registerActor \/ InitActor \/ RunServer
      BY <1>2, <1>4, <2>2 DEF registerActor, InitActor, RunServer, BrokenInv, Starting
    <2> QED
      BY <2>1, <2>2
  <1>13. RegisteredInv'
    <2> HIDE DEF Earlier, Current
    <2>1. CASE InitFails \/ ServerFails
      BY <1>7, <2>1 DEF InitFails, ServerFails, RegisteredInv
    <2>2. CASE registerActor
      BY <1>6, <2>2 DEF registerActor, RegisteredInv
    <2>3. CASE InitActor \/ RunServer
      BY <2>3 DEF InitActor, RunServer, RegisteredInv
    <2> QED
      BY <2>1, <2>2, <2>3
  <1> QED
    BY <1>3, <1>9, <1>10, <1>11, <1>12, <1>13

(* Closing an actor: it is in the list, which keeps what it had.             *)
LEMMA CloseEffect ==
    ASSUME closedOrder \in Seq(Actors), NEW a \in Actors, CloseActor(a)
    PROVE  /\ closedOrder' \in Seq(Actors) /\ Len(closedOrder) \in Nat
           /\ Closed' = Closed \cup {a}
           /\ \/ a \in Closed /\ closedOrder' = closedOrder
              \/ /\ Len(closedOrder') = Len(closedOrder) + 1
                 /\ closedOrder'[Len(closedOrder) + 1] = a
                 /\ \A i \in 1 .. Len(closedOrder) : closedOrder'[i] = closedOrder[i]
  <1>1. Len(closedOrder) \in Nat
    BY LenProperties
  <1>2. CASE a \in Closed
    <2>1. closedOrder' = closedOrder
      BY <1>2 DEF CloseActor
    <2>2. Closed' = Closed
      BY <2>1 DEF Closed
    <2> QED
      BY <1>1, <1>2, <2>1, <2>2
  <1>3. CASE a \notin Closed
    <2>1. closedOrder' = Append(closedOrder, a)
      BY <1>3 DEF CloseActor
    <2>2. /\ closedOrder' \in Seq(Actors) /\ Len(closedOrder') = Len(closedOrder) + 1
          /\ closedOrder'[Len(closedOrder) + 1] = a
          /\ \A i \in 1 .. Len(closedOrder) : closedOrder'[i] = closedOrder[i]
      BY <2>1, AppendProperties
    <2>3. \A i \in 1 .. Len(closedOrder) + 1 :
             i \in 1 .. Len(closedOrder) \/ i = Len(closedOrder) + 1
      BY <1>1
    <2>4. Closed' = Closed \cup {a}
      <3>1. ASSUME NEW x \in Closed' PROVE x \in Closed \cup {a}
        BY <2>2, <2>3, <3>1 DEF Closed
      <3>2. ASSUME NEW x \in Closed \cup {a} PROVE x \in Closed'
        <4>1. 1 .. Len(closedOrder) \subseteq 1 .. Len(closedOrder')
              /\ Len(closedOrder) + 1 \in 1 .. Len(closedOrder')
          BY <1>1, <2>2
        <4>2. CASE x = a
          BY <2>2, <4>1, <4>2, Zenon DEF Closed
        <4>3. CASE x \in Closed
          <5>1. PICK i \in 1 .. Len(closedOrder) : x = closedOrder[i]
            BY <4>3 DEF Closed
          <5>2. i \in 1 .. Len(closedOrder') /\ x = closedOrder'[i]
            BY <2>2, <4>1, <5>1
          <5> QED
            BY <5>2 DEF Closed
        <4> QED
          BY <4>2, <4>3
      <3> QED
        BY <3>1, <3>2
    <2> QED
      BY <1>1, <2>2, <2>4
  <1> QED
    BY <1>2, <1>3

(* One actor that was started is undone: it comes before all that were       *)
(* closed so far.                                                            *)
LEMMA RollBackStep == ASSUME LifeInv, RollBack PROVE LifeInv'
  <1> USE DEF LifeInv
  <1> DEFINE a == ById[item]
  <1>1. /\ main = "rollback" /\ main' = "rollback" /\ item > 0 /\ item' = item - 1
        /\ UNCHANGED <<added, inited, broken, engines, started>>
        /\ CloseActor(a) /\ unregisterActor(a)
    BY DEF RollBack
  <1>2. /\ N \in Nat /\ Actors \subseteq Nat \ {Nobody} /\ item \in 1 .. N /\ item \in Nat
        /\ item' \in Nat /\ item' <= N
        /\ \A i \in 1 .. N : ById[i] \in Actors /\ ById[i] \in Nat
        /\ \A i, j \in 1 .. N : i < j => ById[i] < ById[j]
    <2>1. item \in Nat /\ item <= N
      BY <1>1 DEF LifeTypes
    <2>2. N \in Nat /\ item \in 1 .. N /\ item' \in Nat /\ item' <= N
      BY <1>1, <2>1, IdsInOrder
    <2> QED
      BY <2>1, <2>2, IdsInOrder
  <1>3. /\ closedOrder' \in Seq(Actors) /\ Len(closedOrder) \in Nat
        /\ \/ closedOrder' = closedOrder
           \/ /\ Len(closedOrder') = Len(closedOrder) + 1
              /\ closedOrder'[Len(closedOrder) + 1] = a
              /\ \A i \in 1 .. Len(closedOrder) : closedOrder'[i] = closedOrder[i]
    BY <1>1, <1>2, CloseEffect DEF LifeTypes
  <1>4. LifeTypes' /\ StartedType' /\ AddedInv' /\ BrokenInv' /\ EnginesInv'
    <2>1. LifeTypes'
      BY <1>1, <1>2, <1>3 DEF LifeTypes
    <2>2. StartedType'
      BY <1>1 DEF StartedType
    <2>3. AddedInv' /\ EnginesInv'
      BY <1>1 DEF AddedInv, EnginesInv
    <2>4. BrokenInv'
      BY <1>1 DEF BrokenInv, Starting
    <2> QED
      BY <2>1, <2>2, <2>3, <2>4
  <1>5. RegisteredInv'
    <2>1. Earlier(item) \subseteq Earlier(item') \cup {a}
      <3>1. \A i \in 1 .. item : i \in 1 .. item' \/ i = item
        BY <1>1, <1>2
      <3> QED
        BY <3>1 DEF Earlier
    <2>2. registered \subseteq Earlier(item) \cup {broken} \cup lost
      BY <1>1 DEF RegisteredInv
    <2>3. \/ registered' = registered \ {a} /\ lost' = lost
          \/ registered' = registered /\ lost' = lost \cup {a}
      BY <1>1 DEF unregisterActor
    <2>4. registered' \subseteq Earlier(item') \cup {broken'} \cup lost'
      BY <1>1, <2>1, <2>2, <2>3
    <2>5. Earlier(item)' = Earlier(item')
      BY DEF Earlier
    <2> QED
      BY <1>1, <2>4, <2>5 DEF RegisteredInv, Starting
  <1>6. ClosedInv'
    <2>1. /\ \A i \in 1 .. Len(closedOrder) : \E j \in item + 1 .. N : closedOrder[i] = ById[j]
          /\ Falling(closedOrder)
      BY <1>1 DEF ClosedInv
    <2>2. ASSUME NEW i \in 1 .. Len(closedOrder) PROVE closedOrder[i] > a
      <3>1. PICK j \in item + 1 .. N : closedOrder[i] = ById[j]
        BY <2>1
      <3>2. j \in 1 .. N /\ item < j
        BY <1>2
      <3> QED
        BY <1>2, <3>1, <3>2
    <2>3. item + 1 .. N \subseteq item' + 1 .. N /\ item \in item' + 1 .. N
      BY <1>1, <1>2
    <2>4. \A i \in 1 .. Len(closedOrder') : \E j \in item' + 1 .. N : closedOrder'[i] = ById[j]
      <3>1. CASE closedOrder' = closedOrder
        BY <2>1, <2>3, <3>1
      <3>2. CASE /\ Len(closedOrder') = Len(closedOrder) + 1
                 /\ closedOrder'[Len(closedOrder) + 1] = a
                 /\ \A i \in 1 .. Len(closedOrder) : closedOrder'[i] = closedOrder[i]
        <4>1. \A i \in 1 .. Len(closedOrder') :
                 i \in 1 .. Len(closedOrder) \/ i = Len(closedOrder) + 1
          BY <1>3, <3>2
        <4> QED
          BY <2>1, <2>3, <3>2, <4>1
      <3> QED
        BY <1>3, <3>1, <3>2
    <2>5. Falling(closedOrder')
      <3>1. CASE closedOrder' = closedOrder
        BY <2>1, <3>1
      <3>2. CASE /\ Len(closedOrder') = Len(closedOrder) + 1
                 /\ closedOrder'[Len(closedOrder) + 1] = a
                 /\ \A i \in 1 .. Len(closedOrder) : closedOrder'[i] = closedOrder[i]
        <4> SUFFICES ASSUME NEW i \in 1 .. Len(closedOrder'), NEW j \in 1 .. Len(closedOrder'),
                            i < j
                     PROVE  closedOrder'[i] > closedOrder'[j]
          BY Zenon DEF Falling
        <4>1. i \in 1 .. Len(closedOrder) /\ closedOrder'[i] = closedOrder[i]
          BY <1>3, <3>2
        <4>2. CASE j = Len(closedOrder) + 1
          BY <2>2, <3>2, <4>1, <4>2
        <4>3. CASE j \in 1 .. Len(closedOrder)
          BY <2>1, <3>2, <4>1, <4>3 DEF Falling
        <4> QED
          BY <1>3, <3>2, <4>2, <4>3
      <3> QED
        BY <1>3, <3>1, <3>2
    <2> QED
      BY <1>1, <2>4, <2>5 DEF ClosedInv, Starting, Falling
  <1> QED
    BY <1>4, <1>5, <1>6

(* Then the one that failed, and App.Run shuts down.                         *)
LEMMA RollBackFailedStep == ASSUME LifeInv, RollBackFailed PROVE LifeInv'
  <1> USE DEF LifeInv
  <1>1. /\ main = "rollback" /\ main' = "shutdown" /\ item = 0
        /\ UNCHANGED <<item, added, inited, broken, engines, started>>
        /\ IF broken \in inited THEN CloseActor(broken) ELSE UNCHANGED closedOrder
        /\ unregisterActor(broken)
    BY DEF RollBackFailed
  <1>2. broken \in Actors /\ broken # Nobody
    BY <1>1 DEF LifeTypes, BrokenInv
  <1>3. closedOrder \in Seq(Actors) /\ Len(closedOrder) \in Nat
    BY LenProperties DEF LifeTypes
  <1>4. /\ closedOrder' \in Seq(Actors)
        /\ \/ closedOrder' = closedOrder
           \/ /\ Len(closedOrder') = Len(closedOrder) + 1
              /\ closedOrder'[Len(closedOrder) + 1] = broken
              /\ \A i \in 1 .. Len(closedOrder) : closedOrder'[i] = closedOrder[i]
    <2>1. CASE broken \in inited
      BY <1>1, <1>2, <1>3, <2>1, CloseEffect
    <2>2. CASE broken \notin inited
      BY <1>1, <1>3, <2>2
    <2> QED
      BY <2>1, <2>2
  <1>5. LifeTypes' /\ StartedType' /\ AddedInv' /\ BrokenInv' /\ EnginesInv'
    <2>1. LifeTypes'
      BY <1>1, <1>4 DEF LifeTypes
    <2>2. StartedType'
      BY <1>1 DEF StartedType
    <2>3. AddedInv' /\ EnginesInv'
      BY <1>1 DEF AddedInv, EnginesInv
    <2>4. BrokenInv'
      BY <1>1 DEF BrokenInv, Starting
    <2> QED
      BY <2>1, <2>2, <2>3, <2>4
  <1>6. RegisteredInv'
    <2>1. Earlier(item) = {}
      BY <1>1 DEF Earlier
    <2>2. registered \subseteq Earlier(item) \cup {broken} \cup lost
      BY <1>1 DEF RegisteredInv
    <2>3. \/ registered' = registered \ {broken} /\ lost' = lost
          \/ registered' = registered /\ lost' = lost \cup {broken}
      BY <1>1 DEF unregisterActor
    <2>4. registered' \subseteq lost'
      BY <2>1, <2>2, <2>3
    <2> QED
      BY <1>1, <2>4 DEF RegisteredInv, Starting
  <1>7. RollBackReversed'
    <2>1. Falling(closedOrder)
      BY <1>1 DEF ClosedInv
    <2> SUFFICES ASSUME NEW i \in 1 .. Len(closedOrder'), NEW j \in 1 .. Len(closedOrder'),
                        i < j, closedOrder'[j] # broken
                 PROVE  closedOrder'[i] > closedOrder'[j]
      BY <1>1 DEF RollBackReversed
    <2>2. CASE closedOrder' = closedOrder
      BY <2>1, <2>2 DEF Falling
    <2>3. CASE /\ Len(closedOrder') = Len(closedOrder) + 1
               /\ closedOrder'[Len(closedOrder) + 1] = broken
               /\ \A k \in 1 .. Len(closedOrder) : closedOrder'[k] = closedOrder[k]
      <3>1. i \in 1 .. Len(closedOrder) /\ j \in 1 .. Len(closedOrder)
        BY <1>3, <2>3
      <3> QED
        BY <2>1, <2>3, <3>1 DEF Falling
    <2> QED
      BY <1>4, <2>2, <2>3
  <1>8. ClosedInv'
    BY <1>1, <1>7 DEF ClosedInv, Starting
  <1> QED
    BY <1>5, <1>6, <1>8

(* The workers are started, or the shutdown begins: the life goes on, and    *)
(* the data stay as they are.                                                *)
LEMMA GoOnStep ==
    ASSUME LifeInv, \/ StartWorkers \/ Signal \/ GraceWait
                    \/ Shutdown(cancelled)
    PROVE  LifeInv'
  <1> USE DEF LifeInv
  <1>1. UNCHANGED <<item, added, registered, lost, inited, closedOrder, broken, engines>>
    BY DEF StartWorkers, Signal, GraceWait, Shutdown
  <1>2. CASE StartWorkers
    <2>1. main = "register" /\ main' = "wait" /\ started' = TRUE /\ broken = Nobody
      BY <1>2 DEF StartWorkers, BrokenInv, Starting
    <2>2. StartedType'
      BY <2>1, Zenon DEF StartedType
    <2> QED
      BY <1>1, <2>1, <2>2
      DEF LifeTypes, AddedInv, BrokenInv, RegisteredInv, ClosedInv, EnginesInv, Starting
  <1>3. CASE Signal
    BY <1>1, <1>3
    DEF Signal, LifeTypes, StartedType, AddedInv, BrokenInv, RegisteredInv, ClosedInv, EnginesInv,
        Closed, RollBackReversed
  <1>4. CASE GraceWait
    <2>1. main = "wait" /\ main' = "shutdown" /\ started' = started /\ broken = Nobody
      BY <1>4 DEF GraceWait, BrokenInv, Starting
    <2>2. StartedType'
      BY <2>1 DEF StartedType
    <2> QED
      BY <1>1, <2>1, <2>2
      DEF LifeTypes, AddedInv, BrokenInv, RegisteredInv, ClosedInv, EnginesInv, Starting
  <1>5. CASE Shutdown(cancelled)
    <2>1. main = "shutdown" /\ main' = "close" /\ started' = started
      BY <1>5 DEF Shutdown, stopCancel
    <2>2. StartedType'
      BY <2>1 DEF StartedType
    <2> QED
      BY <1>1, <2>1, <2>2
      DEF LifeTypes, AddedInv, BrokenInv, RegisteredInv, ClosedInv, EnginesInv, Starting
  <1> QED
    BY <1>2, <1>3, <1>4, <1>5

(* Group.Close closes actors, and when all are closed the engines.           *)
LEMMA CloseStep == ASSUME LifeInv, CloseOne \/ CloseScriptEngines PROVE LifeInv'
  <1> USE DEF LifeInv
  <1>1. main = "close" /\ UNCHANGED <<item, added, registered, lost, inited, broken, started>>
    BY DEF CloseOne, CloseScriptEngines
  <1>2. added = Actors
    BY <1>1 DEF AddedInv
  <1>3. StartedType'
    BY <1>1 DEF StartedType
  <1>4. CASE CloseOne
    <2>1. PICK a \in added \ Closed : CloseActor(a)
      BY <1>4 DEF CloseOne
    <2>2. closedOrder' \in Seq(Actors)
      BY <1>2, <2>1, CloseEffect DEF LifeTypes
    <2>3. main' = "close" /\ UNCHANGED engines
      BY <1>4 DEF CloseOne
    <2> QED
      BY <1>1, <1>3, <2>2, <2>3
      DEF LifeTypes, AddedInv, BrokenInv, RegisteredInv, ClosedInv, EnginesInv, Starting
  <1>5. CASE CloseScriptEngines
    <2>1. /\ main' = IF broken = Nobody THEN "done" ELSE "failed"
          /\ UNCHANGED closedOrder /\ added \subseteq Closed
          /\ engines' = [k \in Engines |-> IF engines[k] = "open" THEN "closed" ELSE engines[k]]
      BY <1>5 DEF CloseScriptEngines
    <2>2. /\ engines' \in [Engines -> {"none", "open", "closed"}]
          /\ \A k \in Engines : engines'[k] # "open"
      BY <2>1 DEF LifeTypes
    <2>3. LifeTypes'
      BY <1>1, <2>1, <2>2 DEF LifeTypes
    <2>4. Closed' = Closed
      BY <2>1 DEF Closed
    <2>5. AddedInv' /\ RegisteredInv' /\ ClosedInv' /\ EnginesInv'
      BY <1>1, <1>2, <2>1, <2>2, <2>4
      DEF AddedInv, RegisteredInv, ClosedInv, EnginesInv, Starting
    <2>6. BrokenInv'
      BY <1>1, <2>1 DEF BrokenInv, Starting
    <2> QED
      BY <1>3, <2>3, <2>5, <2>6
  <1> QED
    BY <1>4, <1>5

(* Nothing of the life of the group changes.                                 *)
LEMMA LifeApart == ASSUME LifeInv, UNCHANGED lifeVars PROVE LifeInv'
  BY DEF lifeVars, LifeInv, LifeTypes, StartedType, AddedInv, BrokenInv, RegisteredInv, Earlier,
         ClosedInv, EnginesInv, Closed, RollBackReversed

(* Every step of App.Run keeps the invariant.                                *)
LEMMA LifeStep ==
    ASSUME LifeInv, MainStep \/ Signal \/ Shutdown(cancelled) PROVE LifeInv'
  BY BuildStep, StartStep, RollBackStep, RollBackFailedStep, GoOnStep, CloseStep DEF MainStep

(* The invariant says that starts and stops are clean.                       *)
LEMMA LifeMeans == LifeInv => StartStopClean
  <1> SUFFICES ASSUME LifeInv PROVE StartStopClean
    OBVIOUS
  <1> USE DEF LifeInv
  <1>1. FailedStartClean
    <2> SUFFICES ASSUME main = "failed"
                 PROVE  /\ ~started /\ Closed = Actors /\ registered \subseteq lost
                        /\ \A k \in Engines : engines[k] # "open"
      BY DEF FailedStartClean
    <2>1. broken # Nobody /\ ~started
      BY DEF BrokenInv
    <2>2. Closed \subseteq Actors
      BY ElementOfSeq DEF Closed, LifeTypes
    <2> QED
      BY <2>1, <2>2 DEF RegisteredInv, ClosedInv, EnginesInv
  <1>2. RollBackReversed
    <2>1. CASE main = "rollback"
      BY <2>1 DEF ClosedInv, Falling, RollBackReversed
    <2>2. CASE main = "shutdown" /\ broken # Nobody
      BY <2>2 DEF ClosedInv
    <2>3. CASE ~(main \in {"rollback", "shutdown"} /\ broken # Nobody)
      BY <2>3 DEF RollBackReversed
    <2> QED
      BY <2>1, <2>2, <2>3
  <1>3. EnginesHeld
    BY DEF EnginesInv, EnginesHeld
  <1> QED
    BY <1>1, <1>2, <1>3 DEF StartStopClean

-----------------------------------------------------------------------------
(* Theorems *)

(* The supervision loop of the worker, in which App.shutdown cancels.        *)
LEMMA WorkerStep ==
    ASSUME TypeOK, SupInv, [GroupNext]_groupVars PROVE TypeOK' /\ SupInv'
  <1>1. CASE CancelAll
    <2>1. cancelled' = TRUE /\ UNCHANGED <<pc, restarts, since, left, over, up, exits>>
      BY <1>1 DEF CancelAll, Shutdown, stopCancel
    <2> QED
      BY <2>1 DEF TypeOK, SupInv, GiveUpEarned
  <1>2. CASE Tick \/ Wake \/ RunReturns \/ UNCHANGED vars
    BY <1>2, SupStep DEF Next
  <1> QED
    BY <1>1, <1>2 DEF GroupNext, Worker, Life, groupVars

(* All invariants, and that every step of the group keeps them.              *)
GroupInv == DogInv /\ RoutesInv /\ LifeInv /\ TypeOK /\ SupInv

(* Each part moves on its own.                                               *)
LEMMA PartsStep ==
    ASSUME [GroupNext]_groupVars
    PROVE  /\ [DogNext]_dogVars /\ [RoutesNext]_routeVars
           /\ MainStep \/ Signal \/ Shutdown(cancelled) \/ UNCHANGED lifeVars
  BY DEF GroupNext, Worker, Life, CancelAll, Others, groupVars

(* A group keeps its invariant.                                              *)
LEMMA GroupInductive == GroupSpec => []GroupInv
  <1>1. GroupInit => GroupInv
    BY DogStart, RoutesStart, LifeStart, SupInit DEF GroupInit, GroupInv
  <1>2. GroupInv /\ [GroupNext]_groupVars => GroupInv'
    <2> SUFFICES ASSUME GroupInv, [GroupNext]_groupVars PROVE GroupInv'
      OBVIOUS
    <2>1. DogInv' /\ RoutesInv'
      BY PartsStep, DogStep, RoutesStep DEF GroupInv
    <2>2. LifeInv'
      BY PartsStep, LifeStep, LifeApart DEF GroupInv
    <2>3. TypeOK' /\ SupInv'
      BY WorkerStep DEF GroupInv
    <2> QED
      BY <2>1, <2>2, <2>3 DEF GroupInv
  <1> QED
    BY <1>1, <1>2, PTL DEF GroupSpec

(* The watchdog (zactor/watchdog.go 65-89) reports every handler of a plain  *)
(* actor that stays blocked, unless the actor is in its cooldown, and never  *)
(* twice in one (ReportsRight): for every threshold, interval, cooldown and  *)
(* delay of its ticks.                                                       *)
THEOREM ReportsAreRight == GroupSpec => []ReportsRight
  <1>1. GroupInv => ReportsRight
    BY DogMeans DEF GroupInv
  <1> QED
    BY <1>1, GroupInductive, PTL

(* Local routing without a lock (zactor/group.go 94-179, zactor/router.go    *)
(* 27-50): a registration that ran alone stays, a message id keeps its actor *)
(* while none overlap, and the choice by load stays balanced, for any        *)
(* number of registrations and of goroutines that ask (LocalRoutingKept).    *)
THEOREM RoutingIsKept == GroupSpec => LocalRoutingKept
  <1>1. GroupInv => RoutesKept /\ PoolBalanced
    BY RoutesMeans DEF GroupInv
  <1> DEFINE Sticky ==
          \A m \in MsgIds :
              overlapped' = {} /\ RouteLocal(m) # None => RouteLocal(m)' = RouteLocal(m)
  <1>2. GroupInv /\ [GroupNext]_groupVars => [Sticky]_routeVars
    BY PartsStep, StickyStep DEF GroupInv
  <1> QED
    BY <1>1, <1>2, GroupInductive, PTL DEF GroupSpec, LocalRoutingKept, RouteSticky

(* Starting and stopping (zactor/group.go 262-349, zstartup/app.go 71-96):   *)
(* whichever actor fails and however often Unregister does, a failed start   *)
(* leaves no actor open and no worker, the rollback goes backwards, and the  *)
(* engines are open exactly as long as actors need them (StartStopClean).    *)
THEOREM StartsAndStopsAreClean == GroupSpec => []StartStopClean
  <1>1. GroupInv => StartStopClean
    BY LifeMeans DEF GroupInv
  <1> QED
    BY <1>1, GroupInductive, PTL

(* A worker of a running group is given up only after maxRestarts + 1        *)
(* returns since its last steady run (GiveUpEarned), although what cancels   *)
(* its context is a step of App.Run.                                         *)
THEOREM WorkersGivenUpInTime == GroupSpec => []GiveUpEarned
  <1>1. GroupInv => GiveUpEarned
    BY DEF GroupInv, SupInv
  <1> QED
    BY <1>1, GroupInductive, PTL

=============================================================================
