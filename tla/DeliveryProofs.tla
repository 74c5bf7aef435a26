--------------------------- MODULE DeliveryProofs ---------------------------
(* Proofs about MessageDelivery, for any messages, batches, actors, topics   *)
(* and remotes.  Each component has its own inductive invariant: MailInv     *)
(* (the reference counts and the tick flag of the mailbox), DrainInv (what a *)
(* shutdown still owes), SubInv and OrderInv (the bus), and RouteInv (the    *)
(* strategies).                                                              *)
EXTENDS MessageDelivery, FiniteSetTheorems, SequenceTheorems, WellFoundedInduction, TLAPS

-----------------------------------------------------------------------------
(* Counting commands *)

(* How often a command is in a queue is a number.                          *)
LEMMA OccursType ==
    ASSUME NEW S, NEW s \in Seq(S), NEW c
    PROVE  /\ IsFiniteSet({i \in DOMAIN s : s[i] = c}) /\ Occurs(s, c) \in Nat
           /\ Occurs(s, c) = 0 <=> \A i \in 1 .. Len(s) : s[i] # c
  <1>1. Len(s) \in Nat /\ DOMAIN s = 1 .. Len(s)
    BY LenProperties
  <1>2. IsFiniteSet(1 .. Len(s))
    BY <1>1, FS_Interval
  <1>3. IsFiniteSet({i \in DOMAIN s : s[i] = c})
    BY <1>1, <1>2, FS_Subset
  <1> QED
    BY <1>1, <1>3, FS_CardinalityType, FS_EmptySet DEF Occurs

(* The same, for a leaf that only needs the type.                          *)
LEMMA OccursNat ==
    ASSUME NEW S, NEW s \in Seq(S), NEW c
    PROVE  Occurs(s, c) \in Nat
  BY OccursType

(* Nothing is in an empty queue.                                           *)
LEMMA OccursEmpty == ASSUME NEW c PROVE Occurs(<<>>, c) = 0
  BY FS_EmptySet DEF Occurs

(* A queue of one command.                                                 *)
LEMMA OccursSingle == ASSUME NEW e, NEW c PROVE Occurs(<<e>>, c) = IF e = c THEN 1 ELSE 0
  <1>1. CASE e = c
    <2>1. {i \in DOMAIN <<e>> : <<e>>[i] = c} = {1}
      BY <1>1
    <2> QED
      BY <1>1, <2>1, FS_Singleton DEF Occurs
  <1>2. CASE e # c
    <2>1. {i \in DOMAIN <<e>> : <<e>>[i] = c} = {}
      BY <1>2
    <2> QED
      BY <1>2, <2>1, FS_EmptySet DEF Occurs
  <1> QED
    BY <1>1, <1>2

(* Counting goes through concatenation: the second half is shifted.        *)
LEMMA OccursConcat ==
    ASSUME NEW S, NEW s \in Seq(S), NEW t \in Seq(S), NEW c
    PROVE  Occurs(s \o t, c) = Occurs(s, c) + Occurs(t, c)
  <1> DEFINE I == {i \in 1 .. Len(s) : s[i] = c}
             J == {i \in 1 .. Len(t) : t[i] = c}
             K == {i \in Len(s) + 1 .. Len(s) + Len(t) : t[i - Len(s)] = c}
             f == [i \in J |-> i + Len(s)]
  <1>1. /\ Len(s) \in Nat /\ Len(t) \in Nat
        /\ DOMAIN s = 1 .. Len(s) /\ DOMAIN t = 1 .. Len(t)
    BY LenProperties
  <1>2. /\ s \o t \in Seq(S) /\ DOMAIN (s \o t) = 1 .. Len(s) + Len(t)
        /\ \A i \in 1 .. Len(s) + Len(t) :
              (s \o t)[i] = IF i <= Len(s) THEN s[i] ELSE t[i - Len(s)]
    BY <1>1, ConcatProperties, LenProperties
  <1>3. {i \in DOMAIN (s \o t) : (s \o t)[i] = c} = I \cup K
    BY <1>1, <1>2
  <1>4. I \cap K = {}
    BY <1>1
  <1>5. IsFiniteSet(I) /\ Occurs(s, c) = Cardinality(I)
    BY <1>1, OccursType DEF Occurs
  <1>6. IsFiniteSet(J) /\ Occurs(t, c) = Cardinality(J)
    BY <1>1, OccursType DEF Occurs
  <1>7. f \in Bijection(J, K)
    <2>1. f \in [J -> K]
      BY <1>1
    <2>2. \A i, j \in J : f[i] = f[j] => i = j
      BY <1>1
    <2>3. ASSUME NEW k \in K PROVE \E i \in J : f[i] = k
      <3>1. k - Len(s) \in J
        BY <1>1
      <3> QED
        BY <1>1, <3>1
    <2> QED
      BY <2>1, <2>2, <2>3 DEF Bijection, Injection, Surjection, IsInjective
  <1>8. IsFiniteSet(K) /\ Cardinality(K) = Cardinality(J)
    BY <1>6, <1>7, FS_Bijection DEF ExistsBijection
  <1>9. /\ Cardinality(I \cup K) = Cardinality(I) + Cardinality(K) - Cardinality(I \cap K)
        /\ Cardinality(I) \in Nat /\ Cardinality(K) \in Nat
    BY <1>5, <1>8, FS_Union, FS_CardinalityType
  <1>10. Occurs(s \o t, c) = Cardinality(I \cup K) /\ Cardinality(I \cap K) = 0
    BY <1>3, <1>4, FS_EmptySet DEF Occurs
  <1> HIDE DEF I, J, K, f
  <1> QED
    BY <1>5, <1>6, <1>8, <1>9, <1>10

(* Push, and what DequeueBatch and the loop over the batch do.             *)
LEMMA OccursAppend ==
    ASSUME NEW S, NEW s \in Seq(S), NEW e \in S, NEW c
    PROVE  Occurs(Append(s, e), c) = Occurs(s, c) + IF e = c THEN 1 ELSE 0
  <1>1. <<e>> \in Seq(S) /\ Append(s, e) = s \o <<e>>
    BY AppendIsConcat
  <1> DEFINE t == <<e>>
  <1>2. Occurs(t, c) = IF e = c THEN 1 ELSE 0
    BY OccursSingle
  <1>3. t \in Seq(S) /\ Append(s, e) = s \o t
    BY <1>1
  <1> HIDE DEF t
  <1>4. Occurs(s \o t, c) = Occurs(s, c) + Occurs(t, c)
    BY <1>3, OccursConcat
  <1> QED
    BY <1>2, <1>3, <1>4

(* Taking the first command away.                                          *)
LEMMA OccursTail ==
    ASSUME NEW S, NEW s \in Seq(S), s # <<>>, NEW c
    PROVE  Occurs(Tail(s), c) = Occurs(s, c) - IF Head(s) = c THEN 1 ELSE 0
  <1>1. <<Head(s)>> \in Seq(S) /\ Tail(s) \in Seq(S) /\ s = <<Head(s)>> \o Tail(s)
    BY HeadTailProperties
  <1> DEFINE h == <<Head(s)>>
             t == Tail(s)
  <1>2. Occurs(h, c) = IF Head(s) = c THEN 1 ELSE 0
    BY OccursSingle
  <1>3. h \in Seq(S) /\ t \in Seq(S) /\ s = h \o t
    BY <1>1
  <1> HIDE DEF h, t
  <1>4. Occurs(h \o t, c) = Occurs(h, c) + Occurs(t, c)
    BY <1>3, OccursConcat
  <1>5. Occurs(t, c) \in Nat
    BY <1>3, OccursType
  <1>6. Occurs(t, c) = Occurs(s, c) - IF Head(s) = c THEN 1 ELSE 0
    BY <1>2, <1>3, <1>4, <1>5
  <1> QED
    BY <1>6 DEF t

(* A prefix and the rest hold between them what was there.                 *)
LEMMA OccursSplit ==
    ASSUME NEW S, NEW s \in Seq(S), NEW n \in 0 .. Len(s), NEW c
    PROVE  /\ SubSeq(s, 1, n) \in Seq(S) /\ SubSeq(s, n + 1, Len(s)) \in Seq(S)
           /\ Occurs(SubSeq(s, 1, n), c) + Occurs(SubSeq(s, n + 1, Len(s)), c) = Occurs(s, c)
  <1>1. Len(s) \in Nat
    BY LenProperties
  <1>2. SubSeq(s, 1, n) \in Seq(S) /\ SubSeq(s, n + 1, Len(s)) \in Seq(S)
    BY <1>1, SubSeqProperties, ElementOfSeq
  <1> DEFINE x == SubSeq(s, 1, n)
             y == SubSeq(s, n + 1, Len(s))
  <1>4. 1 \in 1 .. Len(s) + 1 /\ n \in 1 - 1 .. Len(s) /\ Len(s) \in n .. Len(s)
    BY <1>1
  <1>3. x \o y = SubSeq(s, 1, Len(s))
    BY <1>4, ConcatAdjacentSubSeq
  <1>5. SubSeq(s, 1, Len(s)) = s
    BY SubSeqFull
  <1>6. x \in Seq(S) /\ y \in Seq(S) /\ x \o y = s
    BY <1>2, <1>3, <1>5
  <1> HIDE DEF x, y
  <1>7. Occurs(x, c) + Occurs(y, c) = Occurs(s, c)
    BY <1>6, OccursConcat
  <1> QED
    BY <1>2, <1>7 DEF x, y

-----------------------------------------------------------------------------
(* The mailbox *)

(* A behaviour follows one leg, so each leg is invariant by itself.        *)
LEMMA OneLeg ==
    ASSUME [DeliveryNext]_deliveryVars
    PROVE  [Next]_vars /\ [BusNext]_busVars /\ [RoutesNext]_routesVars
  BY DEF DeliveryNext, deliveryVars, Mailbox, Bus, Route

MsgCmd(m)   == [type |-> "msg", msg |-> m]
AsyncCmd(m) == [type |-> "async", msg |-> m]
TickCmd     == [type |-> "tick", msg |-> None]
FnCmd       == [type |-> "fn", msg |-> None]

(* How often a command is in the mailbox or the batch, and how many of     *)
(* these are still to be handled: not the one that Run is about to release.*)
In(c)   == Occurs(queue, c) + Occurs(batch, c)
Left(c) == In(c) - IF pc = "release" /\ Head(batch) = c THEN 1 ELSE 0

RunTypes ==
    /\ queue \in Seq(Cmd) /\ batch \in Seq(Cmd)
    /\ batch # <<>> <=> pc \in {"handle", "release"}

(* The four ways a step can change what is in the mailbox.                 *)
Same == \A c \in Cmd : In(c)' = In(c) /\ Left(c)' = Left(c)
Pushed(e) == \A c \in Cmd : /\ In(c)' = In(c) + IF e = c THEN 1 ELSE 0
                            /\ Left(c)' = Left(c) + IF e = c THEN 1 ELSE 0
Handled(e) == \A c \in Cmd : /\ In(c)' = In(c)
                             /\ Left(c)' = Left(c) - IF e = c THEN 1 ELSE 0
Released(e) == \A c \in Cmd : /\ In(c)' = In(c) - IF e = c THEN 1 ELSE 0
                              /\ Left(c)' = Left(c)

(* Commands of different messages or kinds differ.                         *)
LEMMA CmdTypes ==
    /\ TickCmd \in Cmd /\ FnCmd \in Cmd
    /\ \A m \in Msgs : MsgCmd(m) \in Cmd /\ AsyncCmd(m) \in Cmd
    /\ \A m, n \in Msgs : /\ MsgCmd(m) = MsgCmd(n) <=> m = n
                          /\ AsyncCmd(m) = AsyncCmd(n) <=> m = n
                          /\ MsgCmd(m) # AsyncCmd(n)
    /\ \A m \in Msgs : {MsgCmd(m), AsyncCmd(m)} \cap {TickCmd, FnCmd} = {}
    /\ TickCmd # FnCmd
  BY DEF Cmd, MsgCmd, AsyncCmd, TickCmd, FnCmd

(* A command, by its type.                                                 *)
LEMMA CmdCases ==
    ASSUME NEW c \in Cmd
    PROVE  /\ c.type = "msg" => c.msg \in Msgs /\ c = MsgCmd(c.msg)
           /\ c.type = "async" => c.msg \in Msgs /\ c = AsyncCmd(c.msg)
           /\ c.type = "tick" => c = TickCmd
           /\ c.type = "fn" => c = FnCmd
           /\ c.type \in {"msg", "async", "tick", "fn"}
           /\ c.type # "msg" => \A m \in Msgs : c # MsgCmd(m)
  BY DEF Cmd, MsgCmd, AsyncCmd, TickCmd, FnCmd

(* The counts are numbers.                                                 *)
LEMMA InType ==
    ASSUME RunTypes, NEW c \in Cmd
    PROVE  In(c) \in Nat /\ Left(c) \in Int
  <1>1. Occurs(queue, c) \in Nat /\ Occurs(batch, c) \in Nat
    BY OccursNat DEF RunTypes
  <1> QED
    BY <1>1 DEF In, Left

(* Head(batch) is there, and counted.                                      *)
LEMMA HeadLeft ==
    ASSUME RunTypes, pc \in {"handle", "release"}
    PROVE  /\ batch # <<>> /\ Head(batch) \in Cmd /\ In(Head(batch)) >= 1
           /\ pc = "handle" => Left(Head(batch)) >= 1
  <1>1. batch # <<>> /\ Head(batch) \in Cmd /\ Len(batch) \in Nat \ {0}
    BY HeadTailProperties, EmptySeq DEF RunTypes
  <1>2. batch[1] = Head(batch) /\ 1 \in 1 .. Len(batch)
    BY <1>1 DEF RunTypes
  <1>3. Occurs(batch, Head(batch)) \in Nat \ {0} /\ Occurs(queue, Head(batch)) \in Nat
    BY <1>1, <1>2, OccursType DEF RunTypes
  <1> QED
    BY <1>1, <1>3 DEF In, Left

(* Push *)
LEMMA PushEffect ==
    ASSUME RunTypes, NEW e \in Cmd, queue' = Append(queue, e), UNCHANGED <<batch, pc>>
    PROVE  RunTypes' /\ Pushed(e)
  <1>1. RunTypes'
    BY AppendProperties DEF RunTypes
  <1>2. ASSUME NEW c \in Cmd
        PROVE  /\ Occurs(queue', c) = Occurs(queue, c) + IF e = c THEN 1 ELSE 0
               /\ Occurs(queue, c) \in Nat /\ Occurs(batch, c) \in Nat
    BY OccursAppend, OccursNat DEF RunTypes
  <1> QED
    BY <1>1, <1>2 DEF Pushed, In, Left

(* The steps of Run that are not about a command's content.                *)
LEMMA LoopEffect ==
    ASSUME RunTypes, Check \/ Idle \/ Exit \/ RunAgain \/ Dequeue
    PROVE  RunTypes' /\ Same
  <1>1. CASE Check \/ Idle \/ Exit \/ RunAgain
    <2>1. UNCHANGED <<queue, batch>> /\ pc \notin {"handle", "release"}
          /\ pc' \notin {"handle", "release"}
      BY <1>1 DEF Check, Idle, Exit, RunAgain
    <2> QED
      BY <2>1 DEF RunTypes, Same, In, Left
  <1>2. CASE Dequeue
    <2>1. PICK n \in 1 .. MaxBatch : /\ n <= Len(queue)
                                     /\ batch' = SubSeq(queue, 1, n)
                                     /\ queue' = SubSeq(queue, n + 1, Len(queue))
      BY <1>2 DEF Dequeue
    <2>2. n \in Nat \ {0} /\ n \in 0 .. Len(queue) /\ Len(queue) \in Nat
      BY <2>1, BatchAssumption, LenProperties DEF RunTypes
    <2>3. pc = "dequeue" /\ pc' = "handle" /\ batch = <<>>
      BY <1>2 DEF Dequeue, RunTypes
    <2>4. batch' \in Seq(Cmd) /\ queue' \in Seq(Cmd)
      BY <2>1, <2>2, OccursSplit DEF RunTypes
    <2>5. Len(batch') = n
      BY <2>1, <2>2, SubSeqProperties, ElementOfSeq DEF RunTypes
    <2>6. RunTypes'
      BY <2>2, <2>3, <2>4, <2>5, EmptySeq DEF RunTypes
    <2>7. ASSUME NEW c \in Cmd
          PROVE  /\ Occurs(batch', c) + Occurs(queue', c) = Occurs(queue, c)
                 /\ Occurs(batch, c) = 0 /\ Occurs(batch', c) \in Nat
                 /\ Occurs(queue', c) \in Nat /\ Occurs(queue, c) \in Nat
      <3>1. Occurs(batch', c) + Occurs(queue', c) = Occurs(queue, c)
        BY <2>1, <2>2, OccursSplit DEF RunTypes
      <3>2. Occurs(batch, c) = 0
        BY <2>3, OccursEmpty
      <3>3. Occurs(batch', c) \in Nat /\ Occurs(queue', c) \in Nat /\ Occurs(queue, c) \in Nat
        BY <2>4, OccursNat DEF RunTypes
      <3> QED
        BY <3>1, <3>2, <3>3
    <2>8. \A c \in Cmd : In(c)' = In(c)
      BY <2>7 DEF In
    <2> QED
      BY <2>3, <2>6, <2>8 DEF Same, Left
  <1> QED
    BY <1>1, <1>2

(* SafeHandleMessage, and the release that follows it.                     *)
LEMMA HandleEffect ==
    ASSUME RunTypes, pc = "handle", pc' = "release", UNCHANGED <<queue, batch>>
    PROVE  RunTypes' /\ Handled(Head(batch))
  <1>1. ASSUME NEW c \in Cmd PROVE In(c) \in Nat /\ In(c)' = In(c)
    BY InType DEF In
  <1> QED
    BY <1>1 DEF RunTypes, Handled, Left

(* The first command of the batch is gone, and was not counted as left.    *)
LEMMA ReleaseEffect ==
    ASSUME RunTypes, pc = "release", batch' = Tail(batch), UNCHANGED queue,
           pc' = IF Tail(batch) = <<>> THEN "check" ELSE "handle"
    PROVE  RunTypes' /\ Released(Head(batch))
  <1>1. batch # <<>>
    BY DEF RunTypes
  <1>2. RunTypes'
    BY <1>1, HeadTailProperties DEF RunTypes
  <1>3. ASSUME NEW c \in Cmd
        PROVE  /\ Occurs(batch', c) = Occurs(batch, c) - IF Head(batch) = c THEN 1 ELSE 0
               /\ Occurs(queue, c) \in Nat /\ Occurs(batch, c) \in Nat
    BY <1>1, OccursTail, OccursType DEF RunTypes
  <1>4. \A c \in Cmd : In(c)' = In(c) - IF Head(batch) = c THEN 1 ELSE 0
    BY <1>3 DEF In
  <1>5. ASSUME NEW c \in Cmd PROVE Left(c)' = Left(c)
    BY <1>4, InType DEF Left
  <1> QED
    BY <1>2, <1>4, <1>5 DEF Released

MsgTypes ==
    /\ ref \in [Msgs -> Int] /\ own \in [Msgs -> -1 .. 2]
    /\ task \in [Msgs -> {"none", "work", "callback"}]

(* The references to a message.                                            *)
Sum(m) == (IF own[m] > 0 THEN own[m] ELSE 0) + (IF m \in slot THEN 1 ELSE 0)
          + (IF task[m] # "none" THEN 1 ELSE 0) + (IF m \in leaked THEN 1 ELSE 0)
          + In(MsgCmd(m))

(* The life of a message: before it is sent nobody has it; it is delivered *)
(* once; no task carries it before it is handled; a task that is done on   *)
(* its worker is in the mailbox, once; and a message is forgotten at most  *)
(* once.                                                                   *)
MsgInv(m) ==
    /\ own[m] = -1 => m \notin slot /\ task[m] = "none" /\ m \notin leaked /\ In(MsgCmd(m)) = 0
    /\ In(MsgCmd(m)) <= 1
    /\ Left(MsgCmd(m)) >= 1 => task[m] = "none" /\ m \notin leaked
    /\ Left(AsyncCmd(m)) = IF task[m] = "callback" THEN 1 ELSE 0
    /\ task[m] # "none" => m \notin leaked
    /\ ref[m] = Sum(m)

AllMsgs == \A m \in Msgs : MsgInv(m)

(* The counts of a message are numbers.                                    *)
LEMMA CountTypes ==
    ASSUME RunTypes, NEW m \in Msgs
    PROVE  /\ In(MsgCmd(m)) \in Nat /\ Left(MsgCmd(m)) \in Int /\ Left(AsyncCmd(m)) \in Int
           /\ Left(MsgCmd(m)) <= In(MsgCmd(m))
  <1>1. MsgCmd(m) \in Cmd /\ AsyncCmd(m) \in Cmd
    BY CmdTypes
  <1>2. In(MsgCmd(m)) \in Nat /\ Left(MsgCmd(m)) \in Int /\ Left(AsyncCmd(m)) \in Int
    BY <1>1, InType
  <1> QED
    BY <1>2 DEF Left

(* A message that a step does not touch.                                   *)
Untouched(m) ==
    /\ ref'[m] = ref[m] /\ own'[m] = own[m] /\ task'[m] = task[m]
    /\ (m \in slot') <=> (m \in slot)
    /\ (m \in leaked') <=> (m \in leaked)
    /\ In(MsgCmd(m))' = In(MsgCmd(m)) /\ Left(MsgCmd(m))' = Left(MsgCmd(m))
    /\ Left(AsyncCmd(m))' = Left(AsyncCmd(m))

(* What MsgInv says of a message depends on nothing else.                  *)
LEMMA UntouchedInv == ASSUME NEW m \in Msgs, MsgInv(m), Untouched(m) PROVE MsgInv(m)'
  BY DEF MsgInv, Untouched, Sum

(* SendActor and its kin: the first time anybody has the message.          *)
LEMMA SentInv ==
    ASSUME RunTypes, RunTypes', MsgTypes, AllMsgs, NEW m \in Msgs,
           NEW held \in 0 .. 2, NEW refs \in 0 .. 1, Sent(m, held, refs),
           \/ /\ refs = 1 /\ Pushed(MsgCmd(m)) /\ UNCHANGED <<slot, task, leaked>>
           \/ /\ refs = 1 /\ Same /\ slot' = slot \cup {m} /\ UNCHANGED <<task, leaked>>
           \/ /\ refs = 0 /\ Same /\ UNCHANGED <<slot, task, leaked>>
           \/ /\ refs = 1 /\ Same /\ task' = [task EXCEPT ![m] = "work"]
              /\ UNCHANGED <<slot, leaked>>
           \/ /\ refs = 1 /\ Same /\ leaked' = leaked \cup {m} /\ UNCHANGED <<slot, task>>
    PROVE  MsgTypes' /\ AllMsgs'
  <1>1. /\ own[m] = -1 /\ own' = [own EXCEPT ![m] = held]
        /\ ref' = [ref EXCEPT ![m] = held + refs]
    BY DEF Sent
  <1>2. MsgTypes'
    BY <1>1 DEF MsgTypes
  <1>3. /\ own'[m] = held /\ ref'[m] = held + refs
        /\ \A n \in Msgs \ {m} : own'[n] = own[n] /\ ref'[n] = ref[n] /\ task'[n] = task[n]
    BY <1>1 DEF MsgTypes
  <1>4. ASSUME NEW n \in Msgs \ {m} PROVE MsgInv(n)'
    <2>1. /\ In(MsgCmd(n))' = In(MsgCmd(n)) /\ Left(MsgCmd(n))' = Left(MsgCmd(n))
          /\ Left(AsyncCmd(n))' = Left(AsyncCmd(n))
      BY CmdTypes, CountTypes DEF Pushed, Same
    <2> QED
      BY <1>3, <2>1, UntouchedInv DEF AllMsgs, Untouched
  <1>5. MsgInv(m)'
    <2>1. /\ m \notin slot /\ task[m] = "none" /\ m \notin leaked /\ In(MsgCmd(m)) = 0
          /\ Left(AsyncCmd(m)) = 0 /\ Left(MsgCmd(m)) \in Int /\ Left(MsgCmd(m)) <= 0
      BY <1>1, CountTypes DEF AllMsgs, MsgInv
    <2>2. /\ \/ refs = 1 /\ Pushed(MsgCmd(m)) /\ In(MsgCmd(m))' = 1
             \/ Same /\ In(MsgCmd(m))' = 0 /\ Left(MsgCmd(m))' = Left(MsgCmd(m))
          /\ Left(AsyncCmd(m))' = 0
      BY <2>1, CmdTypes DEF Pushed, Same
    <2>3. CASE Pushed(MsgCmd(m)) /\ refs = 1 /\ UNCHANGED <<slot, task, leaked>>
      <3>1. In(MsgCmd(m))' = 1
        BY <2>1, <2>3, CmdTypes DEF Pushed
      <3> QED
        BY <1>3, <2>1, <2>2, <2>3, <3>1 DEF MsgInv, Sum
    <2>4. CASE Same
      <3>1. In(MsgCmd(m))' = 0 /\ Left(MsgCmd(m))' = Left(MsgCmd(m))
        BY <2>1, <2>4, CmdTypes DEF Same
      <3> USE <1>3, <2>1, <2>2, <3>1 DEF MsgInv, Sum
      <3>2. CASE refs = 1 /\ slot' = slot \cup {m} /\ UNCHANGED <<task, leaked>>
        BY <3>2
      <3>3. CASE refs = 0 /\ UNCHANGED <<slot, task, leaked>>
        BY <3>3
      <3>4. CASE /\ refs = 1 /\ task' = [task EXCEPT ![m] = "work"] /\ UNCHANGED <<slot, leaked>>
        <4>1. task'[m] = "work"
          BY <3>4 DEF MsgTypes
        <4> QED
          BY <3>4, <4>1
      <3>5. CASE refs = 1 /\ leaked' = leaked \cup {m} /\ UNCHANGED <<slot, task>>
        BY <3>5
      <3>6. CASE Pushed(MsgCmd(m))
        BY <3>6, CmdTypes DEF Pushed
      <3> QED
        BY <3>2, <3>3, <3>4, <3>5, <3>6
    <2> QED
      BY <2>3, <2>4
  <1> QED
    BY <1>2, <1>4, <1>5 DEF AllMsgs

(* Another message keeps its counts, whatever happens to a command of m.   *)
LEMMA OthersCounts ==
    ASSUME RunTypes, NEW m \in Msgs, NEW e \in {MsgCmd(m), AsyncCmd(m)},
           Same \/ Pushed(e) \/ Handled(e) \/ Released(e), NEW n \in Msgs \ {m}
    PROVE  /\ In(MsgCmd(n))' = In(MsgCmd(n)) /\ Left(MsgCmd(n))' = Left(MsgCmd(n))
           /\ Left(AsyncCmd(n))' = Left(AsyncCmd(n))
  <1>1. /\ MsgCmd(n) \in Cmd /\ AsyncCmd(n) \in Cmd /\ e # MsgCmd(n) /\ e # AsyncCmd(n)
    BY CmdTypes
  <1>2. In(MsgCmd(n)) \in Nat /\ Left(MsgCmd(n)) \in Int /\ Left(AsyncCmd(n)) \in Int
    BY CountTypes
  <1> QED
    BY <1>1, <1>2 DEF Same, Pushed, Handled, Released

(* The deferred releases of SendMsg and its caller, and of CallActor.      *)
LEMMA ReleasesInv ==
    ASSUME RunTypes, RunTypes', MsgTypes, AllMsgs, Same, NEW m \in Msgs,
           SenderRelease(m) \/ SlotRelease(m)
    PROVE  MsgTypes' /\ AllMsgs'
  <1>1. /\ ref' = [ref EXCEPT ![m] = @ - 1] /\ UNCHANGED <<task, leaked>>
        /\ \/ own[m] > 0 /\ own' = [own EXCEPT ![m] = @ - 1] /\ UNCHANGED slot
           \/ m \in slot /\ slot' = slot \ {m} /\ UNCHANGED own
    BY DEF SenderRelease, SlotRelease, restVars, histVars
  <1>2. MsgTypes'
    BY <1>1 DEF MsgTypes
  <1>3. ref'[m] = ref[m] - 1 /\ \A n \in Msgs \ {m} : ref'[n] = ref[n] /\ own'[n] = own[n]
    BY <1>1 DEF MsgTypes
  <1>4. ASSUME NEW n \in Msgs \ {m} PROVE MsgInv(n)'
    BY <1>1, <1>3, OthersCounts, UntouchedInv DEF AllMsgs, Untouched
  <1>5. /\ In(MsgCmd(m))' = In(MsgCmd(m)) /\ Left(MsgCmd(m))' = Left(MsgCmd(m))
        /\ Left(AsyncCmd(m))' = Left(AsyncCmd(m))
    BY CmdTypes DEF Same
  <1>6. /\ In(MsgCmd(m)) \in Nat /\ ref[m] \in Int /\ own[m] \in -1 .. 2
        /\ MsgInv(m)
    BY CountTypes DEF MsgTypes, AllMsgs
  <1>7. CASE own[m] > 0 /\ own' = [own EXCEPT ![m] = @ - 1] /\ UNCHANGED slot
    <2>1. own'[m] = own[m] - 1
      BY <1>7 DEF MsgTypes
    <2> QED
      BY <1>1, <1>2, <1>3, <1>4, <1>5, <1>6, <1>7, <2>1 DEF MsgInv, Sum, AllMsgs
  <1>8. CASE m \in slot /\ slot' = slot \ {m} /\ UNCHANGED own
    BY <1>1, <1>2, <1>3, <1>4, <1>5, <1>6, <1>8 DEF MsgInv, Sum, AllMsgs
  <1> QED
    BY <1>1, <1>7, <1>8

(* What happens to the task of a message: it is started on the worker pool *)
(* by the handler, it is done or panics there, its callback is queued, and *)
(* run.                                                                    *)
TaskStarts(m) == task[m] = "none" /\ task' = [task EXCEPT ![m] = "work"]
                 /\ ref' = [ref EXCEPT ![m] = @ + 1] /\ UNCHANGED leaked
TaskEnds(m)   == task[m] # "none" /\ task' = [task EXCEPT ![m] = "none"]
                 /\ ref' = [ref EXCEPT ![m] = @ - 1] /\ UNCHANGED leaked
TaskLeaks(m)  == task[m] # "none" /\ task' = [task EXCEPT ![m] = "none"]
                 /\ leaked' = leaked \cup {m} /\ UNCHANGED ref
TaskQueued(m) == task[m] = "work" /\ task' = [task EXCEPT ![m] = "callback"]
                 /\ UNCHANGED <<ref, leaked>>

(* Each step of a task keeps the counts of its message, and of all others. *)
LEMMA TaskInv ==
    ASSUME RunTypes, RunTypes', MsgTypes, AllMsgs, UNCHANGED <<own, slot>>, NEW m \in Msgs,
           \/ TaskStarts(m) /\ Handled(MsgCmd(m)) /\ Left(MsgCmd(m)) >= 1
           \/ TaskEnds(m) /\ Handled(AsyncCmd(m)) /\ task[m] = "callback"
           \/ TaskEnds(m) /\ Same /\ task[m] = "work"
           \/ TaskLeaks(m) /\ Same /\ task[m] = "work"
           \/ TaskQueued(m) /\ Pushed(AsyncCmd(m))
    PROVE  MsgTypes' /\ AllMsgs'
  <1>1. MsgTypes'
    BY DEF MsgTypes, TaskStarts, TaskEnds, TaskLeaks, TaskQueued
  <1>2. \A n \in Msgs \ {m} : /\ ref'[n] = ref[n] /\ task'[n] = task[n]
                              /\ (n \in leaked') <=> (n \in leaked)
    BY DEF MsgTypes, TaskStarts, TaskEnds, TaskLeaks, TaskQueued
  <1>3. ASSUME NEW n \in Msgs \ {m} PROVE MsgInv(n)'
    BY <1>2, OthersCounts, UntouchedInv DEF AllMsgs, Untouched
  <1>4. MsgCmd(m) \in Cmd /\ AsyncCmd(m) \in Cmd /\ MsgCmd(m) # AsyncCmd(m)
    BY CmdTypes
  <1>5. /\ In(MsgCmd(m)) \in Nat /\ Left(MsgCmd(m)) \in Int /\ Left(AsyncCmd(m)) \in Int
        /\ Left(MsgCmd(m)) <= In(MsgCmd(m)) /\ ref[m] \in Int /\ own[m] \in -1 .. 2
    BY CountTypes DEF MsgTypes
  <1>6. MsgInv(m) /\ own'[m] = own[m] /\ ((m \in slot') <=> (m \in slot))
    BY DEF AllMsgs
  <1> SUFFICES MsgInv(m)'
    BY <1>1, <1>3 DEF AllMsgs
  <1>7. CASE TaskStarts(m) /\ Handled(MsgCmd(m)) /\ Left(MsgCmd(m)) >= 1
    <2>1. /\ task[m] = "none" /\ task'[m] = "work" /\ ref'[m] = ref[m] + 1
          /\ (m \in leaked') <=> (m \in leaked)
      BY <1>7 DEF MsgTypes, TaskStarts
    <2>2. /\ In(MsgCmd(m))' = In(MsgCmd(m)) /\ Left(MsgCmd(m))' = Left(MsgCmd(m)) - 1
          /\ Left(AsyncCmd(m))' = Left(AsyncCmd(m))
      BY <1>4, <1>5, <1>7 DEF Handled
    <2>3. m \notin leaked /\ own[m] # -1 /\ In(MsgCmd(m)) = 1 /\ Left(MsgCmd(m)) = 1
      BY <1>5, <1>6, <1>7 DEF MsgInv
    <2> QED
      BY <1>5, <1>6, <2>1, <2>2, <2>3 DEF MsgInv, Sum
  <1>8. CASE TaskEnds(m) /\ Handled(AsyncCmd(m)) /\ task[m] = "callback"
    <2>1. /\ task'[m] = "none" /\ ref'[m] = ref[m] - 1
          /\ (m \in leaked') <=> (m \in leaked)
      BY <1>8 DEF MsgTypes, TaskEnds
    <2>2. /\ In(MsgCmd(m))' = In(MsgCmd(m)) /\ Left(MsgCmd(m))' = Left(MsgCmd(m))
          /\ Left(AsyncCmd(m))' = Left(AsyncCmd(m)) - 1
      BY <1>4, <1>5, <1>8 DEF Handled
    <2> QED
      BY <1>5, <1>6, <1>8, <2>1, <2>2 DEF MsgInv, Sum
  <1>9. CASE TaskEnds(m) /\ Same /\ task[m] = "work"
    <2>1. /\ task'[m] = "none" /\ ref'[m] = ref[m] - 1
          /\ (m \in leaked') <=> (m \in leaked)
      BY <1>9 DEF MsgTypes, TaskEnds
    <2>2. /\ In(MsgCmd(m))' = In(MsgCmd(m)) /\ Left(MsgCmd(m))' = Left(MsgCmd(m))
          /\ Left(AsyncCmd(m))' = Left(AsyncCmd(m))
      BY <1>4, <1>9 DEF Same
    <2> QED
      BY <1>5, <1>6, <1>9, <2>1, <2>2 DEF MsgInv, Sum
  <1>10. CASE TaskLeaks(m) /\ Same /\ task[m] = "work"
    <2>1. task'[m] = "none" /\ ref'[m] = ref[m] /\ m \in leaked'
      BY <1>10 DEF MsgTypes, TaskLeaks
    <2>2. /\ In(MsgCmd(m))' = In(MsgCmd(m)) /\ Left(MsgCmd(m))' = Left(MsgCmd(m))
          /\ Left(AsyncCmd(m))' = Left(AsyncCmd(m))
      BY <1>4, <1>10 DEF Same
    <2>3. m \notin leaked /\ own[m] # -1 /\ Left(MsgCmd(m)) < 1
      BY <1>5, <1>6, <1>10 DEF MsgInv
    <2> QED
      BY <1>5, <1>6, <1>10, <2>1, <2>2, <2>3 DEF MsgInv, Sum
  <1>11. CASE TaskQueued(m) /\ Pushed(AsyncCmd(m))
    <2>1. /\ task[m] = "work" /\ task'[m] = "callback" /\ ref'[m] = ref[m]
          /\ (m \in leaked') <=> (m \in leaked)
      BY <1>11 DEF MsgTypes, TaskQueued
    <2>2. /\ In(MsgCmd(m))' = In(MsgCmd(m)) /\ Left(MsgCmd(m))' = Left(MsgCmd(m))
          /\ Left(AsyncCmd(m))' = Left(AsyncCmd(m)) + 1
      BY <1>4, <1>5, <1>11 DEF Pushed
    <2> QED
      BY <1>5, <1>6, <2>1, <2>2 DEF MsgInv, Sum
  <1> QED
    BY <1>7, <1>8, <1>9, <1>10, <1>11

(* Steps that leave every message and every task alone: the mailbox itself *)
(* may change, but by no unhandled command of a message.                   *)
LEMMA MailboxInv ==
    ASSUME RunTypes, RunTypes', MsgTypes, AllMsgs, UNCHANGED <<ref, own, slot, task, leaked>>,
           \/ Same
           \/ \E e \in {TickCmd, FnCmd} : Pushed(e) \/ Handled(e) \/ Released(e)
           \/ \E m \in Msgs : Handled(MsgCmd(m)) \/ Released(AsyncCmd(m))
    PROVE  MsgTypes' /\ AllMsgs'
  <1>1. MsgTypes'
    BY DEF MsgTypes
  <1>2. ASSUME NEW n \in Msgs PROVE MsgInv(n)'
    <2>1. /\ In(MsgCmd(n)) \in Nat /\ Left(MsgCmd(n)) \in Int /\ Left(AsyncCmd(n)) \in Int
          /\ MsgInv(n)
      BY CountTypes DEF AllMsgs
    <2>2. /\ MsgCmd(n) \in Cmd /\ AsyncCmd(n) \in Cmd /\ MsgCmd(n) \notin {TickCmd, FnCmd}
          /\ AsyncCmd(n) \notin {TickCmd, FnCmd} /\ \A m \in Msgs : MsgCmd(m) # AsyncCmd(n)
          /\ \A m \in Msgs : AsyncCmd(m) # MsgCmd(n)
      BY CmdTypes
    <2>3. /\ In(MsgCmd(n))' = In(MsgCmd(n))
          /\ Left(MsgCmd(n))' = Left(MsgCmd(n)) \/ Left(MsgCmd(n))' = Left(MsgCmd(n)) - 1
          /\ Left(AsyncCmd(n))' = Left(AsyncCmd(n))
      BY <2>1, <2>2 DEF Same, Pushed, Handled, Released
    <2> QED
      BY <2>1, <2>3 DEF MsgInv, Sum
  <1> QED
    BY <1>1, <1>2 DEF AllMsgs

(* ReleaseCmd of a message.                                                *)
LEMMA ReleaseMsgInv ==
    ASSUME RunTypes, RunTypes', MsgTypes, AllMsgs, UNCHANGED <<own, slot, task, leaked>>,
           NEW m \in Msgs, Released(MsgCmd(m)), In(MsgCmd(m)) >= 1,
           ref' = [ref EXCEPT ![m] = @ - 1]
    PROVE  MsgTypes' /\ AllMsgs'
  <1>1. MsgTypes' /\ ref'[m] = ref[m] - 1 /\ \A n \in Msgs \ {m} : ref'[n] = ref[n]
    BY DEF MsgTypes
  <1>2. ASSUME NEW n \in Msgs \ {m} PROVE MsgInv(n)'
    BY <1>1, OthersCounts, UntouchedInv DEF AllMsgs, Untouched
  <1>3. /\ In(MsgCmd(m)) \in Nat /\ Left(MsgCmd(m)) \in Int /\ Left(AsyncCmd(m)) \in Int
        /\ ref[m] \in Int /\ own[m] \in -1 .. 2 /\ MsgInv(m)
    BY CountTypes DEF MsgTypes, AllMsgs
  <1>4. /\ In(MsgCmd(m))' = In(MsgCmd(m)) - 1 /\ Left(MsgCmd(m))' = Left(MsgCmd(m))
        /\ Left(AsyncCmd(m))' = Left(AsyncCmd(m))
    BY <1>3, CmdTypes DEF Released
  <1>5. MsgInv(m)'
    BY <1>1, <1>3, <1>4 DEF MsgInv, Sum
  <1> QED
    BY <1>1, <1>2, <1>5 DEF AllMsgs

-----------------------------------------------------------------------------
(* The ticks *)

(* A tick is under way, in the ticker's hands or in the mailbox, exactly   *)
(* when the flag is set.                                                   *)
TickInv ==
    /\ tickPending \in BOOLEAN /\ ticker \in {"idle", "push"}
    /\ Left(TickCmd) + (IF ticker = "push" THEN 1 ELSE 0) = IF tickPending THEN 1 ELSE 0

(* What TicksAhead counts.                                                 *)
LEMMA TicksAreLeft == TicksAhead = In(TickCmd) + (IF ticker = "push" THEN 1 ELSE 0)
                                   - (IF pc = "release" /\ Head(batch) = TickCmd THEN 1 ELSE 0)
  BY DEF TicksAhead, In, TickCmd

(* A step that handles or pushes no tick.                                  *)
LEMMA TickSame ==
    ASSUME RunTypes, TickInv, UNCHANGED tickVars,
           \/ Same
           \/ \E e \in Cmd : Released(e)
           \/ \E e \in Cmd \ {TickCmd} : Pushed(e) \/ Handled(e)
    PROVE  TickInv'
  <1>1. Left(TickCmd) \in Int /\ TickCmd \in Cmd
    BY InType, CmdTypes
  <1>2. Left(TickCmd)' = Left(TickCmd)
    BY <1>1 DEF Same, Released, Pushed, Handled
  <1> QED
    BY <1>2 DEF TickInv, tickVars

(* A step that leaves queue, batch and pc alone.                           *)
LEMMA SameEffect ==
    ASSUME RunTypes, UNCHANGED <<queue, batch, pc>>
    PROVE  RunTypes' /\ Same
  BY DEF RunTypes, Same, In, Left

-----------------------------------------------------------------------------
(* The inductive invariant of the mailbox *)

MailInv == RunTypes /\ MsgTypes /\ AllMsgs /\ TickInv

(* Nobody has sent anything.                                               *)
LEMMA MailInit == Init => MailInv
  <1> SUFFICES ASSUME Init PROVE MailInv
    OBVIOUS
  <1>1. /\ queue = <<>> /\ batch = <<>> /\ pc = "check"
    BY DEF Init
  <1>2. RunTypes
    BY <1>1 DEF RunTypes
  <1>3. \A c : In(c) = 0 /\ Left(c) = 0
    BY <1>1, OccursEmpty DEF In, Left
  <1>4. MsgTypes
    BY DEF Init, MsgTypes
  <1>5. AllMsgs
    BY <1>3 DEF Init, AllMsgs, MsgInv, Sum
  <1>6. tickPending = FALSE /\ ticker = "idle"
    BY DEF Init
  <1>7. TickInv
    <2>1. tickPending \in BOOLEAN /\ ~tickPending /\ ticker = "idle"
      BY <1>6
    <2>2. Left(TickCmd) = 0
      BY <1>3
    <2> QED
      BY <2>1, <2>2 DEF TickInv
  <1> QED
    BY <1>2, <1>4, <1>5, <1>7 DEF MailInv

(* Steps that leave every message, every task and the ticks alone.         *)
LEMMA QuietStep ==
    ASSUME MailInv, RunTypes', UNCHANGED <<ref, own, slot, task, leaked, tickVars>>,
           \/ Same
           \/ Pushed(FnCmd) \/ Handled(FnCmd)
           \/ \E m \in Msgs : Handled(MsgCmd(m)) \/ Released(AsyncCmd(m))
           \/ Released(FnCmd) \/ Released(TickCmd)
    PROVE  MailInv'
  <1>1. MsgTypes' /\ AllMsgs'
    BY MailboxInv DEF MailInv
  <1>2. \/ Same
        \/ \E e \in Cmd : Released(e)
        \/ \E e \in Cmd \ {TickCmd} : Pushed(e) \/ Handled(e)
    BY CmdTypes
  <1>3. TickInv'
    BY <1>2, TickSame DEF MailInv
  <1> QED
    BY <1>1, <1>3 DEF MailInv

(* The other goroutines: senders and readers of replies.                   *)
LEMMA SenderStep == ASSUME MailInv, NEW m \in Msgs, Sender(m) PROVE MailInv'
  <1>1. RunTypes /\ MsgTypes /\ AllMsgs /\ TickInv /\ MsgCmd(m) \in Cmd \ {TickCmd}
    BY CmdTypes DEF MailInv
  <1>2. UNCHANGED tickVars
    BY DEF Sender, PushMailbox, PushReply, PushToClient, SendRemote, Broadcast,
           SenderRelease, SlotRelease
  <1>3. CASE PushMailbox(m) \/ Broadcast(m)
    <2>1. /\ queue' = Append(queue, MsgCmd(m)) /\ UNCHANGED <<batch, pc, slot, task, leaked>>
          /\ \E held \in 0 .. 2 : Sent(m, held, 1)
      BY <1>3 DEF PushMailbox, Broadcast, Delivered, MsgCmd, restVars, histVars
    <2>2. RunTypes' /\ Pushed(MsgCmd(m))
      BY <1>1, <2>1, PushEffect
    <2>3. MsgTypes' /\ AllMsgs'
      BY <1>1, <2>1, <2>2, SentInv
    <2>4. TickInv'
      BY <1>1, <1>2, <2>2, TickSame
    <2> QED
      BY <2>2, <2>3, <2>4 DEF MailInv
  <1>4. CASE PushReply(m) \/ PushToClient(m) \/ SendRemote(m)
    <2>1. UNCHANGED <<queue, batch, pc>>
      BY <1>4 DEF PushReply, PushToClient, SendRemote, runVars
    <2>2. RunTypes' /\ Same
      BY <1>1, <2>1, SameEffect
    <2>3. PICK held \in 0 .. 2, refs \in 0 .. 1 :
            /\ Sent(m, held, refs)
            /\ \/ refs = 1 /\ slot' = slot \cup {m} /\ UNCHANGED <<task, leaked>>
               \/ refs = 0 /\ UNCHANGED <<slot, task, leaked>>
               \/ /\ refs = 1 /\ task' = [task EXCEPT ![m] = "work"]
                  /\ UNCHANGED <<slot, leaked>>
               \/ refs = 1 /\ leaked' = leaked \cup {m} /\ UNCHANGED <<slot, task>>
      <3>1. CASE PushReply(m)
        BY <3>1 DEF PushReply, Delivered, restVars, histVars
      <3>2. CASE PushToClient(m)
        BY <3>2 DEF PushToClient, Delivered, restVars, histVars
      <3>3. CASE SendRemote(m)
        BY <3>3 DEF SendRemote
      <3> QED
        BY <1>4, <3>1, <3>2, <3>3
    <2>4. MsgTypes' /\ AllMsgs'
      BY <1>1, <2>2, <2>3, SentInv
    <2>5. TickInv'
      BY <1>1, <1>2, <2>2, TickSame
    <2> QED
      BY <2>2, <2>4, <2>5 DEF MailInv
  <1>5. CASE SenderRelease(m) \/ SlotRelease(m)
    <2>1. UNCHANGED <<queue, batch, pc>>
      BY <1>5 DEF SenderRelease, SlotRelease, runVars
    <2>2. RunTypes' /\ Same
      BY <1>1, <2>1, SameEffect
    <2>3. MsgTypes' /\ AllMsgs'
      BY <1>1, <1>5, <2>2, ReleasesInv
    <2>4. TickInv'
      BY <1>1, <1>2, <2>2, TickSame
    <2> QED
      BY <2>2, <2>3, <2>4 DEF MailInv
  <1> QED
    BY <1>3, <1>4, <1>5 DEF Sender

(* The worker pool.                                                        *)
LEMMA WorkerStep == ASSUME MailInv, NEW m \in Msgs, Worker(m) PROVE MailInv'
  <1>1. RunTypes /\ MsgTypes /\ AllMsgs /\ TickInv /\ AsyncCmd(m) \in Cmd \ {TickCmd}
    BY CmdTypes DEF MailInv
  <1>2. /\ UNCHANGED tickVars /\ UNCHANGED <<own, slot>> /\ task[m] = "work"
    BY DEF Worker, WorkDone, WorkCallback, WorkPanic
  <1>3. CASE WorkDone(m) \/ WorkPanic(m)
    <2>1. UNCHANGED <<queue, batch, pc>> /\ (TaskEnds(m) \/ TaskLeaks(m))
      BY <1>3 DEF WorkDone, WorkPanic, TaskEnds, TaskLeaks, runVars, restVars, histVars
    <2>2. RunTypes' /\ Same
      BY <1>1, <2>1, SameEffect
    <2>3. MsgTypes' /\ AllMsgs'
      BY <1>1, <1>2, <2>1, <2>2, TaskInv
    <2>4. TickInv'
      BY <1>1, <1>2, <2>2, TickSame
    <2> QED
      BY <2>2, <2>3, <2>4 DEF MailInv
  <1>4. CASE WorkCallback(m)
    <2>1. /\ queue' = Append(queue, AsyncCmd(m)) /\ UNCHANGED <<batch, pc>> /\ TaskQueued(m)
      BY <1>4 DEF WorkCallback, TaskQueued, AsyncCmd, restVars, histVars
    <2>2. RunTypes' /\ Pushed(AsyncCmd(m))
      BY <1>1, <2>1, PushEffect
    <2>3. MsgTypes' /\ AllMsgs'
      BY <1>1, <1>2, <2>1, <2>2, TaskInv
    <2>4. TickInv'
      BY <1>1, <1>2, <2>2, TickSame
    <2> QED
      BY <2>2, <2>3, <2>4 DEF MailInv
  <1> QED
    BY <1>3, <1>4 DEF Worker

(* Run: the loop, and each kind of command.                                *)
LEMMA LoopStep ==
    ASSUME MailInv, Check \/ Idle \/ Exit \/ RunAgain \/ Dequeue
    PROVE  MailInv'
  <1>1. RunTypes' /\ Same
    BY LoopEffect DEF MailInv
  <1>2. UNCHANGED <<ref, own, slot, task, leaked, tickVars>>
    BY DEF Check, Idle, Exit, RunAgain, Dequeue, restVars, histVars
  <1> QED
    BY <1>1, <1>2, QuietStep

(* Handling: the ticks, a message, a task, a callback, an update.          *)
LEMMA HandleStep ==
    ASSUME MailInv,
           \/ HandleTick \/ HandleMsg \/ AsyncRunWithMsg \/ StartAsyncThen \/ HandleCallback
           \/ RebuildWorkerPool \/ UpdateNumbers
    PROVE  MailInv'
  <1> DEFINE h == Head(batch)
  <1>1. RunTypes /\ MsgTypes /\ AllMsgs /\ TickInv
    BY DEF MailInv
  <1>2. /\ pc = "handle" /\ pc' = "release" /\ UNCHANGED <<queue, batch>>
        /\ UNCHANGED <<own, slot>>
    BY DEF HandleTick, HandleMsg, AsyncRunWithMsg, StartAsyncThen, StartTask, HandleCallback,
           RebuildWorkerPool, UpdateNumbers
  <1>3. RunTypes' /\ Handled(h)
    BY <1>1, <1>2, HandleEffect
  <1>4. h \in Cmd /\ Left(h) >= 1
    BY <1>1, <1>2, HeadLeft
  <1> HIDE DEF h
  <1>5. CASE HandleTick
    <2>1. /\ h = TickCmd /\ tickPending' = FALSE /\ UNCHANGED ticker
          /\ UNCHANGED <<ref, own, slot, task, leaked>>
      BY <1>4, <1>5, CmdCases DEF HandleTick, h, restVars, histVars
    <2>2. MsgTypes' /\ AllMsgs'
      BY <1>1, <1>3, <2>1, MailboxInv
    <2>3. Left(TickCmd)' = Left(TickCmd) - 1 /\ Left(TickCmd) >= 1 /\ Left(TickCmd) \in Int
      BY <1>1, <1>3, <1>4, <2>1, CmdTypes, InType DEF Handled
    <2>4. ticker = "idle" /\ Left(TickCmd) = 1
      BY <1>1, <2>3 DEF TickInv
    <2>5. tickPending' \in BOOLEAN /\ ~tickPending' /\ ticker' = "idle"
      BY <2>1, <2>4
    <2>6. TickInv'
      BY <2>3, <2>4, <2>5 DEF TickInv
    <2> QED
      BY <1>3, <2>2, <2>6 DEF MailInv
  <1>6. CASE HandleMsg
    <2>1. /\ h = MsgCmd(h.msg) /\ h.msg \in Msgs
          /\ UNCHANGED <<ref, own, slot, task, leaked, tickVars>>
      BY <1>4, <1>6, CmdCases DEF HandleMsg, h, restVars, histVars
    <2> QED
      BY <1>3, <2>1, QuietStep
  <1>7. CASE AsyncRunWithMsg \/ StartAsyncThen
    <2>1. PICK m \in Msgs : /\ h = MsgCmd(m) /\ UNCHANGED <<tickVars, leaked>>
                            /\ task' = [task EXCEPT ![m] = "work"]
                            /\ ref' = [ref EXCEPT ![m] = @ + 1]
      <3>1. /\ h.type = "msg" /\ UNCHANGED <<tickVars, leaked>>
            /\ task' = [task EXCEPT ![h.msg] = "work"]
            /\ ref' = [ref EXCEPT ![h.msg] = @ + 1]
        BY <1>7 DEF AsyncRunWithMsg, StartAsyncThen, StartTask, h, restVars, histVars
      <3>2. h.msg \in Msgs /\ h = MsgCmd(h.msg)
        BY <1>4, <3>1, CmdCases
      <3> QED
        BY <3>1, <3>2
    <2>2. Left(MsgCmd(m)) >= 1 /\ Handled(MsgCmd(m))
      BY <1>3, <1>4, <2>1
    <2>3. TaskStarts(m)
      BY <1>1, <2>1, <2>2 DEF AllMsgs, MsgInv, TaskStarts
    <2>4. MsgTypes' /\ AllMsgs'
      BY <1>1, <1>2, <1>3, <2>2, <2>3, TaskInv
    <2>5. TickInv'
      BY <1>1, <2>1, <2>2, TickSame, CmdTypes
    <2> QED
      BY <1>3, <2>4, <2>5 DEF MailInv
  <1>8. CASE HandleCallback
    <2>1. PICK m \in Msgs : /\ h = AsyncCmd(m) /\ UNCHANGED <<tickVars, leaked>>
                            /\ task' = [task EXCEPT ![m] = "none"]
                            /\ ref' = [ref EXCEPT ![m] = @ - 1]
      <3>1. /\ h.type = "async" /\ UNCHANGED <<tickVars, leaked>>
            /\ task' = [task EXCEPT ![h.msg] = "none"]
            /\ ref' = [ref EXCEPT ![h.msg] = @ - 1]
        BY <1>8 DEF HandleCallback, h
      <3>2. h.msg \in Msgs /\ h = AsyncCmd(h.msg)
        BY <1>4, <3>1, CmdCases
      <3> QED
        BY <3>1, <3>2
    <2>2. Left(AsyncCmd(m)) >= 1 /\ Handled(AsyncCmd(m))
      BY <1>3, <1>4, <2>1
    <2>3. task[m] = "callback" /\ TaskEnds(m)
      BY <1>1, <2>1, <2>2 DEF AllMsgs, MsgInv, TaskEnds
    <2>4. MsgTypes' /\ AllMsgs'
      BY <1>1, <1>2, <1>3, <2>2, <2>3, TaskInv
    <2>5. TickInv'
      BY <1>1, <2>1, <2>2, TickSame, CmdTypes
    <2> QED
      BY <1>3, <2>4, <2>5 DEF MailInv
  <1>9. CASE RebuildWorkerPool \/ UpdateNumbers
    <2>1. h = FnCmd /\ UNCHANGED <<ref, own, slot, task, leaked, tickVars>>
      BY <1>4, <1>9, CmdCases DEF RebuildWorkerPool, UpdateNumbers, h, restVars, histVars
    <2> QED
      BY <1>3, <2>1, QuietStep
  <1> QED
    BY <1>5, <1>6, <1>7, <1>8, <1>9

(* A command is released.                                                  *)
LEMMA ReleaseStep == ASSUME MailInv, ReleaseCmd PROVE MailInv'
  <1> DEFINE h == Head(batch)
  <1>1. RunTypes /\ MsgTypes /\ AllMsgs /\ TickInv
    BY DEF MailInv
  <1>2. /\ pc = "release" /\ UNCHANGED <<queue, own, slot, task, leaked, tickVars>>
        /\ ref' = IF h.type = "msg" THEN [ref EXCEPT ![h.msg] = @ - 1] ELSE ref
    BY DEF ReleaseCmd, restVars, histVars
  <1>3. RunTypes' /\ Released(h)
    BY <1>1, ReleaseEffect DEF ReleaseCmd
  <1>4. h \in Cmd /\ In(h) >= 1
    BY <1>1, <1>2, HeadLeft
  <1> HIDE DEF h
  <1>5. CASE h.type = "msg"
    <2>1. PICK m \in Msgs : h = MsgCmd(m) /\ ref' = [ref EXCEPT ![m] = @ - 1]
      BY <1>2, <1>4, <1>5, CmdCases
    <2>2. MsgTypes' /\ AllMsgs'
      BY <1>1, <1>2, <1>3, <1>4, <2>1, ReleaseMsgInv
    <2>3. TickInv'
      BY <1>1, <1>2, <1>3, <1>4, TickSame
    <2> QED
      BY <1>3, <2>2, <2>3 DEF MailInv
  <1>6. CASE h.type # "msg"
    <2>1. Released(FnCmd) \/ Released(TickCmd) \/ \E m \in Msgs : Released(AsyncCmd(m))
      BY <1>3, <1>4, <1>6, CmdCases
    <2> QED
      BY <1>2, <1>3, <1>6, <2>1, QuietStep
  <1> QED
    BY <1>5, <1>6

(* The ticker, hot updates and shutdown.                                   *)
LEMMA OtherStep ==
    ASSUME MailInv, \/ TickMark \/ TickPush \/ SafeUpdate \/ CloseSignal \/ CloseRelease
                    \/ Cancel \/ UNCHANGED vars
    PROVE  MailInv'
  <1>1. RunTypes /\ MsgTypes /\ AllMsgs /\ TickInv
    BY DEF MailInv
  <1>2. UNCHANGED <<ref, own, slot, task, leaked, batch, pc>>
    BY DEF TickMark, TickPush, SafeUpdate, CloseSignal, CloseRelease, Cancel, vars,
           runVars, restVars, histVars
  <1>3. CASE TickMark
    <2>1. /\ ticker = "idle" /\ ~tickPending /\ tickPending' = TRUE /\ ticker' = "push"
          /\ UNCHANGED queue
      BY <1>3 DEF TickMark, runVars
    <2>2. RunTypes' /\ Same
      BY <1>1, <1>2, <2>1, SameEffect
    <2>3. MsgTypes' /\ AllMsgs'
      BY <1>1, <1>2, <2>2, MailboxInv
    <2>4. Left(TickCmd)' = Left(TickCmd) /\ Left(TickCmd) \in Int
      BY <1>1, <2>2, CmdTypes, InType DEF Same
    <2>5. tickPending' \in BOOLEAN /\ tickPending' /\ Left(TickCmd) = 0
      BY <1>1, <2>1, <2>4 DEF TickInv
    <2>6. TickInv'
      BY <2>1, <2>4, <2>5 DEF TickInv
    <2> QED
      BY <2>2, <2>3, <2>6 DEF MailInv
  <1>4. CASE TickPush
    <2>1. /\ queue' = Append(queue, TickCmd) /\ ticker = "push" /\ ticker' = "idle"
          /\ UNCHANGED tickPending
      BY <1>4 DEF TickPush, TickCmd
    <2>2. RunTypes' /\ Pushed(TickCmd)
      BY <1>1, <1>2, <2>1, PushEffect, CmdTypes
    <2>3. MsgTypes' /\ AllMsgs'
      BY <1>1, <1>2, <2>2, MailboxInv
    <2>4. Left(TickCmd)' = Left(TickCmd) + 1 /\ Left(TickCmd) \in Int
      BY <1>1, <2>2, CmdTypes, InType DEF Pushed
    <2>5. TickInv'
      BY <1>1, <2>1, <2>4 DEF TickInv
    <2> QED
      BY <2>2, <2>3, <2>5 DEF MailInv
  <1>5. CASE SafeUpdate
    <2>1. queue' = Append(queue, FnCmd) /\ UNCHANGED tickVars
      BY <1>5 DEF SafeUpdate, FnCmd
    <2>2. RunTypes' /\ Pushed(FnCmd)
      BY <1>1, <1>2, <2>1, PushEffect, CmdTypes
    <2> QED
      BY <1>2, <2>1, <2>2, QuietStep
  <1>6. CASE CloseSignal \/ CloseRelease \/ Cancel \/ UNCHANGED vars
    <2>1. UNCHANGED <<queue, tickVars>>
      BY <1>6 DEF CloseSignal, CloseRelease, Cancel, vars, runVars
    <2>2. RunTypes' /\ Same
      BY <1>1, <1>2, <2>1, SameEffect
    <2> QED
      BY <1>2, <2>1, <2>2, QuietStep
  <1> QED
    BY <1>3, <1>4, <1>5, <1>6

(* The invariant is inductive.                                             *)
LEMMA MailStep == MailInv /\ [Next]_vars => MailInv'
  <1> SUFFICES ASSUME MailInv, [Next]_vars PROVE MailInv'
    OBVIOUS
  <1>1. CASE \E m \in Msgs : Sender(m) \/ Worker(m)
    BY <1>1, SenderStep, WorkerStep
  <1>2. CASE Run \/ RunAgain
    BY <1>2, LoopStep, HandleStep, ReleaseStep DEF Run
  <1>3. CASE \/ TickMark \/ TickPush \/ SafeUpdate \/ CloseSignal \/ CloseRelease
             \/ Cancel \/ UNCHANGED vars
    BY <1>3, OtherStep
  <1> QED
    BY <1>1, <1>2, <1>3 DEF Next

-----------------------------------------------------------------------------
(* Reference counts and ticks *)

(* What Holders counts.                                                    *)
LEMMA HoldersSum ==
    ASSUME RunTypes, MsgTypes, NEW m \in Msgs
    PROVE  Holders(m) = Sum(m)
  <1>1. own[m] \in -1 .. 2
    BY DEF MsgTypes
  <1>2. (IF own[m] > 0 THEN 1 ELSE 0) * own[m] = IF own[m] > 0 THEN own[m] ELSE 0
    BY <1>1
  <1>3. Occurs(queue, MsgCmd(m)) \in Nat /\ Occurs(batch, MsgCmd(m)) \in Nat
    BY OccursNat DEF RunTypes
  <1>4. Holders(m) = (IF own[m] > 0 THEN 1 ELSE 0) * own[m] + (IF m \in slot THEN 1 ELSE 0)
                     + (IF task[m] # "none" THEN 1 ELSE 0) + (IF m \in leaked THEN 1 ELSE 0)
                     + Occurs(queue, MsgCmd(m)) + Occurs(batch, MsgCmd(m))
    BY DEF Holders, MsgCmd
  <1> QED
    BY <1>1, <1>2, <1>3, <1>4 DEF Sum, In

(* The invariant holds of every leg: the other two leave the mailbox alone. *)
LEMMA MailInductive == DeliverySpec => []MailInv
  <1>1. DeliveryInit => MailInv
    BY MailInit DEF DeliveryInit
  <1>2. MailInv /\ [DeliveryNext]_deliveryVars => MailInv'
    BY OneLeg, MailStep
  <1> QED
    BY <1>1, <1>2, PTL DEF DeliverySpec

(* The reference count of a pooled message is the number of its users at    *)
(* every moment, over every interleaving of senders, the ticker, the        *)
(* workers, hot updates and shutdown: the pool (zmsg/msgpool.go Release)    *)
(* gets a message back neither while it is used nor twice.                  *)
THEOREM RefsAreExact == DeliverySpec => []RefsExact
  <1>1. MailInv => RefsExact
    BY HoldersSum DEF MailInv, AllMsgs, MsgInv, RefsExact
  <1> QED
    BY <1>1, MailInductive, PTL

(* MarkTickPending (zactor/base.go) and the order in which CmdTypeTick      *)
(* clears the flag keep at most one tick under way, and never leave the     *)
(* flag set with none.                                                      *)
THEOREM TicksAreCoalesced == DeliverySpec => []TicksCoalesce
  <1>1. ASSUME MailInv PROVE TicksCoalesce
    <2>1. In(TickCmd) \in Nat
      BY <1>1, InType, CmdTypes DEF MailInv
    <2>2. TicksAhead = Left(TickCmd) + (IF ticker = "push" THEN 1 ELSE 0)
      BY <2>1, TicksAreLeft DEF Left
    <2>3. Left(TickCmd) + (IF ticker = "push" THEN 1 ELSE 0) = IF tickPending THEN 1 ELSE 0
      BY <1>1 DEF MailInv, TickInv
    <2> QED
      BY <2>2, <2>3 DEF TicksCoalesce
  <1> QED
    BY <1>1, MailInductive, PTL

-----------------------------------------------------------------------------
(* Shutdown *)

Signalled == cancelled \/ closing # "no"

(* Run stops only when it is told to, what was in the mailbox then has been *)
(* sent, so that nobody sends it again, and none of it is there when Run    *)
(* has returned.                                                            *)
DrainInv ==
    /\ cancelled \in BOOLEAN /\ shouldExit \in BOOLEAN
    /\ shouldExit => Signalled
    /\ pc = "exited" => Signalled
    /\ due \subseteq Msgs /\ \A m \in due : own[m] # -1
    /\ pc = "exited" => \A m \in due : In(MsgCmd(m)) = 0

(* InMailbox is what the commands that are counted say.                     *)
LEMMA MailboxCounts ==
    ASSUME RunTypes, NEW m \in InMailbox
    PROVE  m \in Msgs /\ In(MsgCmd(m)) >= 1
  <1>1. PICK c \in ToSet(queue) \cup ToSet(batch) : c.type = "msg" /\ c.msg = m
    BY DEF InMailbox
  <1>2. PICK s \in {queue, batch} : c \in ToSet(s)
    BY <1>1
  <1>3. s \in Seq(Cmd)
    BY DEF RunTypes
  <1>4. PICK i \in 1 .. Len(s) : s[i] = c
    BY <1>2, <1>3, LenProperties DEF ToSet
  <1>5. c \in Cmd
    BY <1>3, <1>4, ElementOfSeq
  <1>6. m \in Msgs /\ c = MsgCmd(m)
    BY <1>1, <1>5, CmdCases
  <1>7. Occurs(s, c) \in Nat /\ Occurs(s, c) # 0
    BY <1>3, <1>4, OccursType
  <1>8. Occurs(queue, c) \in Nat /\ Occurs(batch, c) \in Nat
    BY OccursNat DEF RunTypes
  <1> QED
    BY <1>2, <1>6, <1>7, <1>8 DEF In

(* A step that neither shutdown nor Run has a part in.                      *)
LEMMA DrainQuiet ==
    ASSUME DrainInv, UNCHANGED <<pc, shouldExit, downVars>>,
           \A m \in due : own'[m] # -1 /\ In(MsgCmd(m))' = In(MsgCmd(m))
    PROVE  DrainInv'
  BY DEF DrainInv, Signalled, downVars

(* A step after which Run has not returned.                                 *)
LEMMA DrainRuns ==
    ASSUME DrainInv, pc' # "exited", UNCHANGED <<own, downVars>>,
           shouldExit' \in {shouldExit, FALSE, shouldExit \/ cancelled \/ closing # "no"}
    PROVE  DrainInv'
  <1>1. UNCHANGED <<cancelled, closing, due>>
    BY DEF downVars
  <1>2. shouldExit' \in BOOLEAN /\ (shouldExit' => Signalled')
    BY <1>1 DEF DrainInv, Signalled
  <1> QED
    BY <1>1, <1>2 DEF DrainInv

(* Senders and workers add nothing to what was there at shutdown.           *)
LEMMA DrainOthers ==
    ASSUME MailInv, DrainInv, NEW m \in Msgs, Sender(m) \/ Worker(m)
    PROVE  DrainInv'
  <1>1. RunTypes /\ MsgTypes /\ \A n \in due : own[n] # -1 /\ n \in Msgs
    BY DEF MailInv, DrainInv
  <1>2. UNCHANGED <<pc, shouldExit, downVars, batch>>
    BY DEF Sender, PushMailbox, PushReply, PushToClient, SendRemote, Broadcast, SenderRelease,
           SlotRelease, Worker, WorkDone, WorkCallback, WorkPanic, runVars
  <1>3. /\ \/ UNCHANGED own
           \/ own[m] = -1 /\ \E held \in 0 .. 2 : own' = [own EXCEPT ![m] = held]
           \/ own[m] > 0 /\ own' = [own EXCEPT ![m] = @ - 1]
        /\ \/ UNCHANGED queue
           \/ queue' = Append(queue, AsyncCmd(m))
           \/ queue' = Append(queue, MsgCmd(m)) /\ own[m] = -1
    <2>1. CASE PushMailbox(m) \/ PushReply(m) \/ PushToClient(m) \/ SendRemote(m) \/ Broadcast(m)
      BY <2>1 DEF PushMailbox, PushReply, PushToClient, SendRemote, Broadcast, Delivered, Sent,
                  runVars, MsgCmd
    <2>2. CASE SenderRelease(m) \/ SlotRelease(m)
      BY <2>2 DEF SenderRelease, SlotRelease, runVars
    <2>3. CASE Worker(m)
      BY <2>3 DEF Worker, WorkDone, WorkCallback, WorkPanic, runVars, AsyncCmd
    <2> QED
      BY <2>1, <2>2, <2>3 DEF Sender
  <1>4. ASSUME NEW n \in due PROVE own'[n] # -1
    BY <1>1, <1>3 DEF MsgTypes
  <1>5. Same \/ Pushed(AsyncCmd(m)) \/ (Pushed(MsgCmd(m)) /\ own[m] = -1)
    BY <1>1, <1>2, <1>3, SameEffect, PushEffect, CmdTypes
  <1>6. ASSUME NEW n \in due PROVE In(MsgCmd(n))' = In(MsgCmd(n))
    <2>1. MsgCmd(n) \in Cmd /\ MsgCmd(n) # AsyncCmd(m) /\ (MsgCmd(n) = MsgCmd(m) => n = m)
      BY <1>1, CmdTypes
    <2>2. In(MsgCmd(n)) \in Nat
      BY <1>1, CountTypes
    <2> QED
      BY <1>1, <1>5, <2>1, <2>2 DEF Same, Pushed
  <1> QED
    BY <1>2, <1>4, <1>6, DrainQuiet

(* Run returns with its mailbox empty, and is called again.                 *)
LEMMA DrainRun ==
    ASSUME MailInv, DrainInv, Run \/ RunAgain
    PROVE  DrainInv'
  <1>1. CASE Exit
    <2>1. /\ pc = "dequeue" /\ shouldExit /\ queue = <<>> /\ pc' = "exited"
          /\ UNCHANGED <<own, queue, batch, shouldExit, downVars>>
      BY <1>1 DEF Exit
    <2>2. batch = <<>>
      BY <2>1 DEF MailInv, RunTypes
    <2>3. ASSUME NEW m \in due' PROVE In(MsgCmd(m))' = 0
      BY <2>1, <2>2, OccursEmpty DEF In
    <2>4. UNCHANGED <<cancelled, closing, due>> /\ Signalled
      BY <2>1 DEF downVars, DrainInv
    <2> QED
      BY <2>1, <2>3, <2>4 DEF DrainInv, Signalled
  <1>2. CASE Check
    <2>1. /\ pc' # "exited" /\ UNCHANGED <<own, downVars>>
          /\ shouldExit' = (shouldExit \/ cancelled \/ closing # "no")
      BY <1>2 DEF Check
    <2> QED
      BY <2>1, DrainRuns
  <1>3. CASE RunAgain
    <2>1. pc' # "exited" /\ UNCHANGED <<own, downVars>> /\ shouldExit' = FALSE
      BY <1>3 DEF RunAgain
    <2> QED
      BY <2>1, DrainRuns
  <1>4. CASE \/ Dequeue \/ Idle \/ HandleTick \/ HandleMsg \/ AsyncRunWithMsg
             \/ StartAsyncThen \/ HandleCallback \/ ReleaseCmd \/ RebuildWorkerPool
             \/ UpdateNumbers
    <2>1. pc' # "exited" /\ UNCHANGED <<own, downVars>> /\ UNCHANGED shouldExit
      BY <1>4 DEF Dequeue, Idle, HandleTick, HandleMsg, AsyncRunWithMsg, StartAsyncThen,
                  StartTask, HandleCallback, ReleaseCmd, RebuildWorkerPool, UpdateNumbers
    <2> QED
      BY <2>1, DrainRuns
  <1> QED
    BY <1>1, <1>2, <1>3, <1>4 DEF Run

(* The signals themselves.                                                  *)
LEMMA DrainSignal ==
    ASSUME MailInv, DrainInv, CloseSignal \/ Cancel
    PROVE  DrainInv'
  <1>1. /\ UNCHANGED <<own, queue, batch, pc, shouldExit>> /\ Signalled' /\ cancelled' \in BOOLEAN
        /\ due' = IF Signalled THEN due ELSE InMailbox
    BY DEF CloseSignal, Cancel, NoteDue, Signalled, runVars, DrainInv
  <1>2. RunTypes /\ MsgTypes /\ AllMsgs
    BY DEF MailInv
  <1>3. ASSUME NEW m \in InMailbox PROVE m \in Msgs /\ own[m] # -1
    BY <1>2, MailboxCounts DEF AllMsgs, MsgInv
  <1>4. due' \subseteq Msgs /\ \A m \in due' : own'[m] # -1
    BY <1>1, <1>3 DEF DrainInv
  <1>5. pc' = "exited" => due' = due /\ \A m \in due : In(MsgCmd(m))' = 0
    BY <1>1 DEF DrainInv, In
  <1>6. shouldExit' \in BOOLEAN
    BY <1>1 DEF DrainInv
  <1> QED
    BY <1>1, <1>4, <1>5, <1>6 DEF DrainInv

(* The ticker, hot updates and the release of the pool.                    *)
LEMMA DrainOther ==
    ASSUME MailInv, DrainInv,
           TickMark \/ TickPush \/ SafeUpdate \/ CloseRelease \/ UNCHANGED vars
    PROVE  DrainInv'
  <1>1. RunTypes
    BY DEF MailInv
  <1>2. /\ UNCHANGED <<own, batch, pc, shouldExit>>
        /\ \/ UNCHANGED queue
           \/ queue' = Append(queue, TickCmd)
           \/ queue' = Append(queue, FnCmd)
    BY DEF TickMark, TickPush, SafeUpdate, CloseRelease, vars, runVars, TickCmd, FnCmd
  <1>3. Same \/ Pushed(TickCmd) \/ Pushed(FnCmd)
    BY <1>1, <1>2, SameEffect, PushEffect, CmdTypes
  <1>4. ASSUME NEW m \in due PROVE own'[m] # -1 /\ In(MsgCmd(m))' = In(MsgCmd(m))
    <2>1. m \in Msgs /\ own[m] # -1
      BY DEF DrainInv
    <2>2. MsgCmd(m) \in Cmd /\ MsgCmd(m) \notin {TickCmd, FnCmd} /\ In(MsgCmd(m)) \in Nat
      BY <1>1, <2>1, CmdTypes, CountTypes
    <2> QED
      BY <1>2, <1>3, <2>1, <2>2 DEF Same, Pushed
  <1>5. CASE CloseRelease
    <2>1. /\ closing = "signalled" /\ closing' = "released" /\ UNCHANGED <<cancelled, due>>
      BY <1>5 DEF CloseRelease
    <2>2. Signalled /\ Signalled' /\ cancelled' \in BOOLEAN /\ shouldExit' \in BOOLEAN
      BY <1>2, <2>1 DEF DrainInv, Signalled
    <2> QED
      BY <1>2, <1>4, <2>1, <2>2 DEF DrainInv
  <1>6. CASE TickMark \/ TickPush \/ SafeUpdate \/ UNCHANGED vars
    <2>1. UNCHANGED downVars
      BY <1>6 DEF TickMark, TickPush, SafeUpdate, vars
    <2> QED
      BY <1>2, <1>4, <2>1, DrainQuiet
  <1> QED
    BY <1>5, <1>6

(* Graceful shutdown (zactor/base.go Run): when Run returns, no message     *)
(* that was in the mailbox when shutdown was signalled is left in it,       *)
(* whoever goes on sending, and however often Run is called again.  This is *)
(* the safety half of ShutdownDrains.                                       *)
THEOREM ShutdownDrained == DeliverySpec => []DrainedOnExit
  <1>1. DeliveryInit => DrainInv
    <2> SUFFICES ASSUME DeliveryInit PROVE DrainInv
      OBVIOUS
    <2>1. Init
      BY DEF DeliveryInit
    <2>2. cancelled = FALSE /\ shouldExit = FALSE /\ pc = "check" /\ due = {}
      BY <2>1 DEF Init
    <2>3. cancelled \in BOOLEAN /\ shouldExit \in BOOLEAN /\ ~shouldExit
      BY <2>2
    <2> QED
      BY <2>2, <2>3 DEF DrainInv
  <1>2. ASSUME MailInv, DrainInv, [Next]_vars PROVE DrainInv'
    BY <1>2, DrainOthers, DrainRun, DrainSignal, DrainOther DEF Next
  <1>3. MailInv /\ DrainInv /\ [DeliveryNext]_deliveryVars => DrainInv'
    BY <1>2, OneLeg
  <1>4. ASSUME MailInv, DrainInv PROVE DrainedOnExit
    BY <1>4, MailboxCounts DEF MailInv, DrainInv, DrainedOnExit
  <1> QED
    BY <1>1, <1>3, <1>4, MailInductive, PTL DEF DeliverySpec

-----------------------------------------------------------------------------
(* Subscriptions *)

SubTypes ==
    /\ apc \in [BusActors -> {"init", "open", "close", "closed"}]
    /\ done \in [BusActors -> Nat] /\ handles \in [BusActors -> SUBSET Subs]

(* The subscriptions of an actor that the server knows are among the        *)
(* actor's handles, and nobody else's handles are; while it opens and while *)
(* it is open, each topic it has gone through is heard, or its subscription *)
(* failed or was taken away.                                                *)
SubInv ==
    /\ SubTypes
    /\ \A a \in BusActors : apc[a] = "init" => done[a] < Len(TopicsOf[a])
    /\ \A a \in BusActors : apc[a] = "open" => done[a] = Len(TopicsOf[a])
    /\ \A a \in BusActors : apc[a] \in {"init", "open"} =>
          \A i \in 1 .. done[a] : <<a, TopicsOf[a][i]>> \in live \cup missed \cup cut
    /\ \A a \in BusActors : \A s \in handles[a] : s[1] = a
    /\ \A s \in live : s \in Subs /\ s \in handles[s[1]]
    /\ \A a \in BusActors : apc[a] = "closed" => handles[a] = {}

(* An actor has topics, and a next one while it opens.                      *)
LEMMA TopicsAre ==
    ASSUME NEW a \in BusActors
    PROVE  /\ Len(TopicsOf[a]) \in Nat \ {0} /\ DOMAIN TopicsOf[a] = 1 .. Len(TopicsOf[a])
           /\ \A i \in 1 .. Len(TopicsOf[a]) : <<a, TopicsOf[a][i]>> \in Subs
  <1>1. TopicsOf[a] \in Seq(Topics) /\ TopicsOf[a] # <<>>
    BY BusAssumption
  <1>2. Len(TopicsOf[a]) \in Nat \ {0} /\ DOMAIN TopicsOf[a] = 1 .. Len(TopicsOf[a])
    BY <1>1, EmptySeq, LenProperties
  <1>3. ASSUME NEW i \in 1 .. Len(TopicsOf[a]) PROVE <<a, TopicsOf[a][i]>> \in Subs
    <2>1. TopicsOf[a][i] \in TopicSet(a) /\ TopicsOf[a][i] \in Topics
      BY <1>1, <1>2, ElementOfSeq DEF TopicSet
    <2> QED
      BY <2>1 DEF Subs
  <1> QED
    BY <1>2, <1>3

(* Nobody has subscribed.                                                  *)
LEMMA SubInit == BusInit => SubInv
  <1> SUFFICES ASSUME BusInit PROVE SubInv
    OBVIOUS
  <1>1. /\ apc = [a \in BusActors |-> "init"] /\ done = [a \in BusActors |-> 0]
        /\ handles = [a \in BusActors |-> {}] /\ live = {}
    BY DEF BusInit
  <1>2. \A a \in BusActors : 0 < Len(TopicsOf[a])
    BY TopicsAre
  <1> QED
    BY <1>1, <1>2 DEF SubInv, SubTypes

(* Init subscribes to the next topic, or fails to.                          *)
LEMMA SubscribeStep ==
    ASSUME SubInv, NEW a \in BusActors, SubscribeCall(a) \/ SubscribeFails(a)
    PROVE  SubInv'
  <1> DEFINE s == <<a, NextTopic(a)>>
  <1>1. /\ apc[a] = "init" /\ done' = [done EXCEPT ![a] = @ + 1]
        /\ apc' = IF done[a] + 1 = Len(TopicsOf[a]) THEN [apc EXCEPT ![a] = "open"] ELSE apc
        /\ cut' = cut
    BY DEF SubscribeCall, SubscribeFails, Advance
  <1>2. \/ live' = live \cup {s} /\ handles' = [handles EXCEPT ![a] = @ \cup {s}]
           /\ missed' = missed
        \/ live' = live /\ handles' = handles /\ missed' = missed \cup {s}
    BY DEF SubscribeCall, SubscribeFails, AddHandle
  <1>3. /\ done[a] \in Nat /\ done[a] + 1 \in 1 .. Len(TopicsOf[a]) /\ Len(TopicsOf[a]) \in Nat
        /\ done'[a] = done[a] + 1
    BY <1>1, TopicsAre DEF SubInv, SubTypes
  <1>4. s \in Subs /\ s[1] = a /\ s = <<a, TopicsOf[a][done[a] + 1]>>
    BY <1>3, TopicsAre DEF NextTopic
  <1> HIDE DEF s
  <1>5. \A b \in BusActors \ {a} : apc'[b] = apc[b] /\ done'[b] = done[b]
    BY <1>1 DEF SubInv, SubTypes
  <1>6. SubTypes'
    <2>1. SubTypes
      BY DEF SubInv
    <2>2. handles' \in [BusActors -> SUBSET Subs]
      BY <1>2, <1>4, <2>1 DEF SubTypes
    <2>3. /\ apc' \in [BusActors -> {"init", "open", "close", "closed"}]
          /\ done' \in [BusActors -> Nat]
      BY <1>1, <2>1 DEF SubTypes
    <2> QED
      BY <2>2, <2>3 DEF SubTypes
  <1>7. apc'[a] = IF done[a] + 1 = Len(TopicsOf[a]) THEN "open" ELSE "init"
    BY <1>1 DEF SubInv, SubTypes
  <1>8. ASSUME NEW b \in BusActors
        PROVE  /\ apc'[b] = "init" => done'[b] < Len(TopicsOf[b])
               /\ apc'[b] = "open" => done'[b] = Len(TopicsOf[b])
    BY <1>3, <1>5, <1>7 DEF SubInv, SubTypes
  <1>9. ASSUME NEW b \in BusActors, apc'[b] \in {"init", "open"}, NEW i \in 1 .. done'[b]
        PROVE  <<b, TopicsOf[b][i]>> \in live' \cup missed' \cup cut'
    <2>1. CASE b = a /\ i = done[a] + 1
      BY <1>2, <1>4, <2>1
    <2>2. CASE ~(b = a /\ i = done[a] + 1)
      <3>1. apc[b] \in {"init", "open"} /\ i \in 1 .. done[b]
        BY <1>1, <1>3, <1>5, <1>9, <2>2
      <3> QED
        BY <1>1, <1>2, <3>1 DEF SubInv, SubTypes
    <2> QED
      BY <2>1, <2>2
  <1>10. ASSUME NEW b \in BusActors, NEW x \in handles'[b] PROVE x[1] = b
    BY <1>2, <1>4 DEF SubInv, SubTypes
  <1>11. ASSUME NEW x \in live' PROVE x \in Subs /\ x \in handles'[x[1]]
    <2>1. x \in Subs /\ (x \in live \/ x = s) /\ x[1] \in BusActors
      BY <1>2, <1>4 DEF SubInv, SubTypes, Subs
    <2>2. handles[x[1]] \subseteq handles'[x[1]] /\ handles[a] \subseteq handles'[a]
      BY <1>2, <2>1 DEF SubInv, SubTypes
    <2>3. CASE x \in live
      BY <2>2, <2>3 DEF SubInv, SubTypes
    <2>4. CASE x = s /\ x \notin live
      <3>1. s \in handles'[a]
        BY <1>2, <2>4 DEF SubInv, SubTypes
      <3> QED
        BY <1>4, <2>1, <2>4, <3>1
    <2> QED
      BY <2>1, <2>3, <2>4
  <1>12. ASSUME NEW b \in BusActors, apc'[b] = "closed" PROVE handles'[b] = {}
    BY <1>2, <1>5, <1>7, <1>12 DEF SubInv, SubTypes
  <1> QED
    BY <1>6, <1>8, <1>9, <1>10, <1>11, <1>12 DEF SubInv, SubTypes

(* Close begins, cancels a handle, ends.                                    *)
LEMMA CloseActorStep ==
    ASSUME SubInv, NEW a \in BusActors, BeginClose(a) \/ CloseStep(a)
    PROVE  SubInv'
  <1>1. UNCHANGED <<done, missed, cut>>
    BY DEF BeginClose, CloseStep, UnsubscribeHandle, EndClose
  <1>2. CASE BeginClose(a) \/ EndClose(a)
    <2>1. /\ UNCHANGED <<live, handles>>
          /\ \/ apc' = [apc EXCEPT ![a] = "close"]
             \/ apc' = [apc EXCEPT ![a] = "closed"] /\ handles[a] = {}
      BY <1>2 DEF BeginClose, EndClose
    <2> QED
      BY <1>1, <2>1 DEF SubInv, SubTypes
  <1>3. CASE UnsubscribeHandle(a)
    <2>1. PICK s \in handles[a] : /\ handles' = [handles EXCEPT ![a] = @ \ {s}]
                                  /\ live' = live \ {s}
      BY <1>3 DEF UnsubscribeHandle, Unsubscribed
    <2>2. apc[a] = "close" /\ apc' = apc /\ s[1] = a
      BY <1>3, <2>1 DEF UnsubscribeHandle, SubInv, SubTypes
    <2>3. handles' \in [BusActors -> SUBSET Subs]
      BY <2>1 DEF SubInv, SubTypes
    <2>4. ASSUME NEW b \in BusActors, apc'[b] \in {"init", "open"}, NEW i \in 1 .. done'[b]
          PROVE  <<b, TopicsOf[b][i]>> \in live' \cup missed' \cup cut'
      <3>1. <<b, TopicsOf[b][i]>> \in live \cup missed \cup cut /\ b # a
        BY <1>1, <2>2, <2>4 DEF SubInv, SubTypes
      <3>2. <<b, TopicsOf[b][i]>> # s
        BY <2>2, <3>1
      <3> QED
        BY <1>1, <2>1, <3>1, <3>2
    <2>5. ASSUME NEW x \in live' PROVE x \in Subs /\ x \in handles'[x[1]]
      <3>1. x \in live /\ x # s /\ x \in Subs /\ x[1] \in BusActors
        BY <2>1 DEF SubInv, SubTypes, Subs
      <3> QED
        BY <2>1, <3>1 DEF SubInv, SubTypes
    <2>6. \A b \in BusActors : handles'[b] \subseteq handles[b]
      BY <2>1 DEF SubInv, SubTypes
    <2> QED
      BY <1>1, <2>2, <2>3, <2>4, <2>5, <2>6 DEF SubInv, SubTypes
  <1> QED
    BY <1>2, <1>3 DEF CloseStep

(* The application takes a topic or the connection away: live shrinks, and  *)
(* cut notes it.                                                            *)
LEMMA SubStep == SubInv /\ [BusNext]_busVars => SubInv'
  <1> SUFFICES ASSUME SubInv, [BusNext]_busVars PROVE SubInv'
    OBVIOUS
  <1>1. CASE \E a \in BusActors : SubscribeCall(a) \/ SubscribeFails(a)
    BY <1>1, SubscribeStep
  <1>2. CASE \E a \in BusActors : BeginClose(a) \/ CloseStep(a)
    BY <1>2, CloseActorStep
  <1>3. CASE (\E c \in Clients : CloseClient(c)) \/ (\E t \in Topics : UnSubscribe(t))
    <2>1. /\ UNCHANGED <<apc, done, handles, missed>>
          /\ live' \subseteq live /\ live \cup cut = live' \cup cut'
      BY <1>3 DEF CloseClient, UnSubscribe
    <2> QED
      BY <2>1 DEF SubInv, SubTypes
  <1>4. CASE \/ ConnectStep \/ UNCHANGED busVars
             \/ \E c \in Clients : RouteMsg(c)
             \/ \E t \in Published : PoolBroadcast(t)
    <2>1. UNCHANGED subVars
      BY <1>4 DEF ConnectStep, Connects, ConnectFails, ConnectCancelled, RouteMsg,
                  PoolBroadcast, busVars
    <2> QED
      BY <2>1 DEF SubInv, SubTypes, subVars
  <1> QED
    BY <1>1, <1>2, <1>3, <1>4 DEF BusNext

-----------------------------------------------------------------------------
(* The order of publications *)

Note == [topic : Published, id : Nat]

(* With one client, the messages on its connection are numbered upwards,    *)
(* from those delivered already to those published so far.                  *)
PipeInv ==
    /\ counter \in Nat /\ got \in [Subs -> Nat]
    /\ pipe \in [{1} -> Seq(Note)] /\ ~crossed
    /\ \A i, j \in 1 .. Len(pipe[1]) : i < j => pipe[1][i].id < pipe[1][j].id
    /\ \A i \in 1 .. Len(pipe[1]) : pipe[1][i].id <= counter
    /\ \A s \in Subs : got[s] <= counter
    /\ \A s \in Subs, i \in 1 .. Len(pipe[1]) : got[s] <= pipe[1][i].id

OrderInv == asked \in Int /\ (asked <= 1 => PipeInv)

(* Nothing is published.                                                   *)
LEMMA OrderInit == BusInit => OrderInv
  <1> SUFFICES ASSUME BusInit PROVE OrderInv
    OBVIOUS
  <1>1. asked \in Int
    BY BusAssumption DEF BusInit
  <1>2. ASSUME asked <= 1 PROVE PipeInv
    <2>1. Clients = {1}
      BY <1>1, <1>2 DEF Clients, PoolSize
    <2>2. /\ counter = 0 /\ got = [s \in Subs |-> 0] /\ pipe = [c \in {1} |-> <<>>]
          /\ crossed = FALSE
      BY <2>1 DEF BusInit
    <2>3. pipe \in [{1} -> Seq(Note)] /\ pipe[1] = <<>>
      BY <2>2
    <2>4. ~crossed
      BY <2>2
    <2> QED
      BY <2>2, <2>3, <2>4 DEF PipeInv
  <1> QED
    BY <1>1, <1>2 DEF OrderInv

(* Broadcast numbers a message above all others.                            *)
LEMMA BroadcastOrder ==
    ASSUME PipeInv, asked \in Int, asked <= 1, NEW t \in Published, PoolBroadcast(t)
    PROVE  PipeInv'
  <1>1. counter \in Nat /\ Turn = 1
    <2>1. counter \in Nat /\ PoolSize(asked) = 1
      BY DEF PipeInv, PoolSize
    <2> QED
      BY <2>1 DEF Turn
  <1> DEFINE n == [topic |-> t, id |-> counter + 1]
             p == pipe[1]
             q == pipe'[1]
  <1>2. n \in Note /\ n.id = counter + 1 /\ counter' = counter + 1 /\ UNCHANGED <<got, crossed>>
    BY <1>1 DEF Note, PoolBroadcast
  <1>3. p \in Seq(Note) /\ Len(p) \in Nat
    BY LenProperties DEF PipeInv
  <1>4. pipe' = [pipe EXCEPT ![1] = Append(@, n)] \/ pipe' = pipe
    BY <1>1 DEF PoolBroadcast
  <1>5. pipe' \in [{1} -> Seq(Note)] /\ (q = p \/ q = Append(p, n))
    <2>1. pipe \in [{1} -> Seq(Note)]
      BY DEF PipeInv
    <2>2. Append(p, n) \in Seq(Note)
      BY <1>2, <1>3, AppendProperties
    <2> QED
      BY <1>4, <2>1, <2>2
  <1> HIDE DEF n
  <1>6. /\ \A i, j \in 1 .. Len(p) : i < j => p[i].id < p[j].id
        /\ \A i \in 1 .. Len(p) : p[i].id <= counter
        /\ \A s \in Subs : got[s] <= counter /\ got[s] \in Nat
        /\ \A s \in Subs, i \in 1 .. Len(p) : got[s] <= p[i].id
        /\ \A i \in 1 .. Len(p) : p[i].id \in Nat
    <2>1. \A i \in 1 .. Len(p) : p[i] \in Note
      BY <1>3, ElementOfSeq
    <2> QED
      BY <2>1 DEF PipeInv, Note
  <1> HIDE DEF p, q
  <1>7. /\ \A i, j \in 1 .. Len(q) : i < j => q[i].id < q[j].id
        /\ \A i \in 1 .. Len(q) : q[i].id <= counter + 1
        /\ \A s \in Subs, i \in 1 .. Len(q) : got[s] <= q[i].id
    <2>1. CASE q = p
      BY <1>1, <1>3, <1>6, <2>1
    <2>2. CASE q = Append(p, n)
      <3>1. /\ Len(q) = Len(p) + 1 /\ q[Len(p) + 1] = n
            /\ \A i \in 1 .. Len(p) : q[i] = p[i]
        BY <1>2, <1>3, <2>2, AppendProperties
      <3>2. ASSUME NEW i \in 1 .. Len(q)
            PROVE  \/ i \in 1 .. Len(p) /\ q[i].id = p[i].id
                   \/ i = Len(p) + 1 /\ q[i].id = counter + 1
        BY <1>2, <1>3, <3>1
      <3>3. ASSUME NEW i \in 1 .. Len(q), NEW j \in 1 .. Len(q), i < j
            PROVE  q[i].id < q[j].id
        <4>1. i \in 1 .. Len(p) /\ q[i].id = p[i].id
          BY <1>3, <3>1, <3>2, <3>3
        <4>2. p[i].id \in Nat /\ p[i].id <= counter
          BY <1>6, <4>1
        <4>3. CASE j \in 1 .. Len(p) /\ q[j].id = p[j].id
          BY <1>6, <3>3, <4>1, <4>3
        <4>4. CASE j = Len(p) + 1 /\ q[j].id = counter + 1
          BY <1>1, <4>1, <4>2, <4>4
        <4> QED
          BY <3>2, <4>3, <4>4
      <3>4. ASSUME NEW i \in 1 .. Len(q), NEW s \in Subs
            PROVE  q[i].id <= counter + 1 /\ got[s] <= q[i].id
        <4>1. CASE i \in 1 .. Len(p) /\ q[i].id = p[i].id
          BY <1>1, <1>6, <4>1
        <4>2. CASE i = Len(p) + 1 /\ q[i].id = counter + 1
          BY <1>1, <1>6, <4>2
        <4> QED
          BY <3>2, <4>1, <4>2
      <3>5. ASSUME NEW i \in 1 .. Len(q) PROVE q[i].id <= counter + 1
        BY <1>1, <1>6, <3>2
      <3> QED
        BY <3>3, <3>4, <3>5
    <2> QED
      BY <1>5, <2>1, <2>2
  <1>8. /\ counter' \in Nat /\ got' \in [Subs -> Nat] /\ ~crossed'
        /\ \A s \in Subs : got'[s] <= counter'
    BY <1>1, <1>2, <1>6 DEF PipeInv
  <1> QED
    BY <1>2, <1>5, <1>7, <1>8 DEF PipeInv, q

(* The server delivers the first message, whose number is the least.        *)
LEMMA RouteOrder ==
    ASSUME PipeInv, live \subseteq Subs, asked \in Int, asked <= 1,
           NEW c \in Clients, RouteMsg(c)
    PROVE  PipeInv'
  <1>1. c = 1
    BY DEF Clients, PoolSize
  <1> DEFINE p == pipe[1]
             q == pipe'[1]
             n == Head(pipe[1])
             to == {s \in live : s[2] = n.topic}
  <1>2. /\ p # <<>> /\ UNCHANGED counter
        /\ got' = [s \in Subs |-> IF s \in to THEN n.id ELSE got[s]]
        /\ pipe' = [pipe EXCEPT ![1] = Tail(p)]
    BY <1>1 DEF RouteMsg
  <1>3. crossed' = (crossed \/ \E s \in live : s[2] = n.topic /\ got[s] > n.id)
    BY <1>1 DEF RouteMsg
  <1>4. p \in Seq(Note) /\ pipe \in [{1} -> Seq(Note)] /\ counter \in Nat
    BY DEF PipeInv
  <1>5. /\ Len(p) \in Nat \ {0} /\ n = p[1] /\ q = Tail(p) /\ q \in Seq(Note)
        /\ pipe' \in [{1} -> Seq(Note)]
    BY <1>2, <1>4, EmptySeq, LenProperties, HeadTailProperties
  <1>6. /\ Len(q) = Len(p) - 1 /\ \A i \in 1 .. Len(q) : q[i] = p[i + 1]
    BY <1>2, <1>4, <1>5, HeadTailProperties
  <1>7. /\ \A i, j \in 1 .. Len(p) : i < j => p[i].id < p[j].id
        /\ \A i \in 1 .. Len(p) : p[i].id <= counter
        /\ \A s \in Subs : got[s] <= counter /\ got[s] \in Nat
        /\ \A s \in Subs, i \in 1 .. Len(p) : got[s] <= p[i].id
        /\ \A i \in 1 .. Len(p) : p[i].id \in Nat
    <2>1. \A i \in 1 .. Len(p) : p[i] \in Note
      BY <1>4, <1>5, ElementOfSeq
    <2> QED
      BY <2>1 DEF PipeInv, Note
  <1>8. n.id \in Nat /\ n.id <= counter /\ \A s \in Subs : got[s] <= n.id
    BY <1>5, <1>7
  <1> HIDE DEF p, q, n, to
  <1>9. got' \in [Subs -> Nat] /\ \A s \in Subs : got'[s] = got[s] \/ got'[s] = n.id
    BY <1>2, <1>7, <1>8
  <1>10. /\ \A i, j \in 1 .. Len(q) : i < j => q[i].id < q[j].id
         /\ \A i \in 1 .. Len(q) : q[i].id <= counter
    <2>1. ASSUME NEW i \in 1 .. Len(q) PROVE i + 1 \in 1 .. Len(p) /\ q[i] = p[i + 1]
      BY <1>5, <1>6
    <2>2. ASSUME NEW i \in 1 .. Len(q), NEW j \in 1 .. Len(q), i < j
          PROVE  q[i].id < q[j].id
      <3>1. i + 1 \in 1 .. Len(p) /\ j + 1 \in 1 .. Len(p) /\ i + 1 < j + 1
        BY <2>1, <2>2
      <3> QED
        BY <1>7, <2>1, <3>1
    <2> QED
      BY <1>7, <2>1, <2>2
  <1>11. ASSUME NEW s \in Subs, NEW i \in 1 .. Len(q) PROVE got'[s] <= q[i].id
    <2>1. /\ i + 1 \in 1 .. Len(p) /\ 1 \in 1 .. Len(p) /\ 1 < i + 1 /\ q[i] = p[i + 1]
      BY <1>5, <1>6
    <2>2. p[1].id < p[i + 1].id /\ p[1].id \in Nat /\ p[i + 1].id \in Nat /\ got[s] <= p[i + 1].id
      BY <1>7, <2>1
    <2>3. got'[s] = got[s] \/ got'[s] = p[1].id
      BY <1>5, <1>9
    <2>4. got'[s] <= p[i + 1].id
      BY <2>2, <2>3
    <2> QED
      BY <2>1, <2>4
  <1>12. counter' \in Nat /\ \A s \in Subs : got'[s] <= counter'
    BY <1>2, <1>4, <1>7, <1>8, <1>9
  <1>13. ~crossed'
    <2>1. ASSUME NEW s \in live PROVE ~(got[s] > n.id)
      BY <1>7, <1>8
    <2>2. ~crossed
      BY DEF PipeInv
    <2> QED
      BY <1>3, <2>1, <2>2
  <1> QED
    BY <1>2, <1>5, <1>9, <1>10, <1>11, <1>12, <1>13 DEF PipeInv, q

(* With one client, everything goes through its one connection.            *)
LEMMA OrderStep == SubInv /\ OrderInv /\ [BusNext]_busVars => OrderInv'
  <1> SUFFICES ASSUME SubInv, OrderInv, [BusNext]_busVars PROVE OrderInv'
    OBVIOUS
  <1>1. asked \in Int /\ asked' = asked
    BY DEF OrderInv, BusNext, busVars, clientVars, ConnectStep, Connects, ConnectFails,
           ConnectCancelled, CloseClient, RouteMsg, SubscribeCall, SubscribeFails, BeginClose,
           CloseStep, UnsubscribeHandle, EndClose, UnSubscribe, PoolBroadcast
  <1>2. live \subseteq Subs
    BY DEF SubInv
  <1>3. CASE asked <= 1
    <2>1. PipeInv
      BY <1>3 DEF OrderInv
    <2>2. CASE \E t \in Published : PoolBroadcast(t)
      BY <1>1, <1>3, <2>1, <2>2, BroadcastOrder DEF OrderInv
    <2>3. CASE \E c \in Clients : RouteMsg(c)
      BY <1>1, <1>2, <1>3, <2>1, <2>3, RouteOrder DEF OrderInv
    <2>4. CASE UNCHANGED pubVars
      BY <1>1, <2>1, <2>4 DEF OrderInv, PipeInv, pubVars
    <2> QED
      BY <2>2, <2>3, <2>4
         DEF BusNext, busVars, ConnectStep, Connects, ConnectFails, ConnectCancelled,
             CloseClient, SubscribeCall, SubscribeFails, BeginClose, CloseStep,
             UnsubscribeHandle, EndClose, UnSubscribe
  <1>4. CASE ~(asked <= 1)
    BY <1>1, <1>4 DEF OrderInv
  <1> QED
    BY <1>3, <1>4

(* The bus (znats/nats.go, zactor/pubsub.go): whatever the actors of a      *)
(* process do, subscribing and closing, an open one hears all its topics    *)
(* but those whose subscription failed or was taken away, a closed one      *)
(* hears nothing, and a pool of one client keeps the order of publications. *)
THEOREM BusIsFaithful == DeliverySpec => []BusDelivers
  <1>1. DeliveryInit => SubInv /\ OrderInv
    BY SubInit, OrderInit DEF DeliveryInit
  <1>2. SubInv /\ OrderInv /\ [DeliveryNext]_deliveryVars => (SubInv /\ OrderInv)'
    BY OneLeg, SubStep, OrderStep
  <1>3. ASSUME SubInv, OrderInv PROVE BusDelivers
    <2>1. ASSUME NEW a \in BusActors, apc[a] = "open", NEW t \in TopicSet(a)
          PROVE  <<a, t>> \in live \cup missed \cup cut
      <3>1. PICK i \in 1 .. Len(TopicsOf[a]) : TopicsOf[a][i] = t
        BY TopicsAre DEF TopicSet
      <3> QED
        BY <1>3, <2>1, <3>1 DEF SubInv
    <2>2. OpenSubscribed
      BY <2>1 DEF OpenSubscribed
    <2>3. ClosedUnsubscribed
      BY <1>3 DEF SubInv, ClosedUnsubscribed
    <2>4. PublishedOrder
      BY <1>3 DEF OrderInv, PipeInv, PublishedOrder
    <2> QED
      BY <2>2, <2>3, <2>4 DEF BusDelivers
  <1> QED
    BY <1>1, <1>2, <1>3, PTL DEF DeliverySpec

-----------------------------------------------------------------------------
(* Round robin *)

(* Division with remainder, and the remainder of a successor.               *)
LEMMA DivMod ==
    ASSUME NEW x \in Nat, NEW n \in Nat \ {0}
    PROVE  /\ x % n \in 0 .. n - 1 /\ x \div n \in Nat
           /\ x = (n * (x \div n)) + (x % n)
  OBVIOUS

(* The remainder is the one there is.                                      *)
LEMMA ModOf ==
    ASSUME NEW n \in Nat \ {0}, NEW q \in Nat, NEW r \in 0 .. n - 1
    PROVE  (n * q + r) % n = r
  OBVIOUS

(* The turn goes to the next candidate, or back to the first.              *)
LEMMA ModNext ==
    ASSUME NEW x \in Nat, NEW n \in Nat \ {0}
    PROVE  (x + 1) % n = IF (x % n) + 1 = n THEN 0 ELSE (x % n) + 1
  <1> DEFINE q == x \div n
             r == x % n
  <1>1. r \in 0 .. n - 1 /\ q \in Nat /\ x = n * q + r
    BY DivMod
  <1> HIDE DEF q, r
  <1>2. CASE r + 1 = n
    <2>1. x + 1 = n * (q + 1) + 0
      BY <1>1, <1>2
    <2>2. (n * (q + 1) + 0) % n = 0
      BY <1>1, ModOf
    <2> QED
      BY <1>2, <2>1, <2>2 DEF r
  <1>3. CASE r + 1 # n
    <2>1. x + 1 = n * q + (r + 1) /\ r + 1 \in 0 .. n - 1
      BY <1>1, <1>3
    <2>2. (n * q + (r + 1)) % n = r + 1
      BY <1>1, <2>1, ModOf
    <2> QED
      BY <1>3, <2>1, <2>2 DEF r
  <1> QED
    BY <1>2, <1>3

RouteTypes ==
    /\ candidates \in Seq(Remotes)
    /\ \A i, j \in 1 .. Len(candidates) : candidates[i] = candidates[j] => i = j
    /\ score \in [Keys \ {0} -> hrwScores]
    /\ seq \in Nat /\ since \in Seq(Remotes)

(* The candidate whose turn it is, how far from it the j-th candidate is,   *)
(* and how often that one was chosen.                                       *)
Turns == (seq + 1) % Len(candidates)
Rank(j) == IF j >= Turns THEN j - Turns ELSE j - Turns + Len(candidates)
Chosen(j) == Occurs(since, candidates[j + 1])

(* The longer a candidate has to wait, the more often it was chosen, but    *)
(* never more than once more.                                               *)
FairInv == \A j, l \in 0 .. Len(candidates) - 1 :
    Rank(j) <= Rank(l) => Chosen(j) <= Chosen(l) /\ Chosen(l) <= Chosen(j) + 1

(* What the permutations of the library are.                                *)
LEMMA CandidateLists ==
    ASSUME NEW c \in SetToAllKPermutations(Remotes)
    PROVE  /\ c \in Seq(Remotes)
           /\ \A i, j \in 1 .. Len(c) : c[i] = c[j] => i = j
  <1>1. PICK s \in SUBSET Remotes : c \in SetToSeqs(s)
    BY DEF SetToAllKPermutations
  <1>2. Cardinality(s) \in Nat
    BY KeysAssumption, FS_Subset, FS_CardinalityType
  <1> DEFINE n == Cardinality(s)
  <1>3. c \in [1 .. n -> s] /\ \A i, j \in 1 .. n : i # j => c[i] # c[j]
    BY <1>1 DEF SetToSeqs
  <1> HIDE DEF n
  <1>4. c \in Seq(Remotes) /\ Len(c) = n
    <2>1. n \in Nat /\ c \in [1 .. n -> Remotes]
      BY <1>2, <1>3 DEF n
    <2> QED
      <3>1. c \in Seq(Remotes)
        BY <2>1
      <3> QED
        BY <2>1, <3>1, LenProperties
  <1> QED
    BY <1>3, <1>4

(* It is some candidate's turn.                                            *)
LEMMA TurnsType ==
    ASSUME RouteTypes, candidates # <<>>
    PROVE  /\ Len(candidates) \in Nat \ {0} /\ Turns \in 0 .. Len(candidates) - 1
           /\ \A j \in 0 .. Len(candidates) - 1 : Rank(j) \in 0 .. Len(candidates) - 1
           /\ \A j \in 0 .. Len(candidates) - 1 : Chosen(j) \in Nat
  <1>1. Len(candidates) \in Nat \ {0}
    BY EmptySeq, LenProperties DEF RouteTypes
  <1>2. Turns \in 0 .. Len(candidates) - 1
    BY <1>1, DivMod DEF Turns, RouteTypes
  <1>3. \A j \in 0 .. Len(candidates) - 1 : Rank(j) \in 0 .. Len(candidates) - 1
    BY <1>1, <1>2 DEF Rank
  <1>4. \A j \in 0 .. Len(candidates) - 1 : Chosen(j) \in Nat
    BY OccursNat DEF RouteTypes, Chosen
  <1> QED
    BY <1>1, <1>2, <1>3, <1>4

(* A pick by round robin: the candidate whose turn it was waits longest now. *)
LEMMA RoundRobinStep ==
    ASSUME RouteTypes, FairInv, candidates # <<>>, UNCHANGED candidates,
           seq' = seq + 1, since' = Append(since, candidates[Turns + 1])
    PROVE  FairInv'
  <1> DEFINE n == Len(candidates)
             t == Turns
  <1>1. /\ n \in Nat \ {0} /\ t \in 0 .. n - 1
        /\ \A j \in 0 .. n - 1 : Rank(j) \in 0 .. n - 1
        /\ \A j \in 0 .. n - 1 : Chosen(j) \in Nat
    BY TurnsType
  <1>2. Turns' = IF t + 1 = n THEN 0 ELSE t + 1
    <2>1. seq + 1 \in Nat /\ Turns' = ((seq + 1) + 1) % n
      BY DEF Turns, RouteTypes
    <2> QED
      BY <1>1, <2>1, ModNext DEF Turns
  <1>3. ASSUME NEW j \in 0 .. n - 1
        PROVE  Chosen(j)' = Chosen(j) + IF j = t THEN 1 ELSE 0
    <2>1. /\ candidates[t + 1] \in Remotes
          /\ candidates[t + 1] = candidates[j + 1] <=> j = t
      <3>1. t + 1 \in 1 .. n /\ j + 1 \in 1 .. n
        BY <1>1
      <3> QED
        BY <1>1, <3>1, ElementOfSeq DEF RouteTypes
    <2>2. Occurs(Append(since, candidates[t + 1]), candidates[j + 1])
            = Occurs(since, candidates[j + 1]) + IF candidates[t + 1] = candidates[j + 1] THEN 1 ELSE 0
      BY <2>1, OccursAppend DEF RouteTypes
    <2> QED
      BY <2>1, <2>2 DEF Chosen
  <1>4. ASSUME NEW j \in 0 .. n - 1
        PROVE  /\ Rank(j)' = IF j = t THEN n - 1 ELSE Rank(j) - 1
               /\ Rank(j) = 0 <=> j = t
    <2>1. Rank(j) = IF j >= t THEN j - t ELSE j - t + n
      BY DEF Rank
    <2>2. Rank(j)' = IF j >= Turns' THEN j - Turns' ELSE j - Turns' + n
      BY DEF Rank
    <2> HIDE DEF n, t
    <2>3. n \in Nat /\ t \in Nat /\ t < n /\ j \in Nat /\ j < n
      BY <1>1
    <2>4. Rank(j) = 0 <=> j = t
      BY <2>1, <2>3
    <2>5. CASE t + 1 = n
      <3>1. Rank(j)' = j
        BY <1>2, <2>2, <2>3, <2>5
      <3> QED
        BY <2>1, <2>3, <2>4, <2>5, <3>1
    <2>6. CASE t + 1 # n
      <3>1. Rank(j)' = IF j >= t + 1 THEN j - (t + 1) ELSE j - (t + 1) + n
        BY <1>2, <2>2, <2>3, <2>6
      <3> QED
        BY <2>1, <2>3, <2>4, <2>6, <3>1
    <2> QED
      BY <2>5, <2>6
  <1>5. Len(candidates)' = n
    OBVIOUS
  <1> HIDE DEF n, t
  <1>6. ASSUME NEW j \in 0 .. n - 1, NEW l \in 0 .. n - 1, Rank(j)' <= Rank(l)'
        PROVE  Chosen(j)' <= Chosen(l)' /\ Chosen(l)' <= Chosen(j)' + 1
    <2>1. /\ Rank(j) \in 0 .. n - 1 /\ Rank(l) \in 0 .. n - 1
          /\ Chosen(j) \in Nat /\ Chosen(l) \in Nat /\ n \in Nat
      BY <1>1
    <2>2. /\ Rank(j) <= Rank(l) => Chosen(j) <= Chosen(l) /\ Chosen(l) <= Chosen(j) + 1
          /\ Rank(l) <= Rank(j) => Chosen(l) <= Chosen(j) /\ Chosen(j) <= Chosen(l) + 1
      BY DEF FairInv, n
    <2>3. /\ Chosen(j)' = Chosen(j) + IF j = t THEN 1 ELSE 0
          /\ Chosen(l)' = Chosen(l) + IF l = t THEN 1 ELSE 0
      BY <1>3
    <2>4. /\ Rank(j)' = IF j = t THEN n - 1 ELSE Rank(j) - 1
          /\ Rank(l)' = IF l = t THEN n - 1 ELSE Rank(l) - 1
          /\ (Rank(j) = 0 <=> j = t) /\ (Rank(l) = 0 <=> l = t)
      BY <1>4
    <2>5. CASE l = t
      BY <1>6, <2>1, <2>2, <2>3, <2>4, <2>5
    <2>6. CASE l # t /\ j = t
      BY <1>6, <2>1, <2>4, <2>6
    <2>7. CASE l # t /\ j # t
      BY <1>6, <2>1, <2>2, <2>3, <2>4, <2>7
    <2> QED
      BY <2>5, <2>6, <2>7
  <1> QED
    BY <1>5, <1>6 DEF FairInv

-----------------------------------------------------------------------------
(* Rendezvous hashing *)

(* A non-empty set of numbers has a least one.                              *)
LEMMA LeastNumber ==
    ASSUME NEW T \in SUBSET Nat, T # {}
    PROVE  \E x \in T : \A y \in T : x <= y
  <1> DEFINE R == {ss \in Nat \X Nat : ss[1] < ss[2]}
  <1>1. IsWellFoundedOn(R, Nat)
    BY NatLessThanWellFounded, Zenon DEF OpToRel
  <1>2. PICK x \in T : \A y \in T : ~(<<y, x>> \in R)
    <2> HIDE DEF R
    <2> QED
      BY <1>1, WFMin, Zenon
  <1>3. ASSUME NEW y \in T, ~(x <= y) PROVE FALSE
    <2>1. <<y, x>> \in Nat \X Nat /\ y < x
      BY <1>3
    <2>2. <<y, x>> \in R
      BY <2>1
    <2> QED
      BY <1>2, <2>2
  <1> QED
    BY <1>3

(* PickRendezvous finds a candidate with the highest score.                 *)
LEMMA PickIsHighest ==
    ASSUME RouteTypes, candidates # <<>>, NEW key \in Keys \ {0}
    PROVE  /\ PickRendezvous(key, candidates) \in 0 .. Len(candidates) - 1
           /\ \A j \in 1 .. Len(candidates) :
                 score[key][candidates[j]]
                   <= score[key][candidates[PickRendezvous(key, candidates) + 1]]
  <1> DEFINE n == Len(candidates)
             N == Cardinality(Remotes)
             v == [j \in 1 .. n |-> score[key][candidates[j]]]
             T == {x \in Nat : \E j \in 1 .. n : x = N - v[j]}
  <1>1. n \in Nat \ {0} /\ DOMAIN candidates = 1 .. n /\ \A j \in 1 .. n : candidates[j] \in Remotes
    BY EmptySeq, LenProperties, ElementOfSeq DEF RouteTypes
  <1>2. N \in Nat
    BY KeysAssumption, FS_CardinalityType
  <1>3. \A j \in 1 .. n : v[j] \in 1 .. N
    <2>1. score[key] \in [Remotes -> 1 .. N]
      BY DEF RouteTypes, hrwScores
    <2> QED
      BY <1>1, <2>1
  <1>4. T \in SUBSET Nat /\ N - v[1] \in T
    <2>1. 1 \in 1 .. n /\ N - v[1] \in Nat
      BY <1>1, <1>2, <1>3
    <2> QED
      BY <2>1
  <1>5. PICK x \in T : \A y \in T : x <= y
    <2> HIDE DEF T
    <2> QED
      BY <1>4, LeastNumber
  <1>6. PICK m \in 1 .. n : x = N - v[m]
    BY <1>5
  <1>7. ASSUME NEW j \in 1 .. n PROVE v[j] <= v[m]
    <2>1. N - v[j] \in T
      BY <1>2, <1>3
    <2>2. N - v[m] <= N - v[j]
      BY <1>5, <1>6, <2>1
    <2> QED
      BY <1>2, <1>3, <2>2
  <1>8. CASE n = 1
    <2>1. PickRendezvous(key, candidates) = 0
      BY <1>8 DEF PickRendezvous
    <2> QED
      BY <1>1, <1>3, <1>8, <2>1
  <1>9. CASE n # 1
    <2> DEFINE P(i) == \A j \in DOMAIN candidates :
                          score[key][candidates[j]] <= score[key][candidates[i + 1]]
    <2>1. m - 1 \in 0 .. n - 1 /\ (m - 1) + 1 = m
      BY <1>1
    <2>2. P(m - 1)
      BY <1>1, <1>7, <2>1
    <2>3. PickRendezvous(key, candidates) = CHOOSE i \in 0 .. n - 1 : P(i)
      BY <1>9 DEF PickRendezvous
    <2> HIDE DEF P
    <2>4. PickRendezvous(key, candidates) \in 0 .. n - 1 /\ P(PickRendezvous(key, candidates))
      BY <2>1, <2>2, <2>3
    <2> QED
      BY <1>1, <2>4 DEF P
  <1> QED
    BY <1>8, <1>9

(* The best of a set of candidates for a session.                           *)
Best(k, x, from) == x \in from /\ \A y \in from : score[k][y] <= score[k][x]

(* The last message of a session went to the best of its candidates.        *)
LastInv ==
    /\ last \in [Keys \ {0} -> [from : SUBSET Remotes, to : SUBSET Remotes]]
    /\ \A k \in Keys \ {0} :
          last[k].to = {} \/ \E x \in Remotes : last[k].to = {x} /\ Best(k, x, last[k].from)

(* What routing a message does.                                             *)
LEMMA RouteEffect ==
    ASSUME RouteTypes, NEW msg \in [session : Keys, rpc : Keys], RouteToRemoteActor(msg)
    PROVE  /\ candidates # <<>> /\ UNCHANGED <<candidates, score>>
           /\ \/ /\ seq' = seq + 1 /\ since' = Append(since, candidates[Turns + 1])
                 /\ UNCHANGED last
              \/ /\ UNCHANGED <<seq, since>>
                 /\ \E k \in Keys \ {0}, x \in Remotes :
                       /\ last' = [last EXCEPT ![k] = [from |-> ToSet(candidates), to |-> {x}]]
                       /\ Best(k, x, ToSet(candidates))
              \/ UNCHANGED <<seq, since, last>>
  <1> DEFINE key == DefaultRemoteRouteKey(msg)
             i == PickOne(key, candidates)
             to == candidates[1 + (IF i \in 0 .. Len(candidates) - 1 THEN i ELSE 0)]
  <1>1. /\ candidates # <<>> /\ UNCHANGED <<candidates, score>>
        /\ \/ /\ strategy = "roundRobin" /\ seq' = seq + 1 /\ since' = Append(since, to)
              /\ UNCHANGED last
           \/ /\ strategy = "rendezvous" /\ key # 0 /\ UNCHANGED <<seq, since>>
              /\ last' = [last EXCEPT ![key] = [from |-> ToSet(candidates), to |-> {to}]]
           \/ UNCHANGED <<seq, since, last>>
    BY DEF RouteToRemoteActor
  <1>2. key \in Keys
    BY DEF DefaultRemoteRouteKey
  <1>3. CASE strategy = "roundRobin" /\ since' = Append(since, to)
    <2>1. i = Turns /\ Turns \in 0 .. Len(candidates) - 1
      BY <1>1, <1>3, TurnsType DEF PickOne, PickRoundRobin, Turns
    <2>2. to = candidates[Turns + 1]
      BY <2>1
    <2> QED
      BY <1>1, <1>3, <2>2
  <1>4. CASE /\ strategy = "rendezvous" /\ key # 0 /\ UNCHANGED <<seq, since>>
             /\ last' = [last EXCEPT ![key] = [from |-> ToSet(candidates), to |-> {to}]]
    <2>1. i = PickRendezvous(key, candidates)
      BY <1>4 DEF PickOne
    <2> HIDE DEF key
    <2>2. /\ i \in 0 .. Len(candidates) - 1
          /\ \A j \in 1 .. Len(candidates) :
                score[key][candidates[j]] <= score[key][candidates[i + 1]]
      BY <1>1, <1>2, <1>4, <2>1, PickIsHighest
    <2> HIDE DEF i
    <2>3. to = candidates[i + 1] /\ i + 1 \in 1 .. Len(candidates)
      BY <1>1, <2>2, TurnsType
    <2>4. DOMAIN candidates = 1 .. Len(candidates) /\ \A j \in 1 .. Len(candidates) : candidates[j] \in Remotes
      BY LenProperties, ElementOfSeq DEF RouteTypes
    <2>5. to \in Remotes /\ to \in ToSet(candidates)
      BY <2>3, <2>4 DEF ToSet
    <2>6. \A y \in ToSet(candidates) : score[key][y] <= score[key][to]
      BY <2>2, <2>3, <2>4 DEF ToSet
    <2> HIDE DEF to
    <2> QED
      BY <1>1, <1>2, <1>4, <2>5, <2>6 DEF Best
  <1> HIDE DEF to, i, key
  <1> QED
    BY <1>1, <1>3, <1>4

RouteInv == RouteTypes /\ FairInv /\ LastInv

(* No candidates, and nothing routed.                                      *)
LEMMA RouteInit == RoutesInit => RouteInv
  <1> SUFFICES ASSUME RoutesInit PROVE RouteInv
    OBVIOUS
  <1>1. /\ candidates = <<>> /\ score \in [Keys \ {0} -> hrwScores] /\ seq = 0
        /\ last = [k \in Keys \ {0} |-> [from |-> {}, to |-> {}]] /\ since = <<>>
    BY DEF RoutesInit, NoLast, NotRouted
  <1>2. Len(candidates) = 0
    BY <1>1
  <1>3. RouteTypes
    BY <1>1, <1>2 DEF RouteTypes
  <1>4. FairInv
    BY <1>2 DEF FairInv
  <1>5. LastInv
    BY <1>1 DEF LastInv
  <1> QED
    BY <1>3, <1>4, <1>5 DEF RouteInv

(* Views and strategies change, and messages are routed.                   *)
LEMMA RouteStep ==
    ASSUME RouteInv, [RoutesNext]_routesVars
    PROVE  RouteInv'
  <1>1. RouteTypes /\ FairInv /\ LastInv
    BY DEF RouteInv
  <1>2. CASE ViewChanges \/ SetRemoteRouteStrategy
    <2>1. /\ since' = <<>> /\ score' = score /\ (seq' = seq \/ seq' = 0)
          /\ \/ last' = last
             \/ last' = [k \in Keys \ {0} |-> [from |-> {}, to |-> {}]]
          /\ candidates' = candidates \/ candidates' \in SetToAllKPermutations(Remotes)
      BY <1>2 DEF ViewChanges, SetRemoteRouteStrategy, NoLast, NotRouted
    <2>2. /\ candidates' \in Seq(Remotes)
          /\ \A i, j \in 1 .. Len(candidates') : candidates'[i] = candidates'[j] => i = j
      <3>1. CASE candidates' = candidates
        BY <1>1, <3>1 DEF RouteTypes
      <3>2. CASE candidates' \in SetToAllKPermutations(Remotes)
        BY <3>2, CandidateLists
      <3> QED
        BY <2>1, <3>1, <3>2
    <2>3. RouteTypes'
      BY <1>1, <2>1, <2>2 DEF RouteTypes
    <2>4. \A j : Chosen(j)' = 0
      BY <2>1, OccursEmpty DEF Chosen
    <2>5. FairInv'
      BY <2>4 DEF FairInv
    <2>6. LastInv'
      <3>1. CASE last' = last
        BY <1>1, <2>1, <3>1 DEF LastInv, Best
      <3>2. CASE last' = [k \in Keys \ {0} |-> [from |-> {}, to |-> {}]]
        BY <3>2 DEF LastInv
      <3> QED
        BY <2>1, <3>1, <3>2
    <2> QED
      BY <2>3, <2>5, <2>6 DEF RouteInv
  <1>3. ASSUME NEW msg \in [session : Keys, rpc : Keys], RouteToRemoteActor(msg) PROVE RouteInv'
    <2>1. candidates # <<>> /\ UNCHANGED <<candidates, score>>
      BY <1>1, <1>3, RouteEffect
    <2>2. CASE seq' = seq + 1 /\ since' = Append(since, candidates[Turns + 1]) /\ UNCHANGED last
      <3>1. FairInv'
        BY <1>1, <2>1, <2>2, RoundRobinStep
      <3>2. candidates[Turns + 1] \in Remotes
        <4>1. Turns + 1 \in 1 .. Len(candidates)
          BY <1>1, <2>1, TurnsType
        <4> QED
          BY <1>1, <4>1, ElementOfSeq DEF RouteTypes
      <3>3. RouteTypes'
        BY <1>1, <2>1, <2>2, <3>2, AppendProperties DEF RouteTypes
      <3>4. LastInv'
        BY <1>1, <2>1, <2>2 DEF LastInv, Best
      <3> QED
        BY <3>1, <3>3, <3>4 DEF RouteInv
    <2>3. CASE UNCHANGED <<seq, since>> /\
               \E k \in Keys \ {0}, x \in Remotes :
                 /\ last' = [last EXCEPT ![k] = [from |-> ToSet(candidates), to |-> {x}]]
                 /\ Best(k, x, ToSet(candidates))
      <3>1. RouteTypes' /\ FairInv'
        BY <1>1, <2>1, <2>3 DEF RouteTypes, FairInv, Rank, Turns, Chosen
      <3>2. PICK k \in Keys \ {0}, x \in Remotes :
              /\ last' = [last EXCEPT ![k] = [from |-> ToSet(candidates), to |-> {x}]]
              /\ Best(k, x, ToSet(candidates))
        BY <2>3
      <3>3. ToSet(candidates) \in SUBSET Remotes
        BY <1>1, LenProperties, ElementOfSeq DEF RouteTypes, ToSet
      <3>4. last' \in [Keys \ {0} -> [from : SUBSET Remotes, to : SUBSET Remotes]]
        BY <1>1, <3>2, <3>3 DEF LastInv
      <3>5. ASSUME NEW l \in Keys \ {0}, last'[l].to # {}
            PROVE  \E y \in Remotes : /\ last'[l].to = {y} /\ y \in last'[l].from
                                     /\ \A z \in last'[l].from : score[l][z] <= score[l][y]
        <4>1. CASE l = k
          <5>1. last'[l] = [from |-> ToSet(candidates), to |-> {x}]
            BY <1>1, <3>2, <4>1 DEF LastInv
          <5>2. /\ last'[l].to = {x} /\ x \in last'[l].from
                /\ \A z \in last'[l].from : score[l][z] <= score[l][x]
            BY <3>2, <4>1, <5>1 DEF Best
          <5> QED
            BY <5>2
        <4>2. CASE l # k
          <5>1. last'[l] = last[l]
            BY <1>1, <3>2, <4>2 DEF LastInv
          <5> QED
            BY <1>1, <3>5, <5>1 DEF LastInv, Best
        <4> QED
          BY <4>1, <4>2
      <3>6. LastInv'
        BY <2>1, <3>4, <3>5 DEF LastInv, Best
      <3> QED
        BY <3>1, <3>6 DEF RouteInv
    <2>4. CASE UNCHANGED <<seq, since, last>>
      BY <1>1, <2>1, <2>4 DEF RouteInv, RouteTypes, FairInv, Rank, Turns, Chosen, LastInv, Best
    <2> QED
      BY <1>1, <1>3, <2>2, <2>3, <2>4, RouteEffect
  <1>4. CASE UNCHANGED routesVars
    BY <1>1, <1>4 DEF routesVars, RouteInv, RouteTypes, FairInv, Rank, Turns, Chosen, LastInv, Best
  <1> QED
    BY <1>2, <1>3, <1>4 DEF RoutesNext

(* A session moves only to an actor that has come or from one that has gone. *)
LEMMA StickyStep ==
    ASSUME RouteInv, RouteInv', [RoutesNext]_routesVars, NEW k \in Keys \ {0},
           last[k].to # {}, last'[k].to \notin {{}, last[k].to},
           last[k].to \subseteq last'[k].from, last'[k].to \subseteq last[k].from
    PROVE  FALSE
  <1>1. PICK x \in Remotes : last[k].to = {x} /\ Best(k, x, last[k].from)
    BY DEF RouteInv, LastInv
  <1>2. PICK y \in Remotes : /\ last'[k].to = {y} /\ y \in last'[k].from
                             /\ \A z \in last'[k].from : score'[k][z] <= score'[k][y]
    BY DEF RouteInv, LastInv, Best
  <1>3. score' = score
    BY RouteEffect DEF RoutesNext, routesVars, ViewChanges, SetRemoteRouteStrategy, RouteInv
  <1>4. /\ x \in last'[k].from /\ y \in last[k].from /\ x # y
    BY <1>1, <1>2
  <1>5. score[k][x] <= score[k][y] /\ score[k][y] <= score[k][x]
    BY <1>1, <1>2, <1>3, <1>4 DEF Best
  <1>6. /\ score[k][x] \in Nat /\ score[k][y] \in Nat
        /\ score[k][x] = score[k][y] => x = y
    <2>1. score[k] \in hrwScores
      BY DEF RouteInv, RouteTypes
    <2>2. Cardinality(Remotes) \in Nat
      BY KeysAssumption, FS_CardinalityType
    <2> QED
      BY <2>1, <2>2 DEF hrwScores
  <1> QED
    BY <1>4, <1>5, <1>6

(* The strategies (zroute/remote_strategy.go PickRendezvous, PickRoundRobin): *)
(* rendezvous hashing moves a session only when its actor has gone or the    *)
(* new one has come, in whatever order the view lists the candidates, and    *)
(* round robin gives no candidate more than one message more than another,   *)
(* for every number of candidates and wherever its counter was.              *)
THEOREM PicksAreRight == DeliverySpec => PicksRight
  <1>1. DeliveryInit => RouteInv
    BY RouteInit DEF DeliveryInit
  <1>2. RouteInv /\ [DeliveryNext]_deliveryVars => RouteInv'
    BY OneLeg, RouteStep
  <1>3. RouteInv => RoundRobinFair
    <2> SUFFICES ASSUME RouteInv, NEW a \in ToSet(candidates), NEW b \in ToSet(candidates)
                 PROVE  Picks(a) <= Picks(b) + 1
      BY DEF RoundRobinFair
    <2>1. RouteTypes /\ FairInv /\ candidates # <<>>
      BY DEF RouteInv, ToSet
    <2>2. Len(candidates) \in Nat /\ DOMAIN candidates = 1 .. Len(candidates)
      BY <2>1, LenProperties DEF RouteTypes
    <2>3. PICK j \in 0 .. Len(candidates) - 1 : candidates[j + 1] = a
      <3>1. PICK i \in 1 .. Len(candidates) : candidates[i] = a
        BY <2>2 DEF ToSet
      <3>2. i - 1 \in 0 .. Len(candidates) - 1 /\ (i - 1) + 1 = i
        BY <2>2
      <3> QED
        BY <3>1, <3>2
    <2>4. PICK l \in 0 .. Len(candidates) - 1 : candidates[l + 1] = b
      <3>1. PICK i \in 1 .. Len(candidates) : candidates[i] = b
        BY <2>2 DEF ToSet
      <3>2. i - 1 \in 0 .. Len(candidates) - 1 /\ (i - 1) + 1 = i
        BY <2>2
      <3> QED
        BY <3>1, <3>2
    <2>5. Picks(a) = Chosen(j) /\ Picks(b) = Chosen(l)
      BY <2>3, <2>4 DEF Picks, Chosen, Occurs
    <2>6. /\ Rank(j) \in Nat /\ Rank(l) \in Nat /\ Chosen(j) \in Nat /\ Chosen(l) \in Nat
      BY <2>1, TurnsType
    <2>7. Rank(j) <= Rank(l) \/ Rank(l) <= Rank(j)
      BY <2>6
    <2> QED
      BY <2>1, <2>5, <2>6, <2>7 DEF FairInv
  <1>4. RouteInv /\ RouteInv' /\ [DeliveryNext]_deliveryVars =>
          [\A k \in Keys \ {0} :
             last[k].to # {} /\ last'[k].to \notin {{}, last[k].to} =>
                \/ ~(last[k].to \subseteq last'[k].from)
                \/ ~(last'[k].to \subseteq last[k].from)]_routesVars
    BY OneLeg, StickyStep
  <1> QED
    BY <1>1, <1>2, <1>3, <1>4, PTL DEF DeliverySpec, PicksRight, StickyRoute

=============================================================================
