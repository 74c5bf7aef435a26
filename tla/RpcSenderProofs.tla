--------------------------- MODULE RpcSenderProofs ---------------------------
(***************************************************************************)
(* Safety of the pending-RPC slot pool, for every pool size, every number  *)
(* of callers and repliers, and every bound.                               *)
(***************************************************************************)
EXTENDS RpcImplements, TLAPS

(* The positions at which a caller has been given an rpcId. *)
Numbered == {"stamp", "send", "enter", "fast", "wait", "got", "restamp"}

(* ... and at which its request has been sent. *)
Asked == {"enter", "fast", "wait", "got", "restamp"}

Own(c) == [ver |-> cver[c], idx |-> cslot[c], by |-> c]

(* Nothing is in flight that was not sent, and a slot's channel only ever  *)
(* holds responses for that slot.                                          *)
InFlightSent ==
    /\ \A s \in Slots : \A m \in ch[s] : m \in sent /\ m.idx = s
    /\ \A r \in Repliers : \A m \in rmsg[r] : m \in sent
    /\ \A c \in Callers : cpc[c] = "got" =>
          \E m \in sent : cgot[c] = {m} /\ Expected(c, m)

(* A slot's version counter bounds every version issued for it.            *)
VersionBounds ==
    /\ \A m \in sent : m.ver <= version[m.idx]
    /\ \A c \in Callers : cpc[c] \in Numbered => cver[c] <= version[cslot[c]]

(* rpcIds are unique: among the requests sent, between a request sent and  *)
(* one about to be, and between two about to be.                           *)
IdsUnique ==
    /\ \A m, n \in sent : m.ver = n.ver /\ m.idx = n.idx => m = n
    /\ IssuedIdFresh
    /\ \A c, d \in Callers :
          /\ cpc[c] \in {"stamp", "send"} /\ cpc[d] \in {"stamp", "send"}
          /\ cslot[c] = cslot[d] /\ cver[c] = cver[d]
          => c = d
    /\ \A c \in Callers : cpc[c] \in Asked => Own(c) \in sent

(* The inductive invariant behind NoCrossTalk and IssuedIdFresh.           *)
IdInv == InFlightSent /\ VersionBounds /\ IdsUnique

(* A slot never force-recycled: its holder is unique and finds it Waiting, *)
(* and the watchdog recycles it only while it is Abandoned.                *)
OwnInv ==
    \A s \in Slots \ forced :
        /\ \A c \in Callers : Holds(c, s) => state[s] = Waiting
        /\ \A c, d \in Callers : Holds(c, s) /\ Holds(d, s) => c = d
        /\ wslot = s /\ wpc = "stamp" /\ wst # Waiting => state[s] = Abandoned
        /\ wslot = s /\ wpc \in {"bump", "drain", "free"} => state[s] = Abandoned
-----------------------------------------------------------------------------
(* The arithmetic of slot indices. *)

(* Both cursor and probe wrap around within the pool: (start + i) &        *)
(* indexMask is always a slot.                                             *)
LEMMA WrapInPool == \A x \in Nat : (x + 1) % NumSlots \in Slots
  BY PoolSizeAssumption DEF Slots

(* The next shard is a shard.                                              *)
LEMMA ShardWrap == \A k \in 0 .. Shards - 1 : (k + 1) % Shards \in 0 .. Shards - 1
  BY BoundAssumption

(* The watchdog looks at some slots at least.                              *)
LEMMA BatchSizeType == BatchSize \in Nat \ {0}
  <1>1. NumSlots \div Shards \in Int
    BY PoolSizeAssumption, BoundAssumption
  <1> QED
    BY <1>1 DEF BatchSize

(* The watchdog's index stays inside the pool in every shard.              *)
LEMMA ShardInPool ==
    ASSUME NEW k \in 0 .. Shards - 1
    PROVE  /\ ShardEnd(k) \in Nat /\ ShardEnd(k) <= NumSlots
           /\ k * BatchSize \in Nat
  <1>1. k * BatchSize \in Nat /\ (k + 1) * BatchSize \in Nat
    BY BatchSizeType, BoundAssumption
  <1> QED
    BY <1>1, PoolSizeAssumption DEF ShardEnd

-----------------------------------------------------------------------------
(* Every variable keeps its type (TypeOK).                                 *)
THEOREM TypeCorrect == Spec => []TypeOK
  <1>1. Init => TypeOK
    <2>1. 0 \in Slots /\ 0 \in 0 .. Shards - 1 /\ StartClock \in Nat
      BY PoolSizeAssumption, TimeAssumption, BoundAssumption DEF Slots
    <2> SUFFICES ASSUME Init PROVE TypeOK
      OBVIOUS
    <2> USE DEF Init
    <2>2. done \in BOOLEAN /\ sent \in SUBSET Message /\ forced \in SUBSET Slots
      OBVIOUS
    <2>3. /\ version \in [Slots -> Nat \ {0}]
          /\ state \in [Slots -> {Free, Waiting, Abandoned}]
          /\ stamp \in [Slots -> Nat] /\ ch \in [Slots -> SUBSET Message]
      OBVIOUS
    <2>4. /\ cpc \in [Callers -> CallerPC] /\ cslot \in [Callers -> Slots]
          /\ ctried \in [Callers -> Nat] /\ cver \in [Callers -> Nat]
          /\ cgot \in [Callers -> SUBSET Message]
      BY <2>1 DEF CallerPC
    <2>5. rpc \in [Repliers -> ReplierPC] /\ rmsg \in [Repliers -> SUBSET Message]
      BY DEF ReplierPC
    <2>6. wpc \in WatchPC /\ wst \in {Free, Waiting, Abandoned}
      BY DEF WatchPC
    <2> QED
      BY <2>1, <2>2, <2>3, <2>4, <2>5, <2>6 DEF TypeOK
  <1>2. TypeOK /\ [Next]_vars => TypeOK'
    <2> SUFFICES ASSUME TypeOK, [Next]_vars PROVE TypeOK'
      OBVIOUS
    <2> USE DEF TypeOK, slotVars, callerVars, replyVars, wdVars, envVars, history
    <2>1. ASSUME NEW c \in Callers, AddSender(c) PROVE TypeOK'
      BY <2>1, WrapInPool DEF AddSender, CallerPC, Slots
    <2>2. ASSUME NEW c \in Callers, Claim(c) PROVE TypeOK'
      BY <2>2 DEF Claim, CallerPC
    <2>3. ASSUME NEW c \in Callers, Probe(c) PROVE TypeOK'
      <3>1. (cslot[c] + 1) % NumSlots \in Slots
        BY WrapInPool DEF Slots
      <3>2. 0 \in Slots
        BY PoolSizeAssumption DEF Slots
      <3> QED
        BY <2>3, <3>1, <3>2 DEF Probe, Return, CallerPC
    <2>4. ASSUME NEW c \in Callers, BumpVersion(c) PROVE TypeOK'
      BY <2>4 DEF BumpVersion, CallerPC
    <2>5. ASSUME NEW c \in Callers, StampClaim(c) PROVE TypeOK'
      BY <2>5 DEF StampClaim, CallerPC
    <2>6. ASSUME NEW c \in Callers, SendRequest(c) PROVE TypeOK'
      BY <2>6 DEF SendRequest, CallerPC, Message
    <2>7. ASSUME NEW c \in Callers, EnterGetReply(c) PROVE TypeOK'
      BY <2>7 DEF EnterGetReply, CallerPC
    <2>8. ASSUME NEW c \in Callers, FastPathEmpty(c) PROVE TypeOK'
      BY <2>8 DEF FastPathEmpty, CallerPC
    <2>9. ASSUME NEW c \in Callers, Receive(c) PROVE TypeOK'
      BY <2>9 DEF Receive, CallerPC
    <2>10. 0 \in Slots
      BY PoolSizeAssumption DEF Slots
    <2>11. ASSUME NEW c \in Callers, Success(c) PROVE TypeOK'
      BY <2>10, <2>11 DEF Success, Return, CallerPC
    <2>12. ASSUME NEW c \in Callers, Abandon(c) PROVE TypeOK'
      BY <2>10, <2>12 DEF Abandon, Return, CallerPC
    <2>13. ASSUME NEW c \in Callers, StampAbandoned(c) PROVE TypeOK'
      BY <2>10, <2>13 DEF StampAbandoned, Return, CallerPC
    <2>14. ASSUME NEW r \in Repliers, NEW m \in sent, SetReply(r, m) PROVE TypeOK'
      BY <2>14 DEF SetReply, ReplierPC
    <2>15. ASSUME NEW r \in Repliers, CheckWaiting(r) PROVE TypeOK'
      BY <2>15 DEF CheckWaiting, ReplierPC
    <2>16. ASSUME NEW r \in Repliers, PutReply(r) PROVE TypeOK'
      <3>1. PICK m \in rmsg[r] : ch' = [ch EXCEPT ![m.idx] = IF @ = {} THEN {m} ELSE @]
        BY <2>16 DEF PutReply
      <3>2. m \in Message /\ m.idx \in Slots
        BY DEF Message
      <3>3. ch' \in [Slots -> SUBSET Message]
        <4>1. \A s \in Slots : (IF ch[s] = {} THEN {m} ELSE ch[s]) \in SUBSET Message
          BY <3>2
        <4> QED
          BY <3>1, <3>2, <4>1
      <3> QED
        BY <2>16, <3>3 DEF PutReply, ReplierPC
    <2>17. NextSlot => /\ wpc' \in WatchPC /\ wshard' \in 0 .. Shards - 1
                       /\ wslot' \in Slots /\ wnow' \in Nat
                       /\ wst' \in {Free, Waiting, Abandoned}
      <3>1. ShardEnd(wshard) \in Nat /\ ShardEnd(wshard) <= NumSlots
        BY ShardInPool
      <3>2. wslot + 1 < ShardEnd(wshard) => wslot + 1 \in Slots
        BY <3>1, PoolSizeAssumption DEF Slots
      <3> QED
        BY <2>10, <3>2, ShardWrap DEF NextSlot, WatchPC
    <2>18. CASE WatchTick
      <3>1. wshard * BatchSize < ShardEnd(wshard) => wshard * BatchSize \in Slots
        BY ShardInPool, PoolSizeAssumption DEF Slots
      <3> QED
        BY <2>18, <3>1, ShardWrap DEF WatchTick, WatchPC
    <2>19. CASE CheckState
      BY <2>17, <2>19 DEF CheckState, WatchPC
    <2>20. CASE CheckStamp
      BY <2>17, <2>20 DEF CheckStamp, WatchPC
    <2>21. CASE RecycleVersion
      BY <2>21 DEF RecycleVersion, WatchPC
    <2>22. CASE RecycleDrain
      BY <2>22 DEF RecycleDrain, WatchPC
    <2>23. CASE RecycleFree
      BY <2>17, <2>23 DEF RecycleFree
    <2>24. CASE WatchStop
      BY <2>24 DEF WatchStop, WatchPC
    <2>25. CASE Tick
      BY <2>25 DEF Tick
    <2>26. CASE Cancel
      BY <2>26 DEF Cancel
    <2>27. CASE UNCHANGED vars
      BY <2>27 DEF vars
    <2> QED
      BY <2>1, <2>2, <2>3, <2>4, <2>5, <2>6, <2>7, <2>8, <2>9, <2>11, <2>12,
         <2>13, <2>14, <2>15, <2>16, <2>18, <2>19, <2>20, <2>21, <2>22, <2>23,
         <2>24, <2>25, <2>26, <2>27
         DEF Next, CallerStep, ReplierStep, Watchdog
  <1> QED
    BY <1>1, <1>2, PTL DEF Spec

-----------------------------------------------------------------------------
(* A step that only takes caller c out of the numbered positions, leaving  *)
(* versions, messages and the other callers alone, preserves IdInv.        *)
LEMMA IdFrame ==
    ASSUME TypeOK, IdInv, NEW c \in Callers,
           UNCHANGED <<version, ch, rmsg, sent>>,
           cpc'[c] \notin Numbered,
           \A d \in Callers \ {c} : /\ cpc'[d] = cpc[d] /\ cslot'[d] = cslot[d]
                                    /\ cver'[d] = cver[d] /\ cgot'[d] = cgot[d]
    PROVE  IdInv'
  <1> USE DEF TypeOK, IdInv, Expected, Own, Numbered, Asked
  <1>1. InFlightSent'
    BY DEF InFlightSent
  <1>2. VersionBounds'
    BY DEF VersionBounds
  <1>3. IdsUnique'
    BY DEF IdsUnique, IssuedIdFresh
  <1> QED
    BY <1>1, <1>2, <1>3

(* AddSender's scan, and a GetReply that finds the slot taken from it.     *)
LEMMA ProbeIdInv ==
    ASSUME TypeOK, IdInv, NEW c \in Callers, Probe(c) PROVE IdInv'
  <1>1. cpc'[c] \notin Numbered
    BY DEF TypeOK, Probe, Return, Numbered
  <1>2. \A d \in Callers \ {c} : /\ cpc'[d] = cpc[d] /\ cslot'[d] = cslot[d]
                                 /\ cver'[d] = cver[d] /\ cgot'[d] = cgot[d]
    BY DEF TypeOK, Probe, Return
  <1>3. UNCHANGED <<version, ch, rmsg, sent>>
    BY DEF Probe, slotVars, replyVars, history
  <1> QED
    BY <1>1, <1>2, <1>3, IdFrame

(* A caller finds its slot taken from it, and leaves.                      *)
LEMMA AbandonLostIdInv ==
    ASSUME TypeOK, IdInv, NEW c \in Callers, Abandon(c), state[cslot[c]] # Waiting
    PROVE  IdInv'
  <1>1. cpc'[c] \notin Numbered
    BY DEF TypeOK, Abandon, Return, Numbered
  <1>2. \A d \in Callers \ {c} : /\ cpc'[d] = cpc[d] /\ cslot'[d] = cslot[d]
                                 /\ cver'[d] = cver[d] /\ cgot'[d] = cgot[d]
    BY DEF TypeOK, Abandon, Return
  <1>3. UNCHANGED <<version, ch, rmsg, sent>>
    BY DEF Abandon, replyVars, history
  <1> QED
    BY <1>1, <1>2, <1>3, IdFrame

(* A receive takes a response to some request from the slot's channel.     *)
LEMMA ReceiveIdInv ==
    ASSUME TypeOK, TypeOK', IdInv, NEW c \in Callers, Receive(c) PROVE IdInv'
  <1> USE DEF TypeOK
  <1>1. PICK m \in ch[cslot[c]] :
             \/ /\ Expected(c, m)
                /\ cgot' = [cgot EXCEPT ![c] = {m}]
                /\ cpc'  = [cpc EXCEPT ![c] = "got"]
             \/ /\ ~Expected(c, m)
                /\ cpc'  = [cpc EXCEPT ![c] = "wait"]
                /\ UNCHANGED cgot
    BY DEF Receive
  <1>2. m \in sent
    BY DEF IdInv, InFlightSent
  <1>3. /\ cpc[c] \in {"fast", "wait"}
        /\ ch' = [ch EXCEPT ![cslot[c]] = {}]
        /\ UNCHANGED <<version, sent, rmsg, cslot, cver>>
    BY DEF Receive, replyVars, history
  <1>4. /\ cpc'[c] \in {"wait", "got"}
        /\ \A d \in Callers \ {c} : cpc'[d] = cpc[d] /\ cgot'[d] = cgot[d]
        /\ cpc'[c] = "got" => Expected(c, m) /\ cgot'[c] = {m}
    BY <1>1
  <1>5. InFlightSent'
    <2>1. \A s \in Slots : ch'[s] \subseteq ch[s]
      BY <1>3
    <2>2. \A d \in Callers : cpc'[d] = "got" =>
              \E n \in sent' : cgot'[d] = {n} /\ Expected(d, n)'
      <3> SUFFICES ASSUME NEW d \in Callers, cpc'[d] = "got"
                   PROVE  \E n \in sent : cgot'[d] = {n} /\ Expected(d, n)
        BY <1>3 DEF Expected
      <3>1. CASE d = c
        BY <1>2, <1>4, <3>1
      <3>2. CASE d # c
        BY <1>4, <3>2 DEF IdInv, InFlightSent
      <3> QED
        BY <3>1, <3>2
    <2> QED
      BY <1>3, <2>1, <2>2 DEF IdInv, InFlightSent
  <1>6. VersionBounds'
    BY <1>3, <1>4 DEF IdInv, VersionBounds, Numbered
  <1>7. IdsUnique'
    BY <1>3, <1>4 DEF IdInv, IdsUnique, IssuedIdFresh, Expected, Own, Asked
  <1> QED
    BY <1>5, <1>6, <1>7 DEF IdInv

(* IdInv is inductive: the only step that issues an rpcId takes a version  *)
(* above every one issued for the slot before.                             *)
LEMMA IdInvInductive ==
    ASSUME TypeOK, TypeOK', IdInv, [Next]_vars PROVE IdInv'
  <1>3. ASSUME NEW c \in Callers, Probe(c) PROVE IdInv'
    BY <1>3, ProbeIdInv
  <1>9. ASSUME NEW c \in Callers, Receive(c) PROVE IdInv'
    BY <1>9, ReceiveIdInv
  <1>26. ASSUME NEW c \in Callers, Abandon(c), state[cslot[c]] # Waiting PROVE IdInv'
    BY <1>26, AbandonLostIdInv
  <1> USE DEF TypeOK, IdInv, InFlightSent, VersionBounds, IdsUnique, IssuedIdFresh,
              Expected, Own, Numbered, Asked, Message, slotVars, callerVars,
              replyVars, wdVars, envVars, history
  <1>1. ASSUME NEW c \in Callers, AddSender(c) PROVE IdInv'
    BY <1>1 DEF AddSender
  <1>2. ASSUME NEW c \in Callers, Claim(c) PROVE IdInv'
    BY <1>2 DEF Claim
  <1>4. ASSUME NEW c \in Callers, BumpVersion(c) PROVE IdInv'
    BY <1>4 DEF BumpVersion
  <1>5. ASSUME NEW c \in Callers, StampClaim(c) PROVE IdInv'
    BY <1>5 DEF StampClaim
  <1>6. ASSUME NEW c \in Callers, SendRequest(c) PROVE IdInv'
    BY <1>6 DEF SendRequest
  <1>7. ASSUME NEW c \in Callers, EnterGetReply(c) PROVE IdInv'
    BY <1>7 DEF EnterGetReply
  <1>8. ASSUME NEW c \in Callers, FastPathEmpty(c) PROVE IdInv'
    BY <1>8 DEF FastPathEmpty
  <1>10. ASSUME NEW c \in Callers, Success(c) PROVE IdInv'
    BY <1>10 DEF Success, Return
  <1>11. ASSUME NEW c \in Callers, Abandon(c) PROVE IdInv'
    <2>1. CASE state[cslot[c]] = Waiting
      BY <1>11, <2>1 DEF Abandon
    <2>2. CASE state[cslot[c]] # Waiting
      BY <1>11, <1>26, <2>2
    <2> QED
      BY <2>1, <2>2
  <1>12. ASSUME NEW c \in Callers, StampAbandoned(c) PROVE IdInv'
    BY <1>12 DEF StampAbandoned, Return
  <1>13. ASSUME NEW r \in Repliers, NEW m \in sent, SetReply(r, m) PROVE IdInv'
    BY <1>13 DEF SetReply
  <1>14. ASSUME NEW r \in Repliers, CheckWaiting(r) PROVE IdInv'
    BY <1>14 DEF CheckWaiting
  <1>15. ASSUME NEW r \in Repliers, PutReply(r) PROVE IdInv'
    BY <1>15 DEF PutReply
  <1>16. CASE WatchTick
    BY <1>16 DEF WatchTick
  <1>17. CASE CheckState
    BY <1>17 DEF CheckState
  <1>18. CASE CheckStamp
    BY <1>18 DEF CheckStamp
  <1>19. CASE RecycleVersion
    BY <1>19 DEF RecycleVersion
  <1>20. CASE RecycleDrain
    BY <1>20 DEF RecycleDrain
  <1>21. CASE RecycleFree
    BY <1>21 DEF RecycleFree
  <1>22. CASE WatchStop
    BY <1>22 DEF WatchStop
  <1>23. CASE Tick
    BY <1>23 DEF Tick
  <1>24. CASE Cancel
    BY <1>24 DEF Cancel
  <1>25. CASE UNCHANGED vars
    BY <1>25 DEF vars
  <1> QED
    BY <1>1, <1>2, <1>3, <1>4, <1>5, <1>6, <1>7, <1>8, <1>9,
       <1>10, <1>11, <1>12, <1>13, <1>14, <1>15, <1>16, <1>17, <1>18,
       <1>19, <1>20, <1>21, <1>22, <1>23, <1>24, <1>25
       DEF Next, CallerStep, ReplierStep, Watchdog

(* No caller is handed another request's response, and AddSender never     *)
(* issues an rpcId twice (NoCrossTalk, IssuedIdFresh).                     *)
THEOREM RepliesMatch == Spec => [](NoCrossTalk /\ IssuedIdFresh)
  <1>1. Init => IdInv
    BY DEF Init, IdInv, InFlightSent, VersionBounds, IdsUnique, IssuedIdFresh,
           Numbered, Asked
  <1>2. TypeOK /\ TypeOK' /\ IdInv /\ [Next]_vars => IdInv'
    BY IdInvInductive
  <1>3. TypeOK /\ IdInv => NoCrossTalk /\ IssuedIdFresh
    <2> SUFFICES ASSUME TypeOK, IdInv, NEW c \in Callers, cpc[c] = "got"
                 PROVE  cgot[c] = {Own(c)}
      BY DEF IdInv, IdsUnique, NoCrossTalk, Own
    <2>1. PICK m \in sent : cgot[c] = {m} /\ Expected(c, m)
      BY DEF IdInv, InFlightSent
    <2>2. Own(c) \in sent
      BY DEF IdInv, IdsUnique, Asked
    <2>3. m = Own(c)
      BY <2>1, <2>2 DEF IdInv, IdsUnique, Expected, Own
    <2> QED
      BY <2>1, <2>3
  <1> QED
    BY <1>1, <1>2, <1>3, TypeCorrect, PTL DEF Spec

-----------------------------------------------------------------------------
(* OwnInv is inductive.  A slot outside forced is freed either by its one  *)
(* holder or by the watchdog while it is Abandoned and has no holder.      *)
LEMMA OwnInvInductive ==
    ASSUME TypeOK, TypeOK', OwnInv, [Next]_vars PROVE OwnInv'
  <1> USE DEF TypeOK, OwnInv, Holds, Free, Waiting, Abandoned,
              slotVars, callerVars, replyVars, wdVars, envVars, history
  <1>1. ASSUME NEW c \in Callers, AddSender(c) PROVE OwnInv'
    BY <1>1 DEF AddSender
  <1>2. ASSUME NEW c \in Callers, Claim(c) PROVE OwnInv'
    BY <1>2 DEF Claim
  <1>3. ASSUME NEW c \in Callers, Probe(c) PROVE OwnInv'
    BY <1>3 DEF Probe, Return
  <1>4. ASSUME NEW c \in Callers, BumpVersion(c) PROVE OwnInv'
    BY <1>4 DEF BumpVersion
  <1>5. ASSUME NEW c \in Callers, StampClaim(c) PROVE OwnInv'
    BY <1>5 DEF StampClaim
  <1>6. ASSUME NEW c \in Callers, SendRequest(c) PROVE OwnInv'
    BY <1>6 DEF SendRequest
  <1>7. ASSUME NEW c \in Callers, EnterGetReply(c) PROVE OwnInv'
    BY <1>7 DEF EnterGetReply
  <1>8. ASSUME NEW c \in Callers, FastPathEmpty(c) PROVE OwnInv'
    BY <1>8 DEF FastPathEmpty
  <1>9. ASSUME NEW c \in Callers, Receive(c) PROVE OwnInv'
    BY <1>9 DEF Receive
  <1>10. ASSUME NEW c \in Callers, Success(c) PROVE OwnInv'
    BY <1>10 DEF Success, Return
  <1>11. ASSUME NEW c \in Callers, Abandon(c) PROVE OwnInv'
    BY <1>11 DEF Abandon, Return
  <1>12. ASSUME NEW c \in Callers, StampAbandoned(c) PROVE OwnInv'
    BY <1>12 DEF StampAbandoned, Return
  <1>13. ASSUME NEW r \in Repliers, ReplierStep(r) PROVE OwnInv'
    BY <1>13 DEF ReplierStep, SetReply, CheckWaiting, PutReply
  <1>14. CASE WatchTick
    BY <1>14 DEF WatchTick
  <1>15. CASE CheckState
    BY <1>15 DEF CheckState, NextSlot
  <1>16. CASE CheckStamp
    BY <1>16 DEF CheckStamp, NextSlot
  <1>17. CASE RecycleVersion
    BY <1>17 DEF RecycleVersion
  <1>18. CASE RecycleDrain
    BY <1>18 DEF RecycleDrain
  <1>19. CASE RecycleFree
    BY <1>19 DEF RecycleFree, NextSlot
  <1>20. CASE WatchStop
    BY <1>20 DEF WatchStop
  <1>21. CASE Tick
    BY <1>21 DEF Tick
  <1>22. CASE Cancel
    BY <1>22 DEF Cancel
  <1>23. CASE UNCHANGED vars
    BY <1>23 DEF vars
  <1> QED
    BY <1>1, <1>2, <1>3, <1>4, <1>5, <1>6, <1>7, <1>8, <1>9,
       <1>10, <1>11, <1>12, <1>13, <1>14, <1>15, <1>16, <1>17, <1>18,
       <1>19, <1>20, <1>21, <1>22, <1>23
       DEF Next, CallerStep, Watchdog

(* Only a force recycle can give a held slot to a second caller            *)
(* (ExclusiveUnlessForced).                                                *)
THEOREM SlotsExclusive == Spec => []ExclusiveUnlessForced
  <1>1. Init => OwnInv
    BY DEF Init, OwnInv, Holds
  <1>2. TypeOK /\ TypeOK' /\ OwnInv /\ [Next]_vars => OwnInv'
    BY OwnInvInductive
  <1>3. OwnInv => ExclusiveUnlessForced
    BY DEF OwnInv, ExclusiveUnlessForced
  <1> QED
    BY <1>1, <1>2, <1>3, TypeCorrect, PTL DEF Spec

-----------------------------------------------------------------------------
(* What the refinement needs beyond IdInv: every version given out is at    *)
(* least 1, and a caller holds a response only while it is at "got".       *)
GotInv ==
    /\ \A m \in sent : m.ver \in Nat \ {0}
    /\ \A c \in Callers : cpc[c] \in Numbered => cver[c] \in Nat \ {0}
    /\ \A c \in Callers : cpc[c] # "got" => cgot[c] = {}

(* AddSender's new version is above the one the slot had (at least 1), and *)
(* success() returns the response with the call.                           *)
LEMMA GotInvInductive ==
    ASSUME TypeOK, GotInv, [Next]_vars PROVE GotInv'
  <1> USE DEF TypeOK, GotInv, Numbered, slotVars, callerVars, replyVars, wdVars,
              envVars, history
  <1>1. ASSUME NEW c \in Callers, AddSender(c) PROVE GotInv'
    BY <1>1 DEF AddSender
  <1>2. ASSUME NEW c \in Callers, Claim(c) PROVE GotInv'
    BY <1>2 DEF Claim
  <1>3. ASSUME NEW c \in Callers, Probe(c) PROVE GotInv'
    BY <1>3 DEF Probe, Return
  <1>4. ASSUME NEW c \in Callers, BumpVersion(c) PROVE GotInv'
    BY <1>4 DEF BumpVersion
  <1>5. ASSUME NEW c \in Callers, StampClaim(c) PROVE GotInv'
    BY <1>5 DEF StampClaim
  <1>6. ASSUME NEW c \in Callers, SendRequest(c) PROVE GotInv'
    BY <1>6 DEF SendRequest
  <1>7. ASSUME NEW c \in Callers, EnterGetReply(c) \/ FastPathEmpty(c) PROVE GotInv'
    BY <1>7 DEF EnterGetReply, FastPathEmpty
  <1>8. ASSUME NEW c \in Callers, Receive(c) PROVE GotInv'
    BY <1>8 DEF Receive
  <1>9. ASSUME NEW c \in Callers, Success(c) PROVE GotInv'
    BY <1>9 DEF Success, Return
  <1>10. ASSUME NEW c \in Callers, Abandon(c) PROVE GotInv'
    BY <1>10 DEF Abandon, Return
  <1>11. ASSUME NEW c \in Callers, StampAbandoned(c) PROVE GotInv'
    BY <1>11 DEF StampAbandoned, Return
  <1>12. CASE UNCHANGED <<callerVars, sent>>
    BY <1>12
  <1>13. ASSUME NEW r \in Repliers, ReplierStep(r) PROVE UNCHANGED <<callerVars, sent>>
    BY <1>13 DEF ReplierStep, SetReply, CheckWaiting, PutReply
  <1>14. Watchdog \/ Tick \/ Cancel => UNCHANGED <<callerVars, sent>>
    BY DEF Watchdog, WatchTick, CheckState, CheckStamp, RecycleVersion, RecycleDrain,
           RecycleFree, WatchStop, Tick, Cancel
  <1>15. UNCHANGED vars => UNCHANGED <<callerVars, sent>>
    BY DEF vars
  <1> QED
    BY <1>1, <1>2, <1>3, <1>4, <1>5, <1>6, <1>7, <1>8, <1>9, <1>10, <1>11, <1>12,
       <1>13, <1>14, <1>15 DEF Next, CallerStep

(* The abstract specification's variables, by name.                        *)
openMap   == [c \in Callers |-> IF Calling(c) THEN {<<cver[c], cslot[c]>>} ELSE {}]
usedMap   == {<<m.ver, m.idx>> : m \in sent}
answerMap == [c \in Callers |-> {<<m.ver, m.idx>> : m \in cgot[c]}]

(* A step that leaves the callers' calls and the requests sent alone is a  *)
(* stuttering step of the abstract specification.                          *)
LEMMA Stutters ==
    ASSUME sent' = sent, cgot' = cgot,
           \A c \in Callers : /\ Calling(c)' <=> Calling(c)
                              /\ Calling(c) => cver'[c] = cver[c] /\ cslot'[c] = cslot[c]
    PROVE  UNCHANGED <<openMap, usedMap, answerMap>>
  <1>1. openMap' = openMap
    BY DEF openMap, Calling
  <1>2. usedMap' = usedMap /\ answerMap' = answerMap
    BY DEF usedMap, answerMap
  <1> QED
    BY <1>1, <1>2

(* SendMsg after AddSender: an identifier nobody had.                      *)
LEMMA SendAsks ==
    ASSUME TypeOK, IdInv, GotInv, NEW c \in Callers, SendRequest(c)
    PROVE  Calls!Ask(c)
  <1> DEFINE i == <<cver[c], cslot[c]>>
             n == [ver |-> cver[c], idx |-> cslot[c], by |-> c]
  <1>1. cpc[c] = "send" /\ sent' = sent \cup {n} /\ cpc' = [cpc EXCEPT ![c] = "enter"]
    BY DEF SendRequest
  <1>2. UNCHANGED <<cslot, cver, cgot>>
    BY DEF SendRequest
  <1>3. openMap[c] = {}
    BY <1>1 DEF openMap, Calling
  <1>4. i \notin usedMap
    BY <1>1 DEF usedMap, IdInv, IdsUnique, IssuedIdFresh, Expected
  <1>5. usedMap' = usedMap \cup {i}
    <2>1. <<n.ver, n.idx>> = i
      OBVIOUS
    <2>2. usedMap' = {<<m.ver, m.idx>> : m \in sent \cup {n}}
      BY <1>1 DEF usedMap
    <2> HIDE DEF n, i
    <2> QED
      BY <2>1, <2>2 DEF usedMap
  <1>6. openMap' = [openMap EXCEPT ![c] = {i}]
    BY <1>1, <1>2 DEF openMap, Calling, TypeOK
  <1>7. usedMap' \subseteq RpcIds
    <2>1. usedMap \subseteq RpcIds
      BY DEF usedMap, RpcIds, GotInv, TypeOK, Message
    <2>2. i \in RpcIds
      BY <1>1 DEF GotInv, Numbered, TypeOK, RpcIds
    <2> QED
      BY <1>5, <2>1, <2>2
  <1>8. answerMap' = answerMap
    BY <1>2 DEF answerMap
  <1> QED
    BY <1>3, <1>4, <1>5, <1>6, <1>7, <1>8 DEF Calls!Ask, openMap, usedMap, answerMap

(* A receive that matches is the reply to the caller's own call; one that  *)
(* does not is released and changes nothing.                               *)
LEMMA ReceiveReplies ==
    ASSUME TypeOK, GotInv, NEW c \in Callers, Receive(c)
    PROVE  Calls!GetReply(c) \/ UNCHANGED <<openMap, usedMap, answerMap>>
  <1>1. /\ cpc[c] \in {"fast", "wait"} /\ cpc' = [cpc EXCEPT ![c] = cpc'[c]]
        /\ cpc'[c] \in {"got", "wait"}
        /\ UNCHANGED <<cslot, cver, sent>>
    BY DEF Receive, TypeOK, history
  <1>2. openMap' = openMap
    BY <1>1 DEF openMap, Calling, TypeOK
  <1>3. usedMap' = usedMap
    BY <1>1 DEF usedMap
  <1>4. PICK m \in ch[cslot[c]] :
             \/ Expected(c, m) /\ cgot' = [cgot EXCEPT ![c] = {m}]
             \/ ~Expected(c, m) /\ UNCHANGED cgot
    BY DEF Receive
  <1>5. CASE Expected(c, m) /\ cgot' = [cgot EXCEPT ![c] = {m}]
    <2>1. openMap[c] = {<<m.ver, m.idx>>}
      BY <1>1, <1>5 DEF openMap, Calling, Expected
    <2>2. answerMap[c] = {}
      BY <1>1 DEF answerMap, GotInv
    <2>3. answerMap' = [answerMap EXCEPT ![c] = {<<m.ver, m.idx>>}]
      BY <1>5 DEF answerMap, TypeOK
    <2> QED
      BY <1>2, <1>3, <2>1, <2>2, <2>3 DEF Calls!GetReply, openMap, usedMap, answerMap
  <1>6. CASE UNCHANGED cgot
    BY <1>2, <1>3, <1>6 DEF answerMap
  <1> QED
    BY <1>4, <1>5, <1>6

(* GetReply returns: with the response, without one because the slot was   *)
(* taken away, or after the slot was abandoned.                            *)
LEMMA ReturnEnds ==
    ASSUME TypeOK, NEW c \in Callers, Calling(c), Return(c), sent' = sent
    PROVE  Calls!End(c)
  <1>1. openMap[c] # {}
    BY DEF openMap
  <1>2. openMap' = [openMap EXCEPT ![c] = {}]
    BY DEF openMap, Calling, Return, TypeOK
  <1>3. answerMap' = [answerMap EXCEPT ![c] = {}]
    BY DEF answerMap, Return, TypeOK
  <1>4. usedMap' = usedMap
    BY DEF usedMap
  <1> QED
    BY <1>1, <1>2, <1>3, <1>4 DEF Calls!End, openMap, usedMap, answerMap

(* Every step of the slot pool is a step of the abstract calls or a        *)
(* stuttering one.                                                         *)
LEMMA StepImplements ==
    ASSUME TypeOK, IdInv, GotInv, [Next]_vars
    PROVE  [Calls!CallsNext]_<<openMap, usedMap, answerMap>>
  <1> DEFINE Abs == [Calls!CallsNext]_<<openMap, usedMap, answerMap>>
  <1> USE DEF TypeOK, slotVars, callerVars, replyVars, wdVars, envVars, history
  <1>1. ASSUME NEW c \in Callers, AddSender(c) PROVE Abs
    BY <1>1, Stutters DEF AddSender, Calling
  <1>2. ASSUME NEW c \in Callers, Claim(c) PROVE Abs
    BY <1>2, Stutters DEF Claim, Calling
  <1>3. ASSUME NEW c \in Callers, Probe(c) PROVE Abs
    <2>1. cgot[c] = {}
      BY <1>3 DEF Probe, GotInv
    <2>2. cgot' = cgot
      <3>1. cgot' = cgot \/ cgot' = [cgot EXCEPT ![c] = cgot[c]]
        BY <1>3, <2>1 DEF Probe, Return
      <3> QED
        BY <3>1
    <2>3. \A d \in Callers : /\ Calling(d)' <=> Calling(d)
                             /\ Calling(d) => cver'[d] = cver[d] /\ cslot'[d] = cslot[d]
      BY <1>3 DEF Probe, Return, Calling
    <2>4. sent' = sent
      BY <1>3 DEF Probe
    <2> QED
      BY <2>2, <2>3, <2>4, Stutters
  <1>4. ASSUME NEW c \in Callers, BumpVersion(c) PROVE Abs
    BY <1>4, Stutters DEF BumpVersion, Calling
  <1>5. ASSUME NEW c \in Callers, StampClaim(c) PROVE Abs
    BY <1>5, Stutters DEF StampClaim, Calling
  <1>6. ASSUME NEW c \in Callers, SendRequest(c) PROVE Abs
    BY <1>6, SendAsks DEF Calls!CallsNext
  <1>7. ASSUME NEW c \in Callers, EnterGetReply(c) \/ FastPathEmpty(c) PROVE Abs
    BY <1>7, Stutters DEF EnterGetReply, FastPathEmpty, Calling
  <1>8. ASSUME NEW c \in Callers, Receive(c) PROVE Abs
    BY <1>8, ReceiveReplies DEF Calls!CallsNext
  <1>9. ASSUME NEW c \in Callers, Success(c) PROVE Abs
    BY <1>9, ReturnEnds DEF Success, Calling, Calls!CallsNext
  <1>10. ASSUME NEW c \in Callers, Abandon(c) PROVE Abs
    <2>1. CASE state[cslot[c]] = Waiting
      BY <1>10, <2>1, Stutters DEF Abandon, Calling
    <2>2. CASE state[cslot[c]] # Waiting
      BY <1>10, <2>2, ReturnEnds DEF Abandon, Calling, Calls!CallsNext
    <2> QED
      BY <2>1, <2>2
  <1>11. ASSUME NEW c \in Callers, StampAbandoned(c) PROVE Abs
    BY <1>11, ReturnEnds DEF StampAbandoned, Calling, Calls!CallsNext
  <1>12. UNCHANGED <<callerVars, sent>> => Abs
    BY Stutters DEF Calling
  <1>13. ASSUME NEW r \in Repliers, ReplierStep(r) PROVE Abs
    BY <1>12, <1>13 DEF ReplierStep, SetReply, CheckWaiting, PutReply
  <1>14. Watchdog \/ Tick \/ Cancel => Abs
    BY <1>12 DEF Watchdog, WatchTick, CheckState, CheckStamp, RecycleVersion,
       RecycleDrain, RecycleFree, WatchStop, Tick, Cancel
  <1>15. UNCHANGED vars => Abs
    BY <1>12 DEF vars
  <1> QED
    BY <1>1, <1>2, <1>3, <1>4, <1>5, <1>6, <1>7, <1>8, <1>9, <1>10, <1>11, <1>13,
       <1>14, <1>15 DEF Next, CallerStep

(* The slot pool implements the calls of RpcCalls: whatever interleaves,   *)
(* every call of CallActor goes out under an rpcId no call had before and  *)
(* ends once, with the reply to its own request or without one             *)
(* (ImplementsCalls).                                                      *)
THEOREM PoolImplementsCalls == Spec => ImplementsCalls
  <1>1. Init => IdInv /\ GotInv
    BY DEF Init, IdInv, InFlightSent, VersionBounds, IdsUnique, IssuedIdFresh,
           Numbered, Asked, GotInv
  <1>2. Init => Calls!CallsInit
    BY DEF Init, Calls!CallsInit, Calling
  <1>3. TypeOK /\ TypeOK' /\ IdInv /\ GotInv /\ [Next]_vars => IdInv' /\ GotInv'
    BY IdInvInductive, GotInvInductive
  <1>4. TypeOK /\ IdInv /\ GotInv /\ [Next]_vars => [Calls!CallsNext]_(Calls!callsVars)
    BY StepImplements DEF Calls!callsVars, openMap, usedMap, answerMap
  <1> QED
    BY <1>1, <1>2, <1>3, <1>4, TypeCorrect, PTL
       DEF Spec, ImplementsCalls, Calls!CallsSpec

=============================================================================
