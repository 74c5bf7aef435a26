---------------------------- MODULE ScriptProofs ----------------------------
(* Proofs about ScriptRuntime, for any callers, VMs, actors, loads, files,   *)
(* contexts and recorders.  Each kind of engine has its own inductive        *)
(* invariant: StatsInv (the statistics), VmInv (the engines that pool VMs)   *)
(* and StubInv (the engines without a pool).                                 *)
EXTENDS ScriptRuntime, FiniteSetTheorems, WellFoundedInduction, TLAPS

-----------------------------------------------------------------------------
(* The statistics                                                            *)

StatRecord == [pc : {"ready", "total", "max", "casmax", "min", "casmin", "done"},
               dur : Nat, old : Nat]

(* Recorders that have raised the maximum, or found it high enough.          *)
Raised == {"min", "casmin", "done"}

StatsTyped ==
    /\ rec \in [Recorders -> StatRecord]
    /\ stats \in [calls : Nat, total : Nat, errors : Nat, max : Nat, min : Nat]
    /\ \A w \in Recorders : rec[w].pc # "ready" => rec[w].dur \in Durations

(* A recorder that is past a loop is covered by what the loop raises, and    *)
(* one that is about to swap swaps in the right direction.                   *)
StatsCovered ==
    \A w \in Recorders :
        /\ rec[w].pc \in Raised => rec[w].dur <= stats.max
        /\ rec[w].pc = "done" => stats.min <= rec[w].dur
        /\ rec[w].pc = "casmax" => rec[w].old < rec[w].dur
        /\ rec[w].pc = "casmin" => rec[w].dur < rec[w].old

(* What the statistics hold, somebody has put there.                         *)
StatsReached ==
    /\ recorded = {rec[w].dur : w \in {x \in Recorders : rec[x].pc = "done"}}
    /\ stats.max = 0 \/ \E w \in Recorders : rec[w].pc \in Raised /\ rec[w].dur = stats.max
    /\ stats.min = MaxInt64 \/ \E w \in Recorders : rec[w].pc = "done" /\ rec[w].dur = stats.min

StatsInv == StatsTyped /\ StatsCovered /\ StatsReached

(* At the start nothing is recorded.                                         *)
LEMMA StatsStart == StatsInit => StatsInv
  <1> SUFFICES ASSUME StatsInit PROVE StatsInv
    OBVIOUS
  <1>1. /\ NotRecording \in StatRecord /\ NotRecording.pc = "ready"
        /\ \A w \in Recorders : rec[w] = NotRecording
    BY DEF StatsInit, NotRecording, StatRecord
  <1>2. /\ stats \in [calls : Nat, total : Nat, errors : Nat, max : Nat, min : Nat]
        /\ stats.max = 0 /\ stats.min = MaxInt64
    BY DurationsBelow DEF StatsInit, NewStatsCollector
  <1>3. StatsTyped
    BY <1>1, <1>2 DEF StatsInit, StatsTyped
  <1>4. StatsCovered
    BY <1>1 DEF StatsCovered, Raised
  <1>5. StatsReached
    BY <1>1, <1>2 DEF StatsInit, StatsReached
  <1> QED
    BY <1>3, <1>4, <1>5 DEF StatsInv

(* One step of one recorder, in the terms of the invariant: what becomes of  *)
(* its record, and of the two extremes.                                      *)
LEMMA RecordStep ==
    ASSUME StatsInv, NEW w \in Recorders, NEW r \in StatRecord,
           rec' = [rec EXCEPT ![w] = r],
           r.pc # "ready" => r.dur \in Durations,
           stats' \in [calls : Nat, total : Nat, errors : Nat, max : Nat, min : Nat],
           stats'.max = stats.max \/ (stats.max <= stats'.max /\ stats'.max = r.dur /\ r.pc \in Raised),
           stats'.min = stats.min \/ (stats'.min <= stats.min /\ stats'.min = r.dur /\ r.pc = "done"),
           rec[w].pc \in Raised => r.pc \in Raised /\ r.dur = rec[w].dur,
           rec[w].pc # "done",
           r.pc \in Raised => r.dur <= stats'.max,
           r.pc = "done" => stats'.min <= r.dur,
           r.pc = "casmax" => r.old < r.dur,
           r.pc = "casmin" => r.dur < r.old,
           recorded' = IF r.pc = "done" THEN recorded \cup {r.dur} ELSE recorded
    PROVE  StatsInv'
  <1>1. StatsTyped'
    BY DEF StatsInv, StatsTyped
  <1>2. StatsCovered'
    <2> SUFFICES ASSUME NEW x \in Recorders
                 PROVE  /\ rec'[x].pc \in Raised => rec'[x].dur <= stats'.max
                        /\ rec'[x].pc = "done" => stats'.min <= rec'[x].dur
                        /\ rec'[x].pc = "casmax" => rec'[x].old < rec'[x].dur
                        /\ rec'[x].pc = "casmin" => rec'[x].dur < rec'[x].old
      BY DEF StatsCovered
    <2>1. CASE x = w
      BY <2>1 DEF StatsInv, StatsTyped
    <2>2. CASE x # w
      <3>1. rec'[x] = rec[x] /\ rec[x] \in StatRecord
        BY <2>2 DEF StatsInv, StatsTyped
      <3>2. stats.max \in Nat /\ stats.min \in Nat /\ stats'.max \in Nat /\ stats'.min \in Nat
        BY DEF StatsInv, StatsTyped
      <3>3. stats.max <= stats'.max /\ stats'.min <= stats.min
        BY <3>2
      <3>4. rec[x].dur \in Nat
        BY <3>1 DEF StatRecord
      <3> QED
        BY <3>1, <3>2, <3>3, <3>4 DEF StatsInv, StatsCovered
    <2> QED
      BY <2>1, <2>2
  <1>3. \A x \in Recorders : rec'[x] = IF x = w THEN r ELSE rec[x]
    BY DEF StatsInv, StatsTyped
  <1>4. recorded' = {rec'[x].dur : x \in {y \in Recorders : rec'[y].pc = "done"}}
    BY <1>3 DEF StatsInv, StatsReached
  <1>5. stats'.max = 0 \/ \E x \in Recorders : rec'[x].pc \in Raised /\ rec'[x].dur = stats'.max
    <2>1. CASE stats'.max = stats.max
      BY <1>3, <2>1 DEF StatsInv, StatsReached
    <2>2. CASE stats'.max = r.dur /\ r.pc \in Raised
      BY <1>3, <2>2
    <2> QED
      BY <2>1, <2>2
  <1>6. stats'.min = MaxInt64 \/ \E x \in Recorders : rec'[x].pc = "done" /\ rec'[x].dur = stats'.min
    <2>1. CASE stats'.min = stats.min
      BY <1>3, <2>1 DEF StatsInv, StatsReached
    <2>2. CASE stats'.min = r.dur /\ r.pc = "done"
      BY <1>3, <2>2
    <2> QED
      BY <2>1, <2>2
  <1> QED
    BY <1>1, <1>2, <1>4, <1>5, <1>6 DEF StatsInv, StatsReached

(* The invariant of the statistics is inductive: the swaps that raise the    *)
(* maximum and lower the minimum never go back.                              *)
LEMMA StatsStep == ASSUME StatsInv, StatsNext PROVE StatsInv'
  <1>1. PICK w \in Recorders : \/ CountCall(w) \/ AddDuration(w) \/ LoadMax(w) \/ SwapMax(w)
                               \/ LoadMin(w) \/ SwapMin(w)
    BY DEF StatsNext
  <1> DEFINE q == rec[w]
  <1>2. /\ q \in StatRecord /\ q.dur \in Nat /\ q.old \in Nat
        /\ stats.max \in Nat /\ stats.min \in Nat /\ stats.total \in Nat
        /\ stats.calls \in Nat /\ stats.errors \in Nat
        /\ stats \in [calls : Nat, total : Nat, errors : Nat, max : Nat, min : Nat]
        /\ q.pc # "ready" => q.dur \in Durations
    BY DEF StatsInv, StatsTyped, StatRecord
  <1>3. CASE CountCall(w)
    <2>1. PICK d \in Durations : rec' = [rec EXCEPT ![w] = [pc |-> "total", dur |-> d, old |-> 0]]
      BY <1>3 DEF CountCall
    <2> DEFINE r == [pc |-> "total", dur |-> d, old |-> 0]
    <2>2. r \in StatRecord /\ r.dur \in Durations /\ r.pc = "total"
      BY <2>1, DurationsBelow DEF StatRecord
    <2>3. /\ stats' \in [calls : Nat, total : Nat, errors : Nat, max : Nat, min : Nat]
          /\ stats'.max = stats.max /\ stats'.min = stats.min
      BY <1>2, <1>3 DEF CountCall
    <2>4. recorded' = recorded /\ q.pc = "ready"
      BY <1>3 DEF CountCall
    <2> HIDE DEF r
    <2> QED
      BY <2>1, <2>2, <2>3, <2>4, RecordStep DEF Raised, r
  <1>4. CASE AddDuration(w)
    <2> DEFINE r == [q EXCEPT !.pc = "max"]
    <2>1. r \in StatRecord /\ r.pc = "max" /\ r.dur = q.dur /\ q.pc = "total"
      BY <1>2, <1>4 DEF AddDuration, StatRecord
    <2>2. rec' = [rec EXCEPT ![w] = r]
      BY <1>4 DEF AddDuration, StatsInv, StatsTyped
    <2>3. /\ stats' \in [calls : Nat, total : Nat, errors : Nat, max : Nat, min : Nat]
          /\ stats'.max = stats.max /\ stats'.min = stats.min
      <3>1. PICK failed \in {0, 1} :
              stats' = [stats EXCEPT !.total = @ + q.dur, !.errors = @ + failed]
        BY <1>4 DEF AddDuration
      <3>2. stats.total + q.dur \in Nat /\ stats.errors + failed \in Nat
        BY <1>2
      <3> HIDE DEF q
      <3> QED
        BY <1>2, <3>1, <3>2
    <2>4. recorded' = recorded
      BY <1>4 DEF AddDuration
    <2> HIDE DEF r
    <2> QED
      BY <1>2, <2>1, <2>2, <2>3, <2>4, RecordStep DEF Raised
  <1>5. CASE LoadMax(w)
    <2> DEFINE p == IF q.dur <= stats.max THEN "min" ELSE "casmax"
               r == [q EXCEPT !.old = stats.max, !.pc = p]
    <2>1. q.pc = "max" /\ stats' = stats /\ recorded' = recorded
      BY <1>5 DEF LoadMax
    <2>2. r \in StatRecord /\ r.pc = p /\ r.dur = q.dur /\ r.old = stats.max
      BY <1>2 DEF StatRecord
    <2>3. rec' = [rec EXCEPT ![w] = r]
      BY <1>5 DEF LoadMax, StatsInv, StatsTyped
    <2>4. p \in {"min", "casmax"} /\ (p = "min" => q.dur <= stats.max)
                                  /\ (p = "casmax" => stats.max < q.dur)
      BY <1>2
    <2> HIDE DEF r, p
    <2> QED
      BY <1>2, <2>1, <2>2, <2>3, <2>4, RecordStep DEF Raised
  <1>6. CASE SwapMax(w)
    <2>1. q.pc = "casmax" /\ recorded' = recorded /\ q.old < q.dur
      BY <1>6 DEF SwapMax, StatsInv, StatsCovered
    <2>2. CASE stats.max = q.old
      <3> DEFINE r == [q EXCEPT !.pc = "min"]
      <3>1. r \in StatRecord /\ r.pc = "min" /\ r.dur = q.dur
        BY <1>2 DEF StatRecord
      <3>2. rec' = [rec EXCEPT ![w] = r]
        BY <1>6, <2>2 DEF SwapMax, StatsInv, StatsTyped
      <3>3. /\ stats' \in [calls : Nat, total : Nat, errors : Nat, max : Nat, min : Nat]
            /\ stats'.max = q.dur /\ stats'.min = stats.min
        BY <1>2, <1>6, <2>2 DEF SwapMax
      <3>4. stats.max <= stats'.max /\ q.dur <= stats'.max
        BY <1>2, <2>1, <2>2, <3>3
      <3> HIDE DEF r
      <3> QED
        BY <1>2, <2>1, <3>1, <3>2, <3>3, <3>4, RecordStep DEF Raised
    <2>3. CASE stats.max # q.old
      <3> DEFINE r == [q EXCEPT !.pc = "max"]
      <3>1. r \in StatRecord /\ r.pc = "max" /\ r.dur = q.dur
        BY <1>2 DEF StatRecord
      <3>2. rec' = [rec EXCEPT ![w] = r] /\ stats' = stats
        BY <1>6, <2>3 DEF SwapMax, StatsInv, StatsTyped
      <3> HIDE DEF r
      <3> QED
        BY <1>2, <2>1, <3>1, <3>2, RecordStep DEF Raised
    <2> QED
      BY <2>2, <2>3
  <1>7. CASE LoadMin(w)
    <2>1. q.pc = "min" /\ stats' = stats /\ q.dur <= stats.max
      BY <1>7 DEF LoadMin, StatsInv, StatsCovered, Raised
    <2>2. CASE q.dur >= stats.min /\ Recorded(w)
      <3> DEFINE r == [q EXCEPT !.pc = "done"]
      <3>1. r \in StatRecord /\ r.pc = "done" /\ r.dur = q.dur
        BY <1>2 DEF StatRecord
      <3>2. rec' = [rec EXCEPT ![w] = r] /\ recorded' = recorded \cup {q.dur}
        BY <2>2 DEF Recorded, StatsInv, StatsTyped
      <3>3. stats.min <= q.dur
        BY <1>2, <2>2
      <3> HIDE DEF r
      <3> QED
        BY <1>2, <2>1, <3>1, <3>2, <3>3, RecordStep DEF Raised
    <2>3. CASE /\ q.dur < stats.min
               /\ rec' = [rec EXCEPT ![w].pc = "casmin", ![w].old = stats.min]
               /\ recorded' = recorded
      <3> DEFINE r == [q EXCEPT !.pc = "casmin", !.old = stats.min]
      <3>1. r \in StatRecord /\ r.pc = "casmin" /\ r.dur = q.dur /\ r.old = stats.min
        BY <1>2 DEF StatRecord
      <3>2. rec' = [rec EXCEPT ![w] = r]
        BY <2>3 DEF StatsInv, StatsTyped
      <3> HIDE DEF r
      <3> QED
        BY <1>2, <2>1, <2>3, <3>1, <3>2, RecordStep DEF Raised
    <2> QED
      BY <1>7, <2>2, <2>3 DEF LoadMin
  <1>8. CASE SwapMin(w)
    <2>1. q.pc = "casmin" /\ q.dur < q.old /\ q.dur <= stats.max
      BY <1>8 DEF SwapMin, StatsInv, StatsCovered, Raised
    <2>2. CASE /\ stats.min = q.old
               /\ stats' = [stats EXCEPT !.min = q.dur]
               /\ Recorded(w)
      <3> DEFINE r == [q EXCEPT !.pc = "done"]
      <3>1. r \in StatRecord /\ r.pc = "done" /\ r.dur = q.dur
        BY <1>2 DEF StatRecord
      <3>2. rec' = [rec EXCEPT ![w] = r] /\ recorded' = recorded \cup {q.dur}
        BY <2>2 DEF Recorded, StatsInv, StatsTyped
      <3>3. /\ stats' \in [calls : Nat, total : Nat, errors : Nat, max : Nat, min : Nat]
            /\ stats'.min = q.dur /\ stats'.max = stats.max
        BY <1>2, <2>2
      <3>4. stats'.min <= stats.min /\ stats'.min <= q.dur
        BY <1>2, <2>1, <2>2, <3>3
      <3> HIDE DEF r
      <3> QED
        BY <1>2, <2>1, <3>1, <3>2, <3>3, <3>4, RecordStep DEF Raised
    <2>3. CASE /\ rec' = [rec EXCEPT ![w].pc = "min"]
               /\ UNCHANGED <<stats, recorded>>
      <3> DEFINE r == [q EXCEPT !.pc = "min"]
      <3>1. r \in StatRecord /\ r.pc = "min" /\ r.dur = q.dur
        BY <1>2 DEF StatRecord
      <3>2. rec' = [rec EXCEPT ![w] = r]
        BY <2>3 DEF StatsInv, StatsTyped
      <3> HIDE DEF r
      <3> QED
        BY <1>2, <2>1, <2>3, <3>1, <3>2, RecordStep DEF Raised
    <2> QED
      BY <1>8, <2>2, <2>3 DEF SwapMin
  <1> QED
    BY <1>1, <1>3, <1>4, <1>5, <1>6, <1>7, <1>8

(* What the library's extremes of a set of numbers are.                      *)
LEMMA ExtremeIs ==
    ASSUME NEW S \in SUBSET Int, NEW m \in S
    PROVE  /\ (\A y \in S : y <= m) => Max(S) = m
           /\ (\A y \in S : m <= y) => Min(S) = m
  <1>1. ASSUME \A y \in S : y <= m PROVE Max(S) = m
    <2>1. \A x \in S : (\A y \in S : x >= y) => x = m
      BY <1>1
    <2>2. \A y \in S : m >= y
      BY <1>1
    <2> QED
      BY <2>1, <2>2 DEF Max
  <1>2. ASSUME \A y \in S : m <= y PROVE Min(S) = m
    <2>1. \A x \in S : (\A y \in S : x =< y) => x = m
      BY <1>2
    <2> QED
      BY <1>2, <2>1 DEF Min
  <1> QED
    BY <1>1, <1>2

(* The least number of a set of numbers is in it.                            *)
LEMMA LeastIn ==
    ASSUME NEW T \in SUBSET Nat, T # {}
    PROVE  Min(T) \in T
  <1> DEFINE R == {ss \in Nat \X Nat : ss[1] < ss[2]}
  <1>1. IsWellFoundedOn(R, Nat)
    BY NatLessThanWellFounded, Zenon DEF OpToRel
  <1>2. PICK x \in T : \A y \in T : ~(<<y, x>> \in R)
    <2> HIDE DEF R
    <2> QED
      BY <1>1, WFMin, Zenon
  <1>3. ASSUME NEW y \in T, ~(x <= y) PROVE FALSE
    <2>1. <<y, x>> \in Nat \X Nat /\ y < x
      BY <1>3
    <2>2. <<y, x>> \in R
      BY <2>1
    <2> QED
      BY <1>2, <2>2
  <1>4. \A y \in T : x =< y
    BY <1>3
  <1> QED
    BY <1>4, ExtremeIs

(* The invariant implies what the statistics promise.                        *)
LEMMA StatsInvExact == StatsInv => StatsExact
  <1> SUFFICES ASSUME StatsInv PROVE StatsExact
    OBVIOUS
  <1>1. \A w \in Recorders : rec[w].dur \in Nat
    BY DEF StatsInv, StatsTyped, StatRecord
  <1>2. stats.max \in Nat /\ stats.min \in Nat
    BY DEF StatsInv, StatsTyped
  <1>3. \A d \in recorded : \E w \in Recorders : rec[w].pc = "done" /\ rec[w].dur = d
    BY DEF StatsInv, StatsReached
  <1>4. \A d \in recorded : d \in Nat /\ stats.min <= d /\ d <= stats.max
    BY <1>1, <1>3 DEF StatsInv, StatsCovered, Raised
  <1>5. ASSUME recorded # {}, \A w \in Recorders : rec[w].pc \in {"ready", "done"}
        PROVE  stats.max = Max(recorded) /\ stats.min = Min(recorded)
    <2>1. PICK w \in Recorders : rec[w].pc = "done" /\ rec[w].dur \in recorded
      BY <1>3, <1>5
    <2>2. rec[w].dur \in Durations
      BY <2>1 DEF StatsInv, StatsTyped
    <2>3. rec[w].dur \in 1 .. MaxInt64 - 1 /\ MaxInt64 \in Nat
      BY <2>2, DurationsBelow
    <2>4. stats.max # 0 /\ stats.min # MaxInt64
      BY <1>2, <1>4, <2>1, <2>3
    <2>5. stats.max \in recorded
      <3>1. PICK x \in Recorders : rec[x].pc \in Raised /\ rec[x].dur = stats.max
        BY <2>4 DEF StatsInv, StatsReached
      <3>2. rec[x].pc = "done"
        BY <1>5, <3>1 DEF Raised
      <3> QED
        BY <3>1, <3>2 DEF StatsInv, StatsReached
    <2>6. stats.min \in recorded
      BY <2>4 DEF StatsInv, StatsReached
    <2>7. recorded \in SUBSET Int
      BY <1>4
    <2> QED
      BY <1>4, <2>5, <2>6, <2>7, ExtremeIs
  <1> QED
    BY <1>4, <1>5 DEF StatsExact

-----------------------------------------------------------------------------
(* The engines without a pool                                                *)

Sources == [Paths -> Nat]
CallRecord == [pc : {"idle", "find", "stub", "source", "compile", "run", "return"},
               fn : Functions \cup {Nobody}, ctx : Contexts \cup {Nobody}, code : Sources,
               outcome : {"ok", "error", "notfound", "timeout"}, late : BOOLEAN,
               seen : SUBSET Sources]

(* Where a load holds writeMu.                                               *)
Holding == {"install", "sources", "code", "purge"}
LoadRecord == [pc : {"idle", "read"} \cup Holding, todo : SUBSET Paths, new : Sources,
               was : Sources, cross : BOOLEAN, panicked : SUBSET Paths]

StubTyped ==
    /\ stubKind \in {"tengo", "starlark"}
    /\ disk \in Sources /\ sources \in Sources /\ code \in Sources
    /\ stubs \in [Functions -> [code : Sources, late : BOOLEAN]]
    /\ shut \in {"no", "sources", "code", "valid", "done"}
    /\ loader \in [Loaders -> LoadRecord]
    /\ sc \in [Actors -> CallRecord]
    /\ \A a \in Actors : sc[a].pc # "idle" => sc[a].fn \in Functions
    /\ context \in [Contexts -> [owner : Actors \cup {Nobody}, metadata : Actors \cup {Nobody}]]

WriteLocked == \A l \in Loaders : loader[l].pc \in Holding <=> writeMu = l

ContextsOwned ==
    \A a \in Actors : /\ sc[a].pc = "idle" => sc[a].ctx = Nobody
                      /\ sc[a].pc # "idle" => sc[a].ctx \in Contexts

(* A call has seen the code in place, the code that a load has begun to put  *)
(* there, the code that a load has replaced but whose stubs it has yet to    *)
(* drop, and the code of every stub that is not late.                        *)
CallsSee ==
    \A a \in Actors : sc[a].pc # "idle" =>
        /\ code \in sc[a].seen
        /\ \A l \in Loaders :
             /\ loader[l].pc \in {"sources", "code"} => loader[l].new \in sc[a].seen
             /\ loader[l].pc = "purge" => loader[l].was \in sc[a].seen
        /\ sc[a].pc = "compile" => sc[a].code \in sc[a].seen
        /\ \A f \in Functions :
             stubs[f].code = NoSource \/ stubs[f].late \/ stubs[f].code \in sc[a].seen

(* So has a call that is about to begin: a stub that is not late is of the   *)
(* code in place, or of the one whose stubs are being dropped.               *)
StubsCurrent ==
    /\ off \/ \A f \in Functions :
         \/ stubs[f].code = NoSource \/ stubs[f].late \/ stubs[f].code = code
         \/ \E l \in Loaders : loader[l].pc = "purge" /\ stubs[f].code = loader[l].was
    /\ stubKind = "starlark" =>
         /\ \A f \in Functions : stubs[f].code = NoSource
         /\ \A a \in Actors : sc[a].pc \notin {"stub", "source", "compile"}

(* Tengo's whitelist is that of the code in place, or of the code that the   *)
(* load that has stored the whitelist is about to put there.                 *)
ValidCurrent ==
    off \/ stubKind # "tengo" \/
        /\ \A l \in Loaders : loader[l].pc \in {"sources", "code"} =>
             valid = extractFunctionNames(loader[l].new)
        /\ (\A l \in Loaders : loader[l].pc \notin {"sources", "code"}) =>
             valid = extractFunctionNames(code)

(* No load holds an older version than the one in place, unless it crossed   *)
(* another load or its script panicked.                                      *)
LoadsNewer ==
    \A p \in Paths :
        /\ sources[p] <= disk[p]
        /\ \A l \in Loaders :
             /\ loader[l].new[p] <= disk[p]
             /\ loader[l].pc = "read" =>
                  loader[l].new[p] = 0 \/ sources[p] <= loader[l].new[p] \/ loader[l].cross
             /\ loader[l].pc \in {"install", "sources"} =>
                  sources[p] <= loader[l].new[p] \/ loader[l].cross \/ p \in loader[l].panicked

(* What Close has cleared stays empty: no load is inside the critical        *)
(* section, unless Close began there.                                        *)
CloseClears ==
    /\ shut # "no" => off
    /\ off => intruded \/ writeMu = Nobody
    /\ shut \in {"code", "valid", "done"} => intruded \/ sources = NoSource
    /\ shut \in {"valid", "done"} => intruded \/ code = NoSource

StubShape == StubTyped /\ WriteLocked /\ ContextsOwned /\ CallsSee /\ StubsCurrent
StubInv ==
    /\ StubShape /\ ValidCurrent /\ LoadsNewer /\ CloseClears
    /\ ContextsClean /\ CallRunsLoadedCode /\ ReloadKeepsFunctions

(* At the start nothing runs, and the stubs are of the loaded sources.       *)
LEMMA StubStart == StubInit => StubInv
  <1> SUFFICES ASSUME StubInit PROVE StubInv
    OBVIOUS
  <1>1. NoSource \in Sources
    BY DEF NoSource, Sources
  <1>2. disk \in Sources /\ sources \in Sources /\ code = sources
    BY DEF StubInit, Sources
  <1>3. NotLoading \in LoadRecord /\ NotLoading.pc = "idle" /\ NotLoading.new = NoSource
    BY <1>1 DEF NotLoading, LoadRecord
  <1>4. Idle \in CallRecord /\ Idle.pc = "idle" /\ Idle.ctx = Nobody
    BY <1>1 DEF Idle, CallRecord
  <1>5. NoStub \in [code : Sources, late : BOOLEAN] /\ NoStub.code = NoSource
    BY <1>1 DEF NoStub
  <1>6. /\ [NoStub EXCEPT !.code = sources] \in [code : Sources, late : BOOLEAN]
        /\ [NoStub EXCEPT !.code = sources].code = sources
    BY <1>1, <1>2 DEF NoStub
  <1>7. \A f \in Functions : stubs[f] \in {NoStub, [NoStub EXCEPT !.code = sources]}
    BY DEF StubInit
  <1>8. stubs \in [Functions -> [code : Sources, late : BOOLEAN]]
    BY <1>5, <1>6 DEF StubInit
  <1>9. \A f \in Functions : stubs[f].code = NoSource \/ stubs[f].code = code
    BY <1>2, <1>5, <1>6, <1>7
  <1>10. \A f \in Functions : stubKind = "starlark" => stubs[f].code = NoSource
    BY <1>5 DEF StubInit
  <1>11. StubTyped
    BY <1>2, <1>3, <1>4, <1>8 DEF StubTyped, StubInit, CleanContext
  <1>12. WriteLocked /\ ContextsOwned /\ CallsSee /\ StubsCurrent
    BY <1>3, <1>4, <1>9, <1>10, NobodyAssumption
       DEF StubInit, WriteLocked, ContextsOwned, CallsSee, StubsCurrent, Holding
  <1>13. ValidCurrent
    BY <1>2, <1>3 DEF StubInit, ValidCurrent
  <1>14. LoadsNewer
    <2>1. \A p \in Paths : disk[p] = 1 /\ sources[p] \in {0, 1} /\ NoSource[p] = 0
      BY DEF StubInit, NoSource
    <2> QED
      BY <1>3, <2>1 DEF LoadsNewer, StubInit
  <1>15. CloseClears
    BY DEF StubInit, CloseClears
  <1>16. ContextsClean /\ CallRunsLoadedCode /\ ReloadKeepsFunctions
    BY <1>4 DEF StubInit, ContextsClean, CallRunsLoadedCode, ReloadKeepsFunctions
  <1> QED
    BY <1>11, <1>12, <1>13, <1>14, <1>15, <1>16 DEF StubInv, StubShape

(* A step of a call that stores no stub keeps the invariant, when the call   *)
(* goes on with the same context, knows the code it is to compile or to run, *)
(* and has been told that a function is not found only for a reason.         *)
CallGoesOn(a, r) ==
    /\ sc[a].pc # "idle" /\ r \in CallRecord /\ r.pc # "idle"
    /\ r.fn = sc[a].fn /\ r.ctx = sc[a].ctx /\ r.seen = sc[a].seen
    /\ r.pc = "compile" => r.code \in r.seen
    /\ r.pc = "run" => r.code \in r.seen \/ r.late
    /\ r.pc = "return" /\ r.outcome = "notfound" => off \/ \E s \in r.seen : ~Compiles(s, r.fn)
    /\ stubKind = "starlark" => r.pc \notin {"stub", "source", "compile"}

(* A call that goes on keeps the invariant of the engines without a pool.    *)
LEMMA CallMoves ==
    ASSUME StubInv, NEW a \in Actors, NEW r, CallGoesOn(a, r),
           sc' = [sc EXCEPT ![a] = r], UNCHANGED <<callFrame, stubs>>
    PROVE  StubInv'
  <1> USE DEF callFrame, configVars, closeVars
  <1>1. \A b \in Actors : sc'[b] = IF b = a THEN r ELSE sc[b]
    BY DEF StubInv, StubShape, StubTyped
  <1>2. \A b \in Actors : /\ sc'[b].pc = "idle" <=> sc[b].pc = "idle"
                          /\ sc'[b].ctx = sc[b].ctx /\ sc'[b].fn = sc[b].fn
                          /\ sc'[b].seen = sc[b].seen
    BY <1>1 DEF CallGoesOn
  <1>3. StubTyped'
    BY <1>1, <1>2 DEF StubInv, StubShape, StubTyped, CallGoesOn
  <1>4. WriteLocked' /\ ContextsOwned'
    BY <1>2 DEF StubInv, StubShape, WriteLocked, ContextsOwned
  <1>5. CallsSee'
    BY <1>1, <1>2 DEF StubInv, StubShape, CallsSee, CallGoesOn, NoSource
  <1>6. StubsCurrent'
    BY <1>1 DEF StubInv, StubShape, StubsCurrent, CallGoesOn, NoSource
  <1>7. ValidCurrent'
    BY DEF StubInv, ValidCurrent, extractFunctionNames, Loaded
  <1>8. LoadsNewer' /\ CloseClears'
    BY DEF StubInv, LoadsNewer, CloseClears, NoSource
  <1>9. ContextsClean'
    BY <1>2 DEF StubInv, ContextsClean, InUse, CleanContext
  <1>10. CallRunsLoadedCode'
    BY <1>1 DEF StubInv, CallRunsLoadedCode, CallGoesOn
  <1>11. ReloadKeepsFunctions'
    BY <1>1 DEF StubInv, ReloadKeepsFunctions, CallGoesOn, Compiles, extractFunctionNames, Loaded
  <1> QED
    BY <1>3, <1>4, <1>5, <1>6, <1>7, <1>8, <1>9, <1>10, <1>11 DEF StubInv, StubShape

(* What a step of a call that stores no stub does.                           *)
LEMMA CallStepMoves ==
    ASSUME StubInv, NEW a \in Actors,
           \/ IndexLookup(a) \/ isValidFunctionName(a) \/ LoadStub(a) \/ ReadSource(a)
           \/ StubReturns(a) \/ LimitReached(a) \/ CallerCancels(a)
    PROVE  StubInv'
  <1> DEFINE q == sc[a]
  <1>1. q \in CallRecord /\ sc \in [Actors -> CallRecord] /\ code \in Sources
    BY DEF StubInv, StubShape, StubTyped
  <1>2. q.seen \in SUBSET Sources /\ q.fn \in Functions \cup {Nobody} /\ q.code \in Sources
    BY <1>1 DEF CallRecord
  <1>3. q.pc # "idle" => code \in q.seen /\ q.fn \in Functions
    BY DEF StubInv, StubShape, CallsSee, StubTyped
  <1>4. ASSUME UNCHANGED <<callFrame, stubs>>, q.pc # "idle",
               NotFound(a), off \/ \E s \in q.seen : ~Compiles(s, q.fn)
        PROVE  StubInv'
    <2> DEFINE r == [q EXCEPT !.pc = "return", !.outcome = "notfound"]
    <2>1. /\ r \in CallRecord /\ r.pc = "return" /\ r.fn = q.fn /\ r.ctx = q.ctx
          /\ r.seen = q.seen /\ r.outcome = "notfound"
      BY <1>1 DEF CallRecord
    <2>2. sc' = [sc EXCEPT ![a] = r]
      BY <1>1, <1>4 DEF NotFound
    <2> HIDE DEF r
    <2>3. CallGoesOn(a, r)
      BY <1>4, <2>1 DEF CallGoesOn
    <2> QED
      BY <1>4, <2>2, <2>3, CallMoves
  <1>5. ASSUME UNCHANGED <<callFrame, stubs>>, q.pc # "idle", NEW s \in Sources,
               NEW late \in BOOLEAN, Running(a, s, late), s \in q.seen \/ late
        PROVE  StubInv'
    <2> DEFINE r == [q EXCEPT !.pc = "run", !.code = s, !.late = late]
    <2>1. /\ r \in CallRecord /\ r.pc = "run" /\ r.fn = q.fn /\ r.ctx = q.ctx
          /\ r.seen = q.seen /\ r.code = s
      BY <1>1 DEF CallRecord
    <2>2. r.late = late
      BY <1>1 DEF CallRecord
    <2>3. sc' = [sc EXCEPT ![a] = r]
      BY <1>1, <1>5 DEF Running
    <2> HIDE DEF r
    <2>4. CallGoesOn(a, r)
      BY <1>5, <2>1, <2>2 DEF CallGoesOn
    <2> QED
      BY <1>5, <2>3, <2>4, CallMoves
  <1>6. ASSUME UNCHANGED <<callFrame, stubs>>, q.pc # "idle", stubKind = "tengo",
               NEW p \in {"stub", "source"}, sc' = [sc EXCEPT ![a].pc = p]
        PROVE  StubInv'
    <2> DEFINE r == [q EXCEPT !.pc = p]
    <2>1. r \in CallRecord /\ r.pc = p /\ r.fn = q.fn /\ r.ctx = q.ctx /\ r.seen = q.seen
      BY <1>1 DEF CallRecord
    <2>2. sc' = [sc EXCEPT ![a] = r]
      BY <1>1, <1>6
    <2> HIDE DEF r
    <2>3. CallGoesOn(a, r)
      BY <1>6, <2>1 DEF CallGoesOn
    <2> QED
      BY <1>6, <2>2, <2>3, CallMoves
  <1>7. ASSUME UNCHANGED <<callFrame, stubs>>, q.pc # "idle",
               NEW o \in {"ok", "error", "timeout"},
               sc' = [sc EXCEPT ![a].pc = "return", ![a].outcome = o]
        PROVE  StubInv'
    <2> DEFINE r == [q EXCEPT !.pc = "return", !.outcome = o]
    <2>1. /\ r \in CallRecord /\ r.pc = "return" /\ r.fn = q.fn /\ r.ctx = q.ctx
          /\ r.seen = q.seen /\ r.outcome = o
      BY <1>1 DEF CallRecord
    <2>2. sc' = [sc EXCEPT ![a] = r]
      BY <1>1, <1>7
    <2> HIDE DEF r
    <2>3. CallGoesOn(a, r)
      BY <1>7, <2>1 DEF CallGoesOn
    <2> QED
      BY <1>7, <2>2, <2>3, CallMoves
  <1>8. CASE IndexLookup(a)
    <2>1. UNCHANGED <<callFrame, stubs>> /\ q.pc = "find"
      BY <1>8 DEF IndexLookup
    <2>2. CASE q.fn \in DOMAIN Funcs(code)
      BY <1>1, <1>3, <1>5, <1>8, <2>1, <2>2 DEF IndexLookup
    <2>3. CASE q.fn \notin DOMAIN Funcs(code)
      <3>1. ~Compiles(code, q.fn)
        BY <2>3 DEF Funcs, Compiles
      <3> QED
        BY <1>3, <1>4, <1>8, <2>1, <2>3, <3>1 DEF IndexLookup
    <2> QED
      BY <2>2, <2>3
  <1>9. CASE isValidFunctionName(a)
    <2>1. UNCHANGED <<callFrame, stubs>> /\ q.pc = "find" /\ stubKind = "tengo"
      BY <1>9 DEF isValidFunctionName
    <2>2. CASE q.fn \in valid
      BY <1>6, <1>9, <2>1, <2>2 DEF isValidFunctionName
    <2>3. CASE q.fn \notin valid
      <3>1. off \/ \E s \in q.seen : valid = extractFunctionNames(s)
        <4>1. CASE \E l \in Loaders : loader[l].pc \in {"sources", "code"}
          BY <1>3, <2>1, <4>1 DEF StubInv, ValidCurrent, StubShape, CallsSee
        <4>2. CASE \A l \in Loaders : loader[l].pc \notin {"sources", "code"}
          BY <1>3, <2>1, <4>2 DEF StubInv, ValidCurrent
        <4> QED
          BY <4>1, <4>2
      <3>2. off \/ \E s \in q.seen : ~Compiles(s, q.fn)
        BY <2>3, <3>1 DEF Compiles
      <3> QED
        BY <1>4, <1>9, <2>1, <2>3, <3>2 DEF isValidFunctionName
    <2> QED
      BY <2>2, <2>3
  <1>10. CASE LoadStub(a)
    <2>1. UNCHANGED <<callFrame, stubs>> /\ q.pc = "stub"
      BY <1>10 DEF LoadStub
    <2>2. stubKind = "tengo" /\ q.fn \in Functions
      BY <1>3, <2>1 DEF StubInv, StubShape, StubsCurrent, StubTyped
    <2> DEFINE s == stubs[q.fn]
    <2>3. s.code \in Sources /\ s.late \in BOOLEAN
      BY <2>2 DEF StubInv, StubShape, StubTyped
    <2>4. CASE s.code # NoSource
      <3>1. s.code \in q.seen \/ s.late
        BY <2>1, <2>2, <2>4 DEF StubInv, StubShape, CallsSee
      <3>2. Running(a, s.code, s.late)
        BY <1>10, <2>4 DEF LoadStub
      <3> QED
        BY <1>5, <2>1, <2>3, <3>1, <3>2
    <2>5. CASE s.code = NoSource
      BY <1>6, <1>10, <2>1, <2>2, <2>5 DEF LoadStub
    <2> QED
      BY <2>4, <2>5
  <1>11. CASE ReadSource(a)
    <2>1. UNCHANGED <<callFrame, stubs>> /\ q.pc = "source"
      BY <1>11 DEF ReadSource
    <2>2. CASE code = NoSource
      <3>1. Loaded(code) = {}
        BY <2>2 DEF Loaded, NoSource
      <3>2. ~Compiles(code, q.fn)
        BY <3>1 DEF Compiles, extractFunctionNames
      <3> QED
        BY <1>3, <1>4, <1>11, <2>1, <2>2, <3>2 DEF ReadSource
    <2>3. CASE code # NoSource
      <3> DEFINE r == [q EXCEPT !.pc = "compile", !.code = code]
      <3>1. /\ r \in CallRecord /\ r.pc = "compile" /\ r.fn = q.fn /\ r.ctx = q.ctx
            /\ r.seen = q.seen /\ r.code = code
        BY <1>1 DEF CallRecord
      <3>2. sc' = [sc EXCEPT ![a] = r]
        BY <1>1, <1>11, <2>3 DEF ReadSource
      <3> HIDE DEF r
      <3>3. stubKind = "tengo"
        BY <2>1 DEF StubInv, StubShape, StubsCurrent, StubTyped
      <3>4. CallGoesOn(a, r)
        BY <1>3, <2>1, <3>1, <3>3 DEF CallGoesOn
      <3> QED
        BY <2>1, <3>2, <3>4, CallMoves
    <2> QED
      BY <2>2, <2>3
  <1>12. CASE StubReturns(a)
    BY <1>7, <1>12 DEF StubReturns
  <1>13. CASE LimitReached(a) \/ CallerCancels(a)
    BY <1>7, <1>13 DEF LimitReached, CallerCancels, TimedOut
  <1> QED
    BY <1>8, <1>9, <1>10, <1>11, <1>12, <1>13

(* A stub that is stored as the stub of the code in place is seen by all,    *)
(* and any other one is late.                                                *)
LEMMA CompileStubStep ==
    ASSUME StubInv, NEW a \in Actors, CompileStub(a)
    PROVE  StubInv'
  <1> USE DEF callFrame, configVars, closeVars
  <1> DEFINE q == sc[a]
             s == q.code
  <1>1. q \in CallRecord /\ sc \in [Actors -> CallRecord] /\ code \in Sources
    BY DEF StubInv, StubShape, StubTyped
  <1>2. q.pc = "compile" /\ s \in q.seen /\ s \in Sources /\ q.fn \in Functions
    BY <1>1 DEF CompileStub, StubInv, StubShape, CallsSee, StubTyped, CallRecord
  <1>3. stubKind = "tengo" /\ UNCHANGED callFrame
    BY <1>2 DEF CompileStub, StubInv, StubShape, StubsCurrent, StubTyped
  <1>4. CASE ~Compiles(s, q.fn)
    <2> DEFINE r == [q EXCEPT !.pc = "return", !.outcome = "notfound"]
    <2>1. /\ r \in CallRecord /\ r.pc = "return" /\ r.fn = q.fn /\ r.ctx = q.ctx
          /\ r.seen = q.seen /\ r.outcome = "notfound"
      BY <1>1 DEF CallRecord
    <2>2. sc' = [sc EXCEPT ![a] = r] /\ stubs' = stubs
      BY <1>1, <1>4 DEF NotFound, CompileStub
    <2> HIDE DEF r
    <2>3. CallGoesOn(a, r)
      BY <1>2, <1>4, <2>1 DEF CallGoesOn
    <2> QED
      BY <1>3, <2>2, <2>3, CallMoves
  <1>5. CASE Compiles(s, q.fn)
    <2> DEFINE r == [q EXCEPT !.pc = "run", !.code = s, !.late = FALSE]
               e == [code |-> s, late |-> s # code]
    <2>1. /\ r \in CallRecord /\ r.pc = "run" /\ r.fn = q.fn /\ r.ctx = q.ctx
          /\ r.seen = q.seen /\ r.code = s
      BY <1>1 DEF CallRecord
    <2>2. sc' = [sc EXCEPT ![a] = r]
      BY <1>1, <1>5 DEF Running, CompileStub
    <2>3. stubs' = [stubs EXCEPT ![q.fn] = e]
      BY <1>5 DEF CompileStub
    <2>4. e \in [code : Sources, late : BOOLEAN] /\ e.code = s
      BY <1>2
    <2>5. e.late \/ e.code = code
      OBVIOUS
    <2> HIDE DEF r, e
    <2>6. \A b \in Actors : sc'[b] = IF b = a THEN r ELSE sc[b]
      BY <1>1, <2>2
    <2>7. \A f \in Functions : stubs'[f] = IF f = q.fn THEN e ELSE stubs[f]
      BY <2>3 DEF StubInv, StubShape, StubTyped
    <2>8. \A b \in Actors : /\ sc'[b].pc = "idle" <=> sc[b].pc = "idle"
                            /\ sc'[b].ctx = sc[b].ctx /\ sc'[b].fn = sc[b].fn
                            /\ sc'[b].seen = sc[b].seen
      BY <1>2, <2>1, <2>6
    <2>9. StubTyped'
      BY <1>2, <2>1, <2>2, <2>3, <2>4, <2>8 DEF StubInv, StubShape, StubTyped, CompileStub
    <2>10. WriteLocked' /\ ContextsOwned'
      BY <1>3, <2>8 DEF StubInv, StubShape, WriteLocked, ContextsOwned
    <2>11. CallsSee'
      BY <1>2, <1>3, <2>1, <2>5, <2>6, <2>7, <2>8 DEF StubInv, StubShape, CallsSee, NoSource
    <2>12. StubsCurrent'
      BY <1>3, <2>5, <2>7 DEF StubInv, StubShape, StubsCurrent, NoSource
    <2>13. ValidCurrent'
      BY <1>3 DEF StubInv, ValidCurrent, extractFunctionNames, Loaded
    <2>14. LoadsNewer' /\ CloseClears'
      BY <1>3 DEF StubInv, LoadsNewer, CloseClears, NoSource
    <2>15. ContextsClean'
      BY <1>3, <2>8 DEF StubInv, ContextsClean, InUse, CleanContext
    <2>16. CallRunsLoadedCode'
      BY <1>2, <2>1, <2>6 DEF StubInv, CallRunsLoadedCode
    <2>17. ReloadKeepsFunctions'
      BY <1>3, <2>1, <2>6 DEF StubInv, ReloadKeepsFunctions, Compiles, extractFunctionNames, Loaded
    <2> QED
      BY <2>9, <2>10, <2>11, <2>12, <2>13, <2>14, <2>15, <2>16, <2>17 DEF StubInv, StubShape
  <1> QED
    BY <1>4, <1>5

(* The context that a new call takes is in nobody's use.                     *)
LEMMA FreeContext ==
    ASSUME NEW a \in Actors, sc[a].ctx = Nobody
    PROVE  /\ Min({y \in Contexts : ~InUse(y)}) \in Contexts
           /\ ~InUse(Min({y \in Contexts : ~InUse(y)}))
  <1> DEFINE F == {y \in Contexts : ~InUse(y)}
  <1>1. F # {}
    <2> SUFFICES ASSUME \A x \in Contexts : InUse(x) PROVE FALSE
      OBVIOUS
    <2> DEFINE T == Actors \ {a}
               h == [x \in Contexts |-> CHOOSE b \in Actors : sc[b].ctx = x]
    <2>1. \A x \in Contexts : h[x] \in T /\ sc[h[x]].ctx = x
      BY NobodyAssumption DEF InUse
    <2>2. IsFiniteSet(T) /\ Cardinality(T) = Cardinality(Actors) - 1
      BY ContextsSuffice, FS_RemoveElement
    <2>3. Cardinality(Actors) \in Nat /\ Cardinality(Contexts) \in Nat
      BY ContextsSuffice, FS_CardinalityType
    <2>4. Cardinality(T) < Cardinality(Contexts)
      BY <2>2, <2>3, ContextsSuffice
    <2>5. h \in [Contexts -> T]
      BY <2>1
    <2> HIDE DEF T, h
    <2>6. PICK x, y \in Contexts : x # y /\ h[x] = h[y]
      BY <2>2, <2>4, <2>5, ContextsSuffice, FS_PigeonHole
    <2> QED
      BY <2>1, <2>6
  <1>2. F \in SUBSET Nat
    BY ContextsSuffice
  <1> HIDE DEF F
  <1>3. Min(F) \in F
    BY <1>1, <1>2, LeastIn
  <1> QED
    BY <1>3 DEF F

(* A new call has seen what it may find, and takes a clean context.          *)
LEMMA StartStubCallStep ==
    ASSUME StubInv, NEW a \in Actors, StartStubCall(a)
    PROVE  StubInv'
  <1> USE DEF configVars, closeVars, sourceVars
  <1>1. sc[a].pc = "idle" /\ ~off
    <2> DEFINE F == {b \in Actors : sc[b].pc = "idle"}
    <2>1. F # {} /\ F \in SUBSET Nat /\ a = Min(F)
      BY NumbersAssumption DEF StartStubCall
    <2> HIDE DEF F
    <2>2. a \in F
      BY <2>1, LeastIn
    <2> QED
      BY <2>2 DEF StartStubCall, F
  <1>2. sc[a].ctx = Nobody
    BY <1>1 DEF StubInv, StubShape, ContextsOwned
  <1> DEFINE x == Min({y \in Contexts : ~InUse(y)})
  <1>3. x \in Contexts /\ ~InUse(x)
    BY <1>2, FreeContext
  <1> HIDE DEF x
  <1>4. PICK f \in Functions, meta \in BOOLEAN :
          /\ context' = [context EXCEPT ![x] = ContextInit(a, meta)]
          /\ sc' = [sc EXCEPT ![a] = [Idle EXCEPT !.pc = "find", !.fn = f, !.ctx = x,
                                                  !.seen = Current]]
    BY DEF StartStubCall, x
  <1> DEFINE r == [Idle EXCEPT !.pc = "find", !.fn = f, !.ctx = x, !.seen = Current]
             e == ContextInit(a, meta)
  <1>5. e \in [owner : Actors \cup {Nobody}, metadata : Actors \cup {Nobody}]
    BY DEF ContextInit
  <1>6. e.owner = a /\ e.metadata \in {a, Nobody}
    BY DEF ContextInit
  <1>7. Current \in SUBSET Sources
    BY DEF Current, StubInv, StubShape, StubTyped, LoadRecord
  <1>8. NoSource \in Sources
    BY DEF NoSource, Sources
  <1>9. r \in CallRecord /\ r.pc = "find" /\ r.fn = f /\ r.ctx = x /\ r.seen = Current
    BY <1>3, <1>7, <1>8 DEF Idle, CallRecord
  <1>10. sc' = [sc EXCEPT ![a] = r] /\ context' = [context EXCEPT ![x] = e]
    BY <1>4
  <1> HIDE DEF r, e
  <1>11. /\ \A b \in Actors : sc'[b] = IF b = a THEN r ELSE sc[b]
         /\ \A y \in Contexts : context'[y] = IF y = x THEN e ELSE context[y]
    BY <1>10 DEF StubInv, StubShape, StubTyped
  <1>12. UNCHANGED <<configVars, disk, sourceVars, closeVars, writeMu, loader>>
    BY DEF StartStubCall
  <1>13. StubTyped'
    BY <1>5, <1>9, <1>10, <1>11, <1>12 DEF StubInv, StubShape, StubTyped
  <1>14. WriteLocked' /\ ContextsOwned'
    BY <1>3, <1>9, <1>11, <1>12 DEF StubInv, StubShape, WriteLocked, ContextsOwned
  <1>15. CallsSee'
    <2> SUFFICES ASSUME NEW b \in Actors, sc'[b].pc # "idle"
                 PROVE  /\ code \in sc'[b].seen
                        /\ \A l \in Loaders :
                             /\ loader[l].pc \in {"sources", "code"} =>
                                  loader[l].new \in sc'[b].seen
                             /\ loader[l].pc = "purge" => loader[l].was \in sc'[b].seen
                        /\ sc'[b].pc = "compile" => sc'[b].code \in sc'[b].seen
                        /\ \A g \in Functions : \/ stubs[g].code = NoSource \/ stubs[g].late
                                                \/ stubs[g].code \in sc'[b].seen
      BY <1>12 DEF CallsSee, NoSource
    <2>1. CASE b = a
      <3>1. sc'[b] = r
        BY <1>11, <2>1
      <3>2. /\ code \in Current
            /\ \A l \in Loaders :
                 /\ loader[l].pc \in {"sources", "code"} => loader[l].new \in Current
                 /\ loader[l].pc = "purge" => loader[l].was \in Current
        BY DEF Current
      <3>3. \A g \in Functions : \/ stubs[g].code = NoSource \/ stubs[g].late
                                 \/ stubs[g].code \in Current
        BY <1>1, <3>2 DEF StubInv, StubShape, StubsCurrent
      <3> QED
        BY <1>9, <3>1, <3>2, <3>3
    <2>2. CASE b # a
      BY <1>11, <2>2 DEF StubInv, StubShape, CallsSee
    <2> QED
      BY <2>1, <2>2
  <1>16. StubsCurrent'
    BY <1>9, <1>11, <1>12 DEF StubInv, StubShape, StubsCurrent, NoSource
  <1>17. ValidCurrent'
    BY <1>12 DEF StubInv, ValidCurrent, extractFunctionNames, Loaded
  <1>18. LoadsNewer' /\ CloseClears'
    BY <1>12 DEF StubInv, LoadsNewer, CloseClears, NoSource
  <1>19. ContextsClean'
    <2>1. ASSUME NEW y \in Contexts, ~(InUse(y)') PROVE context'[y] = CleanContext
      <3>1. y # x /\ ~InUse(y)
        BY <1>2, <1>9, <1>11, <2>1, NobodyAssumption DEF InUse
      <3> QED
        BY <1>11, <3>1 DEF StubInv, ContextsClean
    <2>2. ASSUME NEW b \in Actors, sc'[b].pc # "idle"
          PROVE  context'[sc'[b].ctx].owner = b /\ context'[sc'[b].ctx].metadata \in {b, Nobody}
      <3>1. CASE b = a
        BY <1>3, <1>6, <1>9, <1>11, <3>1
      <3>2. CASE b # a
        <4>1. sc'[b] = sc[b] /\ sc[b].ctx \in Contexts /\ sc[b].ctx # x
          BY <1>3, <1>11, <2>2, <3>2 DEF InUse, StubInv, StubShape, ContextsOwned
        <4> QED
          BY <1>11, <2>2, <4>1 DEF StubInv, ContextsClean
      <3> QED
        BY <3>1, <3>2
    <2> QED
      BY <2>1, <2>2 DEF ContextsClean, CleanContext
  <1>20. CallRunsLoadedCode'
    BY <1>9, <1>11 DEF StubInv, CallRunsLoadedCode
  <1>21. ReloadKeepsFunctions'
    BY <1>9, <1>11, <1>12 DEF StubInv, ReloadKeepsFunctions, Compiles, extractFunctionNames, Loaded
  <1> QED
    BY <1>13, <1>14, <1>15, <1>16, <1>17, <1>18, <1>19, <1>20, <1>21 DEF StubInv, StubShape

(* A call that is over leaves a clean context.                               *)
LEMMA PutContextStep ==
    ASSUME StubInv, NEW a \in Actors, PutContext(a)
    PROVE  StubInv'
  <1> USE DEF configVars, closeVars, sourceVars
  <1> DEFINE x == sc[a].ctx
  <1>1. sc[a].pc = "return" /\ x \in Contexts
    BY DEF PutContext, StubInv, StubShape, ContextsOwned
  <1>2. /\ context' = [context EXCEPT ![x] = CleanContext]
        /\ sc' = [sc EXCEPT ![a] = Idle]
        /\ UNCHANGED <<configVars, disk, sourceVars, closeVars, writeMu, loader>>
    BY DEF PutContext, ContextReset
  <1>3. NoSource \in Sources
    BY DEF NoSource, Sources
  <1>4. Idle \in CallRecord /\ Idle.pc = "idle" /\ Idle.ctx = Nobody
    BY <1>3 DEF Idle, CallRecord
  <1>5. CleanContext \in [owner : Actors \cup {Nobody}, metadata : Actors \cup {Nobody}]
    BY DEF CleanContext
  <1>6. /\ \A b \in Actors : sc'[b] = IF b = a THEN Idle ELSE sc[b]
        /\ \A y \in Contexts : context'[y] = IF y = x THEN CleanContext ELSE context[y]
    BY <1>2 DEF StubInv, StubShape, StubTyped
  <1>7. StubTyped'
    BY <1>2, <1>4, <1>5, <1>6 DEF StubInv, StubShape, StubTyped
  <1>8. WriteLocked' /\ ContextsOwned'
    BY <1>2, <1>4, <1>6 DEF StubInv, StubShape, WriteLocked, ContextsOwned
  <1>9. CallsSee'
    BY <1>2, <1>4, <1>6 DEF StubInv, StubShape, CallsSee, NoSource
  <1>10. StubsCurrent'
    BY <1>2, <1>4, <1>6 DEF StubInv, StubShape, StubsCurrent, NoSource
  <1>11. ValidCurrent'
    BY <1>2 DEF StubInv, ValidCurrent, extractFunctionNames, Loaded
  <1>12. LoadsNewer' /\ CloseClears'
    BY <1>2 DEF StubInv, LoadsNewer, CloseClears, NoSource
  <1>13. ContextsClean'
    <2>1. ASSUME NEW y \in Contexts, ~(InUse(y)') PROVE context'[y] = CleanContext
      <3>1. y = x \/ ~InUse(y)
        BY <1>6, <2>1 DEF InUse
      <3> QED
        BY <1>6, <3>1 DEF StubInv, ContextsClean
    <2>2. ASSUME NEW b \in Actors, sc'[b].pc # "idle"
          PROVE  context'[sc'[b].ctx].owner = b /\ context'[sc'[b].ctx].metadata \in {b, Nobody}
      <3>1. b # a /\ sc'[b] = sc[b] /\ sc[b].pc # "idle"
        BY <1>4, <1>6, <2>2
      <3>2. sc[b].ctx # x /\ sc[b].ctx \in Contexts
        BY <1>1, <3>1 DEF StubInv, StubShape, ContextsOwned, ContextsClean
      <3> QED
        BY <1>6, <3>1, <3>2 DEF StubInv, ContextsClean
    <2> QED
      BY <2>1, <2>2 DEF ContextsClean, CleanContext
  <1>14. CallRunsLoadedCode'
    BY <1>4, <1>6 DEF StubInv, CallRunsLoadedCode
  <1>15. ReloadKeepsFunctions'
    <2>1. \A b \in Actors : sc'[b].pc = "return" => sc'[b] = sc[b]
      BY <1>4, <1>6
    <2> QED
      BY <1>2, <2>1 DEF StubInv, ReloadKeepsFunctions
  <1> QED
    BY <1>7, <1>8, <1>9, <1>10, <1>11, <1>12, <1>13, <1>14, <1>15 DEF StubInv, StubShape

(* A step of a load outside the stores keeps the invariant, when the load    *)
(* enters the critical section only if nobody is in it and the engine is not *)
(* closed, leaves it with the cache empty, and holds no old version without  *)
(* a reason.                                                                 *)
LoadGoesOn(l, r) ==
    /\ r \in LoadRecord /\ r.pc \in {"idle", "read", "install"}
    /\ loader[l].pc \notin {"sources", "code"}
    /\ loader[l].pc = "purge" => \A f \in Functions : stubs[f].code = NoSource
    /\ r.pc = "install" => writeMu = Nobody /\ writeMu' = l /\ ~off
    /\ r.pc # "install" => writeMu' = IF loader[l].pc \in Holding THEN Nobody ELSE writeMu
    /\ \A p \in Paths :
         /\ r.new[p] <= disk[p]
         /\ r.pc = "read" => r.new[p] = 0 \/ sources[p] <= r.new[p] \/ r.cross
         /\ r.pc = "install" => sources[p] <= r.new[p] \/ r.cross \/ p \in r.panicked

(* A load that goes on outside the mutex, or takes or gives it back, keeps it. *)
LEMMA LoadMoves ==
    ASSUME StubInv, NEW l \in Loaders, NEW r, LoadGoesOn(l, r),
           loader' = [loader EXCEPT ![l] = r],
           UNCHANGED <<configVars, disk, sourceVars, closeVars, sc, context>>
    PROVE  StubInv'
  <1> USE DEF configVars, closeVars, sourceVars
  <1>1. \A m \in Loaders : loader'[m] = IF m = l THEN r ELSE loader[m]
    BY DEF StubInv, StubShape, StubTyped
  <1>2. StubTyped'
    BY DEF StubInv, StubShape, StubTyped, LoadGoesOn
  <1>3. WriteLocked'
    BY <1>1, NobodyAssumption DEF StubInv, StubShape, WriteLocked, LoadGoesOn, Holding
  <1>4. ContextsOwned'
    BY DEF StubInv, StubShape, ContextsOwned
  <1>5. CallsSee'
    BY <1>1 DEF StubInv, StubShape, CallsSee, LoadGoesOn, NoSource
  <1>6. StubsCurrent'
    <2>1. ASSUME ~off, NEW f \in Functions
          PROVE  \/ stubs[f].code = NoSource \/ stubs[f].late \/ stubs[f].code = code
                 \/ \E m \in Loaders : loader'[m].pc = "purge" /\ stubs[f].code = loader'[m].was
      <3>1. CASE loader[l].pc = "purge"
        BY <3>1 DEF LoadGoesOn
      <3>2. CASE loader[l].pc # "purge"
        BY <1>1, <2>1, <3>2 DEF StubInv, StubShape, StubsCurrent
      <3> QED
        BY <3>1, <3>2
    <2> QED
      BY <2>1 DEF StubInv, StubShape, StubsCurrent, NoSource
  <1>7. ValidCurrent'
    <2>1. \A m \in Loaders : /\ loader'[m].pc \in {"sources", "code"} <=>
                                  loader[m].pc \in {"sources", "code"}
                             /\ loader[m].pc \in {"sources", "code"} => loader'[m] = loader[m]
      BY <1>1 DEF LoadGoesOn
    <2> QED
      BY <2>1 DEF StubInv, ValidCurrent, extractFunctionNames, Loaded
  <1>8. LoadsNewer'
    BY <1>1 DEF StubInv, LoadsNewer, LoadGoesOn
  <1>9. CloseClears'
    BY DEF StubInv, CloseClears, LoadGoesOn, NoSource
  <1>10. ContextsClean'
    BY DEF StubInv, ContextsClean, InUse, CleanContext
  <1>11. CallRunsLoadedCode'
    BY DEF StubInv, CallRunsLoadedCode
  <1>12. ReloadKeepsFunctions'
    BY DEF StubInv, ReloadKeepsFunctions
  <1> QED
    BY <1>2, <1>3, <1>4, <1>5, <1>6, <1>7, <1>8, <1>9, <1>10, <1>11, <1>12
       DEF StubInv, StubShape

(* What a step of a load outside the stores does.                            *)
LEMMA LoadStepMoves ==
    ASSUME StubInv, NEW l \in Loaders,
           \/ BeginStubLoad(l) \/ ReadFile(l) \/ ReadFails(l) \/ ExecPanics(l)
           \/ MergeSources(l) \/ LoadRefused(l)
    PROVE  StubInv'
  <1> USE DEF configVars, closeVars, sourceVars
  <1> DEFINE q == loader[l]
  <1>1. /\ loader \in [Loaders -> LoadRecord] /\ q \in LoadRecord
        /\ disk \in Sources /\ sources \in Sources
    BY DEF StubInv, StubShape, StubTyped
  <1>2. /\ q.todo \in SUBSET Paths /\ q.new \in Sources /\ q.panicked \in SUBSET Paths
    BY <1>1 DEF LoadRecord
  <1>3. \A p \in Paths : /\ disk[p] \in Nat /\ sources[p] \in Nat /\ q.new[p] \in Nat
                         /\ sources[p] <= disk[p] /\ q.new[p] <= disk[p]
                         /\ q.pc = "read" => q.new[p] = 0 \/ sources[p] <= q.new[p] \/ q.cross
    BY <1>1, <1>2 DEF StubInv, LoadsNewer, Sources
  <1>4. NoSource \in Sources /\ \A p \in Paths : NoSource[p] = 0
    BY DEF NoSource, Sources
  <1>5. NotLoading \in LoadRecord /\ NotLoading.pc = "idle" /\ NotLoading.new = NoSource
    BY <1>4 DEF NotLoading, LoadRecord
  <1>6. ASSUME q.todo # {} PROVE Min(q.todo) \in Paths
    <2>1. q.todo \in SUBSET Nat
      BY <1>2, NumbersAssumption
    <2> QED
      BY <1>2, <1>6, <2>1, LeastIn
  <1>7. CASE BeginStubLoad(l)
    <2>1. q.pc = "idle"
      <3> DEFINE F == {m \in Loaders : loader[m].pc = "idle"}
      <3>1. F # {} /\ F \in SUBSET Nat /\ l = Min(F)
        BY <1>7, NumbersAssumption DEF BeginStubLoad
      <3> HIDE DEF F
      <3>2. l \in F
        BY <3>1, LeastIn
      <3> QED
        BY <3>2 DEF F
    <2>2. PICK ps \in (SUBSET Paths) \ {{}} :
            loader' = [loader EXCEPT ![l] = [NotLoading EXCEPT !.pc = "read", !.todo = ps]]
      BY <1>7 DEF BeginStubLoad
    <2> DEFINE r == [NotLoading EXCEPT !.pc = "read", !.todo = ps]
    <2>3. r \in LoadRecord /\ r.pc = "read" /\ r.new = NoSource
      BY <1>4 DEF NotLoading, LoadRecord
    <2>4. loader' = [loader EXCEPT ![l] = r]
      BY <2>2
    <2> HIDE DEF r
    <2>5. \A p \in Paths : r.new[p] = 0 /\ r.new[p] <= disk[p]
      BY <1>3, <1>4, <2>3
    <2>6. writeMu' = writeMu
      BY <1>7 DEF BeginStubLoad
    <2>7. LoadGoesOn(l, r)
      BY <2>1, <2>3, <2>5, <2>6 DEF LoadGoesOn, Holding
    <2> QED
      BY <1>7, <2>4, <2>7, LoadMoves DEF BeginStubLoad
  <1>8. CASE ReadFile(l)
    <2> DEFINE p0 == Min(q.todo)
               n == [q.new EXCEPT ![p0] = disk[p0]]
               r == [q EXCEPT !.todo = @ \ {p0}, !.new = n]
    <2>1. q.pc = "read" /\ p0 \in Paths
      BY <1>6, <1>8 DEF ReadFile
    <2>2. loader' = [loader EXCEPT ![l] = r]
      BY <1>1, <1>8 DEF ReadFile
    <2> HIDE DEF p0
    <2>3. n \in Sources /\ \A p \in Paths : n[p] = IF p = p0 THEN disk[p] ELSE q.new[p]
      BY <1>1, <1>2, <2>1 DEF Sources
    <2> HIDE DEF n
    <2>4. r \in LoadRecord /\ r.pc = "read" /\ r.new = n
      BY <1>1, <1>2, <2>1, <2>3 DEF LoadRecord
    <2>5. r.cross = q.cross
      BY <1>1 DEF LoadRecord
    <2> HIDE DEF r
    <2>6. LoadGoesOn(l, r)
      <3>1. \A p \in Paths : /\ r.new[p] <= disk[p]
                             /\ r.new[p] = 0 \/ sources[p] <= r.new[p] \/ r.cross
        BY <1>3, <2>1, <2>3, <2>4, <2>5
      <3> QED
        BY <1>8, <2>1, <2>4, <3>1 DEF LoadGoesOn, ReadFile, Holding
    <2> QED
      BY <1>8, <2>2, <2>6, LoadMoves DEF ReadFile
  <1>9. CASE ReadFails(l) \/ LoadRefused(l)
    <2>1. q.pc = "read" /\ loader' = [loader EXCEPT ![l] = NotLoading] /\ writeMu' = writeMu
      BY <1>9 DEF ReadFails, LoadRefused, EndLoad
    <2>2. LoadGoesOn(l, NotLoading)
      BY <1>3, <1>4, <1>5, <2>1 DEF LoadGoesOn, Holding
    <2> QED
      BY <1>9, <2>1, <2>2, LoadMoves DEF ReadFails, LoadRefused
  <1>10. CASE ExecPanics(l)
    <2> DEFINE p0 == Min(q.todo)
               r == [q EXCEPT !.todo = @ \ {p0}, !.panicked = @ \cup {p0}]
    <2>1. q.pc = "read" /\ p0 \in Paths
      BY <1>6, <1>10 DEF ExecPanics
    <2>2. loader' = [loader EXCEPT ![l] = r]
      BY <1>1, <1>10 DEF ExecPanics
    <2> HIDE DEF p0
    <2>3. r \in LoadRecord /\ r.pc = "read" /\ r.new = q.new
      BY <1>1, <1>2, <2>1 DEF LoadRecord
    <2>4. r.cross = q.cross
      BY <1>1 DEF LoadRecord
    <2> HIDE DEF r
    <2>5. LoadGoesOn(l, r)
      BY <1>3, <1>10, <2>1, <2>3, <2>4 DEF LoadGoesOn, ExecPanics, Holding
    <2> QED
      BY <1>10, <2>2, <2>5, LoadMoves DEF ExecPanics
  <1>11. CASE MergeSources(l)
    <2> DEFINE n == Merged(l)
               r == [q EXCEPT !.pc = "install", !.new = n]
    <2>1. q.pc = "read" /\ writeMu = Nobody /\ writeMu' = l /\ ~off
      BY <1>11 DEF MergeSources
    <2>2. loader' = [loader EXCEPT ![l] = r]
      BY <1>1, <1>11 DEF MergeSources
    <2>3. /\ n \in Sources
          /\ \A p \in Paths : n[p] = IF q.new[p] > 0 \/ p \in q.panicked THEN q.new[p]
                                                                        ELSE sources[p]
      BY <1>1, <1>3 DEF Merged, Sources
    <2> HIDE DEF n
    <2>4. r \in LoadRecord /\ r.pc = "install" /\ r.new = n /\ r.panicked = q.panicked
      BY <1>1, <2>3 DEF LoadRecord, Holding
    <2>5. r.cross = q.cross
      BY <1>1 DEF LoadRecord
    <2> HIDE DEF r
    <2>6. \A p \in Paths : /\ r.new[p] <= disk[p]
                           /\ sources[p] <= r.new[p] \/ r.cross \/ p \in r.panicked
      <3> SUFFICES ASSUME NEW p \in Paths
                   PROVE  /\ r.new[p] <= disk[p]
                          /\ sources[p] <= r.new[p] \/ r.cross \/ p \in r.panicked
        OBVIOUS
      <3>1. CASE p \in q.panicked
        BY <1>3, <2>3, <2>4, <3>1
      <3>2. CASE p \notin q.panicked /\ q.new[p] > 0
        BY <1>3, <2>1, <2>3, <2>4, <2>5, <3>2
      <3>3. CASE p \notin q.panicked /\ ~(q.new[p] > 0)
        BY <1>3, <2>3, <2>4, <3>3
      <3> QED
        BY <3>1, <3>2, <3>3
    <2>7. LoadGoesOn(l, r)
      BY <2>1, <2>4, <2>6 DEF LoadGoesOn
    <2> QED
      BY <1>11, <2>2, <2>7, LoadMoves DEF MergeSources
  <1> QED
    BY <1>7, <1>8, <1>9, <1>10, <1>11

(* The files change only for newer ones.                                     *)
LEMMA EditFileStep ==
    ASSUME StubInv, NEW p \in Paths, EditFile(p)
    PROVE  StubInv'
  <1> USE DEF configVars, closeVars, sourceVars, EditFile
  <1>1. /\ disk' \in Sources
        /\ \A i \in Paths : disk[i] \in Nat /\ disk'[i] \in Nat /\ disk[i] <= disk'[i]
    BY DEF StubInv, StubShape, StubTyped, Sources
  <1>2. StubShape'
    BY <1>1 DEF StubInv, StubShape, StubTyped, WriteLocked, ContextsOwned, CallsSee, StubsCurrent,
                NoSource
  <1>3. ValidCurrent'
    BY DEF StubInv, ValidCurrent, extractFunctionNames, Loaded
  <1>4. LoadsNewer'
    <2>1. \A i \in Paths : sources[i] \in Nat /\ \A l \in Loaders : loader[l].new[i] \in Nat
      BY DEF StubInv, StubShape, StubTyped, Sources, LoadRecord
    <2> QED
      BY <1>1, <2>1 DEF StubInv, LoadsNewer
  <1>5. CloseClears' /\ CallRunsLoadedCode'
    BY DEF StubInv, CloseClears, CallRunsLoadedCode, NoSource
  <1>6. ContextsClean' /\ ReloadKeepsFunctions'
    BY DEF StubInv, ContextsClean, InUse, CleanContext, ReloadKeepsFunctions
  <1> QED
    BY <1>2, <1>3, <1>4, <1>5, <1>6 DEF StubInv

(* What a call has seen grows with every store that calls can notice.        *)
LEMMA SeeingAll ==
    ASSUME StubTyped, NEW s \in Sources, sc' = Seeing(s)
    PROVE  /\ sc' \in [Actors -> CallRecord]
           /\ \A a \in Actors :
                /\ sc'[a].pc = sc[a].pc /\ sc'[a].fn = sc[a].fn /\ sc'[a].ctx = sc[a].ctx
                /\ sc'[a].code = sc[a].code /\ sc'[a].outcome = sc[a].outcome
                /\ sc[a].late => sc'[a].late
                /\ sc[a].pc # "idle" => sc'[a].seen = sc[a].seen \cup {s}
                /\ sc[a].seen \subseteq sc'[a].seen
  <1>1. ASSUME NEW a \in Actors, sc[a].pc # "idle"
        PROVE  LET r == [sc[a] EXCEPT !.seen = @ \cup {s}] IN
               /\ sc'[a] = r /\ r \in CallRecord
               /\ r.pc = sc[a].pc /\ r.fn = sc[a].fn /\ r.ctx = sc[a].ctx
               /\ r.code = sc[a].code /\ r.outcome = sc[a].outcome
               /\ r.seen = sc[a].seen \cup {s}
    BY <1>1 DEF Seeing, StubTyped, CallRecord
  <1>2. ASSUME NEW a \in Actors, sc[a].pc # "idle", sc[a].late PROVE sc'[a].late
    <2>1. sc'[a] = [sc[a] EXCEPT !.seen = @ \cup {s}] /\ sc[a] \in CallRecord
      BY <1>1, <1>2 DEF StubTyped
    <2> QED
      BY <1>2, <2>1 DEF CallRecord
  <1>3. ASSUME NEW a \in Actors, sc[a].pc = "idle" PROVE sc'[a] = sc[a] /\ sc[a] \in CallRecord
    BY <1>3 DEF Seeing, StubTyped
  <1>4. DOMAIN sc' = Actors /\ sc' = [a \in Actors |-> sc'[a]]
    BY DEF Seeing
  <1>5. \A a \in Actors : sc'[a] \in CallRecord
    BY <1>1, <1>3
  <1>6. sc' \in [Actors -> CallRecord]
    BY <1>4, <1>5
  <1>7. ASSUME NEW a \in Actors
        PROVE  /\ sc'[a].pc = sc[a].pc /\ sc'[a].fn = sc[a].fn /\ sc'[a].ctx = sc[a].ctx
               /\ sc'[a].code = sc[a].code /\ sc'[a].outcome = sc[a].outcome
               /\ sc[a].pc # "idle" => sc'[a].seen = sc[a].seen \cup {s}
               /\ sc[a].seen \subseteq sc'[a].seen
    BY <1>1, <1>3
  <1>8. ASSUME NEW a \in Actors PROVE sc[a].late => sc'[a].late
    BY <1>2, <1>3
  <1> QED
    BY <1>6, <1>7, <1>8

(* The other loads, when one of them stores its sources.                     *)
LEMMA CrossingAll ==
    ASSUME StubTyped, NEW l \in Loaders, NEW r \in LoadRecord,
           loader' = [Crossing(l) EXCEPT ![l] = r]
    PROVE  /\ loader' \in [Loaders -> LoadRecord] /\ loader'[l] = r
           /\ \A m \in Loaders \ {l} :
                /\ loader'[m].pc = loader[m].pc /\ loader'[m].new = loader[m].new
                /\ loader'[m].was = loader[m].was /\ loader'[m].panicked = loader[m].panicked
                /\ loader[m].cross \/ loader[m].pc = "read" => loader'[m].cross
  <1> DEFINE x == Crossing(l)
  <1>1. x \in [Loaders -> LoadRecord]
    <2>1. \A m \in Loaders : /\ loader[m] \in LoadRecord
                             /\ [loader[m] EXCEPT !.cross = TRUE] \in LoadRecord
      BY DEF StubTyped, LoadRecord
    <2> QED
      BY <2>1 DEF Crossing
  <1>2. \A m \in Loaders \ {l} : loader'[m] = IF loader[m].pc = "read"
                                              THEN [loader[m] EXCEPT !.cross = TRUE] ELSE loader[m]
    BY <1>1 DEF Crossing
  <1>3. loader' \in [Loaders -> LoadRecord] /\ loader'[l] = r
    BY <1>1
  <1>4. ASSUME NEW m \in Loaders \ {l}
        PROVE  /\ loader'[m].pc = loader[m].pc /\ loader'[m].new = loader[m].new
               /\ loader'[m].was = loader[m].was /\ loader'[m].panicked = loader[m].panicked
    <2>1. CASE loader[m].pc = "read"
      <3>1. loader'[m] = [loader[m] EXCEPT !.cross = TRUE] /\ loader[m] \in LoadRecord
        BY <1>2, <2>1 DEF StubTyped
      <3> QED
        BY <3>1 DEF LoadRecord
    <2>2. CASE loader[m].pc # "read"
      BY <1>2, <2>2
    <2> QED
      BY <2>1, <2>2
  <1>5. ASSUME NEW m \in Loaders \ {l}, loader[m].cross \/ loader[m].pc = "read"
        PROVE  loader'[m].cross
    <2>1. CASE loader[m].pc = "read"
      <3>1. loader'[m] = [loader[m] EXCEPT !.cross = TRUE] /\ loader[m] \in LoadRecord
        BY <1>2, <2>1 DEF StubTyped
      <3> QED
        BY <3>1 DEF LoadRecord
    <2>2. CASE loader[m].pc # "read"
      BY <1>2, <1>5, <2>2
    <2> QED
      BY <2>1, <2>2
  <1> QED
    BY <1>3, <1>4, <1>5

(* A store of a load: what the invariant needs of it.                        *)
LEMMA StoreKeeps ==
    ASSUME StubInv, NEW l \in Loaders, loader[l].pc \in {"install", "sources", "code"},
           UNCHANGED <<configVars, disk, closeVars, context>>,
           writeMu' \in {l, Nobody},
           sources' \in Sources, code' \in Sources, loader' \in [Loaders -> LoadRecord],
           stubs' = stubs, sources' \in {sources, loader[l].new},
           sc' \in [Actors -> CallRecord],
           \A a \in Actors :
             /\ sc'[a].pc = sc[a].pc /\ sc'[a].fn = sc[a].fn /\ sc'[a].ctx = sc[a].ctx
             /\ sc'[a].code = sc[a].code /\ sc'[a].outcome = sc[a].outcome
             /\ sc[a].late => sc'[a].late
             /\ sc[a].seen \subseteq sc'[a].seen
             /\ sc[a].pc # "idle" => code' \in sc'[a].seen,
           \A m \in Loaders \ {l} :
             /\ loader'[m].pc = loader[m].pc /\ loader'[m].new = loader[m].new
             /\ loader'[m].was = loader[m].was /\ loader'[m].panicked = loader[m].panicked
             /\ loader[m].cross => loader'[m].cross
             /\ loader[m].pc = "read" => loader'[m].cross \/ sources' = sources,
           loader'[l].pc \in Holding <=> writeMu' = l,
           loader'[l].pc # "read" /\ loader'[l].pc # "install",
           loader'[l].pc = "sources" => /\ loader[l].pc = "install" /\ sources' = sources
                                        /\ loader'[l].cross <=> loader[l].cross
                                        /\ loader'[l].panicked = loader[l].panicked,
           loader'[l].new \in {loader[l].new, NoSource},
           loader'[l].pc \in {"sources", "code"} =>
             /\ loader'[l].new = loader[l].new
             /\ \A a \in Actors : sc[a].pc # "idle" => loader[l].new \in sc'[a].seen,
           loader'[l].pc = "purge" => loader'[l].was = code,
           \/ code' = code
           \/ loader'[l].pc = "purge"
           \/ \A f \in Functions : stubs[f].code = NoSource,
           ValidCurrent'
    PROVE  StubInv'
  <1> USE DEF configVars, closeVars
  <1>1. StubTyped'
    BY DEF StubInv, StubShape, StubTyped
  <1>2. \A m \in Loaders \ {l} : loader[m].pc \in {"idle", "read"} /\ loader'[m].pc \in {"idle", "read"}
    BY DEF StubInv, StubShape, WriteLocked, StubTyped, LoadRecord, Holding
  <1>3. WriteLocked'
    BY <1>2, NobodyAssumption DEF WriteLocked, Holding
  <1>4. ContextsOwned' /\ ContextsClean'
    BY DEF StubInv, StubShape, ContextsOwned, ContextsClean, InUse, CleanContext
  <1>5. CallsSee'
    <2> SUFFICES ASSUME NEW a \in Actors, sc'[a].pc # "idle"
                 PROVE  /\ code' \in sc'[a].seen
                        /\ \A m \in Loaders :
                             /\ loader'[m].pc \in {"sources", "code"} =>
                                  loader'[m].new \in sc'[a].seen
                             /\ loader'[m].pc = "purge" => loader'[m].was \in sc'[a].seen
                        /\ sc'[a].pc = "compile" => sc'[a].code \in sc'[a].seen
                        /\ \A g \in Functions : \/ stubs[g].code = NoSource \/ stubs[g].late
                                                \/ stubs[g].code \in sc'[a].seen
      BY DEF CallsSee, NoSource
    <2>1. sc[a].pc # "idle" /\ code \in sc[a].seen
      BY DEF StubInv, StubShape, CallsSee
    <2>2. \A m \in Loaders \ {l} : loader'[m].pc \notin {"sources", "code", "purge"}
      BY <1>2
    <2>3. /\ loader'[l].pc \in {"sources", "code"} => loader'[l].new \in sc'[a].seen
          /\ loader'[l].pc = "purge" => loader'[l].was \in sc'[a].seen
      BY <2>1
    <2>4. \A m \in Loaders : /\ loader'[m].pc \in {"sources", "code"} =>
                                  loader'[m].new \in sc'[a].seen
                             /\ loader'[m].pc = "purge" => loader'[m].was \in sc'[a].seen
      BY <2>2, <2>3
    <2>5. sc'[a].pc = "compile" => sc'[a].code \in sc'[a].seen
      BY <2>1 DEF StubInv, StubShape, CallsSee
    <2>6. \A g \in Functions : \/ stubs[g].code = NoSource \/ stubs[g].late
                               \/ stubs[g].code \in sc'[a].seen
      BY <2>1 DEF StubInv, StubShape, CallsSee
    <2> QED
      BY <2>1, <2>4, <2>5, <2>6
  <1>6. StubsCurrent'
    <2>1. ASSUME ~off, NEW f \in Functions
          PROVE  \/ stubs[f].code = NoSource \/ stubs[f].late \/ stubs[f].code = code'
                 \/ \E m \in Loaders : loader'[m].pc = "purge" /\ stubs[f].code = loader'[m].was
      <3>1. stubs[f].code = NoSource \/ stubs[f].late \/ stubs[f].code = code
        BY <1>2, <2>1 DEF StubInv, StubShape, StubsCurrent
      <3> QED
        BY <3>1
    <2> QED
      BY <2>1 DEF StubInv, StubShape, StubsCurrent, NoSource
  <1>7. LoadsNewer'
    <2> SUFFICES ASSUME NEW p \in Paths
                 PROVE  /\ sources'[p] <= disk[p]
                        /\ \A m \in Loaders :
                             /\ loader'[m].new[p] <= disk[p]
                             /\ loader'[m].pc = "read" =>
                                  \/ loader'[m].new[p] = 0 \/ sources'[p] <= loader'[m].new[p]
                                  \/ loader'[m].cross
                             /\ loader'[m].pc \in {"install", "sources"} =>
                                  \/ sources'[p] <= loader'[m].new[p]
                                  \/ loader'[m].cross \/ p \in loader'[m].panicked
      BY DEF LoadsNewer
    <2>1. disk[p] \in Nat /\ NoSource[p] = 0
      BY DEF StubInv, StubShape, StubTyped, Sources, NoSource
    <2>2. sources'[p] <= disk[p]
      BY DEF StubInv, LoadsNewer
    <2>3. \A m \in Loaders \ {l} :
            /\ loader'[m].new[p] <= disk[p]
            /\ loader'[m].pc = "read" => \/ loader'[m].new[p] = 0
                                         \/ sources'[p] <= loader'[m].new[p] \/ loader'[m].cross
            /\ loader'[m].pc \notin {"install", "sources"}
      <3> SUFFICES ASSUME NEW m \in Loaders \ {l}
                   PROVE  /\ loader'[m].new[p] <= disk[p]
                          /\ loader'[m].pc = "read" =>
                               \/ loader'[m].new[p] = 0
                               \/ sources'[p] <= loader'[m].new[p] \/ loader'[m].cross
                          /\ loader'[m].pc \notin {"install", "sources"}
        OBVIOUS
      <3>1. loader'[m].new[p] <= disk[p] /\ loader'[m].pc \notin {"install", "sources"}
        BY <1>2 DEF StubInv, LoadsNewer
      <3>2. ASSUME loader'[m].pc = "read"
            PROVE  \/ loader'[m].new[p] = 0
                   \/ sources'[p] <= loader'[m].new[p] \/ loader'[m].cross
        <4>1. \/ loader[m].new[p] = 0 \/ sources[p] <= loader[m].new[p] \/ loader[m].cross
          BY <3>2 DEF StubInv, LoadsNewer
        <4> QED
          BY <3>2, <4>1
      <3> QED
        BY <3>1, <3>2
    <2>4. loader'[l].new[p] <= disk[p]
      BY <2>1 DEF StubInv, LoadsNewer
    <2>5. ASSUME loader'[l].pc \in {"install", "sources"}
          PROVE  \/ sources'[p] <= loader'[l].new[p]
                 \/ loader'[l].cross \/ p \in loader'[l].panicked
      <3>1. /\ sources' = sources /\ loader'[l].new = loader[l].new
            /\ loader'[l].panicked = loader[l].panicked /\ (loader'[l].cross <=> loader[l].cross)
        BY <2>5
      <3>2. loader[l].pc = "install"
        BY <2>5
      <3>3. sources[p] <= loader[l].new[p] \/ loader[l].cross \/ p \in loader[l].panicked
        BY <3>2 DEF StubInv, LoadsNewer
      <3> QED
        BY <3>1, <3>3
    <2> QED
      BY <2>2, <2>3, <2>4, <2>5
  <1>8. CloseClears'
    <2>1. writeMu = l /\ l # Nobody
      BY NobodyAssumption DEF StubInv, StubShape, WriteLocked, Holding
    <2> QED
      BY <2>1 DEF StubInv, CloseClears, NoSource
  <1>9. CallRunsLoadedCode'
    BY DEF StubInv, CallRunsLoadedCode
  <1>10. ReloadKeepsFunctions'
    BY DEF StubInv, ReloadKeepsFunctions
  <1> QED
    BY <1>1, <1>3, <1>4, <1>5, <1>6, <1>7, <1>8, <1>9, <1>10 DEF StubInv, StubShape

(* The stores of a load: Starlark's one swap, Tengo's three stores.          *)
LEMMA StoreStep ==
    ASSUME StubInv, NEW l \in Loaders,
           SwapIndex(l) \/ StoreValid(l) \/ StoreSourceMap(l) \/ StoreSourceCode(l)
    PROVE  StubInv'
  <1> USE DEF configVars, closeVars
  <1> DEFINE q == loader[l]
             n == q.new
  <1>1. /\ StubTyped /\ loader \in [Loaders -> LoadRecord] /\ q \in LoadRecord
        /\ n \in Sources /\ sources \in Sources /\ code \in Sources
        /\ sc \in [Actors -> CallRecord]
    BY DEF StubInv, StubShape, StubTyped, LoadRecord
  <1>2. q.pc \in {"install", "sources", "code"}
    BY DEF SwapIndex, StoreValid, StoreSourceMap, StoreSourceCode
  <1>3. writeMu = l /\ l # Nobody
    BY <1>2, NobodyAssumption DEF StubInv, StubShape, WriteLocked, Holding
  <1>4. \A m \in Loaders \ {l} : loader[m].pc \notin {"sources", "code"}
    BY <1>3 DEF StubInv, StubShape, WriteLocked, Holding
  <1>5. NoSource \in Sources
    BY DEF NoSource, Sources
  <1>6. NotLoading \in LoadRecord /\ NotLoading.pc = "idle" /\ NotLoading.new = NoSource
    BY <1>5 DEF NotLoading, LoadRecord
  <1>7. CASE SwapIndex(l)
    <2>1. /\ stubKind = "starlark" /\ sources' = n /\ code' = n /\ sc' = Seeing(n)
          /\ loader' = [Crossing(l) EXCEPT ![l] = NotLoading] /\ writeMu' = Nobody
          /\ stubs' = stubs /\ UNCHANGED <<configVars, disk, closeVars, context>>
      BY <1>7 DEF SwapIndex
    <2>2. /\ loader' \in [Loaders -> LoadRecord] /\ loader'[l] = NotLoading
          /\ \A m \in Loaders \ {l} :
               /\ loader'[m].pc = loader[m].pc /\ loader'[m].new = loader[m].new
               /\ loader'[m].was = loader[m].was /\ loader'[m].panicked = loader[m].panicked
               /\ loader[m].cross \/ loader[m].pc = "read" => loader'[m].cross
      BY <1>1, <1>6, <2>1, CrossingAll
    <2>3. /\ sc' \in [Actors -> CallRecord]
          /\ \A a \in Actors :
               /\ sc'[a].pc = sc[a].pc /\ sc'[a].fn = sc[a].fn /\ sc'[a].ctx = sc[a].ctx
               /\ sc'[a].code = sc[a].code /\ sc'[a].outcome = sc[a].outcome
               /\ sc[a].late => sc'[a].late
               /\ sc[a].pc # "idle" => sc'[a].seen = sc[a].seen \cup {n}
               /\ sc[a].seen \subseteq sc'[a].seen
      BY <1>1, <2>1, SeeingAll
    <2>4. ValidCurrent'
      BY <2>1 DEF ValidCurrent
    <2>5. \A f \in Functions : stubs[f].code = NoSource
      BY <2>1 DEF StubInv, StubShape, StubsCurrent
    <2> HIDE DEF q, n
    <2> QED
      BY <1>1, <1>2, <1>3, <1>6, <2>1, <2>2, <2>3, <2>4, <2>5, StoreKeeps DEF q, n, Holding
  <1>8. CASE StoreValid(l)
    <2> DEFINE r == [q EXCEPT !.pc = "sources"]
    <2>1. /\ q.pc = "install" /\ valid' = extractFunctionNames(n) /\ sc' = Seeing(n)
          /\ loader' = [loader EXCEPT ![l] = r]
          /\ stubs' = stubs /\ UNCHANGED <<configVars, disk, closeVars, context>>
          /\ UNCHANGED <<sources, code, writeMu>>
      BY <1>1, <1>8 DEF StoreValid
    <2>2. r \in LoadRecord /\ r.pc = "sources" /\ r.new = n /\ r.panicked = q.panicked
      BY <1>1 DEF LoadRecord, Holding
    <2>3. r.cross <=> q.cross
      BY <1>1 DEF LoadRecord
    <2> HIDE DEF r
    <2>4. /\ loader' \in [Loaders -> LoadRecord] /\ loader'[l] = r
          /\ \A m \in Loaders \ {l} : loader'[m] = loader[m]
      BY <1>1, <2>1, <2>2
    <2>5. /\ sc' \in [Actors -> CallRecord]
          /\ \A a \in Actors :
               /\ sc'[a].pc = sc[a].pc /\ sc'[a].fn = sc[a].fn /\ sc'[a].ctx = sc[a].ctx
               /\ sc'[a].code = sc[a].code /\ sc'[a].outcome = sc[a].outcome
               /\ sc[a].late => sc'[a].late
               /\ sc[a].pc # "idle" => sc'[a].seen = sc[a].seen \cup {n}
               /\ sc[a].seen \subseteq sc'[a].seen
      BY <1>1, <2>1, SeeingAll
    <2>6. ValidCurrent'
      BY <1>4, <2>1, <2>2, <2>4 DEF ValidCurrent
    <2>7. \A a \in Actors : sc[a].pc # "idle" => code' \in sc'[a].seen
      BY <2>1, <2>5 DEF StubInv, StubShape, CallsSee
    <2> HIDE DEF q, n
    <2> QED
      BY <1>1, <1>2, <1>3, <2>1, <2>2, <2>3, <2>4, <2>5, <2>6, <2>7, StoreKeeps DEF q, n, Holding
  <1>9. CASE StoreSourceMap(l)
    <2> DEFINE r == [q EXCEPT !.pc = "code"]
    <2>1. /\ q.pc = "sources" /\ sources' = n
          /\ loader' = [Crossing(l) EXCEPT ![l] = r]
          /\ stubs' = stubs /\ UNCHANGED <<configVars, disk, closeVars, context>>
          /\ UNCHANGED <<sc, code, valid, writeMu>>
      <3>1. Crossing(l)[l] = q
        BY DEF Crossing
      <3>2. loader' = [Crossing(l) EXCEPT ![l].pc = "code"] /\ DOMAIN Crossing(l) = Loaders
        BY <1>9 DEF StoreSourceMap, Crossing
      <3>3. loader' = [Crossing(l) EXCEPT ![l] = r]
        BY <3>1, <3>2
      <3> QED
        BY <1>9, <3>3 DEF StoreSourceMap
    <2>2. r \in LoadRecord /\ r.pc = "code" /\ r.new = n
      BY <1>1 DEF LoadRecord, Holding
    <2> HIDE DEF r
    <2>3. /\ loader' \in [Loaders -> LoadRecord] /\ loader'[l] = r
          /\ \A m \in Loaders \ {l} :
               /\ loader'[m].pc = loader[m].pc /\ loader'[m].new = loader[m].new
               /\ loader'[m].was = loader[m].was /\ loader'[m].panicked = loader[m].panicked
               /\ loader[m].cross \/ loader[m].pc = "read" => loader'[m].cross
      BY <1>1, <2>1, <2>2, CrossingAll
    <2>4. ValidCurrent'
      <3>1. off \/ stubKind # "tengo" \/ valid = extractFunctionNames(n)
        BY <2>1 DEF StubInv, ValidCurrent
      <3> QED
        BY <1>4, <2>1, <2>2, <2>3, <3>1 DEF ValidCurrent
    <2>5. \A a \in Actors : sc[a].pc # "idle" => code \in sc[a].seen /\ n \in sc[a].seen
      BY <2>1 DEF StubInv, StubShape, CallsSee
    <2> HIDE DEF q, n
    <2> QED
      BY <1>1, <1>2, <1>3, <2>1, <2>2, <2>3, <2>4, <2>5, StoreKeeps DEF q, n, Holding
  <1>10. CASE StoreSourceCode(l)
    <2> DEFINE r == [q EXCEPT !.pc = "purge", !.was = code]
    <2>1. /\ q.pc = "code" /\ code' = n
          /\ loader' = [loader EXCEPT ![l] = r]
          /\ stubs' = stubs /\ UNCHANGED <<configVars, disk, closeVars, context>>
          /\ UNCHANGED <<sc, sources, valid, writeMu>>
      BY <1>1, <1>10 DEF StoreSourceCode
    <2>2. r \in LoadRecord /\ r.pc = "purge" /\ r.new = n /\ r.was = code
      BY <1>1 DEF LoadRecord, Holding
    <2> HIDE DEF r
    <2>3. /\ loader' \in [Loaders -> LoadRecord] /\ loader'[l] = r
          /\ \A m \in Loaders \ {l} : loader'[m] = loader[m]
      BY <1>1, <2>1, <2>2
    <2>4. ValidCurrent'
      <3>1. off \/ stubKind # "tengo" \/ valid = extractFunctionNames(n)
        BY <2>1 DEF StubInv, ValidCurrent
      <3> QED
        BY <1>4, <2>1, <2>2, <2>3, <3>1 DEF ValidCurrent
    <2>5. \A a \in Actors : sc[a].pc # "idle" => n \in sc[a].seen
      BY <2>1 DEF StubInv, StubShape, CallsSee
    <2> HIDE DEF q, n
    <2> QED
      BY <1>1, <1>2, <1>3, <2>1, <2>2, <2>3, <2>4, <2>5, StoreKeeps DEF q, n, Holding
  <1> QED
    BY <1>7, <1>8, <1>9, <1>10

(* Dropping the stubs of the code that a load has replaced.                  *)
LEMMA PurgeStep ==
    ASSUME StubInv, NEW l \in Loaders, PurgeStubs(l)
    PROVE  StubInv'
  <1> USE DEF configVars, closeVars, sourceVars
  <1>1. NoSource \in Sources /\ \A p \in Paths : NoSource[p] = 0
    BY DEF NoSource, Sources
  <1>2. NoStub \in [code : Sources, late : BOOLEAN] /\ NoStub.code = NoSource
    BY <1>1 DEF NoStub
  <1>3. CASE /\ \E f \in Functions : stubs[f] # NoStub /\ stubs' = [stubs EXCEPT ![f] = NoStub]
             /\ UNCHANGED <<loader, writeMu>>
    <2>1. UNCHANGED <<configVars, disk, sources, code, valid, closeVars, sc, context, loader, writeMu>>
      BY <1>3 DEF PurgeStubs
    <2>2. /\ stubs' \in [Functions -> [code : Sources, late : BOOLEAN]]
          /\ \A f \in Functions : stubs'[f] = stubs[f] \/ stubs'[f] = NoStub
      BY <1>2, <1>3 DEF StubInv, StubShape, StubTyped
    <2>3. StubTyped'
      BY <2>1, <2>2 DEF StubInv, StubShape, StubTyped
    <2>4. CallsSee'
      BY <1>2, <2>1, <2>2 DEF StubInv, StubShape, CallsSee, NoSource
    <2>5. StubsCurrent'
      BY <1>2, <2>1, <2>2 DEF StubInv, StubShape, StubsCurrent, NoSource
    <2>6. WriteLocked' /\ ContextsOwned'
      BY <2>1 DEF StubInv, StubShape, WriteLocked, ContextsOwned
    <2>7. ValidCurrent'
      BY <2>1 DEF StubInv, ValidCurrent, extractFunctionNames, Loaded
    <2>8. LoadsNewer' /\ CloseClears'
      BY <2>1 DEF StubInv, LoadsNewer, CloseClears, NoSource
    <2>9. ContextsClean' /\ CallRunsLoadedCode'
      BY <2>1 DEF StubInv, ContextsClean, InUse, CleanContext, CallRunsLoadedCode
    <2>10. ReloadKeepsFunctions'
      BY <2>1 DEF StubInv, ReloadKeepsFunctions
    <2> QED
      BY <2>3, <2>4, <2>5, <2>6, <2>7, <2>8, <2>9, <2>10 DEF StubInv, StubShape
  <1>4. CASE /\ \A f \in Functions : stubs[f] = NoStub
             /\ EndLoad(l) /\ writeMu' = Nobody /\ stubs' = stubs
    <2>1. NotLoading \in LoadRecord /\ NotLoading.pc = "idle" /\ NotLoading.new = NoSource
      BY <1>1 DEF NotLoading, LoadRecord
    <2>2. \A p \in Paths : disk[p] \in Nat
      BY DEF StubInv, StubShape, StubTyped, Sources
    <2>3. loader[l].pc = "purge" /\ loader' = [loader EXCEPT ![l] = NotLoading]
      BY <1>4 DEF PurgeStubs, EndLoad
    <2>4. LoadGoesOn(l, NotLoading)
      BY <1>1, <1>2, <1>4, <2>1, <2>2, <2>3 DEF LoadGoesOn, Holding
    <2> QED
      BY <1>4, <2>3, <2>4, LoadMoves DEF PurgeStubs
  <1> QED
    BY <1>3, <1>4 DEF PurgeStubs

(* Close, store by store: what it clears it clears for good, unless a load   *)
(* is inside the critical section.                                           *)
LEMMA CloseStubStep ==
    ASSUME StubInv, CloseStub
    PROVE  StubInv'
  <1> USE DEF configVars, closeVars, sourceVars
  <1>1. NoSource \in Sources /\ \A p \in Paths : NoSource[p] = 0
    BY DEF NoSource, Sources
  <1>2. NoStub \in [code : Sources, late : BOOLEAN] /\ NoStub.code = NoSource
    BY <1>1 DEF NoStub
  <1>3. StubTyped
    BY DEF StubInv, StubShape
  <1>4. UNCHANGED <<configVars, disk, writeMu, loader, context>>
    BY DEF CloseStub
  <1>5. off' /\ shut' \in {"no", "sources", "code", "valid", "done"} /\ shut' # "no"
    BY DEF CloseStub, StubInv, CloseClears
  <1>6. sources' \in {sources, NoSource} /\ code' \in {code, NoSource}
    BY DEF CloseStub
  <1>7. stubs' \in {stubs, [f \in Functions |-> NoStub]}
    BY DEF CloseStub
  <1>8. \/ sc' = sc /\ code' = code
        \/ sc' = Seeing(NoSource) /\ code' = NoSource
    BY DEF CloseStub
  <1>9. CloseClears'
    BY DEF CloseStub, StubInv, CloseClears, NoSource
  <1>10. /\ sc' \in [Actors -> CallRecord]
         /\ \A a \in Actors :
              /\ sc'[a].pc = sc[a].pc /\ sc'[a].fn = sc[a].fn /\ sc'[a].ctx = sc[a].ctx
              /\ sc'[a].code = sc[a].code /\ sc'[a].outcome = sc[a].outcome
              /\ sc[a].late => sc'[a].late
              /\ sc[a].pc # "idle" => code' \in sc'[a].seen
              /\ sc[a].seen \subseteq sc'[a].seen
    <2>1. CASE sc' = sc /\ code' = code
      BY <1>3, <2>1 DEF StubInv, StubShape, StubTyped, CallsSee
    <2>2. CASE sc' = Seeing(NoSource) /\ code' = NoSource
      BY <1>1, <1>3, <2>2, SeeingAll
    <2> QED
      BY <1>8, <2>1, <2>2
  <1>11. /\ stubs' \in [Functions -> [code : Sources, late : BOOLEAN]]
         /\ \A f \in Functions : stubs'[f] = stubs[f] \/ stubs'[f] = NoStub
    BY <1>2, <1>3, <1>7 DEF StubTyped
  <1>12. StubTyped'
    BY <1>1, <1>3, <1>4, <1>5, <1>6, <1>10, <1>11 DEF StubTyped
  <1>13. WriteLocked' /\ ContextsOwned'
    BY <1>4, <1>10 DEF StubInv, StubShape, WriteLocked, ContextsOwned
  <1>14. CallsSee'
    BY <1>2, <1>4, <1>10, <1>11 DEF StubInv, StubShape, CallsSee, NoSource
  <1>15. StubsCurrent'
    BY <1>2, <1>4, <1>5, <1>10, <1>11 DEF StubInv, StubShape, StubsCurrent, NoSource
  <1>16. ValidCurrent'
    BY <1>5 DEF ValidCurrent
  <1>17. LoadsNewer'
    <2>1. \A p \in Paths : /\ disk[p] \in Nat /\ sources'[p] \in Nat /\ sources'[p] <= sources[p]
                           /\ sources[p] \in Nat
                           /\ \A l \in Loaders : loader[l].new[p] \in Nat
      BY <1>1, <1>3, <1>6 DEF StubTyped, Sources, LoadRecord
    <2> QED
      BY <1>4, <2>1 DEF StubInv, LoadsNewer
  <1>18. ContextsClean'
    BY <1>4, <1>10 DEF StubInv, ContextsClean, InUse, CleanContext
  <1>19. CallRunsLoadedCode'
    BY <1>10 DEF StubInv, CallRunsLoadedCode
  <1>20. ReloadKeepsFunctions'
    BY <1>5 DEF ReloadKeepsFunctions
  <1> QED
    BY <1>9, <1>12, <1>13, <1>14, <1>15, <1>16, <1>17, <1>18, <1>19, <1>20 DEF StubInv, StubShape

(* The invariant of the engines without a pool is inductive.                 *)
LEMMA StubStep == ASSUME StubInv, StubNext PROVE StubInv'
  <1>1. ASSUME NEW a \in Actors,
               StartStubCall(a) \/ StubCallStep(a) \/ StubReturns(a) \/ CallerCancels(a)
        PROVE  StubInv'
    BY <1>1, StartStubCallStep, CallStepMoves, CompileStubStep, PutContextStep DEF StubCallStep
  <1>2. ASSUME NEW l \in Loaders, BeginStubLoad(l) \/ StubLoadStep(l) PROVE StubInv'
    BY <1>2, LoadStepMoves, StoreStep, PurgeStep DEF StubLoadStep
  <1> QED
    BY <1>1, <1>2, EditFileStep, CloseStubStep DEF StubNext

(* An older version only comes back as the properties of loads allow: the    *)
(* step is Close, or a load that crossed another or whose script panicked.   *)
LEMMA StubStepMonotone ==
    ASSUME StubInv, StubNext, NEW p \in Paths, sources'[p] < sources[p]
    PROVE  \/ off
           \/ \E l \in Loaders : /\ loader[l].pc \in {"install", "sources"}
                                 /\ loader[l].cross \/ p \in loader[l].panicked
  <1>1. sources' # sources
    <2>1. sources[p] \in Nat
      BY DEF StubInv, StubShape, StubTyped, Sources
    <2> QED
      BY <2>1
  <1>2. \/ CloseStub /\ shut # "no"
        \/ \E l \in Loaders : SwapIndex(l) \/ StoreSourceMap(l)
    BY <1>1 DEF StubNext, sourceVars, callFrame, EditFile, BeginStubLoad, StubLoadStep, ReadFile,
                ReadFails, ExecPanics, MergeSources, LoadRefused, StoreValid, StoreSourceCode,
                PurgeStubs, StartStubCall, StubCallStep, IndexLookup, isValidFunctionName, LoadStub,
                ReadSource, CompileStub, LimitReached, CallerCancels, TimedOut, StubReturns,
                PutContext, CloseStub
  <1>3. CASE CloseStub /\ shut # "no"
    BY <1>3 DEF StubInv, CloseClears
  <1>4. ASSUME NEW l \in Loaders, SwapIndex(l) \/ StoreSourceMap(l)
        PROVE  /\ loader[l].pc \in {"install", "sources"}
               /\ loader[l].cross \/ p \in loader[l].panicked
    <2>1. loader[l].pc \in {"install", "sources"} /\ sources' = loader[l].new
      BY <1>4 DEF SwapIndex, StoreSourceMap
    <2>2. sources[p] \in Nat /\ loader[l].new[p] \in Nat
      BY DEF StubInv, StubShape, StubTyped, Sources, LoadRecord
    <2>3. ~(sources[p] <= loader[l].new[p])
      BY <2>1, <2>2
    <2> QED
      BY <2>1, <2>3 DEF StubInv, LoadsNewer
  <1> QED
    BY <1>2, <1>3, <1>4

(* The invariant implies that nothing is left after Close.                   *)
LEMMA StubInvEmpty == StubInv => ClosedEmpty
  BY DEF StubInv, CloseClears, ClosedEmpty

-----------------------------------------------------------------------------
(* The engines that pool VMs                                                 *)

Wanted == [prog : Nat, mod : Nat]
VmLoadRecord ==
    [pc : {"idle", "read", "store", "raise"}, ver : Nat, how : {"load", "one", "all"}]
VmRecord == [where : {"none", "new", "pool", "call"}, gen : Nat, need : Wanted,
             prog : Nat, mod : Nat, uses : Nat, stale : Nat,
             armed : BOOLEAN, fired : BOOLEAN, running : BOOLEAN, intr : BOOLEAN,
             cb : [Callbacks -> {"none", "start", "fire", "interrupt", "end"}]]
VmCallRecord == [pc : {"idle", "get", "create", "require", "endless", "lookup", "arm", "reset",
                       "run", "stop", "drain", "check", "end"},
                 vm : VMs \cup {None}, outcome : {"ok", "error", "interrupted", "timeout"},
                 own : BOOLEAN, req : Nat]

(* A call that has a VM, and where that VM is.                               *)
Busy(c) == call[c].pc \notin {"idle", "get"}
Holds(pc, where) ==
    /\ where \in {"new", "call"}
    /\ pc # "endless" => (where = "new" <=> pc = "create")

VmTyped ==
    /\ file \in 1 .. MaxVersion /\ programs \in Nat /\ modprog \in Nat
    /\ gen \in Nat /\ gen > 0 /\ want \in Wanted
    /\ closed \in BOOLEAN /\ (closing # "no" => closed)
    /\ load \in [Reloaders -> VmLoadRecord]
    /\ vm \in [VMs -> VmRecord]
    /\ call \in [Callers -> VmCallRecord]

(* A VM is with one call, in the pool, or nowhere; and what it was made for  *)
(* is not newer than what is wanted now.                                     *)
VmOwned ==
    /\ \A c \in Callers : Busy(c) => call[c].vm \in VMs /\ Holds(call[c].pc, vm[call[c].vm].where)
    /\ \A c, d \in Callers : Busy(c) /\ Busy(d) /\ call[c].vm = call[d].vm => c = d
    /\ \A v \in VMs : vm[v].where \in {"new", "pool", "call"} =>
         /\ vm[v].gen \in 1 .. gen
         /\ vm[v].need.prog <= want.prog /\ vm[v].need.mod <= want.mod

(* What a load is about to store or has stored is as new as what is wanted,  *)
(* or the load was overtaken (and Any is above all versions): one that       *)
(* stores a newer program marks those that wait with an older one.           *)
LoadFresh ==
    /\ want.prog <= file /\ want.mod <= want.prog
    /\ \A l \in Reloaders : load[l].pc \in {"store", "raise"} =>
         /\ load[l].ver = Any \/ load[l].ver <= file
         /\ want.prog <= load[l].ver
    /\ \A l \in Reloaders : load[l].pc = "raise" =>
         /\ closed \/ programs = load[l].ver
         /\ \A k \in Reloaders :
              /\ load[k].pc = "store" => load[l].ver = Any \/ load[l].ver <= load[k].ver
              /\ load[k].pc = "raise" => k = l
    /\ closed \/ want.prog <= programs

(* The shared program of the module is as new as what is wanted, and so is   *)
(* what a require is about to store, unless it overlaps a ReloadAllScripts;  *)
(* while one is under way nothing else is stored.                            *)
ModuleShared ==
    /\ modprog # 0 => kind = "js" /\ (closed \/ want.mod <= modprog)
    /\ kind = "js" /\ ReloadingAll => modprog \in {0, Any}
    /\ \A c \in Callers : call[c].pc = "require" =>
         /\ kind = "js" /\ call[c].req > 0
         /\ call[c].req = Any \/ (~ReloadingAll /\ want.mod <= call[c].req)

(* Only a VM that is with a call can have begun one in a later generation.   *)
VmRetired ==
    \A v \in VMs :
        /\ vm[v].where # "call" => vm[v].stale = 0
        /\ vm[v].where = "call" => vm[v].stale = 0 \/ (vm[v].stale = 1 /\ vm[v].gen < gen)

VmInv == VmTyped /\ VmOwned /\ LoadFresh /\ ModuleShared /\ VmRetired /\ GenFresh /\ ModuleFresh

(* Any is above all versions.                                                *)
LEMMA AnyAbove == Any \in Nat /\ Any > 0 /\ \A n \in Nat : n <= MaxVersion => n < Any
  BY VersionAssumption DEF Any

(* At the start there are no VMs.                                            *)
LEMMA VmStart == VmInit => VmInv
  <1> SUFFICES ASSUME VmInit PROVE VmInv
    OBVIOUS
  <1>1. NoWant \in Wanted /\ NoWant.prog = 0 /\ NoWant.mod = 0
    BY DEF NoWant, Wanted
  <1>2. NoVM \in VmRecord /\ NoVM.where = "none" /\ NoVM.stale = 0
    <2> HIDE DEF NoWant, Wanted
    <2> QED
      BY <1>1 DEF NoVM, VmRecord
  <1>3. NoCall \in VmCallRecord /\ NoCall.pc = "idle"
    BY DEF NoCall, VmCallRecord
  <1>4. NoLoad \in VmLoadRecord /\ NoLoad.pc = "idle"
    BY DEF NoLoad, VmLoadRecord
  <1>5. VmTyped
    <2>1. vm \in [VMs -> VmRecord] /\ call \in [Callers -> VmCallRecord]
      BY <1>2, <1>3 DEF VmInit
    <2>2. load \in [Reloaders -> VmLoadRecord]
      BY <1>4 DEF VmInit
    <2>3. /\ file \in 1 .. MaxVersion /\ programs \in Nat /\ modprog \in Nat
          /\ gen \in Nat /\ gen > 0
      BY VersionAssumption DEF VmInit
    <2>4. want \in Wanted /\ closed \in BOOLEAN /\ (closing # "no" => closed)
      BY <1>1 DEF VmInit
    <2> QED
      BY <2>1, <2>2, <2>3, <2>4 DEF VmTyped
  <1>6. VmOwned /\ VmRetired /\ GenFresh /\ ModuleFresh
    BY <1>2, <1>3 DEF VmInit, VmOwned, VmRetired, GenFresh, ModuleFresh, Busy
  <1>7. LoadFresh
    BY <1>1, <1>4 DEF VmInit, LoadFresh
  <1>8. ModuleShared
    BY <1>3, <1>4 DEF VmInit, ModuleShared, ReloadingAll, Loading
  <1> QED
    BY <1>5, <1>6, <1>7, <1>8 DEF VmInv

(* A step that leaves the engine alone, and of the calls and VMs all that    *)
(* the invariant is about.                                                   *)
LEMMA VmQuiet ==
    ASSUME VmInv, UNCHANGED engineVars,
           vm' \in [VMs -> VmRecord], call' \in [Callers -> VmCallRecord],
           \A v \in VMs : /\ vm'[v].where = vm[v].where /\ vm'[v].gen = vm[v].gen
                          /\ vm'[v].need = vm[v].need /\ vm'[v].prog = vm[v].prog
                          /\ vm'[v].mod = vm[v].mod /\ vm'[v].stale = vm[v].stale,
           \A c \in Callers :
             /\ call'[c].pc \in {"idle", "get"} <=> call[c].pc \in {"idle", "get"}
             /\ \/ call'[c].pc = "endless"
                \/ call[c].pc # "endless" /\ (call'[c].pc = "create" <=> call[c].pc = "create")
             /\ call'[c].pc = "require" => call[c].pc = "require" /\ call'[c].req = call[c].req
             /\ call'[c].pc \in {"idle", "get"} \/ call'[c].vm = call[c].vm
    PROVE  VmInv'
  <1> USE DEF engineVars
  <1>1. VmTyped'
    BY DEF VmInv, VmTyped
  <1>2. VmOwned'
    <2>1. \A c \in Callers : Busy(c)' => Busy(c) /\ call'[c].vm = call[c].vm
      BY DEF Busy
    <2>2. \A c \in Callers : Busy(c)' =>
            call'[c].vm \in VMs /\ Holds(call'[c].pc, vm'[call'[c].vm].where)
      BY <2>1 DEF VmInv, VmOwned, Busy, Holds
    <2>3. \A c, d \in Callers : Busy(c)' /\ Busy(d)' /\ call'[c].vm = call'[d].vm => c = d
      BY <2>1 DEF VmInv, VmOwned
    <2>4. \A v \in VMs : vm'[v].where \in {"new", "pool", "call"} =>
            /\ vm'[v].gen \in 1 .. gen
            /\ vm'[v].need.prog <= want.prog /\ vm'[v].need.mod <= want.mod
      BY DEF VmInv, VmOwned
    <2> QED
      BY <2>2, <2>3, <2>4 DEF VmOwned, Busy
  <1>3. LoadFresh'
    BY DEF VmInv, LoadFresh
  <1>4. ModuleShared'
    BY DEF VmInv, ModuleShared, ReloadingAll, Loading
  <1>5. VmRetired'
    BY DEF VmInv, VmRetired
  <1>6. GenFresh' /\ ModuleFresh'
    BY DEF VmInv, GenFresh, ModuleFresh
  <1> QED
    BY <1>1, <1>2, <1>3, <1>4, <1>5, <1>6 DEF VmInv

(* One VM and one call change, in nothing that the invariant is about.       *)
SameVm(v, w) ==
    /\ w \in VmRecord /\ w.where = vm[v].where /\ w.gen = vm[v].gen /\ w.need = vm[v].need
    /\ w.prog = vm[v].prog /\ w.mod = vm[v].mod /\ w.stale = vm[v].stale
SameCall(c, r) ==
    /\ r \in VmCallRecord /\ r.vm = call[c].vm /\ r.pc \notin {"create", "require"}
    /\ \/ r.pc = "endless"
       \/ call[c].pc \notin {"create", "endless"}
    /\ r.pc \in {"idle", "get"} <=> call[c].pc \in {"idle", "get"}

(* Such a step keeps the invariant of the engines that pool VMs.             *)
LEMMA QuietOne ==
    ASSUME VmInv, UNCHANGED engineVars, NEW v \in VMs, NEW w, SameVm(v, w),
           NEW c \in Callers, NEW r, SameCall(c, r),
           vm' = vm \/ vm' = [vm EXCEPT ![v] = w], call' = call \/ call' = [call EXCEPT ![c] = r]
    PROVE  VmInv'
  <1>1. /\ vm' \in [VMs -> VmRecord]
        /\ \A x \in VMs : vm'[x] = vm[x] \/ (x = v /\ vm'[x] = w)
    BY DEF SameVm, VmInv, VmTyped
  <1>2. /\ call' \in [Callers -> VmCallRecord]
        /\ \A d \in Callers : call'[d] = call[d] \/ (d = c /\ call'[d] = r)
    BY DEF SameCall, VmInv, VmTyped
  <1>3. \A x \in VMs : /\ vm'[x].where = vm[x].where /\ vm'[x].gen = vm[x].gen
                       /\ vm'[x].need = vm[x].need /\ vm'[x].prog = vm[x].prog
                       /\ vm'[x].mod = vm[x].mod /\ vm'[x].stale = vm[x].stale
    BY <1>1 DEF SameVm
  <1>4. \A d \in Callers :
          /\ call'[d].pc \in {"idle", "get"} <=> call[d].pc \in {"idle", "get"}
          /\ \/ call'[d].pc = "endless"
             \/ call[d].pc # "endless" /\ (call'[d].pc = "create" <=> call[d].pc = "create")
          /\ call'[d].pc = "require" => call[d].pc = "require" /\ call'[d].req = call[d].req
          /\ call'[d].vm = call[d].vm
    BY <1>2 DEF SameCall
  <1> QED
    BY <1>1, <1>2, <1>3, <1>4, VmQuiet

(* The steps of a call with its VM, and of the timer, in between.            *)
LEMMA QuietSteps ==
    ASSUME VmInv, NEW c \in Callers,
           \/ TopLevelHangs(c) \/ Lookup(c) \/ ClearFired(c) \/ ResetTimer(c) \/ ScriptReturns(c)
           \/ ScriptPanics(c) \/ ScriptInterrupted(c) \/ DeadlineExceeded(c) \/ StopTimer(c)
           \/ AwaitCallback(c) \/ CheckFired(c)
    PROVE  VmInv'
  <1> USE DEF Goto
  <1> DEFINE q == call[c]
             v == q.vm
             w == vm[v]
  <1>1. q \in VmCallRecord /\ call \in [Callers -> VmCallRecord] /\ vm \in [VMs -> VmRecord]
    BY DEF VmInv, VmTyped
  <1>2. /\ q.pc \notin {"idle", "get"}
        /\ q.pc \in {"create", "endless"} => TopLevelHangs(c)
    BY DEF TopLevelHangs, Lookup, ClearFired, ResetTimer, ScriptReturns, ScriptPanics, ScriptInterrupted,
           DeadlineExceeded, StopTimer, AwaitCallback, CheckFired
  <1>3. v \in VMs /\ w \in VmRecord
    BY <1>1, <1>2 DEF VmInv, VmOwned, Busy
  <1>4. UNCHANGED engineVars
    BY DEF TopLevelHangs, Lookup, ClearFired, ResetTimer, ScriptReturns, ScriptPanics, ScriptInterrupted,
           DeadlineExceeded, StopTimer, AwaitCallback, CheckFired
  <1>5. \E r : SameCall(c, r) /\ call' = [call EXCEPT ![c] = r]
    <2>1. ASSUME NEW p \in {"endless", "arm", "reset", "run", "stop", "drain", "check", "end"},
                 NEW o \in {"ok", "error", "interrupted", "timeout"},
                 TopLevelHangs(c) => p = "endless",
                 \/ call' = [call EXCEPT ![c].pc = p]
                 \/ call' = [call EXCEPT ![c].pc = p, ![c].outcome = o]
                 \/ call' = [call EXCEPT ![c].pc = p, ![c].outcome = o, ![c].own = TRUE]
          PROVE  \E r : SameCall(c, r) /\ call' = [call EXCEPT ![c] = r]
      <3> DEFINE r1 == [q EXCEPT !.pc = p]
                 r2 == [q EXCEPT !.pc = p, !.outcome = o]
                 r3 == [q EXCEPT !.pc = p, !.outcome = o, !.own = TRUE]
      <3>1. /\ r1 \in VmCallRecord /\ r1.pc = p /\ r1.vm = v
            /\ r2 \in VmCallRecord /\ r2.pc = p /\ r2.vm = v
            /\ r3 \in VmCallRecord /\ r3.pc = p /\ r3.vm = v
        BY <1>1 DEF VmCallRecord
      <3>2. \/ call' = [call EXCEPT ![c] = r1]
            \/ call' = [call EXCEPT ![c] = r2]
            \/ call' = [call EXCEPT ![c] = r3]
        BY <1>1, <2>1
      <3> HIDE DEF r1, r2, r3
      <3>3. SameCall(c, r1) /\ SameCall(c, r2) /\ SameCall(c, r3)
        BY <1>2, <2>1, <3>1 DEF SameCall
      <3> QED
        BY <3>2, <3>3
    <2>2. \E p \in {"endless", "arm", "reset", "run", "stop", "drain", "check", "end"} :
          \E o \in {"ok", "error", "interrupted", "timeout"} :
              /\ TopLevelHangs(c) => p = "endless"
              /\ \/ call' = [call EXCEPT ![c].pc = p]
                 \/ call' = [call EXCEPT ![c].pc = p, ![c].outcome = o]
                 \/ call' = [call EXCEPT ![c].pc = p, ![c].outcome = o, ![c].own = TRUE]
      <3>1. q.outcome \in {"ok", "error", "interrupted", "timeout"}
        BY <1>1 DEF VmCallRecord
      <3>2. CASE Lookup(c)
        BY <3>2 DEF Lookup, TopLevelHangs
      <3>3. CASE ClearFired(c)
        BY <3>3 DEF ClearFired, TopLevelHangs
      <3>4. CASE ResetTimer(c)
        BY <3>4 DEF ResetTimer, TopLevelHangs
      <3>5. CASE ScriptReturns(c)
        BY <3>5 DEF ScriptReturns, AfterRun, TopLevelHangs
      <3>6. CASE ScriptPanics(c)
        BY <3>6 DEF ScriptPanics, TopLevelHangs
      <3>7. CASE ScriptInterrupted(c)
        BY <3>7 DEF ScriptInterrupted, TopLevelHangs
      <3>8. CASE DeadlineExceeded(c)
        BY <3>8 DEF DeadlineExceeded, TopLevelHangs
      <3>9. CASE StopTimer(c)
        BY <3>9 DEF StopTimer, TopLevelHangs
      <3>10. CASE AwaitCallback(c)
        BY <3>10 DEF AwaitCallback, TopLevelHangs
      <3>11. CASE CheckFired(c)
        BY <3>1, <3>11 DEF CheckFired, TopLevelHangs
      <3>12. CASE TopLevelHangs(c)
        BY <3>12 DEF TopLevelHangs
      <3> QED
        BY <3>2, <3>3, <3>4, <3>5, <3>6, <3>7, <3>8, <3>9, <3>10, <3>11, <3>12
    <2> QED
      BY <2>1, <2>2
  <1>6. vm' = vm \/ \E x : SameVm(v, x) /\ vm' = [vm EXCEPT ![v] = x]
    <2> DEFINE x1 == [w EXCEPT !.fired = FALSE]
               x2 == [w EXCEPT !.armed = TRUE]
               x3 == [w EXCEPT !.armed = FALSE]
    <2>1. SameVm(v, x1) /\ SameVm(v, x2) /\ SameVm(v, x3)
      BY <1>3 DEF SameVm, VmRecord
    <2>2. \/ vm' = vm
          \/ vm' = [vm EXCEPT ![v] = x1]
          \/ vm' = [vm EXCEPT ![v] = x2]
          \/ vm' = [vm EXCEPT ![v] = x3]
      BY <1>1, <1>3
         DEF TopLevelHangs, Lookup, ClearFired, ResetTimer, ScriptReturns, ScriptPanics,
             ScriptInterrupted, DeadlineExceeded, StopTimer, AwaitCallback, CheckFired
    <2> HIDE DEF x1, x2, x3
    <2> QED
      BY <2>1, <2>2
  <1>7. SameVm(v, w)
    BY <1>3 DEF SameVm
  <1> HIDE DEF q, v, w
  <1> QED
    BY <1>3, <1>4, <1>5, <1>6, <1>7, QuietOne

(* A call that begins, and the timer's callback.                             *)
LEMMA TimerSteps ==
    ASSUME VmInv,
           (\E c \in Callers : StartCall(c)) \/ (\E v \in VMs : TimerStep(v))
    PROVE  VmInv'
  <1>1. call \in [Callers -> VmCallRecord] /\ vm \in [VMs -> VmRecord]
    BY DEF VmInv, VmTyped
  <1>2. ASSUME NEW c \in Callers, StartCall(c) PROVE VmInv'
    <2> DEFINE r == [call[c] EXCEPT !.pc = "get"]
    <2>1. UNCHANGED engineVars /\ vm' = vm /\ call' = [call EXCEPT ![c] = r]
      BY <1>1, <1>2 DEF StartCall, Goto
    <2>2. r \in VmCallRecord /\ r.pc = "get" /\ r.vm = call[c].vm /\ call[c].pc = "idle"
      BY <1>1, <1>2 DEF VmCallRecord, StartCall
    <2> HIDE DEF r
    <2>3. /\ call' \in [Callers -> VmCallRecord]
          /\ \A d \in Callers : call'[d] = IF d = c THEN r ELSE call[d]
      BY <1>1, <2>1, <2>2
    <2> QED
      BY <1>1, <2>1, <2>2, <2>3, VmQuiet
  <1>3. ASSUME NEW v \in VMs, NEW w, SameVm(v, w), vm' = [vm EXCEPT ![v] = w],
               UNCHANGED engineVars, call' \in [Callers -> VmCallRecord],
               \A c \in Callers : /\ call'[c].pc = call[c].pc /\ call'[c].vm = call[c].vm
                                  /\ call'[c].req = call[c].req
        PROVE  VmInv'
    <2>1. /\ vm' \in [VMs -> VmRecord]
          /\ \A x \in VMs : vm'[x] = IF x = v THEN w ELSE vm[x]
      BY <1>1, <1>3 DEF SameVm
    <2>2. \A x \in VMs : /\ vm'[x].where = vm[x].where /\ vm'[x].gen = vm[x].gen
                         /\ vm'[x].need = vm[x].need /\ vm'[x].prog = vm[x].prog
                         /\ vm'[x].mod = vm[x].mod /\ vm'[x].stale = vm[x].stale
      BY <1>3, <2>1 DEF SameVm
    <2> QED
      BY <1>3, <2>1, <2>2, VmQuiet
  <1>4. ASSUME NEW v \in VMs, FireTimer(v) PROVE VmInv'
    <2>1. PICK k \in Callbacks : vm' = [vm EXCEPT ![v].armed = FALSE, ![v].cb[k] = "start"]
      BY <1>4 DEF FireTimer
    <2> DEFINE n == [vm[v].cb EXCEPT ![k] = "start"]
               w == [vm[v] EXCEPT !.armed = FALSE, !.cb = n]
    <2>2. n \in [Callbacks -> {"none", "start", "fire", "interrupt", "end"}]
      BY <1>1 DEF VmRecord
    <2>3. vm' = [vm EXCEPT ![v] = w]
      BY <1>1, <2>1 DEF VmRecord
    <2> HIDE DEF n
    <2>4. SameVm(v, w)
      <3>1. vm[v] \in VmRecord
        BY <1>1
      <3> QED
        BY <2>2, <3>1 DEF SameVm, VmRecord
    <2> HIDE DEF w
    <2>5. UNCHANGED engineVars
      BY <1>4 DEF FireTimer
    <2>6. call' = [c \in Callers |-> IF call[c].vm = v THEN [call[c] EXCEPT !.own = TRUE]
                                                       ELSE call[c]]
      BY <1>4 DEF FireTimer
    <2>7. ASSUME NEW c \in Callers
          PROVE  /\ [call[c] EXCEPT !.own = TRUE] \in VmCallRecord
                 /\ call'[c].pc = call[c].pc /\ call'[c].vm = call[c].vm
                 /\ call'[c].req = call[c].req
      BY <1>1, <2>6 DEF VmCallRecord
    <2>8. call' \in [Callers -> VmCallRecord]
      BY <1>1, <2>6, <2>7
    <2> QED
      BY <1>3, <2>3, <2>4, <2>5, <2>7, <2>8
  <1>5. ASSUME NEW v \in VMs, NEW k \in Callbacks, Callback(v, k) PROVE VmInv'
    <2> DEFINE n(x) == [vm[v].cb EXCEPT ![k] = x]
               w1 == [vm[v] EXCEPT !.cb = n("fire"), !.running = TRUE]
               w2 == [vm[v] EXCEPT !.cb = n("interrupt"), !.fired = TRUE]
               w3 == [vm[v] EXCEPT !.cb = n("end"), !.intr = TRUE]
               w4 == [vm[v] EXCEPT !.cb = n("none"), !.running = FALSE]
    <2>1. \A x \in {"none", "fire", "interrupt", "end"} :
            n(x) \in [Callbacks -> {"none", "start", "fire", "interrupt", "end"}]
      BY <1>1 DEF VmRecord
    <2>2. \/ vm' = [vm EXCEPT ![v] = w1]
          \/ vm' = [vm EXCEPT ![v] = w2]
          \/ vm' = [vm EXCEPT ![v] = w3]
          \/ vm' = [vm EXCEPT ![v] = w4]
      BY <1>1, <1>5 DEF Callback, VmRecord
    <2> HIDE DEF n
    <2>3. SameVm(v, w1) /\ SameVm(v, w2) /\ SameVm(v, w3) /\ SameVm(v, w4)
      BY <1>1, <2>1 DEF SameVm, VmRecord
    <2> HIDE DEF w1, w2, w3, w4
    <2>4. UNCHANGED engineVars /\ call' = call
      BY <1>5 DEF Callback
    <2> QED
      BY <1>1, <1>3, <2>2, <2>3, <2>4
  <1> QED
    BY <1>2, <1>4, <1>5 DEF TimerStep

(* A step of the loads that leaves alone what calls are about, and begins no *)
(* ReloadAllScripts.                                                         *)
LEMMA LoadsKeep ==
    ASSUME VmInv, UNCHANGED <<kind, gen, closed, modprog, want, closing, vm, call>>,
           file' \in 1 .. MaxVersion, programs' \in Nat, load' \in [Reloaders -> VmLoadRecord],
           \A l \in Reloaders : load'[l].pc = "idle" \/ (Loading(l) /\ load'[l].how = load[l].how),
           LoadFresh'
    PROVE  VmInv'
  <1>1. VmTyped'
    BY DEF VmInv, VmTyped
  <1>2. VmOwned' /\ VmRetired'
    BY DEF VmInv, VmOwned, Busy, VmRetired
  <1>3. GenFresh' /\ ModuleFresh'
    BY DEF VmInv, GenFresh, ModuleFresh
  <1>4. ReloadingAll' => ReloadingAll
    BY DEF ReloadingAll, Loading
  <1>5. ModuleShared'
    BY <1>4 DEF VmInv, ModuleShared
  <1> QED
    BY <1>1, <1>2, <1>3, <1>5 DEF VmInv

(* The script directory changes, and loads read it.                          *)
LEMMA ReadSteps ==
    ASSUME VmInv, EditScript \/ \E l \in Reloaders : ReadScript(l)
    PROVE  VmInv'
  <1>1. /\ load \in [Reloaders -> VmLoadRecord] /\ file \in 1 .. MaxVersion /\ programs \in Nat
        /\ want \in Wanted /\ MaxVersion \in Nat
    BY VersionAssumption DEF VmInv, VmTyped
  <1>2. NoLoad \in VmLoadRecord /\ NoLoad.pc = "idle"
    BY DEF NoLoad, VmLoadRecord
  <1>3. file \in Nat /\ want.prog \in Nat /\ \A l \in Reloaders : load[l].ver \in Nat
    BY <1>1 DEF Wanted, VmLoadRecord
  <1>4. CASE EditScript
    <2>1. /\ file' \in 1 .. MaxVersion /\ file <= file' /\ programs' = programs /\ load' = load
          /\ UNCHANGED <<kind, gen, closed, modprog, want, closing, vm, call>>
      BY <1>1, <1>4 DEF EditScript
    <2>2. LoadFresh'
      BY <1>1, <1>3, <2>1 DEF VmInv, LoadFresh
    <2>3. \A l \in Reloaders : load'[l].pc = "idle" \/ (Loading(l) /\ load'[l].how = load[l].how)
      BY <2>1 DEF Loading
    <2> QED
      BY <1>1, <2>1, <2>2, <2>3, LoadsKeep
  <1>5. ASSUME NEW l \in Reloaders, ReadScript(l) PROVE VmInv'
    <2> DEFINE r == [load[l] EXCEPT !.pc = "store", !.ver = file]
    <2>1. r \in VmLoadRecord /\ r.pc = "store" /\ r.ver = file /\ r.how = load[l].how
      BY <1>1, <1>3 DEF VmLoadRecord
    <2>2. /\ load[l].pc = "read" /\ UNCHANGED <<file, programs>>
          /\ UNCHANGED <<kind, gen, closed, modprog, want, closing, vm, call>>
      BY <1>5 DEF ReadScript
    <2>3. PICK q \in {r, NoLoad} : load' = [load EXCEPT ![l] = q]
      BY <1>5 DEF ReadScript
    <2> HIDE DEF r
    <2>4. /\ q \in VmLoadRecord
          /\ q.pc = "idle" \/ (q.pc = "store" /\ q.ver = file /\ q.how = load[l].how)
      BY <1>2, <2>1, <2>3
    <2>5. /\ load' \in [Reloaders -> VmLoadRecord]
          /\ \A k \in Reloaders : load'[k] = IF k = l THEN q ELSE load[k]
      BY <1>1, <2>3, <2>4
    <2>6. LoadFresh'
      <3>1. ASSUME NEW k \in Reloaders, load'[k].pc \in {"store", "raise"}
            PROVE  /\ load'[k].ver = Any \/ load'[k].ver <= file
                   /\ want.prog <= load'[k].ver
        BY <1>1, <2>4, <2>5, <3>1 DEF VmInv, LoadFresh
      <3>2. ASSUME NEW k \in Reloaders, load'[k].pc = "raise",
                   NEW m \in Reloaders
            PROVE  /\ closed \/ programs = load'[k].ver
                   /\ load'[m].pc = "store" => load'[k].ver = Any \/ load'[k].ver <= load'[m].ver
                   /\ load'[m].pc = "raise" => m = k
        <4>1. load'[k] = load[k] /\ load[k].pc = "raise"
          BY <2>4, <2>5, <3>2
        <4>2. closed \/ programs = load[k].ver
          BY <4>1 DEF VmInv, LoadFresh
        <4>3. load'[m].pc = "store" => load[k].ver = Any \/ load[k].ver <= load'[m].ver
          BY <2>4, <2>5, <4>1 DEF VmInv, LoadFresh
        <4>4. load'[m].pc = "raise" => m = k
          BY <2>4, <2>5, <4>1 DEF VmInv, LoadFresh
        <4> QED
          BY <4>1, <4>2, <4>3, <4>4
      <3>3. want.prog <= file /\ want.mod <= want.prog /\ (closed \/ want.prog <= programs)
        BY DEF VmInv, LoadFresh
      <3> QED
        BY <2>2, <3>1, <3>2, <3>3 DEF LoadFresh
    <2>7. \A k \in Reloaders : load'[k].pc = "idle" \/ (Loading(k) /\ load'[k].how = load[k].how)
      BY <2>2, <2>4, <2>5 DEF Loading
    <2> QED
      BY <1>1, <2>2, <2>5, <2>6, <2>7, LoadsKeep
  <1> QED
    BY <1>4, <1>5

(* A load stores its programs, and marks those that it overtakes.            *)
LEMMA StoreProgramsStep ==
    ASSUME VmInv, NEW l \in Reloaders, StorePrograms(l)
    PROVE  VmInv'
  <1> DEFINE r(k) == IF k = l THEN IF Raises(l) THEN [load[l] EXCEPT !.pc = "raise"] ELSE NoLoad
                     ELSE IF load[k].pc = "store" /\ load[k].ver < load[l].ver /\ load[l].ver # Any
                          THEN [load[k] EXCEPT !.ver = Any]
                          ELSE load[k]
  <1>1. /\ load \in [Reloaders -> VmLoadRecord] /\ file \in 1 .. MaxVersion /\ want \in Wanted
        /\ MaxVersion \in Nat
    BY VersionAssumption DEF VmInv, VmTyped
  <1>2. NoLoad \in VmLoadRecord /\ NoLoad.pc = "idle"
    BY DEF NoLoad, VmLoadRecord
  <1>3. want.prog \in Nat /\ \A k \in Reloaders : load[k].ver \in Nat
    BY <1>1 DEF Wanted, VmLoadRecord
  <1>4. /\ load[l].pc = "store" /\ \A k \in Reloaders : load[k].pc # "raise"
        /\ programs' = load[l].ver /\ \A k \in Reloaders : load'[k] = r(k)
        /\ load' = [k \in Reloaders |-> r(k)]
        /\ UNCHANGED <<kind, file, gen, closed, modprog, want, closing, vm, call>>
    BY DEF StorePrograms
  <1>5. ASSUME NEW k \in Reloaders
        PROVE  /\ r(k) \in VmLoadRecord
               /\ r(k).pc = "idle" \/ (load[k].pc # "idle" /\ r(k).how = load[k].how)
               /\ k = l => r(k).pc = "idle" \/ (r(k).pc = "raise" /\ r(k).ver = load[l].ver)
               /\ k # l => /\ r(k).pc = load[k].pc
                           /\ r(k).ver = Any \/
                                (r(k).ver = load[k].ver
                                   /\ (load[k].pc = "store" => load[l].ver = Any
                                                                 \/ load[l].ver <= load[k].ver))
    <2>1. CASE k = l
      <3>1. /\ [load[l] EXCEPT !.pc = "raise"] \in VmLoadRecord
            /\ [load[l] EXCEPT !.pc = "raise"].pc = "raise"
            /\ [load[l] EXCEPT !.pc = "raise"].ver = load[l].ver
            /\ [load[l] EXCEPT !.pc = "raise"].how = load[l].how
        BY <1>1 DEF VmLoadRecord
      <3> QED
        BY <1>2, <1>4, <2>1, <3>1
    <2>2. CASE k # l /\ load[k].pc = "store" /\ load[k].ver < load[l].ver /\ load[l].ver # Any
      <3>1. /\ [load[k] EXCEPT !.ver = Any] \in VmLoadRecord
            /\ [load[k] EXCEPT !.ver = Any].pc = load[k].pc
            /\ [load[k] EXCEPT !.ver = Any].ver = Any
            /\ [load[k] EXCEPT !.ver = Any].how = load[k].how
        BY <1>1, AnyAbove DEF VmLoadRecord
      <3> QED
        BY <2>2, <3>1
    <2>3. CASE k # l /\ ~(load[k].pc = "store" /\ load[k].ver < load[l].ver /\ load[l].ver # Any)
      BY <1>1, <1>3, <2>3
    <2> QED
      BY <2>1, <2>2, <2>3
  <1> HIDE DEF r
  <1>6. /\ load' \in [Reloaders -> VmLoadRecord] /\ programs' \in Nat
    BY <1>3, <1>4, <1>5
  <1>7. LoadFresh'
    <2>1. /\ load[l].ver = Any \/ load[l].ver <= file
          /\ want.prog <= load[l].ver /\ want.prog <= file /\ want.mod <= want.prog
      BY <1>4 DEF VmInv, LoadFresh
    <2>2. want.prog <= Any
      BY <1>1, <1>3, <2>1, AnyAbove
    <2>3. ASSUME NEW k \in Reloaders, r(k).pc \in {"store", "raise"}
          PROVE  /\ r(k).ver = Any \/ r(k).ver <= file
                 /\ want.prog <= r(k).ver
      BY <1>5, <2>1, <2>2, <2>3 DEF VmInv, LoadFresh
    <2>4. ASSUME NEW k \in Reloaders, r(k).pc = "raise", NEW m \in Reloaders
          PROVE  /\ programs' = r(k).ver
                 /\ r(m).pc = "store" => r(k).ver = Any \/ r(k).ver <= r(m).ver
                 /\ r(m).pc = "raise" => m = k
      <3>1. k = l /\ r(k).ver = load[l].ver
        BY <1>4, <1>5, <2>4
      <3>2. r(m).pc = "store" => m # l
        BY <1>5
      <3>3. r(m).pc = "raise" => m = l
        BY <1>4, <1>5
      <3>4. r(m).pc = "store" => load[l].ver = Any \/ load[l].ver <= r(m).ver
        <4>1. load[l].ver = Any \/ load[l].ver <= Any
          BY <1>1, <1>3, <2>1, AnyAbove
        <4> QED
          BY <1>5, <3>2, <4>1
      <3> QED
        BY <1>4, <3>1, <3>3, <3>4
    <2> QED
      BY <1>4, <2>1, <2>3, <2>4 DEF LoadFresh
  <1>8. \A k \in Reloaders : load'[k].pc = "idle" \/ (Loading(k) /\ load'[k].how = load[k].how)
    BY <1>4, <1>5 DEF Loading
  <1> QED
    BY <1>1, <1>4, <1>6, <1>7, <1>8, LoadsKeep

(* A load that begins: ReloadAllScripts drops the module's program, and      *)
(* every require that is under way overlaps it.                              *)
LEMMA BeginLoadStep == ASSUME VmInv, NEW l \in Reloaders, BeginLoad(l) PROVE VmInv'
  <1>1. PICK how \in {"load", "one", "all"} :
          /\ IF how = "all" /\ kind = "js" THEN DropModules ELSE UNCHANGED <<modprog, call>>
          /\ load' = IF how = "all" /\ programs = 0 THEN load
                     ELSE [load EXCEPT ![l] = [NoLoad EXCEPT !.pc = "read", !.how = how]]
    BY DEF BeginLoad
  <1>2. /\ UNCHANGED <<kind, file, programs, gen, closed, want, closing, vm>>
        /\ load[l].pc = "idle"
    BY DEF BeginLoad, Loading
  <1>3. /\ load \in [Reloaders -> VmLoadRecord] /\ call \in [Callers -> VmCallRecord]
        /\ modprog \in Nat
    BY DEF VmInv, VmTyped
  <1>4. /\ load' \in [Reloaders -> VmLoadRecord]
        /\ \A k \in Reloaders : load'[k] = load[k]
             \/ (k = l /\ load'[k].pc = "read" /\ load'[k].how = how)
    <2> DEFINE r == [NoLoad EXCEPT !.pc = "read", !.how = how]
    <2>1. r \in VmLoadRecord /\ r.pc = "read" /\ r.how = how
      BY DEF NoLoad, VmLoadRecord
    <2>2. load' = load \/ load' = [load EXCEPT ![l] = r]
      BY <1>1
    <2> HIDE DEF r
    <2> QED
      BY <1>3, <2>1, <2>2
  <1>5. /\ modprog' \in Nat
        /\ modprog' \in {0, modprog} \/ (modprog > 0 /\ modprog' = Any)
        /\ how = "all" /\ kind = "js" => modprog' \in {0, Any}
    <2>1. CASE how = "all" /\ kind = "js"
      BY <1>1, <1>3, <2>1, AnyAbove DEF DropModules
    <2>2. CASE ~(how = "all" /\ kind = "js")
      BY <1>1, <1>3, <2>2
    <2> QED
      BY <2>1, <2>2
  <1>6. ASSUME NEW c \in Callers
        PROVE  /\ call'[c] \in VmCallRecord /\ call'[c].pc = call[c].pc
               /\ call'[c].vm = call[c].vm
               /\ call'[c].req = call[c].req \/ (call'[c].req = Any /\ call[c].req > 0)
               /\ how = "all" /\ kind = "js" /\ call[c].req > 0 => call'[c].req = Any
    <2>1. CASE how = "all" /\ kind = "js"
      <3> DEFINE n == IF call[c].req > 0 THEN Any ELSE 0
      <3>1. call'[c] = [call[c] EXCEPT !.req = n] /\ call[c] \in VmCallRecord
        BY <1>1, <1>3, <2>1 DEF DropModules
      <3>2. n \in Nat /\ (n = Any \/ n = 0)
        BY AnyAbove
      <3>3. n = call[c].req \/ (n = Any /\ call[c].req > 0)
        BY <3>1 DEF VmCallRecord
      <3>4. call[c].req > 0 => n = Any
        OBVIOUS
      <3> HIDE DEF n
      <3> QED
        BY <3>1, <3>2, <3>3, <3>4 DEF VmCallRecord
    <2>2. CASE ~(how = "all" /\ kind = "js")
      BY <1>1, <1>3, <2>2
    <2> QED
      BY <2>1, <2>2
  <1>7. call' \in [Callers -> VmCallRecord]
    <2>1. CASE how = "all" /\ kind = "js"
      <3>1. call' = [c \in Callers |-> [call[c] EXCEPT !.req = IF call[c].req > 0 THEN Any ELSE 0]]
        BY <1>1, <2>1 DEF DropModules
      <3> QED
        BY <1>6, <3>1
    <2>2. CASE ~(how = "all" /\ kind = "js")
      BY <1>1, <1>3, <2>2
    <2> QED
      BY <2>1, <2>2
  <1>8. VmTyped'
    BY <1>2, <1>4, <1>5, <1>7 DEF VmInv, VmTyped
  <1>9. VmOwned'
    BY <1>2, <1>6 DEF VmInv, VmOwned, Busy
  <1>10. VmRetired' /\ GenFresh' /\ ModuleFresh'
    BY <1>2 DEF VmInv, VmRetired, GenFresh, ModuleFresh
  <1>11. LoadFresh'
    <2>1. \A k \in Reloaders : load'[k].pc \in {"store", "raise"} => load'[k] = load[k]
      BY <1>4
    <2> QED
      BY <1>2, <2>1 DEF VmInv, LoadFresh
  <1>12. ModuleShared'
    <2>1. ReloadingAll' => ReloadingAll \/ how = "all"
      BY <1>4 DEF ReloadingAll, Loading
    <2>2. modprog' # 0 => kind = "js" /\ (closed \/ want.mod <= modprog')
      <3>1. want.mod <= Any
        <4>1. want.prog \in Nat /\ want.mod \in Nat /\ MaxVersion \in Nat
          BY VersionAssumption DEF VmInv, VmTyped, Wanted
        <4>2. want.mod <= want.prog /\ want.prog <= file /\ file \in 1 .. MaxVersion
          BY DEF VmInv, LoadFresh, VmTyped
        <4> QED
          BY <4>1, <4>2, AnyAbove
      <3>2. modprog # 0 => kind = "js" /\ (closed \/ want.mod <= modprog)
        BY DEF VmInv, ModuleShared
      <3> QED
        BY <1>5, <3>1, <3>2
    <2>3. kind = "js" /\ ReloadingAll' => modprog' \in {0, Any}
      BY <1>5, <2>1 DEF VmInv, ModuleShared
    <2>4. ASSUME NEW c \in Callers, call'[c].pc = "require"
          PROVE  /\ kind = "js" /\ call'[c].req > 0
                 /\ call'[c].req = Any \/ (~ReloadingAll' /\ want.mod <= call'[c].req)
      <3>1. /\ kind = "js" /\ call[c].req > 0
            /\ call[c].req = Any \/ (~ReloadingAll /\ want.mod <= call[c].req)
        BY <1>6, <2>4 DEF VmInv, ModuleShared
      <3> QED
        BY <1>6, <2>1, <3>1, AnyAbove
    <2> QED
      BY <1>2, <2>2, <2>3, <2>4 DEF ModuleShared
  <1> QED
    BY <1>8, <1>9, <1>10, <1>11, <1>12 DEF VmInv

(* A load that raises the generation: its programs are in place, and after   *)
(* ReloadAllScripts so are new modules, or none, or those of a require that  *)
(* overlapped it.                                                            *)
LEMMA RaiseGenStep == ASSUME VmInv, NEW l \in Reloaders, RaiseGen(l) PROVE VmInv'
  <1>1. /\ load[l].pc = "raise" /\ gen' = gen + 1 /\ load' = [load EXCEPT ![l] = NoLoad]
        /\ UNCHANGED <<kind, file, programs, closed, modprog, closing, vm, call>>
    BY DEF RaiseGen
  <1>2. /\ load \in [Reloaders -> VmLoadRecord] /\ gen \in Nat /\ gen > 0 /\ want \in Wanted
        /\ file \in 1 .. MaxVersion /\ MaxVersion \in Nat /\ modprog \in Nat
    BY VersionAssumption DEF VmInv, VmTyped
  <1>3. /\ load[l].ver \in Nat /\ load[l].how \in {"load", "one", "all"}
        /\ want.prog \in Nat /\ want.mod \in Nat
    BY <1>2 DEF VmLoadRecord, Wanted
  <1>4. NoLoad \in VmLoadRecord /\ NoLoad.pc = "idle"
    BY DEF NoLoad, VmLoadRecord
  <1>5. /\ load' \in [Reloaders -> VmLoadRecord]
        /\ \A k \in Reloaders : load'[k] = IF k = l THEN NoLoad ELSE load[k]
    BY <1>1, <1>2, <1>4
  <1>6. /\ load[l].ver = Any \/ load[l].ver <= file
        /\ want.prog <= load[l].ver /\ want.prog <= file /\ want.mod <= want.prog
        /\ closed \/ programs = load[l].ver
        /\ closed \/ want.prog <= programs
        /\ \A k \in Reloaders :
             /\ load[k].pc = "store" => load[l].ver = Any \/ load[l].ver <= load[k].ver
             /\ load[k].pc = "raise" => k = l
    BY <1>1 DEF VmInv, LoadFresh
  <1>7. /\ want' \in Wanted /\ want.prog <= want'.prog /\ want.mod <= want'.mod
        /\ want'.prog <= file /\ want'.mod <= want'.prog
        /\ want'.prog \in Nat /\ want'.mod \in Nat
        /\ want'.prog = want.prog \/ (want'.prog = load[l].ver /\ load[l].ver # Any)
        /\ want'.mod = want.mod \/ load[l].how = "all"
    <2>1. CASE load[l].ver = Any
      <3>1. want' = want
        BY <2>1 DEF RaiseGen
      <3> QED
        BY <1>2, <1>3, <1>6, <3>1
    <2>2. CASE load[l].ver # Any
      <3> DEFINE m == IF load[l].how = "all" THEN load[l].ver ELSE want.mod
      <3>1. want' = [prog |-> load[l].ver, mod |-> m]
        BY <2>2 DEF RaiseGen
      <3>2. m \in Nat /\ want.mod <= m /\ m <= load[l].ver /\ (m = want.mod \/ load[l].how = "all")
        BY <1>3, <1>6
      <3> HIDE DEF m
      <3> QED
        BY <1>2, <1>3, <1>6, <2>2, <3>1, <3>2 DEF Wanted
    <2> QED
      BY <2>1, <2>2
  <1>8. VmTyped'
    BY <1>1, <1>2, <1>5, <1>7 DEF VmInv, VmTyped
  <1>9. VmOwned'
    <2>1. ASSUME NEW v \in VMs, vm[v].where \in {"new", "pool", "call"}
          PROVE  /\ vm[v].gen \in 1 .. gen'
                 /\ vm[v].need.prog <= want'.prog /\ vm[v].need.mod <= want'.mod
      <3>1. vm[v].need.prog \in Nat /\ vm[v].need.mod \in Nat
        <4>1. vm[v] \in VmRecord
          BY DEF VmInv, VmTyped
        <4> QED
          BY <4>1 DEF VmRecord, Wanted
      <3>2. /\ vm[v].gen \in 1 .. gen
            /\ vm[v].need.prog <= want.prog /\ vm[v].need.mod <= want.mod
        BY <2>1 DEF VmInv, VmOwned
      <3> QED
        BY <1>1, <1>2, <1>3, <1>7, <3>1, <3>2
    <2> QED
      BY <1>1, <2>1 DEF VmInv, VmOwned, Busy
  <1>10. LoadFresh'
    <2>1. ASSUME NEW k \in Reloaders, load'[k].pc \in {"store", "raise"}
          PROVE  /\ load'[k].pc = "store" /\ load[k].pc = "store" /\ load'[k] = load[k]
                 /\ load[k].ver = Any \/ load[k].ver <= file
                 /\ want'.prog <= load[k].ver
      <3>1. k # l /\ load'[k] = load[k]
        BY <1>4, <1>5, <2>1
      <3>2. load[k].pc = "store"
        BY <1>6, <2>1, <3>1
      <3>3. (load[k].ver = Any \/ load[k].ver <= file) /\ want.prog <= load[k].ver
        BY <3>2 DEF VmInv, LoadFresh
      <3> QED
        BY <1>6, <1>7, <3>1, <3>2, <3>3
    <2>2. closed \/ want'.prog <= programs
      BY <1>3, <1>6, <1>7
    <2> QED
      BY <1>1, <1>7, <2>1, <2>2 DEF LoadFresh
  <1>11. ModuleShared'
    <2>1. ReloadingAll' => ReloadingAll
      BY <1>4, <1>5 DEF ReloadingAll, Loading
    <2>2. want'.mod = want.mod \/ ReloadingAll
      BY <1>1, <1>7 DEF ReloadingAll, Loading
    <2>3. want'.mod <= Any
      BY <1>2, <1>3, <1>7, AnyAbove
    <2>4. modprog # 0 => kind = "js" /\ (closed \/ want'.mod <= modprog)
      <3>1. kind = "js" /\ ReloadingAll => modprog \in {0, Any}
        BY DEF VmInv, ModuleShared
      <3>2. modprog # 0 => kind = "js" /\ (closed \/ want.mod <= modprog)
        BY DEF VmInv, ModuleShared
      <3> QED
        BY <2>2, <2>3, <3>1, <3>2
    <2>5. ASSUME NEW c \in Callers, call[c].pc = "require"
          PROVE  /\ kind = "js" /\ call[c].req > 0
                 /\ call[c].req = Any \/ (~ReloadingAll' /\ want'.mod <= call[c].req)
      BY <2>1, <2>2, <2>5 DEF VmInv, ModuleShared
    <2> QED
      BY <1>1, <2>1, <2>4, <2>5 DEF VmInv, ModuleShared
  <1>12. VmRetired'
    <2>1. \A v \in VMs : vm[v].gen \in Nat
      BY DEF VmInv, VmTyped, VmRecord
    <2> QED
      BY <1>1, <1>2, <2>1 DEF VmInv, VmRetired
  <1>13. GenFresh' /\ ModuleFresh'
    BY <1>1 DEF VmInv, GenFresh, ModuleFresh
  <1> QED
    BY <1>8, <1>9, <1>10, <1>11, <1>12, <1>13 DEF VmInv

(* Close, step by step: nothing that the invariant says of programs is left. *)
LEMMA CloseStep == ASSUME VmInv, Close PROVE VmInv'
  <1>1. UNCHANGED <<kind, file, want, load, vm, call>> /\ closed' \in BOOLEAN /\ closed'
    BY DEF Close, VmInv, VmTyped
  <1>2. /\ gen' \in Nat /\ gen' > 0 /\ gen <= gen' /\ gen \in Nat
        /\ programs' \in Nat /\ modprog' \in {0, modprog} /\ modprog' \in Nat
    BY DEF Close, VmInv, VmTyped
  <1>3. VmTyped'
    BY <1>1, <1>2 DEF VmInv, VmTyped
  <1>4. \A v \in VMs : vm[v].gen \in Nat
    BY DEF VmInv, VmTyped, VmRecord
  <1>5. VmOwned'
    <2>1. \A v \in VMs : vm[v].where \in {"new", "pool", "call"} => vm[v].gen \in 1 .. gen'
      BY <1>2, <1>4 DEF VmInv, VmOwned
    <2> QED
      BY <1>1, <2>1 DEF VmInv, VmOwned, Busy
  <1>6. VmRetired'
    BY <1>1, <1>2, <1>4 DEF VmInv, VmRetired
  <1>7. GenFresh' /\ ModuleFresh'
    BY <1>1 DEF GenFresh, ModuleFresh
  <1>8. LoadFresh'
    BY <1>1 DEF VmInv, LoadFresh
  <1>9. ModuleShared'
    BY <1>1, <1>2 DEF VmInv, ModuleShared, ReloadingAll, Loading
  <1> QED
    BY <1>3, <1>5, <1>6, <1>7, <1>8, <1>9 DEF VmInv

(* A VM changes hands: a call takes it, or makes it, or goes on with it in a *)
(* way that matters to the invariant, or gives it back.                      *)
VmFits(w) ==
    /\ w \in VmRecord
    /\ w.where \in {"new", "pool", "call"} =>
         w.gen \in 1 .. gen /\ w.need.prog <= want.prog /\ w.need.mod <= want.mod
    /\ w.where # "call" => w.stale = 0
    /\ w.where = "call" => w.stale = 0 \/ (w.stale = 1 /\ w.gen < gen)
    /\ w.where \in {"pool", "call"} => closed \/ w.prog = Any \/ w.prog >= w.need.prog
    /\ w.where \in {"pool", "call"} /\ w.mod > 0 =>
         closed \/ w.mod = Any \/ w.mod >= w.need.mod
CallFits(r, v, w) ==
    /\ r \in VmCallRecord
    /\ r.pc \notin {"idle", "get"} => r.vm = v /\ Holds(r.pc, w.where)
    /\ r.pc = "require" =>
         kind = "js" /\ r.req > 0 /\ (r.req = Any \/ (~ReloadingAll /\ want.mod <= r.req))
ModFits(m) ==
    /\ m \in Nat
    /\ m # 0 => kind = "js" /\ (closed \/ want.mod <= m)
    /\ kind = "js" /\ ReloadingAll => m \in {0, Any}

(* A call that takes, uses or gives back a VM it may touch keeps it too.     *)
LEMMA VmMoves ==
    ASSUME VmInv, NEW c \in Callers, NEW r, NEW v \in VMs, NEW w,
           vm[v].where \in {"none", "pool"} \/ (Busy(c) /\ call[c].vm = v),
           VmFits(w), CallFits(r, v, w), ModFits(modprog'),
           vm' = [vm EXCEPT ![v] = w], call' = [call EXCEPT ![c] = r],
           UNCHANGED <<kind, file, programs, gen, closed, want, load, closing>>
    PROVE  VmInv'
  <1>1. VmTyped /\ VmOwned
    BY DEF VmInv
  <1>2. /\ \A x \in VMs : vm'[x] = IF x = v THEN w ELSE vm[x]
        /\ \A d \in Callers : call'[d] = IF d = c THEN r ELSE call[d]
    BY <1>1 DEF VmTyped
  <1>3. VmTyped'
    BY <1>1 DEF VmTyped, VmFits, CallFits, ModFits
  <1>4. \A d \in Callers \ {c} : Busy(d) => call[d].vm # v
    BY <1>1 DEF VmOwned, Busy, Holds
  <1>5. VmOwned'
    <2>1. ASSUME NEW d \in Callers, call'[d].pc \notin {"idle", "get"}
          PROVE  call'[d].vm \in VMs /\ Holds(call'[d].pc, vm'[call'[d].vm].where)
      <3>1. CASE d = c
        BY <1>2, <2>1, <3>1 DEF CallFits
      <3>2. CASE d # c
        BY <1>1, <1>2, <1>4, <2>1, <3>2 DEF VmOwned, Busy
      <3> QED
        BY <3>1, <3>2
    <2>2. ASSUME NEW d \in Callers, NEW e \in Callers,
                 call'[d].pc \notin {"idle", "get"}, call'[e].pc \notin {"idle", "get"},
                 call'[d].vm = call'[e].vm
          PROVE  d = e
      <3>1. ASSUME NEW x \in Callers, call'[x].pc \notin {"idle", "get"}
            PROVE  x = c <=> call'[x].vm = v
        <4>1. CASE x = c
          BY <1>2, <3>1, <4>1 DEF CallFits
        <4>2. CASE x # c
          BY <1>2, <1>4, <3>1, <4>2 DEF Busy
        <4> QED
          BY <4>1, <4>2
      <3>2. d = c <=> e = c
        BY <2>2, <3>1
      <3> QED
        BY <1>1, <1>2, <2>2, <3>2 DEF VmOwned, Busy
    <2>3. \A x \in VMs : vm'[x].where \in {"new", "pool", "call"} =>
            /\ vm'[x].gen \in 1 .. gen
            /\ vm'[x].need.prog <= want.prog /\ vm'[x].need.mod <= want.mod
      BY <1>1, <1>2 DEF VmOwned, VmFits
    <2> QED
      BY <2>1, <2>2, <2>3 DEF VmOwned, Busy
  <1>6. LoadFresh'
    BY DEF VmInv, LoadFresh
  <1>7. ModuleShared'
    <2>1. \A d \in Callers : call'[d].pc = "require" =>
            kind = "js" /\ call'[d].req > 0
              /\ (call'[d].req = Any \/ (~ReloadingAll /\ want.mod <= call'[d].req))
      BY <1>2 DEF VmInv, ModuleShared, CallFits
    <2>2. ReloadingAll' = ReloadingAll
      BY DEF ReloadingAll, Loading
    <2> QED
      BY <2>1, <2>2 DEF ModuleShared, ModFits
  <1>8. VmRetired'
    BY <1>2 DEF VmInv, VmRetired, VmFits
  <1>9. GenFresh' /\ ModuleFresh'
    BY <1>2 DEF VmInv, GenFresh, ModuleFresh, VmFits
  <1> QED
    BY <1>3, <1>5, <1>6, <1>7, <1>8, <1>9 DEF VmInv

(* What the invariant says of a VM, of the module, and of a VM that begins a *)
(* call.                                                                     *)
LEMMA VmFitting ==
    ASSUME VmInv
    PROVE  /\ \A v \in VMs : VmFits(vm[v])
           /\ VmFits(NoVM) /\ NoVM.where = "none"
           /\ ModFits(modprog)
           /\ NoCall \in VmCallRecord /\ NoCall.pc = "idle"
  <1>1. NoWant \in Wanted
    BY DEF NoWant, Wanted
  <1>2. NoVM \in VmRecord /\ NoVM.where = "none" /\ NoVM.stale = 0
    <2> HIDE DEF NoWant, Wanted
    <2> QED
      BY <1>1 DEF NoVM, VmRecord
  <1>3. NoCall \in VmCallRecord /\ NoCall.pc = "idle"
    BY DEF NoCall, VmCallRecord
  <1>4. ModFits(modprog)
    BY DEF VmInv, VmTyped, ModuleShared, ModFits
  <1>5. \A v \in VMs : VmFits(vm[v])
    <2> TAKE v \in VMs
    <2>1. /\ vm[v] \in VmRecord
          /\ vm[v].where \in {"new", "pool", "call"} =>
               /\ vm[v].gen \in 1 .. gen
               /\ vm[v].need.prog <= want.prog /\ vm[v].need.mod <= want.mod
      BY DEF VmInv, VmTyped, VmOwned
    <2>2. /\ vm[v].where # "call" => vm[v].stale = 0
          /\ vm[v].where = "call" => vm[v].stale = 0 \/ (vm[v].stale = 1 /\ vm[v].gen < gen)
      BY DEF VmInv, VmRetired
    <2>3. vm[v].where \in {"pool", "call"} =>
            closed \/ vm[v].prog = Any \/ vm[v].prog >= vm[v].need.prog
      BY DEF VmInv, GenFresh
    <2>4. vm[v].where \in {"pool", "call"} /\ vm[v].mod > 0 =>
            closed \/ vm[v].mod = Any \/ vm[v].mod >= vm[v].need.mod
      BY DEF VmInv, ModuleFresh
    <2> QED
      BY <2>1, <2>2, <2>3, <2>4 DEF VmFits
  <1> QED
    BY <1>2, <1>3, <1>4, <1>5 DEF VmFits

(* A VM that begins a call keeps its generation and its code.                *)
LEMMA UseFields ==
    ASSUME NEW w \in VmRecord
    PROVE  /\ Use(w) \in VmRecord /\ Use(w).where = "call" /\ Use(w).gen = w.gen
           /\ Use(w).need = w.need /\ Use(w).prog = w.prog /\ Use(w).mod = w.mod
           /\ Use(w).stale = IF w.gen = gen THEN w.stale ELSE w.stale + 1
  <1> DEFINE n == IF w.gen = gen THEN w.stale ELSE w.stale + 1
             u == [w EXCEPT !.where = "call", !.uses = @ + 1, !.intr = FALSE, !.stale = n]
  <1>1. Use(w) = u
    BY DEF Use
  <1>2. n \in Nat /\ w.uses + 1 \in Nat
    BY DEF VmRecord
  <1>3. /\ u \in VmRecord /\ u.where = "call" /\ u.gen = w.gen
        /\ u.need = w.need /\ u.prog = w.prog /\ u.mod = w.mod /\ u.stale = n
    <2> HIDE DEF n
    <2> QED
      BY <1>2 DEF VmRecord
  <1> HIDE DEF u
  <1> QED
    BY <1>1, <1>3

(* A call takes a VM from the pool.                                          *)
LEMMA TakeVMStep ==
    ASSUME VmInv, NEW c \in Callers, NEW v \in VMs, TakeVM(c, v)
    PROVE  VmInv'
  <1> DEFINE u == vm[v]
             w == Use(u)
             r == [call[c] EXCEPT !.pc = "lookup", !.vm = v]
  <1>1. /\ vm \in [VMs -> VmRecord] /\ call \in [Callers -> VmCallRecord] /\ gen \in Nat
        /\ VmFits(u) /\ ModFits(modprog)
    BY VmFitting DEF VmInv, VmTyped
  <1>2. u.where = "pool" /\ vm' = [vm EXCEPT ![v] = w] /\ UNCHANGED engineVars
    BY DEF TakeVM
  <1>3. r \in VmCallRecord /\ r.pc = "lookup" /\ r.vm = v
    BY <1>1 DEF VmCallRecord
  <1>4. call' = [call EXCEPT ![c] = r]
    BY <1>1 DEF TakeVM
  <1>5. /\ w \in VmRecord /\ w.where = "call" /\ w.gen = u.gen /\ w.need = u.need
        /\ w.prog = u.prog /\ w.mod = u.mod /\ w.stale = IF u.gen = gen THEN u.stale ELSE u.stale + 1
    BY <1>1, UseFields
  <1> HIDE DEF r, w
  <1>6. VmFits(w)
    <2>1. u.gen \in 1 .. gen /\ u.stale = 0
      BY <1>1, <1>2 DEF VmFits
    <2>2. w.stale = 0 \/ (w.stale = 1 /\ w.gen < gen)
      BY <1>1, <1>5, <2>1
    <2> QED
      BY <1>1, <1>2, <1>5, <2>1, <2>2 DEF VmFits
  <1>7. CallFits(r, v, w)
    BY <1>3, <1>5 DEF CallFits, Holds
  <1> HIDE DEF u
  <1> QED
    BY <1>1, <1>2, <1>4, <1>6, <1>7, VmMoves DEF engineVars, u

(* A call begins to make a VM of the current generation.                     *)
LEMMA CreateVMStep ==
    ASSUME VmInv, NEW c \in Callers, NEW v \in VMs, CreateVM(c, v)
    PROVE  VmInv'
  <1> DEFINE u == vm[v]
             w == [u EXCEPT !.where = "new", !.gen = gen, !.need = want]
             r == [call[c] EXCEPT !.pc = "create", !.vm = v]
  <1>1. /\ vm \in [VMs -> VmRecord] /\ call \in [Callers -> VmCallRecord]
        /\ gen \in Nat /\ gen > 0 /\ want \in Wanted /\ VmFits(u) /\ ModFits(modprog)
    BY VmFitting DEF VmInv, VmTyped
  <1>2. u.where = "none" /\ vm' = [vm EXCEPT ![v] = w] /\ UNCHANGED engineVars
    BY <1>1 DEF CreateVM
  <1>3. r \in VmCallRecord /\ r.pc = "create" /\ r.vm = v
    BY <1>1 DEF VmCallRecord
  <1>4. call' = [call EXCEPT ![c] = r]
    BY <1>1 DEF CreateVM
  <1>5. w \in VmRecord /\ w.where = "new" /\ w.gen = gen /\ w.need = want /\ w.stale = u.stale
    BY <1>1 DEF VmRecord
  <1> HIDE DEF r, w
  <1>6. VmFits(w)
    BY <1>1, <1>2, <1>5 DEF VmFits, Wanted
  <1>7. CallFits(r, v, w)
    BY <1>3, <1>5 DEF CallFits, Holds
  <1> HIDE DEF u
  <1> QED
    BY <1>1, <1>2, <1>4, <1>6, <1>7, VmMoves DEF engineVars, u

(* The programs run in a new VM: they are as new as its generation, which    *)
(* was read before them, and so is the module, or what is read for it.       *)
LEMMA PreloadStep ==
    ASSUME VmInv, NEW c \in Callers, Preload(c)
    PROVE  VmInv'
  <1> DEFINE v == call[c].vm
             u == vm[v]
             m == IF programs > 0 THEN modprog ELSE 0
             x == [u EXCEPT !.prog = programs, !.mod = m]
             w == Use(x)
             n == IF ReloadingAll THEN Any ELSE file
             r1 == [call[c] EXCEPT !.pc = "require", !.req = n]
             r2 == [call[c] EXCEPT !.pc = "lookup"]
  <1>1. /\ vm \in [VMs -> VmRecord] /\ call \in [Callers -> VmCallRecord]
        /\ gen \in Nat /\ programs \in Nat /\ file \in Nat /\ file > 0 /\ modprog \in Nat
        /\ want.prog \in Nat /\ want.mod \in Nat /\ ModFits(modprog)
    BY VmFitting, VersionAssumption DEF VmInv, VmTyped, Wanted
  <1>2. /\ call[c].pc = "create" /\ v \in VMs /\ u.where = "new" /\ Busy(c)
        /\ u \in VmRecord /\ u.gen \in 1 .. gen /\ u.stale = 0
        /\ u.need.prog <= want.prog /\ u.need.mod <= want.mod
    BY <1>1 DEF Preload, VmInv, VmOwned, VmRetired, Busy, Holds
  <1>3. /\ vm' = [vm EXCEPT ![v] = w] /\ UNCHANGED engineVars
        /\ \/ kind = "js" /\ call' = [call EXCEPT ![c] = r1]
           \/ call' = [call EXCEPT ![c] = r2]
    <2>1. vm' = [vm EXCEPT ![v] = w] /\ UNCHANGED engineVars
      BY <1>1, <1>2 DEF Preload
    <2>2. CASE kind = "js" /\ programs > 0 /\ modprog = 0
      BY <1>1, <2>1, <2>2 DEF Preload, AfterPreload
    <2>3. CASE ~(kind = "js" /\ programs > 0 /\ modprog = 0)
      BY <1>1, <2>1, <2>3 DEF Preload, AfterPreload, Goto
    <2> QED
      BY <2>2, <2>3
  <1>4. m \in Nat /\ (m > 0 => m = modprog)
    BY <1>1
  <1>5. /\ x \in VmRecord /\ x.gen = u.gen /\ x.need = u.need /\ x.stale = 0
        /\ x.prog = programs /\ x.mod = m
    <2> HIDE DEF m
    <2> QED
      BY <1>1, <1>2, <1>4 DEF VmRecord
  <1>6. /\ w \in VmRecord /\ w.where = "call" /\ w.gen = u.gen /\ w.need = u.need
        /\ w.prog = programs /\ w.mod = m /\ w.stale = IF u.gen = gen THEN 0 ELSE 1
    <2> HIDE DEF m, x
    <2> QED
      BY <1>5, UseFields
  <1>7. n \in Nat /\ n > 0 /\ (n = Any \/ (~ReloadingAll /\ n = file))
    BY <1>1, AnyAbove
  <1> HIDE DEF n
  <1>8. /\ r1 \in VmCallRecord /\ r1.pc = "require" /\ r1.vm = v /\ r1.req = n
        /\ r2 \in VmCallRecord /\ r2.pc = "lookup" /\ r2.vm = v
    BY <1>1, <1>7 DEF VmCallRecord
  <1> HIDE DEF r1, r2, w, x
  <1>9. u.need.prog \in Nat /\ u.need.mod \in Nat
    BY <1>2 DEF VmRecord, Wanted
  <1>10. VmFits(w)
    <2>1. closed \/ w.prog >= w.need.prog
      BY <1>1, <1>2, <1>6, <1>9 DEF VmInv, LoadFresh
    <2>2. w.mod > 0 => closed \/ w.mod >= w.need.mod
      <3>1. modprog # 0 => closed \/ want.mod <= modprog
        BY DEF VmInv, ModuleShared
      <3> HIDE DEF m
      <3> QED
        BY <1>1, <1>2, <1>4, <1>6, <1>9, <3>1
    <2>3. w.stale = 0 \/ (w.stale = 1 /\ w.gen < gen)
      BY <1>1, <1>2, <1>6
    <2> QED
      BY <1>2, <1>6, <2>1, <2>2, <2>3 DEF VmFits
  <1>11. kind = "js" => CallFits(r1, v, w)
    <2>1. want.mod <= file
      BY <1>1 DEF VmInv, LoadFresh
    <2> QED
      BY <1>6, <1>7, <1>8, <2>1 DEF CallFits, Holds
  <1>12. CallFits(r2, v, w)
    BY <1>6, <1>8 DEF CallFits, Holds
  <1> HIDE DEF u, v, m
  <1> QED
    BY <1>1, <1>2, <1>3, <1>10, <1>11, <1>12, VmMoves DEF engineVars, v

(* The module that a call has read is stored for all VMs, and runs.          *)
LEMMA StoreModuleStep ==
    ASSUME VmInv, NEW c \in Callers, StoreModule(c)
    PROVE  VmInv'
  <1> DEFINE v == call[c].vm
             u == vm[v]
             m == call[c].req
             w == [u EXCEPT !.mod = m]
             r(pc) == [call[c] EXCEPT !.pc = pc, !.req = 0]
  <1>1. /\ vm \in [VMs -> VmRecord] /\ call \in [Callers -> VmCallRecord]
        /\ gen \in Nat /\ call[c] \in VmCallRecord
    BY DEF VmInv, VmTyped
  <1>2. call[c].pc = "require" /\ v \in VMs /\ u.where = "call" /\ Busy(c) /\ u \in VmRecord
    BY <1>1 DEF StoreModule, VmInv, VmOwned, Busy, Holds
  <1>3. VmFits(u)
    BY <1>2, VmFitting
  <1>4. m \in Nat
    BY <1>1 DEF VmCallRecord
  <1>5. /\ modprog' = m /\ vm' = [vm EXCEPT ![v] = w]
        /\ UNCHANGED <<kind, file, programs, gen, closed, want, load, closing>>
    BY <1>1, <1>2 DEF StoreModule
  <1>6. PICK pc \in {"lookup", "endless"} : call' = [call EXCEPT ![c] = r(pc)]
    BY <1>1 DEF StoreModule
  <1>7. r(pc) \in VmCallRecord /\ r(pc).pc = pc /\ r(pc).vm = v
    BY <1>1 DEF VmCallRecord
  <1> DEFINE q == r(pc)
  <1>8. call' = [call EXCEPT ![c] = q] /\ q \in VmCallRecord /\ q.pc = pc /\ q.vm = v
    BY <1>6, <1>7
  <1>9. kind = "js" /\ (m = Any \/ (~ReloadingAll /\ want.mod <= m))
    BY <1>2 DEF VmInv, ModuleShared
  <1> HIDE DEF m
  <1>10. /\ w \in VmRecord /\ w.where = u.where /\ w.gen = u.gen /\ w.need = u.need
         /\ w.prog = u.prog /\ w.stale = u.stale /\ w.mod = m
    BY <1>2, <1>4 DEF VmRecord
  <1> HIDE DEF q, r, w
  <1>11. /\ want.mod \in Nat /\ want.mod <= Any
         /\ u.need.mod \in Nat /\ u.need.mod <= want.mod
    <2>1. want.prog \in Nat /\ want.mod \in Nat /\ MaxVersion \in Nat
      BY VersionAssumption DEF VmInv, VmTyped, Wanted
    <2>2. want.mod <= want.prog /\ want.prog <= file /\ file \in 1 .. MaxVersion
      BY DEF VmInv, LoadFresh, VmTyped
    <2> QED
      BY <1>2, <1>3, <2>1, <2>2, AnyAbove DEF VmFits, VmRecord, Wanted
  <1>12. ModFits(m)
    BY <1>4, <1>9, <1>11 DEF ModFits
  <1>13. VmFits(w)
    <2>1. m = Any \/ m >= u.need.mod
      BY <1>4, <1>9, <1>11
    <2> QED
      BY <1>2, <1>3, <1>10, <2>1 DEF VmFits
  <1>14. CallFits(q, v, w)
    BY <1>2, <1>8, <1>10 DEF CallFits, Holds
  <1> HIDE DEF u, v
  <1> QED
    BY <1>2, <1>5, <1>8, <1>12, <1>13, <1>14, VmMoves DEF v

(* A call that gets no VM, and one that is over: the VM goes back to the     *)
(* pool only when it is of the current generation.                           *)
LEMMA GiveBackStep ==
    ASSUME VmInv, NEW c \in Callers, GetFails(c) \/ EndCall(c)
    PROVE  VmInv'
  <1> DEFINE v == call[c].vm
             u == vm[v]
             w == [u EXCEPT !.where = "pool"]
  <1>1. /\ vm \in [VMs -> VmRecord] /\ call \in [Callers -> VmCallRecord]
        /\ gen \in Nat /\ ModFits(modprog) /\ VmFits(NoVM) /\ NoVM.where = "none"
        /\ NoCall \in VmCallRecord /\ NoCall.pc = "idle"
    BY VmFitting DEF VmInv, VmTyped
  <1>2. call' = [call EXCEPT ![c] = NoCall] /\ UNCHANGED engineVars
    BY DEF GetFails, EndCall
  <1>3. CASE vm' = vm
    <2>1. /\ call' \in [Callers -> VmCallRecord]
          /\ \A d \in Callers : call'[d] = IF d = c THEN NoCall ELSE call[d]
      BY <1>1, <1>2
    <2>2. call[c].pc = "get" \/ call[c].pc \in {"create", "require", "end"}
      BY DEF GetFails, EndCall
    <2>3. CASE call[c].pc = "get"
      BY <1>1, <1>2, <1>3, <2>1, <2>3, VmQuiet
    <2>4. CASE call[c].pc # "get"
      <3>1. Busy(c) /\ v \in VMs /\ u.where \in {"new", "call"}
        BY <2>2, <2>4 DEF Busy, VmInv, VmOwned, Holds
      <3>2. vm'[v].where \in {"none", "pool"}
        <4>1. vm' = [vm EXCEPT ![v] = NoVM] \/ vm' = [vm EXCEPT ![v] = w]
          BY <1>1, <2>4 DEF GetFails, EndCall
        <4>2. w.where = "pool"
          BY <1>1, <3>1 DEF VmRecord
        <4> HIDE DEF w
        <4> QED
          BY <1>1, <3>1, <4>1, <4>2
      <3> QED
        BY <1>3, <3>1, <3>2
    <2> QED
      BY <2>3, <2>4
  <1>4. CASE vm' # vm
    <2>1. call[c].pc \in {"create", "require", "end"}
      BY <1>4 DEF GetFails, EndCall
    <2>2. Busy(c) /\ v \in VMs /\ u \in VmRecord
      BY <1>1, <2>1 DEF Busy, VmInv, VmOwned
    <2>3. CASE vm' = [vm EXCEPT ![v] = NoVM]
      <3>1. CallFits(NoCall, v, NoVM)
        BY <1>1 DEF CallFits
      <3> HIDE DEF u, v
      <3> QED
        BY <1>1, <1>2, <2>2, <2>3, <3>1, VmMoves DEF engineVars, v
    <2>4. CASE EndCall(c) /\ ~Spent(u) /\ vm' = [vm EXCEPT ![v].where = "pool"]
      <3>1. call[c].pc = "end" /\ u.where = "call" /\ VmFits(u)
        BY <2>2, <2>4, VmFitting DEF EndCall, VmInv, VmOwned, Busy, Holds
      <3>2. vm' = [vm EXCEPT ![v] = w]
        BY <1>1, <2>2, <2>4
      <3>3. /\ w \in VmRecord /\ w.where = "pool" /\ w.gen = u.gen /\ w.need = u.need
            /\ w.prog = u.prog /\ w.mod = u.mod /\ w.stale = u.stale
        BY <2>2 DEF VmRecord
      <3> HIDE DEF w
      <3>4. u.gen = gen
        BY <2>4 DEF Spent
      <3>5. VmFits(w)
        BY <1>1, <3>1, <3>3, <3>4 DEF VmFits
      <3>6. CallFits(NoCall, v, w)
        BY <1>1 DEF CallFits
      <3> HIDE DEF u, v
      <3> QED
        BY <1>1, <1>2, <2>2, <3>2, <3>5, <3>6, VmMoves DEF engineVars, v
    <2> QED
      BY <1>4, <2>3, <2>4 DEF GetFails, EndCall
  <1> QED
    BY <1>3, <1>4

(* The invariant of the engines that pool VMs is inductive.                  *)
LEMMA VmStep == ASSUME VmInv, VmNext PROVE VmInv'
  <1>1. ASSUME NEW c \in Callers, \/ CallStep(c) \/ TopLevelHangs(c)
                                  \/ ScriptReturns(c) \/ ScriptPanics(c)
        PROVE  VmInv'
    <2>1. CASE \E v \in VMs : TakeVM(c, v) \/ CreateVM(c, v)
      BY <2>1, TakeVMStep, CreateVMStep
    <2>2. CASE Preload(c) \/ StoreModule(c) \/ GetFails(c) \/ EndCall(c)
      BY <2>2, PreloadStep, StoreModuleStep, GiveBackStep
    <2>3. CASE \/ TopLevelHangs(c) \/ Lookup(c) \/ ClearFired(c) \/ ResetTimer(c)
               \/ ScriptReturns(c) \/ ScriptPanics(c) \/ ScriptInterrupted(c) \/ DeadlineExceeded(c) \/ StopTimer(c)
               \/ AwaitCallback(c) \/ CheckFired(c)
      BY <2>3, QuietSteps
    <2> QED
      BY <1>1, <2>1, <2>2, <2>3 DEF CallStep
  <1>2. CASE (\E c \in Callers : StartCall(c)) \/ (\E v \in VMs : TimerStep(v))
    BY <1>2, TimerSteps
  <1>3. CASE EditScript \/ Close \/ \E l \in Reloaders : ReadScript(l)
    BY <1>3, ReadSteps, CloseStep
  <1>4. CASE \E l \in Reloaders : BeginLoad(l) \/ StorePrograms(l) \/ RaiseGen(l)
    BY <1>4, BeginLoadStep, StoreProgramsStep, RaiseGenStep
  <1> QED
    BY <1>1, <1>2, <1>3, <1>4 DEF VmNext

-----------------------------------------------------------------------------
(* The runtime                                                               *)

RuntimeInv == VmInv /\ StubInv /\ StatsInv

(* Every step is a step of one of the engines, or of none.                   *)
LEMMA OneEngine ==
    [RuntimeNext]_runtimeVars =>
        [VmNext]_vmVars /\ [StubNext]_stubVars /\ [StatsNext]_statVars
  BY DEF RuntimeNext, runtimeVars

(* An engine at rest keeps its invariant.                                    *)
LEMMA VmRests == ASSUME VmInv, UNCHANGED vmVars PROVE VmInv'
  <1>1. UNCHANGED engineVars /\ vm' = vm /\ call' = call
    BY DEF vmVars
  <1>2. vm \in [VMs -> VmRecord] /\ call \in [Callers -> VmCallRecord]
    BY DEF VmInv, VmTyped
  <1> QED
    BY <1>1, <1>2, VmQuiet

(* The same for the engines without a pool.                                  *)
LEMMA StubRests == ASSUME StubInv, UNCHANGED stubVars PROVE StubInv'
  <1> USE DEF stubVars, configVars, sourceVars, closeVars
  <1>1. StubTyped' /\ WriteLocked' /\ ContextsOwned'
    BY DEF StubInv, StubShape, StubTyped, WriteLocked, ContextsOwned
  <1>2. CallsSee' /\ StubsCurrent'
    BY DEF StubInv, StubShape, CallsSee, StubsCurrent, NoSource
  <1>3. ValidCurrent'
    BY DEF StubInv, ValidCurrent
  <1>4. LoadsNewer' /\ CloseClears'
    BY DEF StubInv, LoadsNewer, CloseClears, NoSource
  <1>5. ContextsClean' /\ CallRunsLoadedCode' /\ ReloadKeepsFunctions'
    BY DEF StubInv, ContextsClean, InUse, CleanContext, CallRunsLoadedCode, ReloadKeepsFunctions
  <1> QED
    BY <1>1, <1>2, <1>3, <1>4, <1>5 DEF StubInv, StubShape

(* And for the statistics.                                                   *)
LEMMA StatsRest == ASSUME StatsInv, UNCHANGED statVars PROVE StatsInv'
  BY DEF statVars, StatsInv, StatsTyped, StatsCovered, StatsReached

(* The invariants of the three hold throughout.                              *)
LEMMA RuntimeInductive == RuntimeSpec => []RuntimeInv
  <1>1. RuntimeInit => RuntimeInv
    BY StatsStart, VmStart, StubStart DEF RuntimeInit, RuntimeInv
  <1>2. RuntimeInv /\ [RuntimeNext]_runtimeVars => RuntimeInv'
    <2> SUFFICES ASSUME RuntimeInv, [RuntimeNext]_runtimeVars PROVE RuntimeInv'
      OBVIOUS
    <2>1. [VmNext]_vmVars /\ [StubNext]_stubVars /\ [StatsNext]_statVars
      BY OneEngine
    <2>2. VmInv'
      BY <2>1, VmStep, VmRests DEF RuntimeInv
    <2>3. StubInv'
      BY <2>1, StubStep, StubRests DEF RuntimeInv
    <2>4. StatsInv'
      BY <2>1, StatsStep, StatsRest DEF RuntimeInv
    <2> QED
      BY <2>2, <2>3, <2>4 DEF RuntimeInv
  <1> QED
    BY <1>1, <1>2, PTL DEF RuntimeSpec

(* A reload takes effect in every engine (zjs/engine.go 205-235, 354,        *)
(* 593-642, zlua/engine.go 384, ztengo/engine.go 270-437): however creating  *)
(* a VM, requiring a module or compiling a stub interleaves with loads, a    *)
(* call runs code of its generation or newer, or code in place during it,    *)
(* but for what overlapped the load; and a VM of an older generation begins  *)
(* at most one more call.                                                    *)
THEOREM ReloadsDoTakeEffect == RuntimeSpec => []ReloadsTakeEffect
  <1>1. RuntimeInv => ReloadsTakeEffect
    <2> SUFFICES ASSUME RuntimeInv PROVE ReloadsTakeEffect
      OBVIOUS
    <2>1. GenFresh /\ ModuleFresh
      BY DEF RuntimeInv, VmInv
    <2>2. CallRunsLoadedCode
      BY DEF RuntimeInv, StubInv
    <2>3. RetiredAfterOneCall
      <3> SUFFICES ASSUME NEW v \in VMs PROVE vm[v].stale <= 1
        BY DEF RetiredAfterOneCall
      <3>1. vm[v].stale = 0 \/ vm[v].stale = 1
        BY DEF RuntimeInv, VmInv, VmRetired
      <3> QED
        BY <3>1
    <2> QED
      BY <2>1, <2>2, <2>3 DEF ReloadsTakeEffect
  <1> QED
    BY <1>1, RuntimeInductive, PTL

(* What calls leave behind (zscript/context.go 53-116, zscript/stats.go      *)
(* 124-146): a pooled context refers to nothing of an earlier call, one in   *)
(* use describes its own call, and the extremes of the statistics, which     *)
(* recorders raise and lower without a lock, cover every recorded call.      *)
THEOREM CallRecordsAreExact == RuntimeSpec => []CallRecordsExact
  <1>1. RuntimeInv => CallRecordsExact
    BY StatsInvExact DEF RuntimeInv, StubInv, CallRecordsExact
  <1> QED
    BY <1>1, RuntimeInductive, PTL

(* What is loaded stays (ztengo/engine.go 211-280, zstarlark/engine.go       *)
(* 231-272, 609-617): an older version replaces a newer one only by a load   *)
(* that crossed another one or panicked, or by Close; no reload hides a      *)
(* function; and nothing is left after Close, unless it began inside a       *)
(* load's critical section.                                                  *)
THEOREM LoadsAreKept == RuntimeSpec => LoadsKept
  <1>1. RuntimeInv => ReloadKeepsFunctions /\ ClosedEmpty
    BY StubInvEmpty DEF RuntimeInv, StubInv
  <1> DEFINE Newer == \A p \in Paths : sources'[p] < sources[p] =>
                        \/ off
                        \/ \E l \in Loaders : /\ loader[l].pc \in {"install", "sources"}
                                              /\ loader[l].cross \/ p \in loader[l].panicked
  <1>2. RuntimeInv /\ [RuntimeNext]_runtimeVars => [Newer]_stubVars
    <2> SUFFICES ASSUME RuntimeInv, [RuntimeNext]_runtimeVars, ~UNCHANGED stubVars PROVE Newer
      OBVIOUS
    <2>1. StubNext
      BY OneEngine
    <2> QED
      BY <2>1, StubStepMonotone DEF RuntimeInv
  <1>3. RuntimeSpec => [][Newer]_stubVars
    BY <1>2, RuntimeInductive, PTL DEF RuntimeSpec
  <1> QED
    BY <1>1, <1>3, RuntimeInductive, PTL DEF LoadsKept, LoadsMonotone

=============================================================================
