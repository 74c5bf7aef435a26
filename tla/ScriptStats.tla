---------------------------- MODULE ScriptStats ----------------------------
(* zscript/stats.go: the statistics of a script engine.  Calls and loads     *)
(* record themselves when they end, without a lock.                          *)
EXTENDS Integers, FiniteSets, FiniteSetsExt

CONSTANTS
    Recorders,     \* goroutines that end a call or a load
    Durations,     \* how long it took
    MaxInt64       \* any number above the durations

ASSUME DurationsBelow == MaxInt64 \in Nat /\ \A d \in Durations : d \in 1..MaxInt64 - 1

VARIABLES
    stats,
    rec,           \* where RecordCall is
    recorded       \* history: durations whose RecordCall has returned

statVars == <<stats, rec, recorded>>

(* The minimum starts at the largest integer.                                *)
NewStatsCollector == [calls |-> 0, total |-> 0, errors |-> 0, max |-> 0, min |-> MaxInt64]
NotRecording == [pc |-> "ready", dur |-> 0, old |-> 0]

StatsInit ==
    /\ stats = NewStatsCollector
    /\ rec = [w \in Recorders |-> NotRecording]
    /\ recorded = {}

-----------------------------------------------------------------------------
(* RecordCall: counters, then the loops that raise the maximum and lower the *)
(* minimum with CompareAndSwap.  Every recorder records once.                *)

CountCall(w) ==
    /\ rec[w].pc = "ready"
    /\ \E d \in Durations : rec' = [rec EXCEPT ![w] = [pc |-> "total", dur |-> d, old |-> 0]]
    /\ stats' = [stats EXCEPT !.calls = @ + 1]
    /\ UNCHANGED recorded

AddDuration(w) ==
    /\ rec[w].pc = "total"
    /\ \E failed \in {0, 1} :
         stats' = [stats EXCEPT !.total = @ + rec[w].dur, !.errors = @ + failed]
    /\ rec' = [rec EXCEPT ![w].pc = "max"]
    /\ UNCHANGED recorded

LoadMax(w) ==
    /\ rec[w].pc = "max"
    /\ rec' = [rec EXCEPT ![w].old = stats.max,
                          ![w].pc = IF rec[w].dur <= stats.max THEN "min" ELSE "casmax"]
    /\ UNCHANGED <<stats, recorded>>

(* Mutant of SwapMax: a plain store.                                         *)
SwapMaxStore(w) ==
    /\ rec[w].pc = "casmax"
    /\ stats' = [stats EXCEPT !.max = rec[w].dur]
    /\ rec' = [rec EXCEPT ![w].pc = "min"]
    /\ UNCHANGED recorded
SwapMax(w) ==
    /\ rec[w].pc = "casmax"
    /\ IF stats.max = rec[w].old
       THEN /\ stats' = [stats EXCEPT !.max = rec[w].dur]
            /\ rec' = [rec EXCEPT ![w].pc = "min"]
       ELSE /\ stats' = stats
            /\ rec' = [rec EXCEPT ![w].pc = "max"]
    /\ UNCHANGED recorded

Recorded(w) ==
    /\ rec' = [rec EXCEPT ![w].pc = "done"]
    /\ recorded' = recorded \cup {rec[w].dur}

LoadMin(w) ==
    /\ rec[w].pc = "min"
    /\ \/ rec[w].dur >= stats.min /\ Recorded(w)
       \/ /\ rec[w].dur < stats.min
          /\ rec' = [rec EXCEPT ![w].pc = "casmin", ![w].old = stats.min]
          /\ recorded' = recorded
    /\ UNCHANGED stats

SwapMin(w) ==
    /\ rec[w].pc = "casmin"
    /\ \/ /\ stats.min = rec[w].old
          /\ stats' = [stats EXCEPT !.min = rec[w].dur]
          /\ Recorded(w)
       \/ /\ stats.min # rec[w].old
          /\ rec' = [rec EXCEPT ![w].pc = "min"]
          /\ UNCHANGED <<stats, recorded>>

-----------------------------------------------------------------------------
StatsNext ==
    \/ \E w \in Recorders : \/ CountCall(w) \/ AddDuration(w) \/ LoadMax(w) \/ SwapMax(w)
                            \/ LoadMin(w) \/ SwapMin(w)

-----------------------------------------------------------------------------
StatsTypeOK ==
    /\ stats.calls \in 0..Cardinality(Recorders)
    /\ stats.max \in 0..MaxInt64 /\ stats.min \in 0..MaxInt64
    /\ \A w \in Recorders :
         rec[w].pc \in {"ready", "total", "max", "casmax", "min", "casmin", "done"}

(* The statistics lose no extreme (zscript/stats.go 124-146): the maximum    *)
(* and the minimum cover every call whose recording has ended, and once      *)
(* nobody is recording they are durations of calls.                          *)
StatsExact ==
    /\ \A d \in recorded : stats.min <= d /\ d <= stats.max
    /\ recorded # {} /\ (\A w \in Recorders : rec[w].pc \in {"ready", "done"}) =>
         stats.max = Max(recorded) /\ stats.min = Min(recorded)
=============================================================================
