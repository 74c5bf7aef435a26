--------------------------- MODULE CircuitBreaker ---------------------------
(***************************************************************************)
(* The circuit breaker that protects the RPCs of one actor to one target:  *)
(* zactor/circuitbreaker.go, and the way helper.go uses it (CallActor,     *)
(* getCircuitBreaker).                                                     *)
(*                                                                         *)
(* Callers are the goroutines that run CallActor: the actor's own, and     *)
(* when CallActorAll fans out, the workers of its pool.  They share the    *)
(* circuitBreakers map, a plain Go map, and the atomic fields of the       *)
(* breaker; each atomic access is a step of its own.  A caller that finds  *)
(* no breaker for the target inserts a new one.                            *)
(***************************************************************************)
EXTENDS Integers

CONSTANTS
    Callers,     \* goroutines that call the target
    Threshold,   \* defaultCBThreshold
    Cooldown,    \* defaultCBCooldownMs, in time units
    Known        \* the target was called before: its breaker is in the map

ASSUME CallersAssumption == Callers # {} /\ "known" \notin Callers /\ Known \in BOOLEAN
ASSUME LimitsAssumption == Threshold \in Nat \ {0} /\ Cooldown \in Nat

(* A breaker is named by the caller that inserts it, or "known".           *)
Breakers == Callers \cup {"known"}

VARIABLES
    entry,      \* circuitBreakers[target]: at most one breaker, as a set
    state,      \* of a breaker: "closed", "open" or "half"
    failures,   \* its failures, kept up to Threshold + 1
    age,        \* time since its lastFailMs, at most Cooldown + 1
    pc,         \* where a caller is in CallActor
    cb,         \* the breaker a caller got
    lost,       \* the caller's request will not be answered
    up,         \* the target answers
    streak,     \* history: failures counted since a success, at most Threshold
    overlapped  \* history: two callers recorded their outcomes at once

vars == <<entry, state, failures, age, pc, cb, lost, up, streak, overlapped>>

breakerVars == <<entry, state, failures, age, streak, overlapped>>

AtMost(n, bound) == IF n <= bound THEN n ELSE bound

Init ==
    /\ entry = IF Known THEN {"known"} ELSE {}
    /\ state = [b \in Breakers |-> "closed"]
    /\ failures = [b \in Breakers |-> 0]
    /\ age = [b \in Breakers |-> Cooldown + 1]
    /\ pc = [c \in Callers |-> "idle"]
    /\ cb = [c \in Callers |-> "known"]
    /\ lost = [c \in Callers |-> FALSE]
    /\ up \in BOOLEAN
    /\ streak = [b \in Breakers |-> 0]
    /\ overlapped = FALSE

Goto(c, label) == pc' = [pc EXCEPT ![c] = label]

(* A caller that has begun recordSuccess or recordFailure.                 *)
Recording(c) == pc[c] \in {"close", "count", "open"}

NoteOverlap(c) == overlapped' = (overlapped \/ \E d \in Callers \ {c} : Recording(d))

-----------------------------------------------------------------------------
(* getCircuitBreaker *)

(* cb, ok := a.circuitBreakers[actorId]: the read begins ...               *)
LookUp(c) ==
    /\ pc[c] = "idle"
    /\ Goto(c, "read")
    /\ UNCHANGED <<breakerVars, cb, lost, up>>

(* ... and ends with the breaker ...                                       *)
Found(c) ==
    /\ pc[c] = "read"
    /\ \E b \in entry : cb' = [cb EXCEPT ![c] = b]
    /\ Goto(c, "allow")
    /\ UNCHANGED <<breakerVars, lost, up>>

(* ... or without: write a new one.                                        *)
Missing(c) ==
    /\ pc[c] = "read"
    /\ entry = {}
    /\ Goto(c, "write")
    /\ UNCHANGED <<breakerVars, cb, lost, up>>

(* a.circuitBreakers[actorId] = newCircuitBreaker().                       *)
Insert(c) ==
    /\ pc[c] = "write"
    /\ entry' = {c}
    /\ cb'    = [cb EXCEPT ![c] = c]
    /\ state'    = [state EXCEPT ![c] = "closed"]
    /\ failures' = [failures EXCEPT ![c] = 0]
    /\ age'      = [age EXCEPT ![c] = Cooldown + 1]
    /\ streak'   = [streak EXCEPT ![c] = 0]
    /\ Goto(c, "allow")
    /\ UNCHANGED <<overlapped, lost, up>>

-----------------------------------------------------------------------------
(* allow *)

(* now - lastFailMs > cooldownMs.                                          *)
CooledDown(b) == age[b] > Cooldown

(* Closed or half-open: go ahead.                                          *)
Allow(c) ==
    /\ pc[c] = "allow"
    /\ state[cb[c]] \in {"closed", "half"}
    /\ Goto(c, "send")
    /\ UNCHANGED <<breakerVars, cb, lost, up>>

(* The state was open, the cooldown is over: CompareAndSwap comes next.    *)
Probe(c) ==
    /\ pc[c] = "allow"
    /\ state[cb[c]] = "open"
    /\ CooledDown(cb[c])
    /\ Goto(c, "cas")
    /\ UNCHANGED <<breakerVars, cb, lost, up>>

(* state.CompareAndSwap(cbOpen, cbHalfOpen); the result is not looked at.  *)
HalfOpen(c) ==
    /\ pc[c] = "cas"
    /\ state' = [state EXCEPT ![cb[c]] = IF @ = "open" THEN "half" ELSE @]
    /\ Goto(c, "send")
    /\ UNCHANGED <<entry, failures, age, streak, overlapped, cb, lost, up>>

(* Open and not cooled down: "circuit breaker open".                       *)
FastFail(c) ==
    /\ pc[c] = "allow"
    /\ state[cb[c]] = "open"
    /\ ~CooledDown(cb[c])
    /\ Goto(c, "idle")
    /\ UNCHANGED <<breakerVars, cb, lost, up>>

-----------------------------------------------------------------------------
(* CallActor *)

(* The request is not serialised, or no RPC id is free: nothing recorded.  *)
LocalError(c) ==
    /\ pc[c] = "send"
    /\ Goto(c, "idle")
    /\ UNCHANGED <<breakerVars, cb, lost, up>>

(* SendMsg; the answer comes if the target is up.                          *)
Send(c) ==
    /\ pc[c] = "send"
    /\ lost' = [lost EXCEPT ![c] = ~up]
    /\ Goto(c, "wait")
    /\ UNCHANGED <<breakerVars, cb, up>>

(* GetReply returns a reply: recordSuccess stores failures ...             *)
Reply(c) ==
    /\ pc[c] = "wait"
    /\ ~lost[c]
    /\ failures' = [failures EXCEPT ![cb[c]] = 0]
    /\ streak' = [streak EXCEPT ![cb[c]] = 0]
    /\ Goto(c, "close")
    /\ NoteOverlap(c)
    /\ UNCHANGED <<entry, state, age, cb, lost, up>>

(* Mutant of Close: a probe that succeeds does not close the breaker.      *)
CloseNot(c) ==
    /\ pc[c] = "close"
    /\ Goto(c, "idle")
    /\ UNCHANGED <<breakerVars, cb, lost, up>>

(* ... and the state.                                                      *)
Close(c) ==
    /\ pc[c] = "close"
    /\ state' = [state EXCEPT ![cb[c]] = "closed"]
    /\ Goto(c, "idle")
    /\ UNCHANGED <<entry, failures, age, streak, overlapped, cb, lost, up>>

(* GetReply times out: recordFailure stores lastFailMs ...                 *)
Timeout(c) ==
    /\ pc[c] = "wait"
    /\ lost[c]
    /\ age' = [age EXCEPT ![cb[c]] = 0]
    /\ Goto(c, "count")
    /\ NoteOverlap(c)
    /\ UNCHANGED <<entry, state, failures, streak, cb, lost, up>>

(* Mutant of Count: the threshold is one failure too low.                  *)
CountTooEager(c) ==
    /\ pc[c] = "count"
    /\ failures' = [failures EXCEPT ![cb[c]] = AtMost(@ + 1, Threshold + 1)]
    /\ streak' = [streak EXCEPT ![cb[c]] = AtMost(@ + 1, Threshold)]
    /\ Goto(c, IF failures[cb[c]] + 1 >= Threshold - 1 THEN "open" ELSE "idle")
    /\ UNCHANGED <<entry, state, age, overlapped, cb, lost, up>>

(* Mutant of Count: only the failure that reaches the threshold opens.     *)
CountExactly(c) ==
    /\ pc[c] = "count"
    /\ failures' = [failures EXCEPT ![cb[c]] = AtMost(@ + 1, Threshold + 1)]
    /\ streak' = [streak EXCEPT ![cb[c]] = AtMost(@ + 1, Threshold)]
    /\ Goto(c, IF failures[cb[c]] + 1 = Threshold THEN "open" ELSE "idle")
    /\ UNCHANGED <<entry, state, age, overlapped, cb, lost, up>>

(* ... adds one failure, and decides on the sum ...                        *)
Count(c) ==
    /\ pc[c] = "count"
    /\ failures' = [failures EXCEPT ![cb[c]] = AtMost(@ + 1, Threshold + 1)]
    /\ streak' = [streak EXCEPT ![cb[c]] = AtMost(@ + 1, Threshold)]
    /\ Goto(c, IF failures[cb[c]] + 1 >= Threshold THEN "open" ELSE "idle")
    /\ UNCHANGED <<entry, state, age, overlapped, cb, lost, up>>

(* ... to open the breaker.                                                *)
Open(c) ==
    /\ pc[c] = "open"
    /\ state' = [state EXCEPT ![cb[c]] = "open"]
    /\ Goto(c, "idle")
    /\ UNCHANGED <<entry, failures, age, streak, overlapped, cb, lost, up>>

-----------------------------------------------------------------------------
(* The target comes and goes, and time passes.                             *)
Toggle ==
    /\ up' = ~up
    /\ UNCHANGED <<breakerVars, pc, cb, lost>>

Tick ==
    /\ age' = [b \in Breakers |-> AtMost(age[b] + 1, Cooldown + 1)]
    /\ UNCHANGED <<entry, state, failures, streak, overlapped, pc, cb, lost, up>>

CallStep(c) ==
    \/ LookUp(c) \/ Found(c) \/ Missing(c) \/ Insert(c)
    \/ Allow(c) \/ Probe(c) \/ HalfOpen(c) \/ FastFail(c)
    \/ LocalError(c) \/ Send(c) \/ Reply(c) \/ Close(c)
    \/ Timeout(c) \/ Count(c) \/ Open(c)

Next == Toggle \/ Tick \/ \E c \in Callers : CallStep(c)

Spec == Init /\ [][Next]_vars

-----------------------------------------------------------------------------
(* Properties *)

(* Types; a caller past getCircuitBreaker has a breaker of its own making  *)
(* or one of the map.                                                      *)
TypeOK ==
    /\ entry \in SUBSET Breakers
    /\ state \in [Breakers -> {"closed", "open", "half"}]
    /\ failures \in [Breakers -> 0 .. Threshold + 1]
    /\ age \in [Breakers -> 0 .. Cooldown + 1]
    /\ pc \in [Callers -> {"idle", "read", "write", "allow", "cas", "send", "wait",
                           "close", "count", "open"}]
    /\ cb \in [Callers -> Breakers]
    /\ lost \in [Callers -> BOOLEAN]
    /\ up \in BOOLEAN
    /\ streak \in [Breakers -> 0 .. Threshold]
    /\ overlapped \in BOOLEAN

(* "Open circuit after N continuous failures": when every outcome is       *)
(* recorded, a breaker that is not closed has seen no success among the    *)
(* last Threshold outcomes.  Calls may overlap, but two that record their  *)
(* outcomes at once may leave the breaker open after a success.            *)
OpenEarned ==
    ~overlapped /\ (\A c \in Callers : ~Recording(c)) =>
        \A b \in Breakers : state[b] # "closed" => streak[b] = Threshold

(* A failed probe opens the breaker again: a failure that is recorded in   *)
(* half-open state never leaves it half-open, letting everything through.  *)
(* A success recorded at the same time may take the count away.            *)
ProbeFailureReopens ==
    [][\A c \in Callers :
          /\ pc[c] \in {"count", "open"} /\ pc'[c] = "idle"
          /\ state[cb[c]] = "half"
          => state'[cb[c]] = "open" \/ overlapped]_vars

(* No breaker stays open on a healthy target, whatever races happened      *)
(* while it was failing: once the target stays up, the breaker closes for  *)
(* good.                                                                   *)
BreakerRecovers == <>[]up => <>[](\A b \in entry : state[b] = "closed")
=============================================================================
