------------------------------ MODULE VmEngine ------------------------------
(* The script engines that pool VMs: JavaScript (zjs/engine.go) and Lua      *)
(* (zlua/engine.go).  Calls take a VM from the pool or create one, run a     *)
(* script function under a time limit, and put the VM back or destroy it;    *)
(* loads and reloads replace the compiled programs and raise the generation, *)
(* which retires older VMs; Close ends it all.  In the JavaScript engine the *)
(* limit is a timer of the VM whose callback runs on a goroutine of its own  *)
(* and takes four atomic steps; in the Lua engine it is a context deadline;  *)
(* an engine whose config.Timeout is 0 has no limit.                         *)
(* One script and one module that it requires at its top level (JavaScript   *)
(* only); their programs are named by the version of the script directory    *)
(* (0: none).  What runs at a top level runs in a new VM, before there is a  *)
(* limit, and need not end.                                                  *)
EXTENDS Integers

CONSTANTS
    Callers, VMs, None,
    Reloaders,     \* goroutines that load and reload (numbers; the free one
                   \* with the least number is used)
    Kinds,         \* the engines to look at
    MaxUses,       \* maxVMUseCount
    MaxVersion,    \* bound: versions of the script file
    TimedVersion,  \* bound: those of them in an engine with a time limit
    MaxLoads,      \* bound: loads
    Callbacks      \* bound: callbacks of one VM's timer that are under way

ASSUME UsesAssumption == MaxUses \in Nat \ {0}
ASSUME VersionAssumption == MaxVersion \in Nat \ {0}
ASSUME LoadsAssumption == MaxLoads \in Nat
ASSUME KindAssumption == Kinds \subseteq {"js", "lua", "tengo", "starlark", "stats", "values"}
ASSUME ReloadersAssumption == Reloaders \subseteq Nat
ASSUME NoneNotVM == None \notin VMs

VARIABLES
    kind, limited, \* the engine; whether its calls have a time limit
    file, gen, closed,
    programs,      \* the script's program; Any: stored by a load that had been
                   \* overtaken by one that read a newer file
    modprog,       \* modulePrograms: the program of the required module; Any:
                   \* stored by a require that overlapped a ReloadAllScripts
    want,          \* history: the programs that the current generation stands
                   \* for, those that the loads that raised it have read
    load,          \* the loads: where, what was read, which function
    loads,         \* the number of loads so far
    closing,       \* where Close is
    vm,            \* the VM wrappers
    call           \* the calls: where, on which VM, outcome, own timer fired

engineVars == <<kind, limited, file, programs, gen, closed, modprog, want, load, loads,
                closing>>
vmVars == <<engineVars, vm, call>>

(* A program of whatever version: what follows when calls overlap.           *)
Any == MaxVersion + 1

NoWant == [prog |-> 0, mod |-> 0]
NoVM == [where |-> "none", gen |-> 0, need |-> NoWant, prog |-> 0, mod |-> 0,
         uses |-> 0, stale |-> 0,
         armed |-> FALSE, fired |-> FALSE, running |-> FALSE, intr |-> FALSE,
         cb |-> [k \in Callbacks |-> "none"]]
NoCall == [pc |-> "idle", vm |-> None, outcome |-> "ok", own |-> FALSE,
           req |-> 0]
NoLoad == [pc |-> "idle", ver |-> 0, how |-> "load"]

VmInit ==
    /\ kind \in Kinds /\ limited \in BOOLEAN
    /\ file = 1 /\ programs = 0 /\ gen = 1 /\ closed = FALSE
    /\ modprog = 0
    /\ want = NoWant
    /\ load = [l \in Reloaders |-> NoLoad] /\ loads = 0
    /\ closing = "no"
    /\ vm = [v \in VMs |-> NoVM]
    /\ call = [c \in Callers |-> NoCall]

-----------------------------------------------------------------------------
(* LoadScript(s) ("load"), ReloadScript ("one") and ReloadAllScripts ("all") *)
(* of the script.  The file is read and compiled before writeMu is taken;    *)
(* calls read programs and gen without it.                                   *)

EditScript ==
    /\ file < MaxVersion /\ (limited => file < TimedVersion)
    /\ file' = file + 1
    /\ UNCHANGED <<kind, limited, programs, gen, closed, modprog, want, load, loads, closing, vm, call>>

Loading(l) == load[l].pc # "idle"
ReloadingAll == \E l \in Reloaders : Loading(l) /\ load[l].how = "all"

(* ReloadAllScripts first drops all modules' programs, without the mutex of  *)
(* require: one that requires another module may put them back.  A reload of *)
(* the script drops a program of its own path only, so not the module's.     *)
DropModules ==
    /\ modprog' \in {0} \cup (IF modprog > 0 THEN {Any} ELSE {})
    /\ call' = [c \in Callers |-> [call[c] EXCEPT !.req = IF @ > 0 THEN Any ELSE 0]]

BeginLoad(l) ==
    /\ ~Loading(l) /\ \A k \in Reloaders : Loading(k) \/ l <= k
    /\ loads < MaxLoads /\ loads' = loads + 1
    /\ \E how \in {"load", "one", "all"} :
         /\ IF how = "all" /\ kind = "js" THEN DropModules ELSE UNCHANGED <<modprog, call>>
         /\ load' = IF how = "all" /\ programs = 0 THEN load
                    ELSE [load EXCEPT ![l] = [NoLoad EXCEPT !.pc = "read", !.how = how]]
    /\ UNCHANGED <<kind, limited, file, programs, gen, closed, want, closing, vm>>

(* The file is read and compiled; either may fail and end the load.          *)
ReadScript(l) ==
    /\ load[l].pc = "read"
    /\ \E r \in {[load[l] EXCEPT !.pc = "store", !.ver = file], NoLoad} :
         load' = [load EXCEPT ![l] = r]
    /\ UNCHANGED <<kind, limited, file, programs, gen, closed, modprog, want, loads, closing, vm, call>>

(* The Lua engine raises the generation on every load.                       *)
Raises(l) == kind = "lua" \/ load[l].how # "load"

(* Under writeMu: the programs are replaced ...                              *)
StorePrograms(l) ==
    /\ load[l].pc = "store" /\ \A k \in Reloaders : load[k].pc # "raise"
    /\ programs' = load[l].ver
    /\ load' = [k \in Reloaders |->
                  IF k = l THEN IF Raises(l) THEN [load[l] EXCEPT !.pc = "raise"] ELSE NoLoad
                  ELSE IF load[k].pc = "store" /\ load[k].ver < load[l].ver /\ load[l].ver # Any
                       THEN [load[k] EXCEPT !.ver = Any]
                       ELSE load[k]]
    /\ UNCHANGED <<kind, limited, file, gen, closed, modprog, want, loads, closing, vm, call>>

(* ... and the generation is raised.  It stands for new modules as well      *)
(* after ReloadAllScripts.                                                   *)
RaiseGen(l) ==
    /\ load[l].pc = "raise"
    /\ gen' = gen + 1
    /\ want' = IF load[l].ver = Any THEN want
               ELSE [prog |-> load[l].ver,
                     mod |-> IF load[l].how = "all" THEN load[l].ver ELSE want.mod]
    /\ load' = [load EXCEPT ![l] = NoLoad]
    /\ UNCHANGED <<kind, limited, file, programs, closed, modprog, loads, closing, vm, call>>

(* Close: the flag, the generation, the programs, the modules' programs.     *)
Close ==
    /\ \/ /\ closing = "no" /\ closing' = "gen"
          /\ closed' = TRUE
          /\ UNCHANGED <<programs, gen, modprog>>
       \/ /\ closing = "gen" /\ closing' = "programs"
          /\ gen' = gen + 1
          /\ UNCHANGED <<programs, closed, modprog>>
       \/ /\ closing = "programs" /\ closing' = "done"
          /\ programs' = 0 /\ modprog' = 0
          /\ UNCHANGED <<gen, closed>>
    /\ UNCHANGED <<kind, limited, file, want, load, loads, vm, call>>

-----------------------------------------------------------------------------
(* Call: getting a VM.                                                       *)

Goto(c, pc) == call' = [call EXCEPT ![c].pc = pc]

StartCall(c) ==
    /\ call[c].pc = "idle" /\ ~closed
    /\ Goto(c, "get")
    /\ UNCHANGED <<engineVars, vm>>

(* useCount.Add(1) and, in the JavaScript engine, ClearInterrupt.            *)
Use(w) == [w EXCEPT !.where = "call", !.uses = @ + 1, !.intr = FALSE,
                    !.stale = IF w.gen = gen THEN @ ELSE @ + 1]

TakeVM(c, v) ==
    /\ call[c].pc = "get" /\ vm[v].where = "pool"
    /\ vm' = [vm EXCEPT ![v] = Use(@)]
    /\ call' = [call EXCEPT ![c].pc = "lookup", ![c].vm = v]
    /\ UNCHANGED engineVars

(* createVM reads the generation before the programs: a reload in between    *)
(* gives the VM newer programs than its generation stands for.               *)
CreateVM(c, v) ==
    /\ call[c].pc = "get" /\ vm[v].where = "none" /\ ~closed
    /\ vm' = [vm EXCEPT ![v].where = "new", ![v].gen = gen, ![v].need = want]
    /\ call' = [call EXCEPT ![c].pc = "create", ![c].vm = v]
    /\ UNCHANGED engineVars

(* safeCreateVM refuses, or the pool gives up after three failed attempts:   *)
(* a program or a required module does not run.                              *)
GetFails(c) ==
    /\ \/ call[c].pc = "get" /\ closed /\ vm' = vm
       \/ /\ call[c].pc \in {"create", "require"}
          /\ vm' = [vm EXCEPT ![call[c].vm] = NoVM]
    /\ call' = [call EXCEPT ![c] = NoCall]
    /\ UNCHANGED engineVars

(* The programs run in the new VM.  In a JavaScript VM the script requires   *)
(* its module: the program that all VMs share, or else the module's file,    *)
(* read and compiled here and stored a moment later for all of them.         *)
AfterPreload(c) ==
    IF kind = "js" /\ programs > 0 /\ modprog = 0
    THEN call' = [call EXCEPT ![c].pc = "require", ![c].req = IF ReloadingAll THEN Any ELSE file]
    ELSE Goto(c, "lookup")

(* Mutant of Preload: the programs are those read before the generation.     *)
PreloadBeforeGen(c) ==
    /\ call[c].pc = "create"
    /\ vm' = [vm EXCEPT ![call[c].vm] = Use([@ EXCEPT !.prog = vm[call[c].vm].need.prog,
                                                  !.gen = gen, !.need = want])]
    /\ AfterPreload(c)
    /\ UNCHANGED engineVars
Preload(c) ==
    /\ call[c].pc = "create"
    /\ vm' = [vm EXCEPT ![call[c].vm] = Use([@ EXCEPT !.prog = programs,
                                        !.mod = IF programs > 0 THEN modprog ELSE 0])]
    /\ AfterPreload(c)
    /\ UNCHANGED engineVars

(* The top level of the script, or of the module it requires, does not end:  *)
(* there is no limit yet, as the timer and the context come later.           *)
TopLevelHangs(c) ==
    /\ call[c].pc = "create" /\ programs > 0
    /\ Goto(c, "endless")
    /\ UNCHANGED <<engineVars, vm>>

(* The module's program is stored, and then its top level runs.              *)
StoreModule(c) ==
    /\ call[c].pc = "require"
    /\ modprog' = call[c].req
    /\ vm' = [vm EXCEPT ![call[c].vm].mod = modprog']
    /\ \E pc \in {"lookup", "endless"} :
         call' = [call EXCEPT ![c].pc = pc, ![c].req = 0]
    /\ UNCHANGED <<kind, limited, file, programs, gen, closed, want, load, loads, closing>>

Lookup(c) ==
    /\ call[c].pc = "lookup"
    /\ \/ /\ vm[call[c].vm].prog > 0
          /\ Goto(c, IF kind = "js" THEN "arm" ELSE "run")
       \/ call' = [call EXCEPT ![c].pc = "end", ![c].outcome = "error"]
    /\ UNCHANGED <<engineVars, vm>>

-----------------------------------------------------------------------------
(* Call: running the function under the limit.  The timer is off here: the   *)
(* former call on this VM stopped it.                                        *)

ClearFired(c) ==
    /\ call[c].pc = "arm"
    /\ vm' = [vm EXCEPT ![call[c].vm].fired = FALSE]
    /\ Goto(c, IF limited THEN "reset" ELSE "run")
    /\ UNCHANGED engineVars

(* Mutant of ResetTimer: the timer is not armed.                             *)
ResetTimerNot(c) ==
    /\ call[c].pc = "reset" /\ ~vm[call[c].vm].running
    /\ Goto(c, "run")
    /\ UNCHANGED <<engineVars, vm>>
ResetTimer(c) ==
    /\ call[c].pc = "reset" /\ ~vm[call[c].vm].running
    /\ vm' = [vm EXCEPT ![call[c].vm].armed = TRUE]
    /\ Goto(c, "run")
    /\ UNCHANGED engineVars

AfterRun == IF kind = "js" THEN "stop" ELSE "end"

ScriptReturns(c) ==
    /\ call[c].pc = "run"
    /\ \E o \in {"ok", "error"} :
         call' = [call EXCEPT ![c].pc = AfterRun, ![c].outcome = o]
    /\ UNCHANGED <<engineVars, vm>>

(* A panic of the host goes straight to the deferred end.                    *)
ScriptPanics(c) ==
    /\ call[c].pc = "run"
    /\ call' = [call EXCEPT ![c].pc = "end", ![c].outcome = "error"]
    /\ UNCHANGED <<engineVars, vm>>

ScriptInterrupted(c) ==
    /\ call[c].pc = "run" /\ vm[call[c].vm].intr
    /\ call' = [call EXCEPT ![c].pc = "stop", ![c].outcome = "interrupted"]
    /\ UNCHANGED <<engineVars, vm>>

(* The Lua VM notices that its context is past its deadline.                 *)
DeadlineExceeded(c) ==
    /\ call[c].pc = "run" /\ kind = "lua" /\ limited
    /\ call' = [call EXCEPT ![c].pc = "end", ![c].outcome = "timeout", ![c].own = TRUE]
    /\ UNCHANGED <<engineVars, vm>>

(* timeoutTimer.Stop() reports whether it stopped an armed timer.            *)
StopTimer(c) ==
    /\ call[c].pc = "stop"
    /\ vm' = [vm EXCEPT ![call[c].vm].armed = FALSE]
    /\ Goto(c, IF vm[call[c].vm].armed THEN "check" ELSE "drain")
    /\ UNCHANGED engineVars

AwaitCallback(c) ==
    /\ call[c].pc = "drain" /\ ~vm[call[c].vm].running
    /\ Goto(c, "check")
    /\ UNCHANGED <<engineVars, vm>>

CheckFired(c) ==
    /\ call[c].pc = "check"
    /\ call' = [call EXCEPT ![c].pc = "end",
                    ![c].outcome = IF vm[call[c].vm].fired THEN "timeout" ELSE @]
    /\ UNCHANGED <<engineVars, vm>>

(* The deferred end of Call: a VM is destroyed after an error, when it is of *)
(* an older generation, used up or too old; otherwise it goes back.          *)
(* Mutant of Spent: the generation is not looked at.                         *)
SpentUsesOnly(w) == w.uses > MaxUses
Spent(w) == w.gen # gen \/ w.uses > MaxUses

EndCall(c) ==
    /\ call[c].pc = "end"
    /\ LET w == vm[call[c].vm] IN
       \/ vm' = [vm EXCEPT ![call[c].vm] = NoVM]
       \/ /\ call[c].outcome = "ok" /\ ~Spent(w)
          /\ vm' = [vm EXCEPT ![call[c].vm].where = "pool"]
    /\ call' = [call EXCEPT ![c] = NoCall]
    /\ UNCHANGED engineVars

-----------------------------------------------------------------------------
(* The timer fires: its callback gets a goroutine, which stores running,     *)
(* fired, interrupts the VM and stores running again.                        *)

FireTimer(v) ==
    /\ vm[v].armed
    /\ \E k \in Callbacks :
         /\ vm[v].cb[k] = "none"
         /\ vm' = [vm EXCEPT ![v].armed = FALSE, ![v].cb[k] = "start"]
    /\ call' = [c \in Callers |-> IF call[c].vm = v THEN [call[c] EXCEPT !.own = TRUE]
                                                    ELSE call[c]]
    /\ UNCHANGED engineVars

Callback(v, k) ==
    /\ \/ /\ vm[v].cb[k] = "start"
          /\ vm' = [vm EXCEPT ![v].cb[k] = "fire", ![v].running = TRUE]
       \/ /\ vm[v].cb[k] = "fire"
          /\ vm' = [vm EXCEPT ![v].cb[k] = "interrupt", ![v].fired = TRUE]
       \/ /\ vm[v].cb[k] = "interrupt"
          /\ vm' = [vm EXCEPT ![v].cb[k] = "end", ![v].intr = TRUE]
       \/ /\ vm[v].cb[k] = "end"
          /\ vm' = [vm EXCEPT ![v].cb[k] = "none", ![v].running = FALSE]
    /\ UNCHANGED <<engineVars, call>>

-----------------------------------------------------------------------------
CallStep(c) ==
    \/ \E v \in VMs : TakeVM(c, v) \/ CreateVM(c, v)
    \/ GetFails(c) \/ Preload(c) \/ Lookup(c) \/ ClearFired(c) \/ ResetTimer(c)
    \/ StoreModule(c)
    \/ ScriptInterrupted(c) \/ DeadlineExceeded(c)
    \/ StopTimer(c) \/ AwaitCallback(c) \/ CheckFired(c) \/ EndCall(c)

TimerStep(v) == FireTimer(v) \/ \E k \in Callbacks : Callback(v, k)

VmNext ==
    \/ EditScript \/ Close
    \/ \E l \in Reloaders : BeginLoad(l) \/ ReadScript(l) \/ StorePrograms(l) \/ RaiseGen(l)
    \/ \E c \in Callers :
         StartCall(c) \/ CallStep(c) \/ TopLevelHangs(c) \/ ScriptReturns(c) \/ ScriptPanics(c)
    \/ \E v \in VMs : TimerStep(v)

(* Goroutines of calls and callbacks are scheduled and timers fire; nothing  *)
(* makes a script return.                                                    *)
VmFairness ==
    /\ \A c \in Callers : WF_vmVars(CallStep(c))
    /\ \A v \in VMs : WF_vmVars(TimerStep(v))

-----------------------------------------------------------------------------
(* Every variable has its type.  A VM serves at most one call more than      *)
(* maxVMUseCount, as the check (zjs/engine.go 359, zlua/engine.go 389) asks  *)
(* for more uses than that.                                                  *)
VmTypeOK ==
    /\ file \in 1..MaxVersion /\ {programs, modprog} \subseteq 0..Any
    /\ gen \in 1..MaxLoads + 2 /\ loads \in 0..MaxLoads
    /\ closed \in BOOLEAN /\ closing \in {"no", "gen", "programs", "done"}
    /\ \A l \in Reloaders : load[l].pc \in {"idle", "read", "store", "raise"}
    /\ \A v \in VMs :
         /\ vm[v].where \in {"none", "new", "pool", "call"}
         /\ vm[v].uses \in 0..MaxUses + 1
         /\ vm[v].cb \in [Callbacks -> {"none", "start", "fire", "interrupt", "end"}]
    /\ \A c \in Callers :
         /\ call[c].pc \in {"idle", "get", "create", "lookup", "arm", "reset", "run",
                            "require", "endless", "stop", "drain", "check", "end"}
         /\ call[c].vm \in VMs \cup {None}
         /\ call[c].outcome \in {"ok", "error", "interrupted", "timeout"}

(* A reload takes effect (zjs/engine.go 205-235, 607-642, zlua/engine.go     *)
(* 286-329): a VM of some generation has the programs that were in place     *)
(* when that generation began, or newer ones, however VM creation and loads  *)
(* interleave; but a load that another one overtakes, between its reading of *)
(* the file and writeMu, brings back what it has read.  Once the engine is   *)
(* closed there are no programs.                                             *)
GenFresh ==
    \A v \in VMs : vm[v].where \in {"pool", "call"} =>
        closed \/ vm[v].prog = Any \/ vm[v].prog >= vm[v].need.prog

(* ReloadAllScripts reaches required modules (zjs/engine.go 479-501,         *)
(* 593-605): a VM of some generation runs a module as new as the scripts     *)
(* that the latest ReloadAllScripts before it has read, unless a require     *)
(* overlapped that reload: what it stores after the programs were dropped is *)
(* kept for all later VMs.                                                   *)
ModuleFresh ==
    \A v \in VMs : vm[v].where \in {"pool", "call"} /\ vm[v].mod > 0 =>
        closed \/ vm[v].mod = Any \/ vm[v].mod >= vm[v].need.mod

(* Old code is retired (zjs/engine.go 354, zlua/engine.go 384): after a      *)
(* reload a VM of an older generation begins at most one more call.          *)
RetiredAfterOneCall == \A v \in VMs : vm[v].stale <= 1

(* The time limit works (zjs/engine.go 405-431): every call ends, although   *)
(* scripts need not return, whatever callbacks of earlier calls on the same  *)
(* VM are still to come; but a call for which a VM is created ends only when *)
(* the top level of the script and of its modules does (zjs/engine.go        *)
(* 219-229, 532, zlua/engine.go 146-158), and in an engine without a limit   *)
(* (zjs/engine.go 406, zlua/engine.go 430) when the script returns.          *)
CallsEnd ==
    \A c \in Callers :
        call[c].pc # "idle" ~> call[c].pc \in {"idle", "endless"} \cup
                                             (IF limited THEN {} ELSE {"run"})

(* A call is interrupted or reported as timed out only when its own time is  *)
(* up (zjs/engine.go 253: Call waits for the callback before it ends, so     *)
(* that it cannot interrupt another call).                                   *)
OwnTimeoutOnly ==
    \A c \in Callers :
        call[c].outcome \in {"interrupted", "timeout"} => call[c].own
=============================================================================
