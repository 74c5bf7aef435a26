----------------------------- MODULE StubEngine -----------------------------
(* The script engines without a VM pool: Tengo (ztengo/engine.go), which     *)
(* compiles the joined sources once per function into a cached stub and      *)
(* clones it for a call, and Starlark (zstarlark/engine.go), which executes  *)
(* the files when they are loaded and swaps one index of their functions.    *)
(* Both take a ScriptContext from the pool of zscript for every call.  A     *)
(* source is [path -> version of its file] (0: not loaded); what a version   *)
(* defines is a parameter.                                                   *)
EXTENDS Integers, Sequences, FiniteSets, FiniteSetsExt

CONSTANTS
    Actors,        \* the actors that call, one call each at a time
    Loaders,       \* goroutines that load and reload
                   \* (these and Contexts are numbers; as each of them is like
                   \* the next, the free one with the least number is used)
    Paths,         \* script files, numbers: the engines go by their order
    Functions,
    Contexts,      \* bound: pooled contexts
    Defines,       \* [Paths -> sequence: the functions each version defines]
    Timeouts,      \* values of config.Timeout to look at, in microseconds
    Nobody,
    MaxOps         \* bound: calls and loads in all

ASSUME ContextsSuffice ==
    /\ IsFiniteSet(Actors) /\ IsFiniteSet(Contexts) /\ Contexts \subseteq Nat
    /\ Cardinality(Contexts) >= Cardinality(Actors)
ASSUME NumbersAssumption == Actors \cup Loaders \cup Paths \subseteq Nat
ASSUME NobodyAssumption == Nobody \notin Actors \cup Loaders \cup Contexts

VARIABLES
    stubKind,
    limit,         \* config.Timeout
    disk,          \* the files
    sources,       \* sourceMap, or the index's Modules
    code,          \* sourceCode, or the index's Funcs
    valid,         \* validFunctions (Tengo)
    stubs,         \* the cached stubs (Tengo)
    off,           \* closed
    shut,          \* where Close is
    writeMu,       \* who holds it
    loader,        \* the loads
    sc,            \* the calls
    context,       \* the pooled contexts
    ops,           \* calls and loads so far
    intruded       \* history: Close began while a load held writeMu

sourceVars == <<sources, code, valid, stubs>>
closeVars == <<off, shut, intruded>>
configVars == <<stubKind, limit>>
stubVars == <<configVars, disk, sourceVars, closeVars, writeMu, loader, sc, context, ops>>

NoSource == [p \in Paths |-> 0]
NoStub == [code |-> NoSource, late |-> FALSE]
Idle == [pc |-> "idle", fn |-> Nobody, ctx |-> Nobody, code |-> NoSource,
         outcome |-> "ok", late |-> FALSE, seen |-> {}]
NotLoading == [pc |-> "idle", todo |-> {}, new |-> NoSource, was |-> NoSource,
               cross |-> FALSE, panicked |-> {}]
CleanContext == [owner |-> Nobody, metadata |-> Nobody]

-----------------------------------------------------------------------------
(* What a source holds.                                                      *)

Loaded(s) == {p \in Paths : s[p] > 0}

(* The scan for function definitions over the joined source.                 *)
extractFunctionNames(s) == UNION {Defines[p][s[p]] : p \in Loaded(s)}

(* The joined source and a call of f compile when no two files define the    *)
(* same name and one of them defines f.                                      *)
Compiles(s, f) ==
    /\ \A p, q \in Loaded(s) : p # q => Defines[p][s[p]] \cap Defines[q][s[q]] = {}
    /\ f \in extractFunctionNames(s)

(* The files are indexed in the order of their paths: the last one wins.     *)
Funcs(s) ==
    [f \in extractFunctionNames(s) |-> Max({p \in Loaded(s) : f \in Defines[p][s[p]]})]

-----------------------------------------------------------------------------
(* A new engine, or one that has loaded some files and been called before.   *)
StubInit ==
    /\ stubKind \in {"tengo", "starlark"}
    /\ limit \in Timeouts
    /\ disk = [p \in Paths |-> 1]
    /\ \E ps \in SUBSET Paths : sources = [p \in Paths |-> IF p \in ps THEN disk[p] ELSE 0]
    /\ code = sources
    /\ valid = IF stubKind = "tengo" THEN extractFunctionNames(sources) ELSE {}
    /\ stubs \in [Functions -> {NoStub, [NoStub EXCEPT !.code = sources]}]
    /\ \A f \in Functions : stubs[f] # NoStub => stubKind = "tengo" /\ Compiles(sources, f)
    /\ off = FALSE /\ shut = "no" /\ intruded = FALSE
    /\ writeMu = Nobody
    /\ loader = [l \in Loaders |-> NotLoading]
    /\ sc = [a \in Actors |-> Idle]
    /\ context = [x \in Contexts |-> CleanContext]
    /\ ops = 0

-----------------------------------------------------------------------------
(* What a call may find: the code in place and, during a load, the one being *)
(* put there or the one being replaced.                                      *)
Current ==
    {code} \cup {loader[l].new : l \in {m \in Loaders : loader[m].pc \in {"sources", "code"}}}
           \cup {loader[l].was : l \in {m \in Loaders : loader[m].pc = "purge"}}

(* Every call under way has seen s.                                          *)
Seeing(s) == [a \in Actors |-> IF sc[a].pc = "idle" THEN sc[a]
                               ELSE [sc[a] EXCEPT !.seen = @ \cup {s}]]

-----------------------------------------------------------------------------
(* LoadScripts, ReloadScript, ReloadAllScripts: every file is read and       *)
(* compiled or executed before writeMu is taken; one failure ends the load.  *)

EditFile(p) ==
    /\ disk[p] < Len(Defines[p])
    /\ disk' = [disk EXCEPT ![p] = @ + 1]
    /\ UNCHANGED <<configVars, sourceVars, closeVars, writeMu, loader, sc, context, ops>>

BeginStubLoad(l) ==
    /\ \E m \in Loaders : loader[m].pc = "idle"
    /\ l = Min({m \in Loaders : loader[m].pc = "idle"}) /\ ~off
    /\ ops < MaxOps /\ ops' = ops + 1
    /\ \E ps \in (SUBSET Paths) \ {{}} :
         loader' = [loader EXCEPT ![l] = [NotLoading EXCEPT !.pc = "read", !.todo = ps]]
    /\ UNCHANGED <<configVars, disk, sourceVars, closeVars, writeMu, sc, context>>

EndLoad(l) == loader' = [loader EXCEPT ![l] = NotLoading]

ReadFile(l) ==
    /\ loader[l].pc = "read" /\ loader[l].todo # {}
    /\ LET p == Min(loader[l].todo) IN
       loader' = [loader EXCEPT ![l].todo = @ \ {p}, ![l].new[p] = disk[p]]
    /\ UNCHANGED <<configVars, disk, sourceVars, closeVars, writeMu, sc, context, ops>>

(* A file that cannot be read, does not compile, or takes too long.          *)
ReadFails(l) ==
    /\ loader[l].pc = "read" /\ loader[l].todo # {}
    /\ EndLoad(l)
    /\ UNCHANGED <<configVars, disk, sourceVars, closeVars, writeMu, sc, context, ops>>

(* Starlark: the error that recover makes of a panic is overwritten by the   *)
(* nil that the function literal returns; the module becomes empty.          *)
ExecPanics(l) ==
    /\ loader[l].pc = "read" /\ stubKind = "starlark" /\ loader[l].todo # {}
    /\ LET p == Min(loader[l].todo) IN
       loader' = [loader EXCEPT ![l].todo = @ \ {p}, ![l].panicked = @ \cup {p}]
    /\ UNCHANGED <<configVars, disk, sourceVars, closeVars, writeMu, sc, context, ops>>

(* Mutant of Merged: what was loaded before is forgotten.                    *)
MergedForgetting(l) == loader[l].new
Merged(l) == [p \in Paths |-> IF loader[l].new[p] > 0 \/ p \in loader[l].panicked
                              THEN loader[l].new[p] ELSE sources[p]]

(* writeMu.Lock and the second look at closed.                               *)
(* Mutant: no second look.                                                   *)
MergeSourcesClosed(l) ==
    /\ loader[l].pc = "read" /\ loader[l].todo = {} /\ writeMu = Nobody
    /\ loader' = [loader EXCEPT ![l].pc = "install", ![l].new = Merged(l)]
    /\ writeMu' = l
    /\ UNCHANGED <<configVars, disk, sourceVars, closeVars, sc, context, ops>>
MergeSources(l) ==
    /\ loader[l].pc = "read" /\ loader[l].todo = {} /\ writeMu = Nobody /\ ~off
    /\ loader' = [loader EXCEPT ![l].pc = "install", ![l].new = Merged(l)]
    /\ writeMu' = l
    /\ UNCHANGED <<configVars, disk, sourceVars, closeVars, sc, context, ops>>

LoadRefused(l) ==
    /\ loader[l].pc = "read" /\ loader[l].todo = {} /\ writeMu = Nobody /\ off
    /\ EndLoad(l)
    /\ UNCHANGED <<configVars, disk, sourceVars, closeVars, writeMu, sc, context, ops>>

(* The other loads that read their files before this one took effect.        *)
Crossing(l) == [m \in Loaders |-> IF m # l /\ loader[m].pc = "read"
                                  THEN [loader[m] EXCEPT !.cross = TRUE] ELSE loader[m]]

(* Starlark swaps one index.  Tengo stores the whitelist, the map and the    *)
(* joined source one after the other and then empties the stub cache.        *)
SwapIndex(l) ==
    /\ loader[l].pc = "install" /\ stubKind = "starlark"
    /\ sources' = loader[l].new /\ code' = loader[l].new
    /\ sc' = Seeing(loader[l].new)
    /\ loader' = [Crossing(l) EXCEPT ![l] = NotLoading]
    /\ writeMu' = Nobody
    /\ UNCHANGED <<configVars, disk, valid, stubs, closeVars, context, ops>>

(* Mutant of StoreValid: only the files of this load are scanned.            *)
StoreValidOfLoad(l) ==
    /\ loader[l].pc = "install" /\ stubKind = "tengo"
    /\ valid' = extractFunctionNames([p \in Paths |-> IF loader[l].new[p] = sources[p]
                                                      THEN 0 ELSE loader[l].new[p]])
    /\ sc' = Seeing(loader[l].new)
    /\ loader' = [loader EXCEPT ![l].pc = "sources"]
    /\ UNCHANGED <<configVars, disk, sources, code, stubs, closeVars, writeMu, context, ops>>
StoreValid(l) ==
    /\ loader[l].pc = "install" /\ stubKind = "tengo"
    /\ valid' = extractFunctionNames(loader[l].new)
    /\ sc' = Seeing(loader[l].new)
    /\ loader' = [loader EXCEPT ![l].pc = "sources"]
    /\ UNCHANGED <<configVars, disk, sources, code, stubs, closeVars, writeMu, context, ops>>

StoreSourceMap(l) ==
    /\ loader[l].pc = "sources"
    /\ sources' = loader[l].new
    /\ loader' = [Crossing(l) EXCEPT ![l].pc = "code"]
    /\ UNCHANGED <<configVars, disk, code, valid, stubs, closeVars, writeMu, sc, context, ops>>

StoreSourceCode(l) ==
    /\ loader[l].pc = "code"
    /\ code' = loader[l].new
    /\ loader' = [loader EXCEPT ![l].pc = "purge", ![l].was = code]
    /\ UNCHANGED <<configVars, disk, sources, valid, stubs, closeVars, writeMu, sc, context, ops>>

(* Range and Delete, one stub at a time.  Mutant: the cache is kept.         *)
PurgeNothing(l) ==
    /\ loader[l].pc = "purge"
    /\ EndLoad(l) /\ writeMu' = Nobody
    /\ UNCHANGED <<configVars, disk, sourceVars, closeVars, sc, context, ops>>
PurgeStubs(l) ==
    /\ loader[l].pc = "purge"
    /\ \/ /\ \E f \in Functions : stubs[f] # NoStub /\ stubs' = [stubs EXCEPT ![f] = NoStub]
          /\ UNCHANGED <<loader, writeMu>>
       \/ /\ \A f \in Functions : stubs[f] = NoStub
          /\ EndLoad(l) /\ writeMu' = Nobody /\ stubs' = stubs
    /\ UNCHANGED <<configVars, disk, sources, code, valid, closeVars, sc, context, ops>>

(* Close takes no lock: the flag, then each store by itself.                 *)
CloseStub ==
    /\ \/ /\ shut = "no" /\ shut' = "sources"
          /\ off' = TRUE /\ intruded' = (writeMu # Nobody)
          /\ UNCHANGED <<sourceVars, sc>>
       \/ /\ shut = "sources" /\ shut' = "code" /\ stubKind = "tengo"
          /\ sources' = NoSource
          /\ UNCHANGED <<code, valid, stubs, sc, off, intruded>>
       \/ /\ shut = "sources" /\ shut' = "done" /\ stubKind = "starlark"
          /\ sources' = NoSource /\ code' = NoSource /\ sc' = Seeing(NoSource)
          /\ UNCHANGED <<valid, stubs, off, intruded>>
       \/ /\ shut = "code" /\ shut' = "valid"
          /\ code' = NoSource /\ sc' = Seeing(NoSource)
          /\ UNCHANGED <<sources, valid, stubs, off, intruded>>
       \/ /\ shut = "valid" /\ shut' = "done"
          /\ valid' = {} /\ stubs' = [f \in Functions |-> NoStub]
          /\ UNCHANGED <<sources, code, sc, off, intruded>>
    /\ UNCHANGED <<configVars, disk, writeMu, loader, context, ops>>

-----------------------------------------------------------------------------
(* zscript: the pooled contexts.                                             *)

InUse(x) == \E a \in Actors : sc[a].ctx = x

(* init, WithOwner, and WithMetadata when the call has metadata.             *)
ContextInit(a, meta) == [owner |-> a, metadata |-> IF meta THEN a ELSE Nobody]

(* Mutant of ContextReset: the owner stays referenced.                       *)
ContextResetNotOwner(c) == [c EXCEPT !.metadata = Nobody]
ContextReset(c) == CleanContext

-----------------------------------------------------------------------------
(* Call.                                                                     *)

StartStubCall(a) ==
    /\ \E b \in Actors : sc[b].pc = "idle"
    /\ a = Min({b \in Actors : sc[b].pc = "idle"}) /\ ~off
    /\ ops < MaxOps /\ ops' = ops + 1
    /\ \E f \in Functions, meta \in BOOLEAN :
       LET x == Min({y \in Contexts : ~InUse(y)}) IN
         /\ context' = [context EXCEPT ![x] = ContextInit(a, meta)]
         /\ sc' = [sc EXCEPT ![a] = [Idle EXCEPT !.pc = "find", !.fn = f, !.ctx = x,
                                                 !.seen = Current]]
    /\ UNCHANGED <<configVars, disk, sourceVars, closeVars, writeMu, loader>>

callFrame == <<configVars, disk, sources, code, valid, closeVars, writeMu, loader, context, ops>>

NotFound(a) == sc' = [sc EXCEPT ![a].pc = "return", ![a].outcome = "notfound"]
Running(a, s, late) == sc' = [sc EXCEPT ![a].pc = "run", ![a].code = s, ![a].late = late]

IndexLookup(a) ==
    /\ sc[a].pc = "find" /\ stubKind = "starlark"
    /\ IF sc[a].fn \in DOMAIN Funcs(code) THEN Running(a, code, FALSE) ELSE NotFound(a)
    /\ UNCHANGED <<callFrame, stubs>>

isValidFunctionName(a) ==
    /\ sc[a].pc = "find" /\ stubKind = "tengo"
    /\ IF sc[a].fn \in valid THEN sc' = [sc EXCEPT ![a].pc = "stub"] ELSE NotFound(a)
    /\ UNCHANGED <<callFrame, stubs>>

LoadStub(a) ==
    /\ sc[a].pc = "stub"
    /\ LET s == stubs[sc[a].fn] IN
       IF s.code # NoSource THEN Running(a, s.code, s.late)
       ELSE sc' = [sc EXCEPT ![a].pc = "source"]
    /\ UNCHANGED <<callFrame, stubs>>

ReadSource(a) ==
    /\ sc[a].pc = "source"
    /\ IF code = NoSource THEN NotFound(a)
       ELSE sc' = [sc EXCEPT ![a].pc = "compile", ![a].code = code]
    /\ UNCHANGED <<callFrame, stubs>>

(* A stub that is stored when its source is no longer the one in place is    *)
(* late: if the reload has emptied the cache already, it stays.              *)
CompileStub(a) ==
    /\ sc[a].pc = "compile"
    /\ LET s == sc[a].code IN
       IF Compiles(s, sc[a].fn)
       THEN /\ stubs' = [stubs EXCEPT ![sc[a].fn] = [code |-> s, late |-> s # code]]
            /\ Running(a, s, FALSE)
       ELSE stubs' = stubs /\ NotFound(a)
    /\ UNCHANGED callFrame

(* The number of steps a Starlark thread may take; 0: no limit.              *)
StepLimit(timeout) ==
    IF timeout > 0 THEN Max({(timeout \div 1000) * 10000, 10000})
    ELSE IF timeout < 0 THEN 50000000 ELSE 0

(* Mutant of LimitHolds: a timeout below a millisecond is no limit.          *)
LimitHoldsAboveMilli == IF stubKind = "tengo" THEN limit # 0 ELSE limit \div 1000 > 0
LimitHolds == IF stubKind = "tengo" THEN limit # 0 ELSE StepLimit(limit) > 0

StubReturns(a) ==
    /\ sc[a].pc = "run"
    /\ \E o \in {"ok", "error"} : sc' = [sc EXCEPT ![a].pc = "return", ![a].outcome = o]
    /\ UNCHANGED <<callFrame, stubs>>

(* The limit, or the caller's context, cancels the script.                   *)
TimedOut(a) ==
    /\ sc' = [sc EXCEPT ![a].pc = "return", ![a].outcome = "timeout"]
    /\ UNCHANGED <<callFrame, stubs>>
LimitReached(a) == sc[a].pc = "run" /\ LimitHolds /\ TimedOut(a)
CallerCancels(a) == sc[a].pc = "run" /\ TimedOut(a)

PutContext(a) ==
    /\ sc[a].pc = "return"
    /\ context' = [context EXCEPT ![sc[a].ctx] = ContextReset(@)]
    /\ sc' = [sc EXCEPT ![a] = Idle]
    /\ UNCHANGED <<configVars, disk, sourceVars, closeVars, writeMu, loader, ops>>

-----------------------------------------------------------------------------
StubCallStep(a) ==
    \/ IndexLookup(a) \/ isValidFunctionName(a) \/ LoadStub(a) \/ ReadSource(a) \/ CompileStub(a)
    \/ LimitReached(a) \/ PutContext(a)

StubLoadStep(l) ==
    \/ ReadFile(l) \/ ReadFails(l) \/ ExecPanics(l) \/ MergeSources(l) \/ LoadRefused(l)
    \/ SwapIndex(l) \/ StoreValid(l) \/ StoreSourceMap(l) \/ StoreSourceCode(l) \/ PurgeStubs(l)

StubNext ==
    \/ \E p \in Paths : EditFile(p)
    \/ \E l \in Loaders : BeginStubLoad(l) \/ StubLoadStep(l)
    \/ \E a \in Actors : StartStubCall(a) \/ StubCallStep(a) \/ StubReturns(a) \/ CallerCancels(a)
    \/ CloseStub

(* Goroutines are scheduled and limits are enforced; nothing makes a script  *)
(* return or a caller cancel.  As calls and loads are bounded, it is enough  *)
(* that some goroutine goes on as long as one can.                           *)
StubProgress == (\E a \in Actors : StubCallStep(a)) \/ (\E l \in Loaders : StubLoadStep(l))
StubFairness == WF_stubVars(StubProgress)

-----------------------------------------------------------------------------
StubTypeOK ==
    /\ sources \in [Paths -> Nat] /\ code \in [Paths -> Nat]
    /\ valid \subseteq Functions
    /\ writeMu \in Loaders \cup {Nobody}
    /\ \A a \in Actors :
         /\ sc[a].pc \in {"idle", "find", "stub", "source", "compile", "run", "return"}
         /\ sc[a].ctx \in Contexts \cup {Nobody}
    /\ \A l \in Loaders :
         loader[l].pc \in {"idle", "read", "install", "sources", "code", "purge"}

(* A reload takes effect (ztengo/engine.go 270-280, 393-437, zstarlark 314): *)
(* the code that a call runs was in place at some moment since the call      *)
(* began, however loads and calls interleave; except through a stub whose    *)
(* compilation began before a load and ended after it, which is cached until *)
(* the next load.                                                            *)
CallRunsLoadedCode ==
    \A a \in Actors : sc[a].pc = "run" => sc[a].code \in sc[a].seen \/ sc[a].late

(* A reload keeps functions available (ztengo/engine.go 271-274): a call of  *)
(* a function that all sources in place during the call define is never      *)
(* answered with "not found".                                                *)
ReloadKeepsFunctions ==
    \A a \in Actors : sc[a].pc = "return" /\ sc[a].outcome = "notfound" =>
        off \/ \E s \in sc[a].seen : ~Compiles(s, sc[a].fn)

(* A file's newer version is replaced by an older one, or by nothing, only   *)
(* by a load that read its files before another one took effect, by one      *)
(* whose script panicked, or by Close (files are read outside writeMu,       *)
(* ztengo/engine.go 211-235, zstarlark/engine.go 231-269).                   *)
LoadsMonotone ==
    [][\A p \in Paths : sources'[p] < sources[p] =>
         \/ off
         \/ \E l \in Loaders : /\ loader[l].pc \in {"install", "sources"}
                               /\ loader[l].cross \/ p \in loader[l].panicked]_stubVars

(* Nothing stays loaded after Close (zstarlark/engine.go 272, 609-617), when *)
(* no load is under way any more, unless Close began inside a load's         *)
(* critical section: the second look at closed does not exclude that.        *)
ClosedEmpty ==
    shut = "done" /\ (\A l \in Loaders : loader[l].pc = "idle") =>
        intruded \/ (sources = NoSource /\ code = NoSource)

(* Contexts are not mixed up (zscript/context.go 53-116): a context in the   *)
(* pool refers to nothing, and one in use describes the call that took it,   *)
(* and no earlier one.                                                       *)
ContextsClean ==
    /\ \A x \in Contexts : ~InUse(x) => context[x] = CleanContext
    /\ \A a \in Actors : sc[a].pc # "idle" =>
         /\ context[sc[a].ctx].owner = a
         /\ context[sc[a].ctx].metadata \in {a, Nobody}

(* Calls end, although scripts need not return, when a limit is configured   *)
(* (ztengo/engine.go 507-523, zstarlark/engine.go 415-427), of whatever      *)
(* size; and loads end: the engine comes to rest.                            *)
AtRest == (\A a \in Actors : sc[a].pc = "idle") /\ (\A l \in Loaders : loader[l].pc = "idle")
StubCallsEnd == limit # 0 ~> AtRest
=============================================================================
