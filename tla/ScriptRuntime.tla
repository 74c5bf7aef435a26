---------------------------- MODULE ScriptRuntime ----------------------------
(* What runs scripts: the engines that pool VMs, the engines without a pool, *)
(* and the statistics that each engine keeps (zscript and the packages under *)
(* it).  A behaviour follows one of them, as they share nothing.             *)
EXTENDS VmEngine, StubEngine, ScriptStats

runtimeVars == <<vmVars, stubVars, statVars>>

RuntimeInit ==
    /\ VmInit /\ StubInit /\ StatsInit
    /\ stubKind = IF kind = "starlark" THEN "starlark" ELSE "tengo"
    /\ kind \in {"tengo", "starlark"} \/ sources = NoSource
    /\ kind \in {"js", "lua"} \/ limited

RuntimeNext ==
    \/ kind \in {"js", "lua"} /\ VmNext /\ UNCHANGED <<stubVars, statVars>>
    \/ kind \in {"tengo", "starlark"} /\ StubNext /\ UNCHANGED <<vmVars, statVars>>
    \/ kind = "stats" /\ StatsNext /\ UNCHANGED <<vmVars, stubVars>>

RuntimeSpec == RuntimeInit /\ [][RuntimeNext]_runtimeVars

-----------------------------------------------------------------------------
(* A reload takes effect in every engine (zjs/engine.go 205-235, 354,      *)
(* 584-642, zlua/engine.go 286-384, ztengo/engine.go 270-437,              *)
(* zstarlark/engine.go 314): VMs have the programs of their generation,    *)
(* and after ReloadAllScripts new modules, and serve one call after a      *)
(* reload at most, except what a load overtaken by another, or a require   *)
(* that overlaps ReloadAllScripts, puts in their place; stubs run code     *)
(* that was in place during the call, except where a compilation           *)
(* overlapped the load.                                                    *)
ReloadsTakeEffect == GenFresh /\ ModuleFresh /\ RetiredAfterOneCall /\ CallRunsLoadedCode

(* What is loaded stays (ztengo/engine.go 211-280, zstarlark/engine.go     *)
(* 231-272, 609-617): no load that overlaps no other brings back an older  *)
(* version or hides a function, and nothing stays after Close.             *)
LoadsKept == LoadsMonotone /\ [](ReloadKeepsFunctions /\ ClosedEmpty)

(* What calls leave behind (zscript/context.go 53-116, zscript/stats.go    *)
(* 124-146): pooled contexts refer to nothing of an earlier call, and the  *)
(* statistics cover every recorded call.                                   *)
CallRecordsExact == ContextsClean /\ StatsExact
==============================================================================
