---------------------------- MODULE ScriptEngines ----------------------------
(* The script engines of a group (zscript/adapter/group_integration.go): one *)
(* of each kind, which share nothing but the pool of contexts, the           *)
(* statistics that each keeps, and the values that cross their borders.  A   *)
(* behaviour follows one of them.                                            *)
EXTENDS ScriptRuntime, ScriptValues

vars == <<runtimeVars, echo>>

Init == RuntimeInit /\ EchoInit

Next ==
    \/ RuntimeNext /\ UNCHANGED echo
    \/ kind = "values" /\ EchoNext /\ UNCHANGED runtimeVars

Spec == Init /\ [][Next]_vars

FairSpec == Spec /\ VmFairness /\ StubFairness

-----------------------------------------------------------------------------
(* Every variable has its type.                                              *)
TypeOK == VmTypeOK /\ StubTypeOK /\ StatsTypeOK

(* Time limits (zjs/engine.go 402-438, zlua/engine.go 430-460,               *)
(* ztengo/engine.go 497-519, zstarlark/engine.go 415-456): where there is a  *)
(* limit every call ends although no script need return, whatever timer      *)
(* callbacks, reloads and Close run at the same time; except that a call     *)
(* which creates a VM ends only if the top level of what it loads does.      *)
EveryCallEnds == CallsEnd /\ StubCallsEnd

(* Values at the border of scripts (zlua/engine.go 224-227, 544-659,       *)
(* ztengo/engine.go 74-81, 629-720, zstarlark/engine.go 73-75, 470-571):   *)
(* identifiers read by scripts are exact, and values survive the way there *)
(* and back exactly where the types allow it.                              *)
ValuesExact == EchoExact /\ ContextIdsExact
=============================================================================
