---------------------------- MODULE RpcImplements ----------------------------
(* RpcSender, slot by slot, implements RpcCalls: a call is in the abstract   *)
(* specification from the moment its request is sent until it returns, it is *)
(* identified by the two fields of its rpcId, and the reply a caller holds   *)
(* is identified by the rpcId the reply carries.                             *)
EXTENDS RpcSender

RpcIds == (Nat \ {0}) \X Slots

Calling(c) == cpc[c] \in {"enter", "fast", "wait", "got", "restamp"}

Calls == INSTANCE RpcCalls WITH
    Ids    <- RpcIds,
    open   <- [c \in Callers |-> IF Calling(c) THEN {<<cver[c], cslot[c]>>} ELSE {}],
    used   <- {<<m.ver, m.idx>> : m \in sent},
    answer <- [c \in Callers |-> {<<m.ver, m.idx>> : m \in cgot[c]}]

(* AddSender, SetReply, GetReply and the watchdog (sender.go 125-360),       *)
(* whatever interleaves: no two calls of an actor ever go out under the same *)
(* rpcId, and a call ends with the reply to its own request or with none,    *)
(* and only once.                                                            *)
ImplementsCalls == Calls!CallsSpec
=============================================================================
