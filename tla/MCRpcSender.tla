---------------------------- MODULE MCRpcSender ----------------------------
(* Model-checking instances of RpcSender. *)
EXTENDS RpcImplements

CONSTANTS c1, c2, r1

TwoCallers == {c1, c2}
OneReplier == {r1}
=============================================================================
