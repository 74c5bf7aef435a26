------------------------------ MODULE RpcCalls -------------------------------
(***************************************************************************)
(* What the pending-RPC pool promises to the callers of CallActor          *)
(* (zactor/sender.go), without slots, versions, channels or a watchdog:    *)
(* every call goes out under an identifier that no call had before, and it *)
(* ends once, with the reply to its own request or without one.  Replies   *)
(* come from outside; nobody else's can end a call.                        *)
(***************************************************************************)
CONSTANTS
    Callers,   \* goroutines that make calls
    Ids        \* what identifies a call

VARIABLES
    open,      \* of a caller: the call it is in, as a set of at most one id
    used,      \* identifiers that were given out
    answer     \* of a caller: the id whose reply it holds, as such a set

callsVars == <<open, used, answer>>

CallsInit ==
    /\ open = [c \in Callers |-> {}]
    /\ used = {}
    /\ answer = [c \in Callers |-> {}]

(* AddSender and the request: an identifier that was not given out yet.    *)
Ask(c) ==
    /\ open[c] = {}
    /\ \E i \in used' \ used :
          /\ used' = used \cup {i}
          /\ open' = [open EXCEPT ![c] = {i}]
    /\ used' \subseteq Ids
    /\ UNCHANGED answer

(* GetReply has the reply to the call.                                     *)
GetReply(c) ==
    /\ open[c] # {} /\ answer[c] = {}
    /\ answer' = [answer EXCEPT ![c] = open[c]]
    /\ UNCHANGED <<open, used>>

(* The call returns, with what it has.                                     *)
End(c) ==
    /\ open[c] # {}
    /\ open' = [open EXCEPT ![c] = {}]
    /\ answer' = [answer EXCEPT ![c] = {}]
    /\ UNCHANGED used

CallsNext == \E c \in Callers : Ask(c) \/ GetReply(c) \/ End(c)

CallsSpec == CallsInit /\ [][CallsNext]_callsVars
=============================================================================
