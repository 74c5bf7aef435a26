----------------------------- MODULE ActorCalls ------------------------------
(* The calls of actors (zactor/helper.go): CallActor behind its circuit      *)
(* breaker, CallActorAll that fans out over the worker pool, and the replies *)
(* that end them.  A breaker belongs to one target, a fan-out to one actor,  *)
(* and an exchange to two; they meet only in the outcome of a CallActor,     *)
(* which each leaves open, and a behaviour follows one of them.              *)
EXTENDS CircuitBreaker, CallActorAll, RpcReply

CONSTANTS Sides            \* the sides to follow

VARIABLES side

ASSUME SidesAssumption == Sides \subseteq {"breaker", "fanout", "reply"}

callVars == <<side, vars, fanVars, replyVars>>

CallsInit ==
    /\ side \in Sides
    /\ Init /\ FanInit /\ ReplyInit
    /\ side # "breaker" => up

Breaker(A) == side = "breaker" /\ A /\ UNCHANGED <<side, fanVars, replyVars>>
Fanout(A)  == side = "fanout" /\ A /\ UNCHANGED <<side, vars, replyVars>>
Replying(A) == side = "reply" /\ A /\ UNCHANGED <<side, vars, fanVars>>

CallsNext == Breaker(Next) \/ Fanout(FanNext) \/ Replying(ReplyNext)

CallsSpec == CallsInit /\ [][CallsNext]_callVars

(* Goroutines are scheduled, callers go on calling, requests do not fail     *)
(* locally for ever, CallActor returns (GetReply times out), and time        *)
(* passes.  Nothing makes anybody fan out, or close the actor.               *)
CallsFairness ==
    /\ WF_callVars(Breaker(Tick))
    /\ \A c \in Callers : WF_callVars(Breaker(CallStep(c))) /\ SF_callVars(Breaker(Send(c)))
    /\ \A c \in Fanouts : WF_callVars(Fanout(FanoutStep(c)))
    /\ \A t \in Tasks : WF_callVars(Fanout(Finish(t))) /\ WF_callVars(Fanout(SendMsg(t)))
    /\ WF_callVars(Fanout(HandlerSent)) /\ WF_callVars(Fanout(Published))
    /\ WF_callVars(Fanout(Callback)) /\ WF_callVars(Fanout(RunExit))

FairCallsSpec == CallsSpec /\ CallsFairness

-----------------------------------------------------------------------------
(* The half-open state (zactor/circuitbreaker.go 42-75): a failed probe    *)
(* opens the breaker again unless outcomes were recorded at once, and on a *)
(* healthy target it closes for good.                                      *)
HalfOpenResolved == ProbeFailureReopens /\ BreakerRecovers
=============================================================================
