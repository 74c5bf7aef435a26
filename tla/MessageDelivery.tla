--------------------------- MODULE MessageDelivery --------------------------
(* How a message reaches the actor that is to handle it: the gate's choice   *)
(* of a remote actor, the bus between processes, and the actor's mailbox     *)
(* with the tasks its handlers start.  Each hands the message to the next    *)
(* and looks at nothing else of it (receiveRemote is a sender of the         *)
(* mailbox), so a behaviour follows one of them.                             *)
EXTENDS ActorMailbox, TopicBus, RemoteRoutes

CONSTANT Legs              \* the legs of the way to follow

ASSUME LegsAssumption == Legs \subseteq {"route", "bus", "mailbox"}

VARIABLE leg

deliveryVars == <<leg, vars, busVars, routesVars>>

DeliveryInit ==
    /\ leg \in Legs
    /\ Init /\ BusInit /\ RoutesInit
    /\ leg # "bus" => connecting = "no" /\ asked = CHOOSE n \in Asked : TRUE
    /\ leg # "route" => score = CHOOSE f \in [Keys \ {0} -> hrwScores] : TRUE

Mailbox(A) == leg = "mailbox" /\ A /\ UNCHANGED <<leg, busVars, routesVars>>
Bus(A)     == leg = "bus" /\ A /\ UNCHANGED <<leg, vars, routesVars>>
Route(A)   == leg = "route" /\ A /\ UNCHANGED <<leg, vars, busVars>>

DeliveryNext == Mailbox(Next) \/ Bus(BusNext) \/ Route(RoutesNext)

DeliverySpec == DeliveryInit /\ [][DeliveryNext]_deliveryVars

(* Goroutines that have something to do are scheduled, handlers and work     *)
(* return, an RPC slot that got a reply has a caller that reads it, and      *)
(* nats.Connect returns.  Nothing makes anybody send, close or connect.      *)
DeliveryFairness ==
    /\ WF_deliveryVars(Mailbox(Run)) /\ WF_deliveryVars(Mailbox(TickPush))
    /\ WF_deliveryVars(Mailbox(CloseRelease))
    /\ \A m \in Msgs : /\ WF_deliveryVars(Mailbox(SenderRelease(m)))
                       /\ WF_deliveryVars(Mailbox(SlotRelease(m)))
                       /\ WF_deliveryVars(Mailbox(Worker(m)))
    /\ WF_deliveryVars(Bus(ConnectStep))

FairDeliverySpec == DeliverySpec /\ DeliveryFairness

-----------------------------------------------------------------------------
(* Graceful shutdown (zactor/base.go 458-480): Run ends once it is told    *)
(* to, and whatever was in the mailbox when it was told has been handled   *)
(* by then.                                                                *)
ShutdownDrains == []DrainedOnExit /\ ShutdownEnds

(* The bus (znats/nats.go, zactor/pubsub.go): an open actor hears all its  *)
(* topics and a closed one leaves no subscription, although actors share   *)
(* topics and the client tracks one subscription of each; and one client   *)
(* keeps the order of publications.                                        *)
BusDelivers == OpenSubscribed /\ ClosedUnsubscribed /\ PublishedOrder

(* The strategies (zroute/remote_strategy.go 55-98): rendezvous hashing    *)
(* moves a session only when its actor has gone or the new one has come,   *)
(* and round robin is fair, while the candidates come in any order and     *)
(* change.                                                                 *)
PicksRight == StickyRoute /\ []RoundRobinFair
=============================================================================
