------------------------------- MODULE Delivery -------------------------------
(***************************************************************************)
(* Subscriber with two history variables for what the clients receive, and    *)
(* the specification of the event bus it implements.                       *)
(*                                                                         *)
(* Only live events count: a retained one is a copy that tells a client    *)
(* the last state of its topic, and is flagged.                            *)
(***************************************************************************)
EXTENDS SubscriberProperties

VARIABLES
    got,    \* the last live event each client has received (0: none)
    count   \* the number of live events it has received

deliveryVars == <<vars, got, count>>

DeliveryInit ==
    /\ Init
    /\ got = [s \in Streams |-> 0]
    /\ count = [s \in Streams |-> 0]

(* Send has handed the oldest event of the channel to the stream.          *)
Receives(s) == SendOk(s) /\ IsLive(Head(chan[s]))

DeliveryNext ==
    /\ Next
    /\ got' = [s \in Streams |-> IF Receives(s) THEN Head(chan[s]).id ELSE got[s]]
    /\ count' = [s \in Streams |-> IF Receives(s) THEN count[s] + 1 ELSE count[s]]

DeliverySpec == DeliveryInit /\ [][DeliveryNext]_deliveryVars

(* events_service.go and subscriber.go:56-63: the broker, its MQTT client  *)
(* and the streams' goroutines implement the event bus - lost connections, *)
(* renewed subscriptions, clients that come and go and full channels cost  *)
(* events, but never reorder or repeat them - as long as no stream asks    *)
(* twice for a type.                                                       *)
Bus == INSTANCE EventBus
DeliversInOrder == Bus!Spec

=============================================================================
