------------------------------- MODULE MqttLink -------------------------------
(***************************************************************************)
(* The MQTT server and the paho client library, as internal/broker uses    *)
(* them.  Neither is part of the repository: this module states what       *)
(* broker.go and blocking_client.go rely on.                               *)
(*                                                                         *)
(*  - NewMQTTBroker leaves paho's defaults in place: clean session, MQTT   *)
(*    3.1.1, QoS 0, and ordered delivery, in which one router goroutine    *)
(*    runs the message handlers one after the other.                       *)
(*  - Packets reach the client in the order the server sent them.  The     *)
(*    reader of the connection completes tokens itself, but hands a        *)
(*    PUBLISH to the router through a bounded pipeline (InboxSize) and     *)
(*    reads nothing else while that is full.                               *)
(*  - The server sends the stored retained message of a topic, flagged     *)
(*    retained, as the answer to a SUBSCRIBE.  What it forwards to an      *)
(*    existing subscription is never flagged.                              *)
(*  - A lost connection ends the session: subscriptions and packets in     *)
(*    flight are gone, the stored messages are not.  The client            *)
(*    reconnects by itself once the router has drained, and only then      *)
(*    fails the tokens that were waiting for an acknowledgement.           *)
(*                                                                         *)
(* A blockingClient call waits for its token and is made under connLock,   *)
(* so at most one request is outstanding: `reply` is its token.            *)
(***************************************************************************)
EXTENDS Integers, Sequences

CONSTANTS
    TypeUrls,    \* the type URLs clients and publishers name
    Trim,        \* strings.TrimPrefix(url, "type.googleapis.com/")
    InboxSize,   \* PUBLISH packets read but not yet with a handler
    MaxEvents,   \* bound: events published
    MaxDrops     \* bound: connection losses

ASSUME LinkAssumption ==
    /\ Trim \in [TypeUrls -> TypeUrls]
    /\ InboxSize \in Nat \ {0}
    /\ MaxEvents \in Nat
    /\ MaxDrops \in Nat

(* makeTopic puts a constant before the trimmed URL, so a topic is         *)
(* identified with the trimmed URL.                                        *)
Topics == {Trim[u] : u \in TypeUrls}

VARIABLES
    up,          \* is the connection established?
    subs,        \* topics the server has subscriptions of this session for
    routes,      \* topics the client's router has a handler for
    stored,      \* the server's retained message of each topic (0: none)
    wire,        \* packets from the server to the client
    inbox,       \* PUBLISH packets on their way to the router
    reply,       \* the outstanding request's token
    published,   \* number of events the server accepted; the last one's id
    drops        \* number of connection losses

linkVars == <<up, subs, routes, stored, wire, inbox, reply, published, drops>>

EventIds == 1 .. MaxEvents

Message(id, topic, retained) ==
    [kind |-> "publish", id |-> id, topic |-> topic, retained |-> retained]

Messages == [kind : {"publish"}, id : EventIds, topic : TypeUrls, retained : BOOLEAN]

Ack == [kind |-> "ack"]

LinkTypeOK ==
    /\ up \in BOOLEAN
    /\ subs \in SUBSET Topics
    /\ routes \in SUBSET Topics
    /\ stored \in [TypeUrls -> 0 .. MaxEvents]
    /\ wire \in Seq(Messages \union {Ack})
    /\ inbox \in Seq(Messages)
    /\ reply \in {"none", "waiting", "ok", "error"}
    /\ published \in 0 .. MaxEvents
    /\ drops \in 0 .. MaxDrops

LinkInit ==
    /\ up = TRUE
    /\ subs = {}
    /\ routes = {}
    /\ stored = [u \in TypeUrls |-> 0]
    /\ wire = <<>>
    /\ inbox = <<>>
    /\ reply = "none"
    /\ published = 0
    /\ drops = 0

-----------------------------------------------------------------------------
(* Requests of the client.  On a lost connection they fail at once.        *)

StoredMessage(t) ==
    IF stored[t] = 0 THEN <<>> ELSE <<Message(stored[t], t, TRUE)>>

LinkSubscribe(t) ==
    /\ IF up
       THEN /\ subs' = subs \union {t}
            /\ routes' = routes \union {t}
            /\ wire' = wire \o <<Ack>> \o StoredMessage(t)
            /\ reply' = "waiting"
       ELSE /\ reply' = "error"
            /\ UNCHANGED <<subs, routes, wire>>
    /\ UNCHANGED <<up, stored, inbox, published, drops>>

LinkUnsubscribe(ts) ==
    /\ IF up
       THEN /\ subs' = subs \ ts
            /\ routes' = routes \ ts
            /\ wire' = Append(wire, Ack)
            /\ reply' = "waiting"
       ELSE /\ reply' = "error"
            /\ UNCHANGED <<subs, routes, wire>>
    /\ UNCHANGED <<up, stored, inbox, published, drops>>

(* token.Wait returned: the caller has read the token's error.             *)
LinkReturn ==
    /\ reply \in {"ok", "error"}
    /\ reply' = "none"
    /\ UNCHANGED <<up, subs, routes, stored, wire, inbox, published, drops>>

-----------------------------------------------------------------------------
(* The server accepts an event, keeps it if it is to be retained, and      *)
(* forwards it to the session if that subscribed to the topic.             *)
ServerPublish(t, retain) ==
    /\ published < MaxEvents
    /\ published' = published + 1
    /\ stored' = IF retain THEN [stored EXCEPT ![t] = published + 1] ELSE stored
    /\ wire' = IF t \in subs
               THEN Append(wire, Message(published + 1, t, FALSE)) ELSE wire
    /\ UNCHANGED <<up, subs, routes, inbox, reply, drops>>

(* The client's reader takes the next packet off the connection.           *)
ReadPacket ==
    /\ wire # <<>>
    /\ wire' = Tail(wire)
    /\ \/ /\ Head(wire) = Ack
          /\ reply' = "ok"
          /\ UNCHANGED inbox
       \/ /\ Head(wire) # Ack
          /\ Len(inbox) < InboxSize
          /\ inbox' = Append(inbox, Head(wire))
          /\ UNCHANGED reply
    /\ UNCHANGED <<up, subs, routes, stored, published, drops>>

LoseConnection ==
    /\ up
    /\ drops < MaxDrops
    /\ drops' = drops + 1
    /\ up' = FALSE
    /\ subs' = {}
    /\ wire' = <<>>
    /\ UNCHANGED <<routes, stored, inbox, reply, published>>

(* The router is idle (the caller's guard) and its pipeline empty: the     *)
(* waiting token fails and the client is connected again.                  *)
LinkReconnect ==
    /\ ~up
    /\ inbox = <<>>
    /\ up' = TRUE
    /\ reply' = IF reply = "waiting" THEN "error" ELSE reply
    /\ UNCHANGED <<subs, routes, stored, wire, inbox, published, drops>>

(* The router takes the next PUBLISH.                                      *)
LinkTake ==
    /\ inbox # <<>>
    /\ inbox' = Tail(inbox)
    /\ UNCHANGED <<up, subs, routes, stored, wire, reply, published, drops>>

=============================================================================
