------------------------- MODULE SubscriberProperties -------------------------
(***************************************************************************)
(* What the event path of the service promises.  Which of these hold under *)
(* which use of the service is the subject of the runs (README.md).        *)
(***************************************************************************)
EXTENDS Subscriber

-----------------------------------------------------------------------------
(* Channels.                                                               *)

(* subscriber.go:41-43: once UnsubscribeAll has returned the broker cannot *)
(* use the channel again, so closing it is safe: neither handleMessage nor *)
(* Broker.Subscribe ever sends on a closed channel.                        *)
NoSendOnClosed == panic # "closed channel"

(* The events a stream has still to get, from the channel it reads back to *)
(* the connection: what the channel holds, what the handler is about to    *)
(* send, and what the client has not handled yet.                          *)
Pipeline(s) ==
    chan[s] \o (IF \E i \in DOMAIN todo : todo[i] = s THEN msg ELSE <<>>)
            \o inbox
            \o wire

IsLive(m) == m # Ack /\ ~m.retained

Ordered(q) ==
    \A i, j \in DOMAIN q : i < j /\ IsLive(q[i]) /\ IsLive(q[j]) => q[i].id < q[j].id

(* Events that were published while a stream was subscribed reach it in    *)
(* the order the server accepted them and none twice, across handler runs, *)
(* full channels, lost connections and renewed subscriptions, as long as   *)
(* no stream asks twice for a type.                                        *)
EventsInOrder == \A s \in Streams : Ordered(Pipeline(s))

-----------------------------------------------------------------------------
(* The maps of the broker.                                                 *)

(* Between the announcement of a writer of b.l and its Unlock no other     *)
(* goroutine is in such a section.                                         *)
OneWriter ==
    /\ \A s \in Streams :
          recv[s] \in {"locked", "sending"} =>
              /\ writer
              /\ connStep # "store"
              /\ \A t \in Streams :
                    /\ clean[t] # "locked"
                    /\ recv[t] \in {"locked", "sending"} => t = s
    /\ \A s \in Streams :
          clean[s] = "locked" =>
              /\ writer
              /\ connStep # "store"
              /\ \A t \in Streams : clean[t] = "locked" => t = s
    /\ connStep = "store" => writer

(* A stream waiting in `msgs <- msg` holds the lock alone, and the message *)
(* it found is still the one in b.retainedMsgs.                            *)
RetainedAtHand ==
    \A s \in Streams :
        recv[s] = "sending" => readers = {} /\ retainedMsgs[Head(requests[s])] # 0

(* broker.go:28-31 and 214: the maps have one writer at a time.            *)
(* handleMessage writes b.retainedMsgs under the read lock, and that is    *)
(* sound: whoever reads it has the lock to himself, and keeps it until the *)
(* message he found there is sent.                                         *)
MapsGuarded == OneWriter /\ RetainedAtHand

(* broker.go:117 and 171: the goroutines of Subscribe and UnsubscribeAll   *)
(* may come before HandleOnConnect has set b.conn, and then the process    *)
(* dies - but only so early that no stream has got or missed an event.     *)
DiesUnused == panic = "nil conn" => subs = {} /\ topics = {} /\ \A s \in Streams : chan[s] = <<>>

-----------------------------------------------------------------------------
(* Subscriptions.                                                          *)

(* The broker is about to subscribe to URL u at the server.                *)
Subscribing(u) ==
    \/ spawned[u] > 0
    \/ u \in leading
    \/ connLock = "subscribe" /\ u \in connUrls

(* The broker is about to unsubscribe from URL u at the server.            *)
Unsubscribing(u) ==
    \/ \E s \in Streams : u \in cleanups[s]
    \/ connLock = "cleanup" /\ u \in connUrls

(* HandleOnConnect has still to run, or to get to URL u.                   *)
Resubscribing(u) ==
    \/ ~up
    \/ onConnects > 0
    \/ connLock = "connect" /\ (connStep = "rlock" \/ u \in connUrls)

(* No subscription at the server is forgotten: the broker remembers its    *)
(* URL in b.topics, or the operation that is to put it there, or the one   *)
(* that takes the subscription back, is running.                           *)
SubscriptionsTracked ==
    \A t \in subs : \E u \in TypeUrls :
        /\ Trim[u] = t
        /\ \/ u \in topics
           \/ connLock = "subscribe" /\ u \in connUrls
           \/ Unsubscribing(u)

(* broker.go:79, "reconnect to all topics": while no client has left, a    *)
(* URL in b.topics has its subscription at the server whenever no          *)
(* HandleOnConnect is due, whatever the interleaving of a lost connection  *)
(* with a subscribe that is half-way.  (Afterwards: UsedTopicSubscribed.)  *)
Staying == \A s \in Streams : clean[s] = "open"

TopicsSubscribed ==
    Staying => \A u \in topics : Trim[u] \in subs \/ Resubscribing(u)

(* Every URL a stream is registered for is in b.topics or has a subscribe  *)
(* goroutine on the way: one that singleflight turned away relied on       *)
(* another that stores the URL.  (While clients stay and the connection    *)
(* holds: a request that fails with the connection is not repeated.)       *)
ReceiversServed ==
    \A u \in TypeUrls : receivers[u] # <<>> => u \in topics \/ Subscribing(u)

-----------------------------------------------------------------------------
(* Waiting.                                                                *)

(* broker.go:79, "reconnect to all topics": HandleOnConnect gets to the    *)
(* end of the topics.  It holds b.l for reading while it waits for the     *)
(* acknowledgement of each; a writer of b.l may wait for that, the handler *)
(* for the writer, and the client's reader for the handler - but then the  *)
(* acknowledgement must not be behind the packet the reader is stuck with. *)
NoWaitCycle ==
    ~ /\ "connect" \in readers /\ connStep = "wait" /\ reply = "waiting" /\ up
      /\ writer
      /\ msg # <<>> /\ "handler" \notin readers
      /\ Len(inbox) = InboxSize
      /\ wire # <<>> /\ Head(wire) # Ack

-----------------------------------------------------------------------------
(* Liveness, under FairSpec.                                               *)

(* Every URL stream s has asked for is registered for s and subscribed.    *)
Served(s) ==
    /\ recv[s] = "done"
    /\ \A u \in TypeUrls :
          Occurrences(receivers[u], s) # {} => u \in topics /\ Trim[u] \in subs

(* broker.go:104, "start to actually subscribe to the topic": while the    *)
(* clients stay and the connection holds, every stream gets through its    *)
(* Subscribe calls and ends up subscribed for good - the handler, the      *)
(* subscribe goroutines and full channels never hold each other up -       *)
(* unless the process dies.                                                *)
EventuallyServed ==
    [](panic = "none") => \A s \in Streams : <>[]Served(s)

(* subscriber.go:38-46: when its context has ended, a stream is taken off  *)
(* the broker and its channel closed, so that Handle can return.           *)
EventuallyReleased ==
    \A s \in Streams : clean[s] = "ended" ~> clean[s] = "closed" \/ panic # "none"

(* Live event id is on its way to the handler, or in it to stream s.       *)
Due(s, id) ==
    \E m \in {wire[i] : i \in DOMAIN wire} \union {inbox[i] : i \in DOMAIN inbox}
              \union {msg[i] : i \in DOMAIN msg} :
        /\ IsLive(m) /\ m.id = id /\ Occurrences(receivers[m.topic], s) # {}
        /\ "handler" \in readers /\ m = msg[1] => \E i \in DOMAIN todo : todo[i] = s

HasGot(s, id) == \E i \in DOMAIN chan[s] : IsLive(chan[s][i]) /\ chan[s][i].id = id

(* The handler has found the channel full; it will try for five seconds.   *)
NoRoom(s, id) ==
    todo # <<>> /\ Head(todo) = s /\ msg[1].id = id /\ Len(chan[s]) = ChanCap

(* broker.go:191 and 222-233: with QoS 0 an event may get lost with the    *)
(* connection - but one the server has forwarded over a connection that    *)
(* holds reaches the channel of every stream registered for it, unless     *)
(* that channel is full or the stream goes away.                           *)
EventuallyReceived ==
    \A s \in Streams, id \in EventIds :
        Due(s, id) ~> \/ HasGot(s, id) \/ NoRoom(s, id)
                     \/ ~up \/ clean[s] # "open" \/ panic # "none"

(* A connection that was lost is in the end replaced by one with all the   *)
(* subscriptions in b.topics.  (With one topic: see NoWaitCycle.)          *)
EventuallyResubscribed ==
    ~up ~> (up /\ \A u \in topics : Trim[u] \in subs) \/ panic # "none"

-----------------------------------------------------------------------------
(* What the code's comments say and its interleavings do not keep.         *)

(* broker.go:168 and 171, "unsubscribe from unused topics": a URL with     *)
(* receivers that is in b.topics is not unused, so its subscription is     *)
(* left alone.                                                             *)
UsedTopicSubscribed ==
    \A u \in topics :
        receivers[u] # <<>> => Trim[u] \in subs \/ Subscribing(u) \/ Resubscribing(u)

(* No message of topic t is on its way through the client.                 *)
Arrived(t) ==
    \A m \in {Ack} \union {wire[i] : i \in DOMAIN wire}
             \union {inbox[i] : i \in DOMAIN inbox} \union {msg[i] : i \in DOMAIN msg} :
        m # Ack => m.topic # t

(* broker.go:99, "immediately send any retained message for that typeUrl": *)
(* with the topic subscribed and nothing on its way, the message Subscribe *)
(* would send is the one the server retains.                               *)
RetainedCurrent ==
    \A u \in topics :
        Trim[u] = u /\ u \in subs /\ Arrived(u) => retainedMsgs[u] = stored[u]

=============================================================================
