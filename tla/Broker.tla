-------------------------------- MODULE Broker --------------------------------
(***************************************************************************)
(* internal/broker/broker.go: the Broker, its two locks, and the           *)
(* goroutines that run its methods.                                        *)
(*                                                                         *)
(* A goroutine is at one of its blocking points between two steps: waiting *)
(* for a lock, for a token of the MQTT client, or for room in a channel.   *)
(*                                                                         *)
(*  connLock   sync.Mutex: held by one of HandleOnConnect, subscribe and   *)
(*             the cleanup goroutine of UnsubscribeAll; Publish takes and  *)
(*             returns it in one step, for nothing it does waits for a     *)
(*             packet.  The holder's progress is in connStep, connUrls.    *)
(*  l          sync.RWMutex: `readers` hold it for reading; `writer` says  *)
(*             that a writer has announced itself.  An announced writer    *)
(*             keeps new readers out and enters when the readers have left *)
(*             - the Go runtime's rule.                                    *)
(***************************************************************************)
EXTENDS MqttLink, ReceiverList, FiniteSets

CONSTANTS
    Streams,     \* the channels given to Subscribe, one per stream
    ChanCap      \* make(chan *eventsv1.Event, 100)

ASSUME BrokerAssumption == ChanCap \in Nat \ {0}

VARIABLES
    conn,          \* b.conn # nil
    connLock,      \* which operation holds b.connLock
    connStep,      \* what the holder does next
    connUrls,      \* the type URLs the holder has to work on
    onConnects,    \* HandleOnConnect goroutines waiting for connLock
    readers,       \* which operations hold b.l for reading
    writer,        \* a writer of b.l has announced itself
    receivers,     \* b.receivers
    topics,        \* b.topics
    retainedMsgs,  \* b.retainedMsgs, by id (0: absent)
    spawned,       \* `go b.subscribe(url)` goroutines not yet in single.Do
    leading,       \* those that run the function given to single.Do
    inFlight,      \* keys of b.single
    cleanups,      \* cleanup goroutines waiting for connLock: their URLs
    msg,           \* the message handleMessage works on (<<>>: none)
    todo,          \* the receivers it has still to send to
    chan,          \* the channels' contents
    closed,        \* the channels that are closed
    panic          \* why the process died

connVars == <<conn, connLock, connStep, connUrls, onConnects>>
lockVars == <<readers, writer>>
mapVars == <<receivers, topics, retainedMsgs>>
goVars == <<spawned, leading, inFlight, cleanups>>
handlerVars == <<msg, todo>>
chanVars == <<chan, closed>>
brokerVars == <<connVars, lockVars, mapVars, goVars, handlerVars, chanVars, panic>>

BrokerTypeOK ==
    /\ conn \in BOOLEAN
    /\ connLock \in {"free", "connect", "subscribe", "cleanup"}
    /\ connStep \in {"idle", "rlock", "request", "wait", "lock", "store"}
    /\ connUrls \in SUBSET TypeUrls
    /\ onConnects \in Nat
    /\ readers \in SUBSET {"connect", "handler"}
    /\ writer \in BOOLEAN
    /\ receivers \in [TypeUrls -> Seq(Streams)]
    /\ topics \in SUBSET TypeUrls
    /\ retainedMsgs \in [TypeUrls -> 0 .. MaxEvents]
    /\ spawned \in [TypeUrls -> Nat]
    /\ leading \in SUBSET TypeUrls
    /\ inFlight \in SUBSET Topics
    /\ cleanups \in [Streams -> SUBSET TypeUrls]
    /\ msg \in {<<>>} \union {<<m>> : m \in Messages}
    /\ todo \in Seq(Streams)
    /\ chan \in [Streams -> Seq(Messages)]
    /\ closed \in SUBSET Streams
    /\ panic \in {"none", "nil conn", "closed channel"}

(* NewMQTTBroker: Connect succeeded, and the goroutine that will run       *)
(* HandleOnConnect has been started; b.conn is still nil.                  *)
BrokerInit ==
    /\ conn = FALSE
    /\ connLock = "free" /\ connStep = "idle" /\ connUrls = {}
    /\ onConnects = 1
    /\ readers = {} /\ writer = FALSE
    /\ receivers = [u \in TypeUrls |-> <<>>]
    /\ topics = {}
    /\ retainedMsgs = [u \in TypeUrls |-> 0]
    /\ spawned = [u \in TypeUrls |-> 0] /\ leading = {} /\ inFlight = {}
    /\ cleanups = [s \in Streams |-> {}]
    /\ msg = <<>> /\ todo = <<>>
    /\ chan = [s \in Streams |-> <<>>] /\ closed = {}
    /\ panic = "none"

-----------------------------------------------------------------------------
(* The locks.                                                              *)

TakeConnLock(by, step, urls) ==
    /\ connLock = "free"
    /\ connLock' = by /\ connStep' = step /\ connUrls' = urls

ReleaseConnLock ==
    connLock' = "free" /\ connStep' = "idle" /\ connUrls' = {}

AnnounceWriter == ~writer /\ writer' = TRUE

(* Slip: a reader passes the writer that has announced itself.             *)
ReadLockPassing(by) == readers' = readers \union {by}

ReadLock(by) == ~writer /\ readers' = readers \union {by}

-----------------------------------------------------------------------------
(* HandleOnConnect, on a goroutine of its own at each connection.          *)

OnConnectLock ==
    /\ onConnects > 0
    /\ onConnects' = onConnects - 1
    /\ TakeConnLock("connect", "rlock", {})
    /\ conn' = TRUE
    /\ UNCHANGED <<linkVars, lockVars, mapVars, goVars, handlerVars, chanVars, panic>>

OnConnectRLock ==
    /\ connLock = "connect" /\ connStep = "rlock"
    /\ ReadLock("connect")
    /\ connStep' = "request" /\ connUrls' = topics
    /\ UNCHANGED <<linkVars, conn, connLock, onConnects, writer, mapVars, goVars,
                   handlerVars, chanVars, panic>>

OnConnectResubscribe ==
    /\ connLock = "connect" /\ connStep = "request"
    /\ \E u \in connUrls :
          /\ LinkSubscribe(Trim[u])
          /\ connUrls' = connUrls \ {u}
    /\ connStep' = "wait"
    /\ UNCHANGED <<conn, connLock, onConnects, lockVars, mapVars, goVars,
                   handlerVars, chanVars, panic>>

OnConnectReply ==
    /\ connLock = "connect" /\ connStep = "wait"
    /\ LinkReturn
    /\ connStep' = "request"
    /\ UNCHANGED <<conn, connLock, connUrls, onConnects, lockVars, mapVars, goVars,
                   handlerVars, chanVars, panic>>

(* Slip: returns at the first topic.                                       *)
OnConnectReturnEarly ==
    /\ connLock = "connect" /\ connStep = "request"
    /\ readers' = readers \ {"connect"}
    /\ ReleaseConnLock
    /\ UNCHANGED <<linkVars, conn, onConnects, writer, mapVars, goVars,
                   handlerVars, chanVars, panic>>

OnConnectReturn ==
    /\ connLock = "connect" /\ connStep = "request" /\ connUrls = {}
    /\ readers' = readers \ {"connect"}
    /\ ReleaseConnLock
    /\ UNCHANGED <<linkVars, conn, onConnects, writer, mapVars, goVars,
                   handlerVars, chanVars, panic>>

HandleOnConnect ==
    \/ OnConnectLock
    \/ OnConnectRLock
    \/ OnConnectResubscribe
    \/ OnConnectReply
    \/ OnConnectReturn

-----------------------------------------------------------------------------
(* The parts of Subscribe and UnsubscribeAll that run under b.l; the       *)
(* caller, in module Subscriber, holds the lock.                           *)

AddReceiver(u, s) ==
    receivers' = [receivers EXCEPT ![u] = Append(@, s)]

SpawnSubscribe(u) ==
    spawned' = IF u \in topics THEN spawned ELSE [spawned EXCEPT ![u] = @ + 1]

TopicCleanup(s) == {u \in TypeUrls : BecomesUnused(receivers[u], s)}

(* Slip: no goroutine is started for the topics marked for cleanup.        *)
RemoveEverywhereSilently(s) ==
    /\ receivers' = [u \in TypeUrls |-> RemoveReceiver(receivers[u], s)]
    /\ topics' = topics \ TopicCleanup(s)
    /\ UNCHANGED <<retainedMsgs, cleanups>>

RemoveEverywhere(s) ==
    /\ receivers' = [u \in TypeUrls |-> RemoveReceiver(receivers[u], s)]
    /\ topics' = topics \ TopicCleanup(s)
    /\ retainedMsgs' = [u \in TypeUrls |-> IF u \in TopicCleanup(s) THEN 0
                                           ELSE retainedMsgs[u]]
    /\ cleanups' = [cleanups EXCEPT ![s] = TopicCleanup(s)]

-----------------------------------------------------------------------------
(* subscribe(typeUrl), the goroutine Subscribe starts.                     *)

(* Slip: the raw URL is the key of single.Do.                              *)
SubscribeDoRaw(u) ==
    /\ spawned[u] > 0
    /\ spawned' = [spawned EXCEPT ![u] = @ - 1]
    /\ leading' = leading \union {u}
    /\ inFlight' = inFlight \union {u}
    /\ UNCHANGED <<linkVars, connVars, lockVars, mapVars, cleanups, handlerVars,
                   chanVars, panic>>

(* single.Do: with a call for the topic under way, the goroutine only      *)
(* waits for that call's result, which it ignores.                         *)
SubscribeDo(u) ==
    /\ spawned[u] > 0
    /\ spawned' = [spawned EXCEPT ![u] = @ - 1]
    /\ IF Trim[u] \in inFlight
       THEN UNCHANGED <<leading, inFlight>>
       ELSE /\ leading' = leading \union {u}
            /\ inFlight' = inFlight \union {Trim[u]}
    /\ UNCHANGED <<linkVars, connVars, lockVars, mapVars, cleanups, handlerVars,
                   chanVars, panic>>

SubscribeConnLock(u) ==
    /\ u \in leading
    /\ leading' = leading \ {u}
    /\ TakeConnLock("subscribe", "request", {u})
    /\ UNCHANGED <<linkVars, conn, onConnects, lockVars, mapVars, spawned, inFlight,
                   cleanups, handlerVars, chanVars, panic>>

(* b.conn.Subscribe dereferences b.conn without a check.                   *)
SubscribeRequest ==
    /\ connLock = "subscribe" /\ connStep = "request"
    /\ \/ /\ conn
          /\ \E u \in connUrls : LinkSubscribe(Trim[u])
          /\ connStep' = "wait"
          /\ UNCHANGED panic
       \/ /\ ~conn
          /\ panic' = "nil conn"
          /\ UNCHANGED <<linkVars, connStep>>
    /\ UNCHANGED <<conn, connLock, connUrls, onConnects, lockVars, mapVars, goVars,
                   handlerVars, chanVars>>

(* Slip: stores the URL in the error branch, err == nil for err != nil.    *)
SubscribeReplySwapped ==
    /\ connLock = "subscribe" /\ connStep = "wait"
    /\ LinkReturn
    /\ \/ /\ reply = "ok"
          /\ ReleaseConnLock
       \/ /\ reply = "error"
          /\ connStep' = "lock"
          /\ UNCHANGED <<connLock, connUrls>>
    /\ UNCHANGED <<conn, onConnects, lockVars, mapVars, goVars, handlerVars,
                   chanVars, panic>>

SubscribeReply ==
    /\ connLock = "subscribe" /\ connStep = "wait"
    /\ LinkReturn
    /\ \/ /\ reply = "error"
          /\ ReleaseConnLock
       \/ /\ reply = "ok"
          /\ connStep' = "lock"
          /\ UNCHANGED <<connLock, connUrls>>
    /\ UNCHANGED <<conn, onConnects, lockVars, mapVars, goVars, handlerVars,
                   chanVars, panic>>

SubscribeLock ==
    /\ connLock = "subscribe" /\ connStep = "lock"
    /\ AnnounceWriter
    /\ connStep' = "store"
    /\ UNCHANGED <<linkVars, conn, connLock, connUrls, onConnects, readers, mapVars,
                   goVars, handlerVars, chanVars, panic>>

(* Slip: a new map for the new URL.                                        *)
SubscribeStoreAlone ==
    /\ connLock = "subscribe" /\ connStep = "store"
    /\ readers = {}
    /\ topics' = connUrls
    /\ writer' = FALSE
    /\ ReleaseConnLock
    /\ UNCHANGED <<linkVars, conn, onConnects, readers, receivers, retainedMsgs,
                   goVars, handlerVars, chanVars, panic>>

SubscribeStore ==
    /\ connLock = "subscribe" /\ connStep = "store"
    /\ readers = {}
    /\ topics' = topics \union connUrls
    /\ writer' = FALSE
    /\ ReleaseConnLock
    /\ UNCHANGED <<linkVars, conn, onConnects, readers, receivers, retainedMsgs,
                   goVars, handlerVars, chanVars, panic>>

(* single.Do removes the key after the function has returned, locks and    *)
(* all.                                                                    *)
SubscribeDone(t) ==
    /\ t \in inFlight
    /\ \A u \in leading : Trim[u] # t
    /\ connLock = "subscribe" => \A u \in connUrls : Trim[u] # t
    /\ inFlight' = inFlight \ {t}
    /\ UNCHANGED <<linkVars, connVars, lockVars, mapVars, spawned, leading, cleanups,
                   handlerVars, chanVars, panic>>

Subscribe ==
    \/ \E u \in TypeUrls : SubscribeDo(u) \/ SubscribeConnLock(u)
    \/ SubscribeRequest
    \/ SubscribeReply
    \/ SubscribeLock
    \/ SubscribeStore
    \/ \E t \in Topics : SubscribeDone(t)

-----------------------------------------------------------------------------
(* The goroutine UnsubscribeAll starts when it marked topics for cleanup.  *)

CleanupConnLock(s) ==
    /\ cleanups[s] # {}
    /\ TakeConnLock("cleanup", "request", cleanups[s])
    /\ cleanups' = [cleanups EXCEPT ![s] = {}]
    /\ UNCHANGED <<linkVars, conn, onConnects, lockVars, mapVars, spawned, leading,
                   inFlight, handlerVars, chanVars, panic>>

CleanupRequest ==
    /\ connLock = "cleanup" /\ connStep = "request"
    /\ \/ /\ conn
          /\ LinkUnsubscribe({Trim[u] : u \in connUrls})
          /\ connStep' = "wait"
          /\ UNCHANGED panic
       \/ /\ ~conn
          /\ panic' = "nil conn"
          /\ UNCHANGED <<linkVars, connStep>>
    /\ UNCHANGED <<conn, connLock, connUrls, onConnects, lockVars, mapVars, goVars,
                   handlerVars, chanVars>>

CleanupReply ==
    /\ connLock = "cleanup" /\ connStep = "wait"
    /\ LinkReturn
    /\ ReleaseConnLock
    /\ UNCHANGED <<conn, onConnects, lockVars, mapVars, goVars, handlerVars,
                   chanVars, panic>>

Cleanup ==
    \/ \E s \in Streams : CleanupConnLock(s)
    \/ CleanupRequest
    \/ CleanupReply

-----------------------------------------------------------------------------
(* handleMessage, on the client's router goroutine.  A message no route    *)
(* matches is dropped.                                                     *)

HandlerTake ==
    /\ msg = <<>>
    /\ LinkTake
    /\ msg' = IF Head(inbox).topic \in routes THEN <<Head(inbox)>> ELSE <<>>
    /\ UNCHANGED <<connVars, lockVars, mapVars, goVars, todo, chanVars, panic>>

HandlerRLock ==
    /\ msg # <<>> /\ "handler" \notin readers
    /\ ReadLock("handler")
    /\ LET m == msg[1]
       IN  /\ retainedMsgs' = IF m.retained THEN [retainedMsgs EXCEPT ![m.topic] = m.id]
                              ELSE retainedMsgs
           /\ todo' = receivers[m.topic]
    /\ UNCHANGED <<linkVars, connVars, writer, receivers, topics, goVars, msg,
                   chanVars, panic>>

(* Slip: after a send the loop goes on with the same receiver.             *)
HandlerSendAgain ==
    /\ todo # <<>> /\ Head(todo) \notin closed
    /\ \/ /\ Len(chan[Head(todo)]) < ChanCap
          /\ chan' = [chan EXCEPT ![Head(todo)] = Append(@, msg[1])]
          /\ UNCHANGED todo
       \/ /\ todo' = Tail(todo)
          /\ UNCHANGED chan
    /\ UNCHANGED <<linkVars, connVars, lockVars, mapVars, goVars, msg, closed, panic>>

(* The select: the send, which panics on a closed channel, or - only when  *)
(* the channel stayed full for five seconds - the timeout.                 *)
HandlerSend ==
    /\ todo # <<>>
    /\ LET s == Head(todo)
       IN  \/ /\ s \in closed
              /\ panic' = "closed channel"
              /\ UNCHANGED <<todo, chan>>
           \/ /\ s \notin closed
              /\ chan' = IF Len(chan[s]) < ChanCap
                         THEN [chan EXCEPT ![s] = Append(@, msg[1])] ELSE chan
              /\ todo' = Tail(todo)
              /\ UNCHANGED panic
    /\ UNCHANGED <<linkVars, connVars, lockVars, mapVars, goVars, msg, closed>>

(* Slip: returns without RUnlock.                                          *)
HandlerReturnLocked ==
    /\ "handler" \in readers /\ todo = <<>>
    /\ msg' = <<>>
    /\ UNCHANGED <<linkVars, connVars, lockVars, mapVars, goVars, todo, chanVars, panic>>

(* Slip: returns at the first receiver.                                    *)
HandlerReturnEarly ==
    /\ "handler" \in readers
    /\ readers' = readers \ {"handler"}
    /\ msg' = <<>> /\ todo' = <<>>
    /\ UNCHANGED <<linkVars, connVars, writer, mapVars, goVars, chanVars, panic>>

HandlerReturn ==
    /\ "handler" \in readers /\ todo = <<>>
    /\ readers' = readers \ {"handler"}
    /\ msg' = <<>>
    /\ UNCHANGED <<linkVars, connVars, writer, mapVars, goVars, todo, chanVars, panic>>

HandleMessage ==
    \/ HandlerTake
    \/ HandlerRLock
    \/ HandlerSend
    \/ HandlerReturn

-----------------------------------------------------------------------------
(* Publish.  Without a connection the QoS 0 token completes and the event  *)
(* is gone, and before HandleOnConnect ran an error is returned: neither   *)
(* changes any state.                                                      *)
Publish(u, retain) ==
    /\ connLock = "free"
    /\ conn
    /\ up
    /\ ServerPublish(Trim[u], retain)
    /\ UNCHANGED brokerVars

(* Another client of the MQTT server publishes.                            *)
ForeignPublish(u, retain) ==
    /\ ServerPublish(Trim[u], retain)
    /\ UNCHANGED brokerVars

(* Slip: the connect handler is not set for reconnects.                    *)
ReconnectSilently ==
    /\ msg = <<>>
    /\ LinkReconnect
    /\ UNCHANGED brokerVars

(* Slip: b.conn is given up with the connection.                           *)
ReconnectAnew ==
    /\ msg = <<>>
    /\ LinkReconnect
    /\ onConnects' = onConnects + 1
    /\ conn' = FALSE
    /\ UNCHANGED <<connLock, connStep, connUrls, lockVars, mapVars, goVars, handlerVars, chanVars,
                   panic>>

(* The connection, seen from the broker: paho starts HandleOnConnect when  *)
(* it is back.                                                             *)
Reconnect ==
    /\ msg = <<>>
    /\ LinkReconnect
    /\ onConnects' = onConnects + 1
    /\ UNCHANGED <<conn, connLock, connStep, connUrls, lockVars, mapVars, goVars,
                   handlerVars, chanVars, panic>>

=============================================================================
