--------------------------- MODULE SubscriberProofs ---------------------------
(***************************************************************************)
(* What holds of Subscriber for all streams, requests, channel sizes,      *)
(* numbers of events and lost connections.                                 *)
(***************************************************************************)
EXTENDS SubscriberProperties, ReceiverListProofs, SequenceTheorems

-----------------------------------------------------------------------------
(* The inductive invariant, part by part.                                  *)

(* A stream inside Broker.Subscribe works on a request.                    *)
RequestAtHand ==
    \A s \in Streams : recv[s] \in {"locked", "sending"} => requests[s] # <<>>

(* The handler's loop runs under the read lock, on a message.              *)
HandlerReads ==
    /\ todo # <<>> => "handler" \in readers
    /\ "handler" \in readers => msg # <<>>

(* The steps of the operations that hold b.connLock, the token they wait   *)
(* for, and the read lock of HandleOnConnect, under which b.topics stays.  *)
ConnSteps ==
    /\ connLock = "free" => connStep = "idle"
    /\ connLock = "connect" => connStep \in {"rlock", "request", "wait"}
    /\ connLock = "subscribe" => connStep \in {"request", "wait", "lock", "store"}
    /\ connLock = "cleanup" => connStep \in {"request", "wait"}
    /\ reply # "none" <=> connStep = "wait"
    /\ "connect" \in readers <=> connLock = "connect" /\ connStep # "rlock"
    /\ "connect" \in readers => connUrls \subseteq topics

(* At most one acknowledgement is on its way, and its request waits.       *)
AckAwaited ==
    \A i \in DOMAIN wire :
        wire[i] = Ack =>
            /\ reply = "waiting"
            /\ \A j \in DOMAIN wire : wire[j] = Ack => j = i

(* A request that failed, failed with the session, and without a session   *)
(* nothing is on its way.                                                  *)
NoSession ==
    /\ ~up \/ reply = "error" => subs = {}
    /\ ~up => wire = <<>>

(* While the cleanup waits for its token its topics are not subscribed.    *)
CleanupGone ==
    connLock = "cleanup" /\ connStep = "wait" => \A u \in connUrls : Trim[u] \notin subs

(* A stream leaves one cleanup behind.                                     *)
CleanupOnce ==
    \A s \in Streams : clean[s] \in {"open", "ended", "locked"} => cleanups[s] = {}

TypeInv == TypeOK /\ RequestAtHand /\ HandlerReads /\ OneWriter /\ RetainedAtHand

TrackInv ==
    /\ TypeInv
    /\ ConnSteps /\ AckAwaited /\ NoSession /\ CleanupGone /\ CleanupOnce
    /\ SubscriptionsTracked

-----------------------------------------------------------------------------
(* The link keeps its types, whoever uses it.                              *)

LEMMA SingletonSeq ==
    ASSUME NEW S, NEW x \in S
    PROVE  <<x>> \in Seq(S)
OBVIOUS

LEMMA MessageType ==
    ASSUME NEW id \in EventIds, NEW t \in TypeUrls, NEW r \in BOOLEAN
    PROVE  Message(id, t, r) \in Messages /\ Message(id, t, r) # Ack
BY DEF Message, Messages, Ack

LEMMA MessageNotAck == \A m \in Messages : m # Ack
BY DEF Messages, Ack

LEMMA TopicsAreUrls == \A u \in TypeUrls : Trim[u] \in Topics /\ Trim[u] \in TypeUrls
BY LinkAssumption DEF Topics

LEMMA StoredMessageType ==
    ASSUME LinkTypeOK, NEW t \in Topics
    PROVE  /\ StoredMessage(t) \in Seq(Messages \union {Ack})
           /\ Len(StoredMessage(t)) \in Nat
           /\ \A i \in 1 .. Len(StoredMessage(t)) : StoredMessage(t)[i] # Ack
<1>1. CASE stored[t] = 0
  BY <1>1, EmptySeq DEF StoredMessage
<1>2. CASE stored[t] # 0
  <2> DEFINE m == Message(stored[t], t, TRUE)
  <2>1. t \in TypeUrls
    BY LinkAssumption DEF Topics
  <2>2. stored[t] \in EventIds
    BY <1>2, <2>1, LinkAssumption DEF LinkTypeOK, EventIds
  <2>3. m \in Messages /\ m # Ack
    BY <2>1, <2>2, MessageType
  <2>4. StoredMessage(t) = <<m>>
    BY <1>2 DEF StoredMessage
  <2> HIDE DEF m
  <2>5. QED BY <2>3, <2>4, SingletonSeq
<1>3. QED BY <1>1, <1>2

LEMMA LinkSubscribeType ==
    ASSUME LinkTypeOK, NEW t \in Topics, LinkSubscribe(t)
    PROVE  LinkTypeOK'
<1>1. StoredMessage(t) \in Seq(Messages \union {Ack})
  BY StoredMessageType
<1>2. <<Ack>> \in Seq(Messages \union {Ack})
  OBVIOUS
<1>3. wire \o <<Ack>> \o StoredMessage(t) \in Seq(Messages \union {Ack})
  BY <1>1, <1>2 DEF LinkTypeOK
<1>4. QED BY <1>3 DEF LinkTypeOK, LinkSubscribe

LEMMA LinkUnsubscribeType ==
    ASSUME LinkTypeOK, NEW ts, LinkUnsubscribe(ts)
    PROVE  LinkTypeOK'
<1>1. Append(wire, Ack) \in Seq(Messages \union {Ack})
  BY DEF LinkTypeOK
<1>2. QED BY <1>1 DEF LinkTypeOK, LinkUnsubscribe

LEMMA LinkReturnType ==
    ASSUME LinkTypeOK, LinkReturn
    PROVE  LinkTypeOK'
BY DEF LinkTypeOK, LinkReturn

LEMMA ServerPublishType ==
    ASSUME LinkTypeOK, NEW t \in Topics, NEW retain \in BOOLEAN, ServerPublish(t, retain)
    PROVE  LinkTypeOK'
<1>1. t \in TypeUrls
  BY LinkAssumption DEF Topics
<1>2. published + 1 \in EventIds /\ published' \in 0 .. MaxEvents
  BY LinkAssumption DEF LinkTypeOK, ServerPublish, EventIds
<1>3. Append(wire, Message(published + 1, t, FALSE)) \in Seq(Messages \union {Ack})
  <2>1. Message(published + 1, t, FALSE) \in Messages
    BY <1>1, <1>2, MessageType
  <2>2. wire \in Seq(Messages \union {Ack})
    BY DEF LinkTypeOK
  <2>3. QED BY <2>1, <2>2, AppendProperties
<1>4. stored' \in [TypeUrls -> 0 .. MaxEvents]
  BY <1>2 DEF LinkTypeOK, ServerPublish, EventIds
<1>5. QED BY <1>2, <1>3, <1>4 DEF LinkTypeOK, ServerPublish

LEMMA ReadPacketType ==
    ASSUME LinkTypeOK, ReadPacket
    PROVE  LinkTypeOK'
<1>1. Head(wire) \in Messages \union {Ack} /\ Tail(wire) \in Seq(Messages \union {Ack})
  BY DEF LinkTypeOK, ReadPacket
<1>2. Head(wire) # Ack => Append(inbox, Head(wire)) \in Seq(Messages)
  BY <1>1 DEF LinkTypeOK
<1>3. QED BY <1>1, <1>2 DEF LinkTypeOK, ReadPacket

LEMMA LoseConnectionType ==
    ASSUME LinkTypeOK, LoseConnection
    PROVE  LinkTypeOK'
<1>1. drops' \in 0 .. MaxDrops
  BY LinkAssumption DEF LinkTypeOK, LoseConnection
<1>2. <<>> \in Seq(Messages \union {Ack})
  BY EmptySeq
<1>3. QED BY <1>1, <1>2 DEF LinkTypeOK, LoseConnection

LEMMA LinkReconnectType ==
    ASSUME LinkTypeOK, LinkReconnect
    PROVE  LinkTypeOK'
BY DEF LinkTypeOK, LinkReconnect

LEMMA LinkTakeType ==
    ASSUME LinkTypeOK, LinkTake
    PROVE  LinkTypeOK' /\ Head(inbox) \in Messages
BY DEF LinkTypeOK, LinkTake

LEMMA LinkUnchangedType ==
    ASSUME LinkTypeOK, UNCHANGED linkVars
    PROVE  LinkTypeOK'
BY DEF LinkTypeOK, linkVars

-----------------------------------------------------------------------------
(* Type correctness, one lemma per process and one step per action.        *)

LEMMA StreamsUnchangedType ==
    ASSUME StreamTypeOK, UNCHANGED streamVars
    PROVE  StreamTypeOK'
BY DEF StreamTypeOK, streamVars

LEMMA HandleOnConnectType ==
    ASSUME LinkTypeOK, BrokerTypeOK, HandleOnConnect
    PROVE  LinkTypeOK' /\ BrokerTypeOK'
<1> USE DEF connVars, lockVars, mapVars, goVars, handlerVars, chanVars
<1>1. CASE OnConnectLock
  <2>1. LinkTypeOK'
    BY <1>1, LinkUnchangedType DEF OnConnectLock
  <2>2. onConnects' \in Nat
    <3>1. onConnects \in Nat
      BY DEF BrokerTypeOK
    <3>2. QED BY <1>1, <3>1 DEF OnConnectLock
  <2>3. BrokerTypeOK'
    BY <1>1, <2>2 DEF BrokerTypeOK, OnConnectLock, TakeConnLock
  <2>4. QED BY <2>1, <2>3
<1>2. CASE OnConnectRLock
  <2>1. LinkTypeOK'
    BY <1>2, LinkUnchangedType DEF OnConnectRLock
  <2>2. BrokerTypeOK'
    BY <1>2 DEF BrokerTypeOK, OnConnectRLock, ReadLock
  <2>3. QED BY <2>1, <2>2
<1>3. CASE OnConnectResubscribe
  <2>1. LinkTypeOK'
    BY <1>3, LinkSubscribeType, TopicsAreUrls DEF OnConnectResubscribe, BrokerTypeOK
  <2>2. BrokerTypeOK'
    BY <1>3 DEF BrokerTypeOK, OnConnectResubscribe
  <2>3. QED BY <2>1, <2>2
<1>4. CASE OnConnectReply
  <2>1. LinkTypeOK'
    BY <1>4, LinkReturnType DEF OnConnectReply
  <2>2. BrokerTypeOK'
    BY <1>4 DEF BrokerTypeOK, OnConnectReply
  <2>3. QED BY <2>1, <2>2
<1>5. CASE OnConnectReturn
  <2>1. LinkTypeOK'
    BY <1>5, LinkUnchangedType DEF OnConnectReturn
  <2>2. BrokerTypeOK'
    BY <1>5 DEF BrokerTypeOK, OnConnectReturn, ReleaseConnLock
  <2>3. QED BY <2>1, <2>2
<1>6. QED BY <1>1, <1>2, <1>3, <1>4, <1>5 DEF HandleOnConnect

LEMMA SubscribeType ==
    ASSUME LinkTypeOK, BrokerTypeOK, Subscribe
    PROVE  LinkTypeOK' /\ BrokerTypeOK'
<1> USE DEF connVars, lockVars, mapVars, goVars, handlerVars, chanVars
<1>1. ASSUME NEW u \in TypeUrls, SubscribeDo(u) PROVE LinkTypeOK' /\ BrokerTypeOK'
  <2>1. LinkTypeOK'
    BY <1>1, LinkUnchangedType DEF SubscribeDo
  <2>2. BrokerTypeOK'
    <3>1. spawned' \in [TypeUrls -> Nat]
      <4>1. spawned \in [TypeUrls -> Nat]
        BY DEF BrokerTypeOK
      <4>2. spawned[u] > 0 /\ spawned' = [spawned EXCEPT ![u] = @ - 1]
        BY <1>1 DEF SubscribeDo
      <4>3. QED BY <4>1, <4>2
    <3>2. QED BY <1>1, <3>1, TopicsAreUrls DEF BrokerTypeOK, SubscribeDo
  <2>3. QED BY <2>1, <2>2
<1>2. ASSUME NEW u \in TypeUrls, SubscribeConnLock(u) PROVE LinkTypeOK' /\ BrokerTypeOK'
  <2>1. LinkTypeOK'
    BY <1>2, LinkUnchangedType DEF SubscribeConnLock
  <2>2. BrokerTypeOK'
    BY <1>2 DEF BrokerTypeOK, SubscribeConnLock, TakeConnLock
  <2>3. QED BY <2>1, <2>2
<1>3. CASE SubscribeRequest
  <2>1. LinkTypeOK'
    BY <1>3, LinkSubscribeType, LinkUnchangedType, TopicsAreUrls
    DEF SubscribeRequest, BrokerTypeOK
  <2>2. BrokerTypeOK'
    BY <1>3 DEF BrokerTypeOK, SubscribeRequest
  <2>3. QED BY <2>1, <2>2
<1>4. CASE SubscribeReply
  <2>1. LinkTypeOK'
    BY <1>4, LinkReturnType DEF SubscribeReply
  <2>2. BrokerTypeOK'
    BY <1>4 DEF BrokerTypeOK, SubscribeReply, ReleaseConnLock
  <2>3. QED BY <2>1, <2>2
<1>5. CASE SubscribeLock
  <2>1. LinkTypeOK'
    BY <1>5, LinkUnchangedType DEF SubscribeLock
  <2>2. BrokerTypeOK'
    BY <1>5 DEF BrokerTypeOK, SubscribeLock, AnnounceWriter
  <2>3. QED BY <2>1, <2>2
<1>6. CASE SubscribeStore
  <2>1. LinkTypeOK'
    BY <1>6, LinkUnchangedType DEF SubscribeStore
  <2>2. BrokerTypeOK'
    BY <1>6 DEF BrokerTypeOK, SubscribeStore, ReleaseConnLock
  <2>3. QED BY <2>1, <2>2
<1>7. ASSUME NEW t \in Topics, SubscribeDone(t) PROVE LinkTypeOK' /\ BrokerTypeOK'
  <2>1. LinkTypeOK'
    BY <1>7, LinkUnchangedType DEF SubscribeDone
  <2>2. BrokerTypeOK'
    BY <1>7 DEF BrokerTypeOK, SubscribeDone
  <2>3. QED BY <2>1, <2>2
<1>8. QED BY <1>1, <1>2, <1>3, <1>4, <1>5, <1>6, <1>7 DEF Subscribe

LEMMA CleanupType ==
    ASSUME LinkTypeOK, BrokerTypeOK, Cleanup
    PROVE  LinkTypeOK' /\ BrokerTypeOK'
<1> USE DEF connVars, lockVars, mapVars, goVars, handlerVars, chanVars
<1>1. ASSUME NEW s \in Streams, CleanupConnLock(s) PROVE LinkTypeOK' /\ BrokerTypeOK'
  <2>1. LinkTypeOK'
    BY <1>1, LinkUnchangedType DEF CleanupConnLock
  <2>2. BrokerTypeOK'
    BY <1>1 DEF BrokerTypeOK, CleanupConnLock, TakeConnLock
  <2>3. QED BY <2>1, <2>2
<1>2. CASE CleanupRequest
  <2>1. LinkTypeOK'
    BY <1>2, LinkUnsubscribeType, LinkUnchangedType DEF CleanupRequest
  <2>2. BrokerTypeOK'
    BY <1>2 DEF BrokerTypeOK, CleanupRequest
  <2>3. QED BY <2>1, <2>2
<1>3. CASE CleanupReply
  <2>1. LinkTypeOK'
    BY <1>3, LinkReturnType DEF CleanupReply
  <2>2. BrokerTypeOK'
    BY <1>3 DEF BrokerTypeOK, CleanupReply, ReleaseConnLock
  <2>3. QED BY <2>1, <2>2
<1>4. QED BY <1>1, <1>2, <1>3 DEF Cleanup

LEMMA HandleMessageType ==
    ASSUME LinkTypeOK, BrokerTypeOK, HandlerReads, HandleMessage
    PROVE  LinkTypeOK' /\ BrokerTypeOK'
<1> USE DEF connVars, lockVars, mapVars, goVars, handlerVars, chanVars
<1>0. msg # <<>> => msg[1] \in Messages
  <2>1. msg \in {<<>>} \union {<<m>> : m \in Messages}
    BY DEF BrokerTypeOK
  <2>2. QED BY <2>1
<1>1. CASE HandlerTake
  <2>1. LinkTypeOK' /\ Head(inbox) \in Messages
    BY <1>1, LinkTakeType DEF HandlerTake
  <2>2. BrokerTypeOK'
    BY <1>1, <2>1 DEF BrokerTypeOK, HandlerTake
  <2>3. QED BY <2>1, <2>2
<1>2. CASE HandlerRLock
  <2>1. LinkTypeOK'
    BY <1>2, LinkUnchangedType DEF HandlerRLock
  <2>2. msg[1].topic \in TypeUrls /\ msg[1].id \in 0 .. MaxEvents
    BY <1>0, <1>2, LinkAssumption DEF HandlerRLock, Messages, EventIds
  <2>3. BrokerTypeOK'
    BY <1>2, <2>2 DEF BrokerTypeOK, HandlerRLock, ReadLock
  <2>4. QED BY <2>1, <2>3
<1>3. CASE HandlerSend
  <2>1. LinkTypeOK'
    BY <1>3, LinkUnchangedType DEF HandlerSend
  <2>2. msg[1] \in Messages
    BY <1>0, <1>3 DEF HandlerSend, HandlerReads
  <2>3. Head(todo) \in Streams /\ Tail(todo) \in Seq(Streams)
    <3>1. todo \in Seq(Streams) /\ todo # <<>>
      BY <1>3 DEF HandlerSend, BrokerTypeOK
    <3>2. QED BY <3>1
  <2>4. Append(chan[Head(todo)], msg[1]) \in Seq(Messages)
    <3>1. chan[Head(todo)] \in Seq(Messages)
      BY <2>3 DEF BrokerTypeOK
    <3>2. QED BY <2>2, <3>1, AppendProperties
  <2>5. chan' \in [Streams -> Seq(Messages)]
    BY <1>3, <2>3, <2>4 DEF HandlerSend, BrokerTypeOK
  <2>6. BrokerTypeOK'
    BY <1>3, <2>3, <2>5 DEF BrokerTypeOK, HandlerSend
  <2>7. QED BY <2>1, <2>6
<1>4. CASE HandlerReturn
  <2>1. LinkTypeOK'
    BY <1>4, LinkUnchangedType DEF HandlerReturn
  <2>2. BrokerTypeOK'
    BY <1>4 DEF BrokerTypeOK, HandlerReturn
  <2>3. QED BY <2>1, <2>2
<1>5. QED BY <1>1, <1>2, <1>3, <1>4 DEF HandleMessage

LEMMA BrokerUnchangedType ==
    ASSUME BrokerTypeOK, UNCHANGED brokerVars
    PROVE  BrokerTypeOK'
BY DEF BrokerTypeOK, brokerVars, connVars, lockVars, mapVars, goVars, handlerVars, chanVars

LEMMA PublishersType ==
    ASSUME LinkTypeOK, BrokerTypeOK, Publishers
    PROVE  LinkTypeOK' /\ BrokerTypeOK'
<1>1. PICK u \in TypeUrls, retain \in BOOLEAN : Publish(u, retain) \/ ForeignPublish(u, retain)
  BY DEF Publishers
<1>2. ServerPublish(Trim[u], retain) /\ UNCHANGED brokerVars
  BY <1>1 DEF Publish, ForeignPublish
<1>3. QED BY <1>2, ServerPublishType, BrokerUnchangedType, TopicsAreUrls

LEMMA LinkType ==
    ASSUME LinkTypeOK, BrokerTypeOK, Link
    PROVE  LinkTypeOK' /\ BrokerTypeOK'
<1>1. CASE ReadPacket /\ UNCHANGED <<brokerVars, streamVars>>
  BY <1>1, ReadPacketType, BrokerUnchangedType
<1>2. CASE LoseConnection /\ UNCHANGED <<brokerVars, streamVars>>
  BY <1>2, LoseConnectionType, BrokerUnchangedType
<1>3. CASE Reconnect /\ UNCHANGED streamVars
  <2>1. LinkTypeOK'
    BY <1>3, LinkReconnectType DEF Reconnect
  <2>2. onConnects' \in Nat
    <3>1. onConnects \in Nat
      BY DEF BrokerTypeOK
    <3>2. QED BY <1>3, <3>1 DEF Reconnect
  <2>3. BrokerTypeOK'
    BY <1>3, <2>2 DEF BrokerTypeOK, Reconnect, lockVars, mapVars, goVars, handlerVars, chanVars
  <2>4. QED BY <2>1, <2>3
<1>4. QED BY <1>1, <1>2, <1>3 DEF Link

(* The request Broker.Subscribe works on names a type URL.                 *)
LEMMA RequestType ==
    ASSUME StreamTypeOK, NEW s \in Streams, requests[s] # <<>>
    PROVE  Head(requests[s]) \in TypeUrls /\ Tail(requests[s]) \in Seq(TypeUrls)
<1>1. requests[s] \in Seq(TypeUrls)
  BY DEF StreamTypeOK
<1>2. QED BY <1>1

LEMMA SubscribeReturnType ==
    ASSUME BrokerTypeOK, StreamTypeOK, NEW s \in Streams, requests[s] # <<>>,
           SubscribeReturn(s)
    PROVE  /\ spawned' \in [TypeUrls -> Nat]
           /\ writer' \in BOOLEAN
           /\ requests' \in [Streams -> Seq(TypeUrls)]
           /\ recv' \in [Streams -> {"receive", "locked", "sending", "done"}]
<1>1. Head(requests[s]) \in TypeUrls /\ Tail(requests[s]) \in Seq(TypeUrls)
  BY RequestType
<1>2. spawned' \in [TypeUrls -> Nat]
  <2>1. spawned \in [TypeUrls -> Nat]
    BY DEF BrokerTypeOK
  <2>2. QED BY <1>1, <2>1 DEF SubscribeReturn, SpawnSubscribe
<1>3. QED BY <1>1, <1>2 DEF StreamTypeOK, SubscribeReturn

LEMMA ReceiveType ==
    ASSUME TypeInv, NEW s \in Streams, Receive(s)
    PROVE  TypeOK'
<1> USE DEF connVars, lockVars, mapVars, goVars, handlerVars, chanVars
<1>0. LinkTypeOK /\ BrokerTypeOK /\ StreamTypeOK /\ RequestAtHand /\ RetainedAtHand
  BY DEF TypeInv, TypeOK
<1>1. CASE ReceiveLock(s)
  <2>1. LinkTypeOK'
    BY <1>0, <1>1, LinkUnchangedType DEF ReceiveLock
  <2>2. BrokerTypeOK'
    BY <1>0, <1>1 DEF BrokerTypeOK, ReceiveLock, AnnounceWriter
  <2>3. StreamTypeOK'
    BY <1>0, <1>1 DEF StreamTypeOK, ReceiveLock
  <2>4. QED BY <2>1, <2>2, <2>3 DEF TypeOK
<1>2. CASE SubscribeAdd(s)
  <2> DEFINE u == Head(requests[s])
  <2>1. requests[s] # <<>> /\ u \in TypeUrls
    BY <1>0, <1>2, RequestType DEF SubscribeAdd, RequestAtHand
  <2>2. LinkTypeOK'
    BY <1>0, <1>2, LinkUnchangedType DEF SubscribeAdd
  <2>3. receivers' \in [TypeUrls -> Seq(Streams)]
    <3>1. receivers \in [TypeUrls -> Seq(Streams)]
      BY <1>0 DEF BrokerTypeOK
    <3>2. Append(receivers[u], s) \in Seq(Streams)
      BY <2>1, <3>1, AppendProperties
    <3>3. QED BY <1>2, <3>1, <3>2 DEF SubscribeAdd, AddReceiver
  <2>4. CASE SubscribeReturn(s)
    <3>1. /\ spawned' \in [TypeUrls -> Nat]
          /\ writer' \in BOOLEAN
          /\ requests' \in [Streams -> Seq(TypeUrls)]
          /\ recv' \in [Streams -> {"receive", "locked", "sending", "done"}]
      BY <1>0, <2>1, <2>4, SubscribeReturnType
    <3>2. BrokerTypeOK' /\ StreamTypeOK'
      BY <1>0, <1>2, <2>3, <3>1 DEF BrokerTypeOK, StreamTypeOK, SubscribeAdd
    <3>3. QED BY <2>2, <3>2 DEF TypeOK
  <2>5. CASE recv' = [recv EXCEPT ![s] = "sending"] /\ UNCHANGED <<spawned, writer, requests>>
    <3>1. BrokerTypeOK' /\ StreamTypeOK'
      BY <1>0, <1>2, <2>3, <2>5 DEF BrokerTypeOK, StreamTypeOK, SubscribeAdd
    <3>2. QED BY <2>2, <3>1 DEF TypeOK
  <2>6. QED BY <1>2, <2>4, <2>5 DEF SubscribeAdd
<1>3. CASE SubscribeSend(s)
  <2> DEFINE u == Head(requests[s])
             m == Message(retainedMsgs[u], u, TRUE)
  <2>1. requests[s] # <<>> /\ u \in TypeUrls
    BY <1>0, <1>3, RequestType DEF SubscribeSend, RequestAtHand
  <2>2. LinkTypeOK'
    BY <1>0, <1>3, LinkUnchangedType DEF SubscribeSend
  <2>3. CASE s \in closed
    <3>1. BrokerTypeOK' /\ StreamTypeOK'
      BY <1>0, <1>3, <2>3 DEF BrokerTypeOK, StreamTypeOK, SubscribeSend
    <3>2. QED BY <2>2, <3>1 DEF TypeOK
  <2>4. CASE s \notin closed
    <3>1. retainedMsgs[u] \in EventIds
      <4>1. retainedMsgs[u] \in 0 .. MaxEvents /\ MaxEvents \in Nat
        BY <1>0, <2>1, LinkAssumption DEF BrokerTypeOK
      <4>2. retainedMsgs[u] # 0
        BY <1>0, <1>3 DEF RetainedAtHand, SubscribeSend
      <4>3. QED BY <4>1, <4>2 DEF EventIds
    <3>2. m \in Messages
      BY <2>1, <3>1, MessageType
    <3>3. chan \in [Streams -> Seq(Messages)]
      BY <1>0 DEF BrokerTypeOK
    <3>4. Append(chan[s], m) \in Seq(Messages)
      <4> HIDE DEF m
      <4>1. QED BY <3>2, <3>3, AppendProperties
    <3>5. chan' \in [Streams -> Seq(Messages)]
      BY <1>3, <2>4, <3>3, <3>4 DEF SubscribeSend
    <3>6. /\ spawned' \in [TypeUrls -> Nat]
          /\ writer' \in BOOLEAN
          /\ requests' \in [Streams -> Seq(TypeUrls)]
          /\ recv' \in [Streams -> {"receive", "locked", "sending", "done"}]
      BY <1>0, <1>3, <2>1, <2>4, SubscribeReturnType DEF SubscribeSend
    <3>7. BrokerTypeOK' /\ StreamTypeOK'
      BY <1>0, <1>3, <2>4, <3>5, <3>6 DEF BrokerTypeOK, StreamTypeOK, SubscribeSend
    <3>8. QED BY <2>2, <3>7 DEF TypeOK
  <2>5. QED BY <2>3, <2>4
<1>4. CASE ReceiveEnd(s)
  <2>1. LinkTypeOK' /\ BrokerTypeOK'
    BY <1>0, <1>4, LinkUnchangedType, BrokerUnchangedType DEF ReceiveEnd
  <2>2. StreamTypeOK'
    BY <1>0, <1>4 DEF StreamTypeOK, ReceiveEnd
  <2>3. QED BY <2>1, <2>2 DEF TypeOK
<1>5. QED BY <1>1, <1>2, <1>3, <1>4 DEF Receive

LEMMA CleanType ==
    ASSUME TypeOK, NEW s \in Streams, ContextDone(s) \/ Clean(s)
    PROVE  TypeOK'
<1> USE DEF connVars, lockVars, mapVars, goVars, handlerVars, chanVars
<1>0. LinkTypeOK /\ BrokerTypeOK /\ StreamTypeOK
  BY DEF TypeOK
<1>1. CASE ContextDone(s)
  <2>1. LinkTypeOK' /\ BrokerTypeOK'
    BY <1>0, <1>1, LinkUnchangedType, BrokerUnchangedType DEF ContextDone
  <2>2. StreamTypeOK'
    BY <1>0, <1>1 DEF StreamTypeOK, ContextDone
  <2>3. QED BY <2>1, <2>2 DEF TypeOK
<1>2. CASE UnsubscribeLock(s)
  <2>1. LinkTypeOK'
    BY <1>0, <1>2, LinkUnchangedType DEF UnsubscribeLock
  <2>2. BrokerTypeOK' /\ StreamTypeOK'
    BY <1>0, <1>2 DEF BrokerTypeOK, StreamTypeOK, UnsubscribeLock, AnnounceWriter
  <2>3. QED BY <2>1, <2>2 DEF TypeOK
<1>3. CASE UnsubscribeAll(s)
  <2>1. LinkTypeOK'
    BY <1>0, <1>3, LinkUnchangedType DEF UnsubscribeAll
  <2>2. receivers' \in [TypeUrls -> Seq(Streams)]
    <3>1. \A u \in TypeUrls : RemoveReceiver(receivers[u], s) \in Seq(Streams)
      BY <1>0, RemoveReceiverType DEF BrokerTypeOK
    <3>2. QED BY <1>3, <3>1 DEF UnsubscribeAll, RemoveEverywhere
  <2>3. TopicCleanup(s) \subseteq TypeUrls
    BY DEF TopicCleanup
  <2>4. retainedMsgs' \in [TypeUrls -> 0 .. MaxEvents]
    <3>1. retainedMsgs \in [TypeUrls -> 0 .. MaxEvents]
      BY <1>0 DEF BrokerTypeOK
    <3>2. retainedMsgs' = [u \in TypeUrls |-> IF u \in TopicCleanup(s) THEN 0 ELSE retainedMsgs[u]]
      BY <1>3 DEF UnsubscribeAll, RemoveEverywhere
    <3>3. QED BY <3>1, <3>2, LinkAssumption
  <2>5. BrokerTypeOK'
    BY <1>0, <1>3, <2>2, <2>3, <2>4 DEF BrokerTypeOK, UnsubscribeAll, RemoveEverywhere
  <2>6. StreamTypeOK'
    BY <1>0, <1>3 DEF StreamTypeOK, UnsubscribeAll
  <2>7. QED BY <2>1, <2>5, <2>6 DEF TypeOK
<1>4. CASE CloseChannel(s)
  <2>1. LinkTypeOK'
    BY <1>0, <1>4, LinkUnchangedType DEF CloseChannel
  <2>2. BrokerTypeOK' /\ StreamTypeOK'
    BY <1>0, <1>4 DEF BrokerTypeOK, StreamTypeOK, CloseChannel
  <2>3. QED BY <2>1, <2>2 DEF TypeOK
<1>5. QED BY <1>1, <1>2, <1>3, <1>4 DEF Clean

LEMMA SendType ==
    ASSUME TypeOK, NEW s \in Streams, Send(s)
    PROVE  TypeOK'
<1> USE DEF connVars, lockVars, mapVars, goVars, handlerVars, chanVars
<1>0. LinkTypeOK /\ BrokerTypeOK /\ StreamTypeOK
  BY DEF TypeOK
<1>1. CASE SendOk(s) \/ SendError(s)
  <2>1. LinkTypeOK'
    BY <1>0, <1>1, LinkUnchangedType DEF SendOk, SendError
  <2>2. chan' \in [Streams -> Seq(Messages)]
    <3>1. chan \in [Streams -> Seq(Messages)]
      BY <1>0 DEF BrokerTypeOK
    <3>2. chan[s] # <<>> /\ chan' = [chan EXCEPT ![s] = Tail(@)]
      BY <1>1 DEF SendOk, SendError
    <3>3. Tail(chan[s]) \in Seq(Messages)
      BY <3>1, <3>2, HeadTailProperties
    <3>4. QED BY <3>1, <3>2, <3>3
  <2>3. BrokerTypeOK'
    <3>1. UNCHANGED <<connVars, lockVars, mapVars, goVars, handlerVars, closed, panic>>
      BY <1>1 DEF SendOk, SendError
    <3>2. QED BY <1>0, <2>2, <3>1 DEF BrokerTypeOK
  <2>4. StreamTypeOK'
    BY <1>0, <1>1 DEF StreamTypeOK, SendOk, SendError, streamVars
  <2>5. QED BY <2>1, <2>3, <2>4 DEF TypeOK
<1>2. CASE RangeEnd(s)
  <2>1. LinkTypeOK' /\ BrokerTypeOK'
    BY <1>0, <1>2, LinkUnchangedType, BrokerUnchangedType DEF RangeEnd
  <2>2. StreamTypeOK'
    BY <1>0, <1>2 DEF StreamTypeOK, RangeEnd
  <2>3. QED BY <2>1, <2>2 DEF TypeOK
<1>3. QED BY <1>1, <1>2 DEF Send

-----------------------------------------------------------------------------
(* The parts of TypeInv that speak of the lock and of what is done under   *)
(* it.  Most actions leave all of their variables alone.                   *)

LockPart == RequestAtHand /\ HandlerReads /\ OneWriter /\ RetainedAtHand

LEMMA LockPartBroker ==
    ASSUME TypeInv, HandleOnConnect \/ Subscribe \/ Cleanup, UNCHANGED streamVars
    PROVE  LockPart'
<1> USE DEF connVars, lockVars, mapVars, goVars, handlerVars, chanVars, streamVars
<1> USE DEF TypeInv, LockPart, RequestAtHand, HandlerReads, OneWriter, RetainedAtHand
<1>1. CASE OnConnectLock
  BY <1>1 DEF OnConnectLock, TakeConnLock
<1>2. CASE OnConnectRLock
  BY <1>2 DEF OnConnectRLock, ReadLock
<1>3. CASE OnConnectResubscribe
  BY <1>3 DEF OnConnectResubscribe
<1>4. CASE OnConnectReply
  BY <1>4 DEF OnConnectReply
<1>5. CASE OnConnectReturn
  BY <1>5 DEF OnConnectReturn, ReleaseConnLock
<1>6. ASSUME NEW u \in TypeUrls, SubscribeDo(u) PROVE LockPart'
  BY <1>6 DEF SubscribeDo
<1>7. ASSUME NEW u \in TypeUrls, SubscribeConnLock(u) PROVE LockPart'
  BY <1>7 DEF SubscribeConnLock, TakeConnLock
<1>8. CASE SubscribeRequest
  BY <1>8 DEF SubscribeRequest
<1>9. CASE SubscribeReply
  BY <1>9 DEF SubscribeReply, ReleaseConnLock
<1>10. CASE SubscribeLock
  BY <1>10 DEF SubscribeLock, AnnounceWriter
<1>11. CASE SubscribeStore
  BY <1>11 DEF SubscribeStore, ReleaseConnLock
<1>12. ASSUME NEW t \in Topics, SubscribeDone(t) PROVE LockPart'
  BY <1>12 DEF SubscribeDone
<1>13. ASSUME NEW s \in Streams, CleanupConnLock(s) PROVE LockPart'
  BY <1>13 DEF CleanupConnLock, TakeConnLock
<1>14. CASE CleanupRequest
  BY <1>14 DEF CleanupRequest
<1>15. CASE CleanupReply
  BY <1>15 DEF CleanupReply, ReleaseConnLock
<1>16. QED BY <1>1, <1>2, <1>3, <1>4, <1>5, <1>6, <1>7, <1>8, <1>9, <1>10, <1>11, <1>12,
              <1>13, <1>14, <1>15 DEF HandleOnConnect, Subscribe, Cleanup

LEMMA LockPartHandler ==
    ASSUME TypeInv, HandleMessage, UNCHANGED streamVars
    PROVE  LockPart'
<1> USE DEF connVars, lockVars, mapVars, goVars, handlerVars, chanVars, streamVars
<1> USE DEF TypeInv, LockPart, RequestAtHand, HandlerReads, OneWriter, RetainedAtHand
<1>1. CASE HandlerTake
  BY <1>1 DEF HandlerTake
<1>2. CASE HandlerRLock
  BY <1>2 DEF HandlerRLock, ReadLock
<1>3. CASE HandlerSend
  BY <1>3 DEF HandlerSend
<1>4. CASE HandlerReturn
  BY <1>4 DEF HandlerReturn
<1>5. QED BY <1>1, <1>2, <1>3, <1>4 DEF HandleMessage

LEMMA LockPartEnvironment ==
    ASSUME TypeInv, Publishers \/ Link
    PROVE  LockPart'
<1> USE DEF connVars, lockVars, mapVars, goVars, handlerVars, chanVars, streamVars, brokerVars
<1> USE DEF TypeInv, LockPart, RequestAtHand, HandlerReads, OneWriter, RetainedAtHand
<1>1. CASE Publishers
  BY <1>1 DEF Publishers, Publish, ForeignPublish
<1>2. CASE Link
  BY <1>2 DEF Link, Reconnect
<1>3. QED BY <1>1, <1>2

LEMMA LockPartStream ==
    ASSUME TypeInv, NEW s \in Streams, Stream(s)
    PROVE  LockPart'
<1> USE DEF connVars, lockVars, mapVars, goVars, handlerVars, chanVars, streamVars, brokerVars
<1> USE DEF TypeInv, LockPart, RequestAtHand, HandlerReads, OneWriter, RetainedAtHand
<1>0. /\ recv \in [Streams -> {"receive", "locked", "sending", "done"}]
      /\ clean \in [Streams -> {"open", "ended", "locked", "removed", "closed"}]
      /\ requests \in [Streams -> Seq(TypeUrls)]
  BY DEF TypeOK, StreamTypeOK
<1>1. CASE ReceiveLock(s)
  BY <1>0, <1>1 DEF ReceiveLock, AnnounceWriter
<1>2. CASE SubscribeAdd(s)
  <2>1. CASE retainedMsgs[Head(requests[s])] = 0
    BY <1>0, <1>2, <2>1 DEF SubscribeAdd, SubscribeReturn
  <2>2. CASE retainedMsgs[Head(requests[s])] # 0
    <3>1. /\ recv[s] = "locked" /\ readers = {} /\ recv' = [recv EXCEPT ![s] = "sending"]
          /\ UNCHANGED <<writer, requests, readers, retainedMsgs, connStep, clean, todo, msg>>
      BY <1>2, <2>2 DEF SubscribeAdd
    <3>2. QED BY <1>0, <2>2, <3>1
  <2>3. QED BY <2>1, <2>2
<1>3. CASE SubscribeSend(s)
  BY <1>0, <1>3 DEF SubscribeSend, SubscribeReturn
<1>4. CASE ReceiveEnd(s)
  BY <1>0, <1>4 DEF ReceiveEnd
<1>5. CASE ContextDone(s)
  BY <1>0, <1>5 DEF ContextDone
<1>6. CASE UnsubscribeLock(s)
  BY <1>0, <1>6 DEF UnsubscribeLock, AnnounceWriter
<1>7. CASE UnsubscribeAll(s)
  BY <1>0, <1>7 DEF UnsubscribeAll, RemoveEverywhere
<1>8. CASE CloseChannel(s)
  BY <1>0, <1>8 DEF CloseChannel
<1>9. CASE SendOk(s) \/ SendError(s)
  BY <1>9 DEF SendOk, SendError
<1>10. CASE RangeEnd(s)
  BY <1>10 DEF RangeEnd
<1>11. QED BY <1>1, <1>2, <1>3, <1>4, <1>5, <1>6, <1>7, <1>8, <1>9, <1>10
           DEF Stream, Receive, Clean, Send

-----------------------------------------------------------------------------
(* Type correctness as a theorem.                                          *)

LEMMA InitType == Init => TypeInv
<1> SUFFICES ASSUME Init PROVE TypeInv
  OBVIOUS
<1>1. LinkTypeOK
  <2>1. <<>> \in Seq(Messages \union {Ack}) /\ <<>> \in Seq(Messages)
    BY EmptySeq
  <2>2. 0 \in 0 .. MaxEvents /\ 0 \in 0 .. MaxDrops
    BY LinkAssumption
  <2>3. QED BY <2>1, <2>2 DEF Init, LinkInit, LinkTypeOK
<1>2. BrokerTypeOK
  <2>1. <<>> \in Seq(Streams) /\ <<>> \in Seq(Messages)
    BY EmptySeq
  <2>2. 0 \in 0 .. MaxEvents /\ 0 \in Nat /\ 1 \in Nat
    BY LinkAssumption
  <2>3. QED BY <2>1, <2>2 DEF Init, BrokerInit, BrokerTypeOK
<1>3. StreamTypeOK
  <2>1. requests \in [Streams -> Seq(TypeUrls)]
    BY SubscriberAssumption DEF Init
  <2>2. QED BY <2>1 DEF Init, StreamTypeOK
<1>4. RequestAtHand /\ HandlerReads /\ OneWriter /\ RetainedAtHand
  BY DEF Init, BrokerInit, RequestAtHand, HandlerReads, OneWriter, RetainedAtHand
<1>5. QED BY <1>1, <1>2, <1>3, <1>4 DEF TypeInv, TypeOK

LEMMA TypeInvStep == TypeInv /\ [Next]_vars => TypeInv'
<1> SUFFICES ASSUME TypeInv, [Next]_vars PROVE TypeInv'
  OBVIOUS
<1>0. LinkTypeOK /\ BrokerTypeOK /\ StreamTypeOK /\ HandlerReads
  BY DEF TypeInv, TypeOK
<1>1. CASE (HandleOnConnect \/ Subscribe \/ Cleanup \/ HandleMessage) /\ UNCHANGED streamVars
  <2>1. LinkTypeOK' /\ BrokerTypeOK'
    BY <1>0, <1>1, HandleOnConnectType, SubscribeType, CleanupType, HandleMessageType
  <2>2. StreamTypeOK'
    BY <1>0, <1>1, StreamsUnchangedType
  <2>3. LockPart'
    BY <1>1, LockPartBroker, LockPartHandler
  <2>4. QED BY <2>1, <2>2, <2>3 DEF TypeInv, TypeOK, LockPart
<1>2. CASE Publishers \/ Link
  <2>1. LinkTypeOK' /\ BrokerTypeOK'
    BY <1>0, <1>2, PublishersType, LinkType
  <2>2. StreamTypeOK'
    BY <1>0, <1>2, StreamsUnchangedType DEF Publishers, Link, streamVars
  <2>3. LockPart'
    BY <1>2, LockPartEnvironment
  <2>4. QED BY <2>1, <2>2, <2>3 DEF TypeInv, TypeOK, LockPart
<1>3. ASSUME NEW s \in Streams, Stream(s) PROVE TypeInv'
  <2>1. TypeOK'
    BY <1>3, ReceiveType, CleanType, SendType DEF Stream, TypeInv
  <2>2. LockPart'
    BY <1>3, LockPartStream
  <2>3. QED BY <2>1, <2>2 DEF TypeInv, LockPart
<1>4. CASE UNCHANGED vars
  <2>1. LinkTypeOK' /\ BrokerTypeOK' /\ StreamTypeOK'
    BY <1>0, <1>4, LinkUnchangedType, BrokerUnchangedType, StreamsUnchangedType DEF vars
  <2>2. LockPart'
    BY <1>4 DEF vars, linkVars, brokerVars, connVars, lockVars, mapVars, goVars, handlerVars,
                chanVars, streamVars, TypeInv, LockPart, RequestAtHand, HandlerReads, OneWriter,
                RetainedAtHand
  <2>3. QED BY <2>1, <2>2 DEF TypeInv, TypeOK, LockPart
<1>5. QED BY <1>1, <1>2, <1>3, <1>4 DEF Next

(* The variables keep their types - in particular no channel list, channel *)
(* or packet queue ever holds anything made up by the removal loop or by a *)
(* read past an end, for any number of streams and requests.               *)
THEOREM TypeCorrect == Spec => []TypeOK
<1>1. TypeInv => TypeOK
  BY DEF TypeInv
<1>2. QED BY <1>1, InitType, TypeInvStep, PTL DEF Spec

(* broker.go:28 and its uses: Broker.Subscribe, UnsubscribeAll and the end *)
(* of subscribe are never inside b.l at the same time, and a Subscribe     *)
(* that waits for room in a channel waits alone.                           *)
THEOREM WritersExclude == Spec => []MapsGuarded
<1>1. TypeInv => MapsGuarded
  BY DEF TypeInv, MapsGuarded
<1>2. QED BY <1>1, InitType, TypeInvStep, PTL DEF Spec

-----------------------------------------------------------------------------
(* The link's part of TrackInv.                                            *)

LinkPart == AckAwaited /\ NoSession

LEMMA LinkSubscribePart ==
    ASSUME LinkTypeOK, LinkPart, reply = "none", NEW t \in Topics, LinkSubscribe(t)
    PROVE  LinkPart'
<1>1. CASE ~up
  BY <1>1 DEF LinkPart, AckAwaited, NoSession, LinkSubscribe
<1>2. CASE up
  <2> DEFINE n == Len(wire)
             rest == StoredMessage(t)
  <2>1. wire \in Seq(Messages \union {Ack}) /\ n \in Nat
    BY DEF LinkTypeOK
  <2>2. \A i \in 1 .. n : wire[i] # Ack
    BY <2>1 DEF LinkPart, AckAwaited
  <2>3. rest \in Seq(Messages \union {Ack}) /\ Len(rest) \in Nat
        /\ \A i \in 1 .. Len(rest) : rest[i] # Ack
    BY StoredMessageType
  <2>4. wire' = (wire \o <<Ack>>) \o rest /\ reply' = "waiting" /\ up'
    BY <1>2 DEF LinkSubscribe
  <2> HIDE DEF rest
  <2>5. <<Ack>> \in Seq(Messages \union {Ack}) /\ Len(<<Ack>>) = 1 /\ <<Ack>>[1] = Ack
    BY SingletonSeq
  <2>6. /\ wire' \in Seq(Messages \union {Ack})
        /\ Len(wire') = n + 1 + Len(rest)
        /\ \A i \in 1 .. n + 1 + Len(rest) :
              wire'[i] = IF i <= n THEN wire[i] ELSE IF i = n + 1 THEN Ack ELSE rest[i - n - 1]
    <3>1. /\ wire \o <<Ack>> \in Seq(Messages \union {Ack})
          /\ Len(wire \o <<Ack>>) = n + 1
          /\ \A i \in 1 .. n + 1 : (wire \o <<Ack>>)[i] = IF i <= n THEN wire[i] ELSE Ack
      BY <2>1, <2>5, ConcatProperties
    <3>2. QED BY <2>1, <2>3, <2>4, <3>1, ConcatProperties
  <2>7. \A i \in DOMAIN wire' : wire'[i] = Ack => i = n + 1
    BY <2>1, <2>2, <2>3, <2>6
  <2>8. QED BY <2>4, <2>7 DEF LinkPart, AckAwaited, NoSession
<1>3. QED BY <1>1, <1>2

LEMMA LinkUnsubscribePart ==
    ASSUME LinkTypeOK, LinkPart, reply = "none", NEW ts, LinkUnsubscribe(ts)
    PROVE  LinkPart'
<1>1. CASE ~up
  BY <1>1 DEF LinkPart, AckAwaited, NoSession, LinkUnsubscribe
<1>2. CASE up
  <2>1. wire \in Seq(Messages \union {Ack}) /\ Len(wire) \in Nat
    BY DEF LinkTypeOK
  <2>2. \A i \in 1 .. Len(wire) : wire[i] # Ack
    BY <2>1 DEF LinkPart, AckAwaited
  <2>3. wire' = Append(wire, Ack) /\ reply' = "waiting" /\ up'
    BY <1>2 DEF LinkUnsubscribe
  <2>4. \A i \in DOMAIN wire' : wire'[i] = Ack => i = Len(wire) + 1
    BY <2>1, <2>2, <2>3, AppendProperties
  <2>5. QED BY <2>3, <2>4 DEF LinkPart, AckAwaited, NoSession
<1>3. QED BY <1>1, <1>2

LEMMA LinkReturnPart ==
    ASSUME LinkPart, LinkReturn
    PROVE  LinkPart'
BY DEF LinkPart, AckAwaited, NoSession, LinkReturn

LEMMA ServerPublishPart ==
    ASSUME LinkTypeOK, LinkPart, NEW t \in Topics, NEW retain \in BOOLEAN,
           ServerPublish(t, retain)
    PROVE  LinkPart'
<1> DEFINE m == Message(published + 1, t, FALSE)
<1>1. m # Ack
  BY DEF Message, Ack
<1>2. NoSession'
  BY DEF LinkPart, NoSession, ServerPublish
<1>3. CASE wire' = wire
  BY <1>2, <1>3 DEF LinkPart, AckAwaited, ServerPublish
<1>4. CASE wire' = Append(wire, m)
  <2>1. wire \in Seq(Messages \union {Ack}) /\ Len(wire) \in Nat
    BY DEF LinkTypeOK
  <2> HIDE DEF m
  <2>2. \A i \in DOMAIN wire' : wire'[i] = Ack => i \in DOMAIN wire /\ wire[i] = Ack
    BY <1>1, <1>4, <2>1
  <2>3. QED BY <1>2, <2>2 DEF LinkPart, AckAwaited, ServerPublish
<1>5. QED BY <1>3, <1>4 DEF ServerPublish

LEMMA ReadPacketPart ==
    ASSUME LinkTypeOK, LinkPart, ReadPacket
    PROVE  LinkPart' /\ (reply' # "none" <=> reply # "none")
<1>1. wire \in Seq(Messages \union {Ack}) /\ wire # <<>> /\ wire' = Tail(wire)
  BY DEF LinkTypeOK, ReadPacket
<1>2. /\ Len(wire) \in Nat \ {0}
      /\ DOMAIN wire' = 1 .. Len(wire) - 1
      /\ \A i \in DOMAIN wire' : i + 1 \in DOMAIN wire /\ wire'[i] = wire[i + 1]
      /\ Head(wire) = wire[1] /\ 1 \in DOMAIN wire
  BY <1>1
<1>3. CASE Head(wire) = Ack /\ reply' = "ok"
  <2>1. reply = "waiting" /\ \A j \in DOMAIN wire : wire[j] = Ack => j = 1
    BY <1>2, <1>3 DEF LinkPart, AckAwaited
  <2>2. \A i \in DOMAIN wire' : wire'[i] # Ack
    BY <1>2, <2>1
  <2>3. QED BY <1>3, <2>1, <2>2 DEF LinkPart, AckAwaited, NoSession, ReadPacket
<1>4. CASE UNCHANGED reply
  <2>1. AckAwaited'
    BY <1>2, <1>4 DEF LinkPart, AckAwaited
  <2>2. QED BY <1>4, <2>1 DEF LinkPart, NoSession, ReadPacket
<1>5. QED BY <1>3, <1>4 DEF ReadPacket

LEMMA LoseConnectionPart ==
    ASSUME LinkPart, LoseConnection
    PROVE  LinkPart'
<1>1. DOMAIN wire' = {}
  BY DEF LoseConnection
<1>2. QED BY <1>1 DEF LinkPart, AckAwaited, NoSession, LoseConnection

LEMMA LinkReconnectPart ==
    ASSUME LinkPart, LinkReconnect
    PROVE  LinkPart' /\ (reply' # "none" <=> reply # "none")
<1>1. DOMAIN wire' = {} /\ subs' = {}
  BY DEF LinkPart, NoSession, LinkReconnect
<1>2. QED BY <1>1 DEF LinkPart, AckAwaited, NoSession, LinkReconnect

LEMMA LinkOtherPart ==
    ASSUME LinkPart, LinkTake \/ UNCHANGED linkVars
    PROVE  LinkPart'
BY DEF LinkPart, AckAwaited, NoSession, LinkTake, linkVars

-----------------------------------------------------------------------------
(* The connection lock's part of TrackInv.                                 *)

ConnPart == ConnSteps /\ CleanupGone /\ CleanupOnce /\ SubscriptionsTracked

(* In use below: which variables ConnPart speaks of.                       *)
LEMMA ConnPartUnchanged ==
    ASSUME ConnPart,
           UNCHANGED <<connLock, connStep, connUrls, readers, topics, subs, cleanups, clean>>,
           reply' # "none" <=> reply # "none"
    PROVE  ConnPart'
BY DEF ConnPart, ConnSteps, CleanupGone, CleanupOnce, SubscriptionsTracked, Unsubscribing

LEMMA ConnPartOnConnect ==
    ASSUME TrackInv, HandleOnConnect, UNCHANGED streamVars
    PROVE  ConnPart'
<1> USE DEF connVars, lockVars, mapVars, goVars, streamVars
<1> USE DEF ConnPart, ConnSteps, CleanupGone, CleanupOnce, SubscriptionsTracked, Unsubscribing
<1>0. /\ ConnPart
      /\ readers \in SUBSET {"connect", "handler"}
      /\ topics \in SUBSET TypeUrls
  BY DEF TrackInv, TypeInv, TypeOK, BrokerTypeOK
<1>1. CASE OnConnectLock
  BY <1>0, <1>1 DEF OnConnectLock, TakeConnLock, linkVars
<1>2. CASE OnConnectRLock
  BY <1>0, <1>2 DEF OnConnectRLock, ReadLock, linkVars
<1>3. CASE OnConnectResubscribe
  <2>1. PICK u \in connUrls : LinkSubscribe(Trim[u]) /\ connUrls' = connUrls \ {u}
    BY <1>3 DEF OnConnectResubscribe
  <2>2. u \in topics /\ "connect" \in readers
    BY <1>0, <1>3, <2>1 DEF OnConnectResubscribe
  <2>3. subs' \subseteq subs \union {Trim[u]} /\ reply' # "none"
    BY <2>1 DEF LinkSubscribe
  <2>4. /\ connLock = "connect" /\ connStep' = "wait"
        /\ UNCHANGED <<connLock, readers, topics, cleanups, clean>>
    BY <1>3 DEF OnConnectResubscribe
  <2>5. SubscriptionsTracked'
    BY <1>0, <2>2, <2>3, <2>4
  <2>6. ConnSteps'
    BY <1>0, <2>1, <2>2, <2>3, <2>4
  <2>7. QED BY <1>0, <2>4, <2>5, <2>6
<1>4. CASE OnConnectReply
  BY <1>0, <1>4 DEF OnConnectReply, LinkReturn
<1>5. CASE OnConnectReturn
  BY <1>0, <1>5 DEF OnConnectReturn, ReleaseConnLock, linkVars
<1>6. QED BY <1>1, <1>2, <1>3, <1>4, <1>5 DEF HandleOnConnect

LEMMA ConnPartSubscribe ==
    ASSUME TrackInv, Subscribe, UNCHANGED streamVars
    PROVE  ConnPart'
<1> USE DEF connVars, lockVars, mapVars, goVars, streamVars
<1> USE DEF ConnPart, ConnSteps, CleanupGone, CleanupOnce, SubscriptionsTracked, Unsubscribing
<1>0. ConnPart /\ NoSession /\ connUrls \in SUBSET TypeUrls /\ topics \in SUBSET TypeUrls
  BY DEF TrackInv, TypeInv, TypeOK, BrokerTypeOK
<1>1. ASSUME NEW u \in TypeUrls, SubscribeDo(u) PROVE ConnPart'
  BY <1>0, <1>1, ConnPartUnchanged DEF SubscribeDo, linkVars
<1>2. ASSUME NEW u \in TypeUrls, SubscribeConnLock(u) PROVE ConnPart'
  BY <1>0, <1>2 DEF SubscribeConnLock, TakeConnLock, linkVars
<1>3. CASE SubscribeRequest
  <2>1. CASE conn
    <3>1. PICK u \in connUrls : LinkSubscribe(Trim[u])
      BY <1>3, <2>1 DEF SubscribeRequest
    <3>2. subs' \subseteq subs \union {Trim[u]} /\ reply' # "none"
      BY <3>1 DEF LinkSubscribe
    <3>3. /\ connLock = "subscribe" /\ connStep = "request" /\ connStep' = "wait"
          /\ UNCHANGED <<connLock, connUrls, readers, topics, cleanups, clean>>
      BY <1>3, <2>1 DEF SubscribeRequest
    <3>4. QED BY <1>0, <3>1, <3>2, <3>3
  <2>2. CASE ~conn
    BY <1>0, <1>3, <2>2, ConnPartUnchanged DEF SubscribeRequest, linkVars
  <2>3. QED BY <2>1, <2>2
<1>4. CASE SubscribeReply
  <2>1. CASE reply = "error"
    <3>1. subs' = {}
      BY <1>0, <1>4, <2>1 DEF NoSession, SubscribeReply, LinkReturn
    <3>2. QED BY <1>0, <1>4, <2>1, <3>1 DEF SubscribeReply, ReleaseConnLock, LinkReturn
  <2>2. CASE reply = "ok"
    BY <1>0, <1>4, <2>2 DEF SubscribeReply, LinkReturn
  <2>3. QED BY <1>4, <2>1, <2>2 DEF SubscribeReply
<1>5. CASE SubscribeLock
  BY <1>0, <1>5 DEF SubscribeLock, linkVars
<1>6. CASE SubscribeStore
  BY <1>0, <1>6 DEF SubscribeStore, ReleaseConnLock, linkVars
<1>7. ASSUME NEW t \in Topics, SubscribeDone(t) PROVE ConnPart'
  BY <1>0, <1>7, ConnPartUnchanged DEF SubscribeDone, linkVars
<1>8. QED BY <1>1, <1>2, <1>3, <1>4, <1>5, <1>6, <1>7 DEF Subscribe

LEMMA ConnPartCleanup ==
    ASSUME TrackInv, Cleanup, UNCHANGED streamVars
    PROVE  ConnPart'
<1> USE DEF connVars, lockVars, mapVars, goVars, streamVars
<1> USE DEF ConnPart, ConnSteps, CleanupGone, CleanupOnce, SubscriptionsTracked, Unsubscribing
<1>0. /\ ConnPart /\ NoSession
      /\ connUrls \in SUBSET TypeUrls
      /\ cleanups \in [Streams -> SUBSET TypeUrls]
  BY DEF TrackInv, TypeInv, TypeOK, BrokerTypeOK
<1>1. ASSUME NEW s \in Streams, CleanupConnLock(s) PROVE ConnPart'
  BY <1>0, <1>1 DEF CleanupConnLock, TakeConnLock, linkVars
<1>2. CASE CleanupRequest
  <2>1. CASE conn
    <3>1. subs' = {} \/ subs' = subs \ {Trim[u] : u \in connUrls}
      BY <1>0, <1>2, <2>1 DEF CleanupRequest, LinkUnsubscribe, NoSession
    <3>2. /\ reply' # "none" /\ connLock = "cleanup" /\ connStep = "request" /\ connStep' = "wait"
          /\ UNCHANGED <<connLock, connUrls, readers, topics, cleanups, clean>>
      BY <1>2, <2>1 DEF CleanupRequest, LinkUnsubscribe
    <3>3. QED BY <1>0, <3>1, <3>2
  <2>2. CASE ~conn
    BY <1>0, <1>2, <2>2, ConnPartUnchanged DEF CleanupRequest, linkVars
  <2>3. QED BY <2>1, <2>2
<1>3. CASE CleanupReply
  BY <1>0, <1>3 DEF CleanupReply, ReleaseConnLock, LinkReturn
<1>4. QED BY <1>1, <1>2, <1>3 DEF Cleanup

LEMMA ConnPartHandler ==
    ASSUME TrackInv, HandleMessage, UNCHANGED streamVars
    PROVE  ConnPart'
<1> USE DEF connVars, lockVars, mapVars, goVars, streamVars
<1>0. ConnPart
  BY DEF TrackInv, ConnPart
<1>1. CASE HandlerTake \/ HandlerSend
  <2>1. UNCHANGED <<connLock, connStep, connUrls, readers, topics, subs, cleanups, clean, reply>>
    BY <1>1 DEF HandlerTake, HandlerSend, LinkTake, linkVars
  <2>2. QED BY <1>0, <2>1, ConnPartUnchanged
<1>2. CASE HandlerRLock \/ HandlerReturn
  <2>1. /\ UNCHANGED <<connLock, connStep, connUrls, topics, subs, cleanups, clean, reply>>
        /\ "connect" \in readers' <=> "connect" \in readers
    BY <1>2 DEF HandlerRLock, HandlerReturn, ReadLock, linkVars
  <2>2. QED BY <1>0, <2>1 DEF ConnPart, ConnSteps, CleanupGone, CleanupOnce,
                              SubscriptionsTracked, Unsubscribing
<1>3. QED BY <1>1, <1>2 DEF HandleMessage

LEMMA ConnPartEnvironment ==
    ASSUME TrackInv, Publishers \/ Link
    PROVE  ConnPart'
<1> USE DEF connVars, lockVars, mapVars, goVars, streamVars, brokerVars
<1>0. ConnPart /\ LinkPart /\ LinkTypeOK
  BY DEF TrackInv, ConnPart, LinkPart, TypeInv, TypeOK
<1>1. CASE Publishers
  BY <1>0, <1>1, ConnPartUnchanged DEF Publishers, Publish, ForeignPublish, ServerPublish
<1>2. CASE ReadPacket /\ UNCHANGED <<brokerVars, streamVars>>
  BY <1>0, <1>2, ReadPacketPart, ConnPartUnchanged DEF ReadPacket
<1>3. CASE LoseConnection /\ UNCHANGED <<brokerVars, streamVars>>
  BY <1>0, <1>3 DEF LoseConnection, ConnPart, ConnSteps, CleanupGone, CleanupOnce,
                    SubscriptionsTracked, Unsubscribing
<1>4. CASE Reconnect /\ UNCHANGED streamVars
  BY <1>0, <1>4, LinkReconnectPart, ConnPartUnchanged DEF Reconnect, LinkReconnect
<1>5. QED BY <1>1, <1>2, <1>3, <1>4 DEF Link

LEMMA ConnPartStream ==
    ASSUME TrackInv, NEW s \in Streams, Stream(s)
    PROVE  ConnPart'
<1> USE DEF connVars, lockVars, mapVars, goVars, streamVars, brokerVars, linkVars
<1>0. /\ ConnPart
      /\ clean \in [Streams -> {"open", "ended", "locked", "removed", "closed"}]
      /\ cleanups \in [Streams -> SUBSET TypeUrls]
  BY DEF TrackInv, ConnPart, TypeInv, TypeOK, StreamTypeOK, BrokerTypeOK
<1>1. CASE Receive(s) \/ Send(s)
  BY <1>0, <1>1, ConnPartUnchanged
  DEF Receive, ReceiveLock, SubscribeAdd, SubscribeSend, ReceiveEnd, Send, SendOk, SendError, RangeEnd
<1>2. CASE ContextDone(s) \/ UnsubscribeLock(s) \/ CloseChannel(s)
  BY <1>0, <1>2 DEF ContextDone, UnsubscribeLock, CloseChannel, ConnPart, ConnSteps, CleanupGone,
                    CleanupOnce, SubscriptionsTracked, Unsubscribing
<1>3. CASE UnsubscribeAll(s)
  <2>1. /\ clean[s] = "locked" /\ cleanups[s] = {} /\ readers = {}
        /\ topics' = topics \ TopicCleanup(s)
        /\ cleanups' = [cleanups EXCEPT ![s] = TopicCleanup(s)]
        /\ clean' = [clean EXCEPT ![s] = "removed"]
        /\ UNCHANGED <<connLock, connStep, connUrls, readers, subs, reply>>
    BY <1>0, <1>3 DEF UnsubscribeAll, RemoveEverywhere, ConnPart, CleanupOnce
  <2>2. SubscriptionsTracked'
    <3>1. ASSUME NEW u \in TypeUrls, u \in topics \/ Unsubscribing(u)
          PROVE  u \in topics' \/ Unsubscribing(u)'
      BY <1>0, <2>1, <3>1 DEF Unsubscribing
    <3>2. QED BY <1>0, <2>1, <3>1 DEF ConnPart, SubscriptionsTracked
  <2>3. CleanupOnce'
    BY <1>0, <2>1 DEF ConnPart, CleanupOnce
  <2>4. QED BY <1>0, <2>1, <2>2, <2>3 DEF ConnPart, ConnSteps, CleanupGone
<1>4. QED BY <1>1, <1>2, <1>3 DEF Stream, Clean

LEMMA LinkPartStep ==
    ASSUME TrackInv, Next
    PROVE  LinkPart'
<1> USE DEF streamVars, brokerVars
<1>0. /\ LinkPart /\ LinkTypeOK /\ BrokerTypeOK
      /\ connStep = "request" => reply = "none"
  BY DEF TrackInv, LinkPart, TypeInv, TypeOK, ConnSteps
<1>1. CASE HandleOnConnect
  <2>1. CASE OnConnectResubscribe
    <3>1. PICK u \in connUrls : LinkSubscribe(Trim[u])
      BY <2>1 DEF OnConnectResubscribe
    <3>2. Trim[u] \in Topics
      BY <1>0, TopicsAreUrls DEF BrokerTypeOK
    <3>3. reply = "none"
      BY <1>0, <2>1 DEF OnConnectResubscribe
    <3>4. QED BY <1>0, <3>1, <3>2, <3>3, LinkSubscribePart
  <2>2. CASE OnConnectReply
    BY <1>0, <2>2, LinkReturnPart DEF OnConnectReply
  <2>3. CASE OnConnectLock \/ OnConnectRLock \/ OnConnectReturn
    BY <1>0, <2>3, LinkOtherPart DEF OnConnectLock, OnConnectRLock, OnConnectReturn
  <2>4. QED BY <1>1, <2>1, <2>2, <2>3 DEF HandleOnConnect
<1>2. CASE Subscribe
  <2>1. CASE SubscribeRequest
    <3>1. CASE UNCHANGED linkVars
      BY <1>0, <3>1, LinkOtherPart
    <3>2. ASSUME NEW u \in connUrls, LinkSubscribe(Trim[u]) PROVE LinkPart'
      <4>1. Trim[u] \in Topics
        BY <1>0, TopicsAreUrls DEF BrokerTypeOK
      <4>2. reply = "none"
        BY <1>0, <2>1 DEF SubscribeRequest
      <4>3. QED BY <1>0, <3>2, <4>1, <4>2, LinkSubscribePart
    <3>3. QED BY <2>1, <3>1, <3>2 DEF SubscribeRequest
  <2>2. CASE SubscribeReply
    BY <1>0, <2>2, LinkReturnPart DEF SubscribeReply
  <2>3. CASE UNCHANGED linkVars
    BY <1>0, <2>3, LinkOtherPart
  <2>4. QED BY <1>2, <2>1, <2>2, <2>3
            DEF Subscribe, SubscribeDo, SubscribeConnLock, SubscribeLock, SubscribeStore, SubscribeDone
<1>3. CASE Cleanup
  <2>1. CASE CleanupRequest
    <3>1. reply = "none"
      BY <1>0, <2>1 DEF CleanupRequest
    <3>2. QED BY <1>0, <2>1, <3>1, LinkUnsubscribePart, LinkOtherPart DEF CleanupRequest
  <2>2. CASE CleanupReply
    BY <1>0, <2>2, LinkReturnPart DEF CleanupReply
  <2>3. CASE UNCHANGED linkVars
    BY <1>0, <2>3, LinkOtherPart
  <2>4. QED BY <1>3, <2>1, <2>2, <2>3 DEF Cleanup, CleanupConnLock
<1>4. CASE HandleMessage
  BY <1>0, <1>4, LinkOtherPart
  DEF HandleMessage, HandlerTake, HandlerRLock, HandlerSend, HandlerReturn
<1>5. CASE Publishers
  <2>1. PICK u \in TypeUrls, retain \in BOOLEAN : ServerPublish(Trim[u], retain)
    BY <1>5 DEF Publishers, Publish, ForeignPublish
  <2>2. QED BY <1>0, <2>1, ServerPublishPart, TopicsAreUrls
<1>6. CASE Link
  BY <1>0, <1>6, ReadPacketPart, LoseConnectionPart, LinkReconnectPart DEF Link, Reconnect
<1>7. ASSUME NEW s \in Streams, Stream(s) PROVE LinkPart'
  <2>1. UNCHANGED linkVars
    BY <1>7 DEF Stream, Receive, ReceiveLock, SubscribeAdd, SubscribeSend, ReceiveEnd, ContextDone,
                Clean, UnsubscribeLock, UnsubscribeAll, CloseChannel, Send, SendOk, SendError, RangeEnd
  <2>2. QED BY <1>0, <2>1, LinkOtherPart
<1>8. QED BY <1>1, <1>2, <1>3, <1>4, <1>5, <1>6, <1>7 DEF Next

-----------------------------------------------------------------------------
(* No subscription is forgotten.                                           *)

LEMMA InitTrack == Init => TrackInv
<1> SUFFICES ASSUME Init PROVE TrackInv
  OBVIOUS
<1>1. TypeInv
  BY InitType
<1>2. LinkPart
  BY DEF Init, LinkInit, LinkPart, AckAwaited, NoSession
<1>3. ConnPart
  BY DEF Init, LinkInit, BrokerInit, ConnPart, ConnSteps, CleanupGone, CleanupOnce,
         SubscriptionsTracked
<1>4. QED BY <1>1, <1>2, <1>3 DEF TrackInv, LinkPart, ConnPart

LEMMA TrackInvStep == TrackInv /\ [Next]_vars => TrackInv'
<1> SUFFICES ASSUME TrackInv, [Next]_vars PROVE TrackInv'
  OBVIOUS
<1>1. TypeInv'
  BY TypeInvStep DEF TrackInv
<1>2. CASE Next
  <2>1. ConnPart'
    BY <1>2, ConnPartOnConnect, ConnPartSubscribe, ConnPartCleanup, ConnPartHandler,
       ConnPartEnvironment, ConnPartStream DEF Next
  <2>2. QED BY <1>1, <1>2, <2>1, LinkPartStep DEF TrackInv, LinkPart, ConnPart
<1>3. CASE UNCHANGED vars
  <2>1. ConnPart'
    BY <1>3, ConnPartUnchanged
    DEF TrackInv, ConnPart, vars, linkVars, brokerVars, connVars, lockVars, mapVars, goVars, streamVars
  <2>2. LinkPart'
    BY <1>3, LinkOtherPart DEF TrackInv, LinkPart, vars
  <2>3. QED BY <1>1, <2>1, <2>2 DEF TrackInv, LinkPart, ConnPart
<1>4. QED BY <1>2, <1>3

(* broker.go:110-174: whatever the clients do and however often the        *)
(* connection is lost, each subscription the server has for the broker is  *)
(* in b.topics, or one of subscribe and the cleanup is at work on it.      *)
THEOREM NoSubscriptionForgotten == Spec => []SubscriptionsTracked
<1>1. TrackInv => SubscriptionsTracked
  BY DEF TrackInv
<1>2. QED BY <1>1, InitTrack, TrackInvStep, PTL DEF Spec

-----------------------------------------------------------------------------
(* b.topics and the subscriptions at the server: wherever the connection   *)
(* is lost.                                                                *)

(* A connection has been lost for which HandleOnConnect has not begun.     *)
Lost == ~up \/ onConnects > 0

(* subscribe(typeUrl) is about to store what it has subscribed to, unless  *)
(* the session has ended since.                                            *)
StoreSound ==
    connLock = "subscribe" =>
        /\ \A u, v \in connUrls : u = v
        /\ connStep \in {"lock", "store"} \/ (connStep = "wait" /\ reply # "error") =>
              \A u \in connUrls : Trim[u] \in subs \/ Lost

StaysSubscribed ==
    /\ \A u \in topics : Trim[u] \in subs \/ Resubscribing(u)
    /\ StoreSound
    /\ connLock # "cleanup"

TopicInv == TrackInv /\ (Staying => StaysSubscribed)

-----------------------------------------------------------------------------
LEMMA StaysUnchanged ==
    ASSUME StaysSubscribed, UNCHANGED <<topics, subs, connLock, connStep, connUrls, reply, up, onConnects>>
    PROVE  StaysSubscribed'
BY DEF StaysSubscribed, StoreSound, Resubscribing, Lost

LEMMA StaysOnConnect ==
    ASSUME TrackInv, StaysSubscribed, HandleOnConnect
    PROVE  StaysSubscribed'
<1> USE DEF linkVars, connVars, lockVars, mapVars, StaysSubscribed, StoreSound, Resubscribing, Lost
<1>0. onConnects \in Nat /\ ConnSteps
  BY DEF TrackInv, TypeInv, TypeOK, BrokerTypeOK
<1>1. CASE OnConnectLock
  BY <1>0, <1>1 DEF OnConnectLock, TakeConnLock
<1>2. CASE OnConnectRLock
  BY <1>0, <1>2 DEF OnConnectRLock
<1>3. CASE OnConnectResubscribe
  <2>1. PICK u \in connUrls : LinkSubscribe(Trim[u]) /\ connUrls' = connUrls \ {u}
    BY <1>3 DEF OnConnectResubscribe
  <2>2. /\ UNCHANGED <<up, onConnects, connLock, topics>>
        /\ connLock = "connect" /\ connStep = "request"
        /\ up => subs' = subs \union {Trim[u]}
    BY <1>3, <2>1 DEF OnConnectResubscribe, LinkSubscribe
  <2>3. ASSUME NEW v \in topics, up PROVE Trim[v] \in subs' \/ Resubscribing(v)'
    <3>1. CASE v = u
      BY <2>2, <2>3, <3>1
    <3>2. CASE v # u
      <4>1. v \in connUrls => v \in connUrls'
        BY <2>1, <3>2
      <4>2. Trim[v] \in subs \/ onConnects > 0 \/ v \in connUrls
        BY <2>2, <2>3
      <4>3. QED BY <2>2, <2>3, <4>1, <4>2
    <3>3. QED BY <3>1, <3>2
  <2>4. QED BY <2>2, <2>3
<1>4. CASE OnConnectReply
  BY <1>0, <1>4 DEF OnConnectReply, LinkReturn, ConnSteps
<1>5. CASE OnConnectReturn
  BY <1>0, <1>5 DEF OnConnectReturn, ReleaseConnLock
<1>6. QED BY <1>1, <1>2, <1>3, <1>4, <1>5 DEF HandleOnConnect

LEMMA StaysSubscribe ==
    ASSUME TrackInv, StaysSubscribed, Subscribe
    PROVE  StaysSubscribed'
<1> USE DEF linkVars, connVars, lockVars, mapVars
<1>0. onConnects \in Nat /\ ConnSteps
  BY DEF TrackInv, TypeInv, TypeOK, BrokerTypeOK
<1>1. CASE SubscribeLock
  BY <1>0, <1>1 DEF SubscribeLock, StaysSubscribed, StoreSound, Resubscribing, Lost
<1>2. ASSUME NEW u \in TypeUrls, SubscribeConnLock(u) PROVE StaysSubscribed'
  BY <1>0, <1>2 DEF SubscribeConnLock, TakeConnLock, StaysSubscribed, StoreSound, Resubscribing, Lost
<1>3. CASE SubscribeRequest
  <2>1. CASE conn
    <3>1. PICK u \in connUrls : LinkSubscribe(Trim[u])
      BY <1>3, <2>1 DEF SubscribeRequest
    <3>2. /\ UNCHANGED <<up, onConnects, connLock, connUrls, topics>> /\ connLock = "subscribe"
          /\ up => subs' = subs \union {Trim[u]}
          /\ ~up => subs' = subs
      BY <1>3, <2>1, <3>1 DEF SubscribeRequest, LinkSubscribe
    <3>3. QED BY <3>1, <3>2 DEF StaysSubscribed, StoreSound, Resubscribing, Lost
  <2>2. CASE ~conn
    BY <1>3, <2>2, StaysUnchanged DEF SubscribeRequest
  <2>3. QED BY <2>1, <2>2
<1>4. CASE SubscribeReply
  <2>1. CASE reply = "error"
    BY <1>4, <2>1 DEF SubscribeReply, ReleaseConnLock, LinkReturn, StaysSubscribed, StoreSound,
                      Resubscribing, Lost
  <2>2. CASE reply = "ok"
    BY <1>4, <2>2 DEF SubscribeReply, LinkReturn, StaysSubscribed, StoreSound, Resubscribing, Lost
  <2>3. QED BY <1>4, <2>1, <2>2 DEF SubscribeReply
<1>5. CASE SubscribeStore
  BY <1>0, <1>5 DEF SubscribeStore, ReleaseConnLock, StaysSubscribed, StoreSound, Resubscribing, Lost
<1>6. CASE UNCHANGED <<linkVars, connVars, mapVars>>
  BY <1>6, StaysUnchanged
<1>7. QED BY <1>1, <1>2, <1>3, <1>4, <1>5, <1>6 DEF Subscribe, SubscribeDo, SubscribeDone

LEMMA StaysEnvironment ==
    ASSUME TrackInv, StaysSubscribed, HandleMessage \/ Publishers \/ Link
    PROVE  StaysSubscribed'
<1> USE DEF linkVars, connVars, lockVars, mapVars, brokerVars
<1>0. onConnects \in Nat /\ ConnSteps
  BY DEF TrackInv, TypeInv, TypeOK, BrokerTypeOK
<1>1. CASE HandleMessage
  BY <1>1, StaysUnchanged
  DEF HandleMessage, HandlerTake, HandlerRLock, HandlerSend, HandlerReturn, LinkTake
<1>2. CASE Publishers
  BY <1>2, StaysUnchanged DEF Publishers, Publish, ForeignPublish, ServerPublish
<1>3. CASE ReadPacket /\ UNCHANGED <<brokerVars, streamVars>>
  <2>1. UNCHANGED <<topics, subs, connLock, connStep, connUrls, up, onConnects>>
    BY <1>3 DEF ReadPacket
  <2>2. reply' = reply \/ reply = "waiting"
    <3>1. CASE Head(wire) = Ack
      <4>1. wire \in Seq(Messages \union {Ack}) /\ wire # <<>>
        BY <1>3 DEF ReadPacket, TrackInv, TypeInv, TypeOK, LinkTypeOK
      <4>2. 1 \in DOMAIN wire /\ wire[1] = Ack
        BY <3>1, <4>1
      <4>3. QED BY <4>2 DEF TrackInv, AckAwaited
    <3>2. CASE Head(wire) # Ack
      BY <1>3, <3>2 DEF ReadPacket
    <3>3. QED BY <3>1, <3>2
  <2>3. QED BY <2>1, <2>2 DEF StaysSubscribed, StoreSound, Resubscribing, Lost
<1>4. CASE LoseConnection /\ UNCHANGED <<brokerVars, streamVars>>
  BY <1>4 DEF LoseConnection, StaysSubscribed, StoreSound, Resubscribing, Lost
<1>5. CASE Reconnect /\ UNCHANGED streamVars
  BY <1>0, <1>5 DEF Reconnect, LinkReconnect, StaysSubscribed, StoreSound, Resubscribing, Lost
<1>6. QED BY <1>1, <1>2, <1>3, <1>4, <1>5 DEF Link

(* Nobody has left after a step only if nobody had before.                 *)
LEMMA StaysStream ==
    ASSUME TopicInv, NEW s \in Streams, Stream(s), Staying'
    PROVE  StaysSubscribed'
<1> USE DEF linkVars, connVars, lockVars, mapVars, brokerVars
<1>0. clean \in [Streams -> {"open", "ended", "locked", "removed", "closed"}]
  BY DEF TopicInv, TrackInv, TypeInv, TypeOK, StreamTypeOK
<1>1. clean'[s] = "open"
  BY DEF Staying
<1>2. CASE Receive(s) \/ Send(s)
  <2>1. Staying
    BY <1>2 DEF Staying, Receive, ReceiveLock, SubscribeAdd, SubscribeSend, ReceiveEnd, Send, SendOk,
                SendError, RangeEnd, streamVars
  <2>2. UNCHANGED <<topics, linkVars, connVars>>
    BY <1>2 DEF Receive, ReceiveLock, SubscribeAdd, SubscribeSend, ReceiveEnd, Send, SendOk,
                SendError, RangeEnd
  <2>3. QED BY <2>1, <2>2, StaysUnchanged DEF TopicInv
<1>3. CASE ContextDone(s) \/ Clean(s)
  BY <1>0, <1>1, <1>3 DEF ContextDone, Clean, UnsubscribeLock, UnsubscribeAll, CloseChannel
<1>4. QED BY <1>2, <1>3 DEF Stream

LEMMA InitTopic == Init => TopicInv
<1> SUFFICES ASSUME Init PROVE TopicInv
  OBVIOUS
<1>1. TrackInv
  BY InitTrack
<1>2. StaysSubscribed
  BY DEF Init, BrokerInit, StaysSubscribed, StoreSound
<1>3. QED BY <1>1, <1>2 DEF TopicInv

LEMMA TopicStep == TopicInv /\ [Next]_vars => TopicInv'
<1> SUFFICES ASSUME TopicInv, [Next]_vars, Staying' PROVE StaysSubscribed'
  BY TrackInvStep DEF TopicInv
<1>1. CASE UNCHANGED streamVars
  <2>1. Staying
    BY <1>1 DEF Staying, streamVars
  <2>2. TrackInv /\ StaysSubscribed
    BY <2>1 DEF TopicInv
  <2>3. ~Cleanup
    <3>1. connLock # "cleanup"
      BY <2>2 DEF StaysSubscribed
    <3>2. \A s \in Streams : cleanups[s] = {}
      BY <2>1, <2>2 DEF TrackInv, CleanupOnce, Staying
    <3>3. QED BY <3>1, <3>2 DEF Cleanup, CleanupConnLock, CleanupRequest, CleanupReply
  <2>4. CASE UNCHANGED vars
    BY <2>2, <2>4, StaysUnchanged DEF vars, linkVars, brokerVars, connVars, mapVars
  <2>5. QED BY <2>2, <2>3, <2>4, StaysOnConnect, StaysSubscribe, StaysEnvironment, StaysStream DEF Next
<1>2. CASE Publishers \/ Link
  BY <1>1, <1>2 DEF Publishers, Link
<1>3. CASE \E s \in Streams : Stream(s)
  BY <1>3, StaysStream
<1>4. QED BY <1>1, <1>2, <1>3 DEF Next, vars

(* broker.go:79, "reconnect to all topics": as long as every client stays, *)
(* b.topics and the subscriptions at the server agree whenever the broker  *)
(* has no HandleOnConnect to run, after any number of lost connections.    *)
THEOREM TopicsStaySubscribed == Spec => []TopicsSubscribed
<1>1. TopicInv => TopicsSubscribed
  BY DEF TopicInv, TopicsSubscribed, StaysSubscribed
<1>2. QED BY InitTopic, TopicStep, <1>1, PTL DEF Spec

-----------------------------------------------------------------------------
(* As long as b.conn is nil nothing has come from the server.              *)

Untouched ==
    /\ subs = {} /\ topics = {} /\ \A s \in Streams : chan[s] = <<>>
    /\ wire = <<>> /\ inbox = <<>> /\ msg = <<>> /\ todo = <<>>
    /\ \A u \in TypeUrls : retainedMsgs[u] = 0
    /\ \A s \in Streams : recv[s] # "sending"
    /\ connLock # "connect" /\ connStep \in {"idle", "request"} /\ reply = "none"

Unused == (~conn => Untouched) /\ (panic = "nil conn" => ~conn)

UnusedInv == TypeInv /\ Unused

LEMMA UnusedBroker ==
    ASSUME UnusedInv, panic = "none", HandleOnConnect \/ Subscribe \/ Cleanup, UNCHANGED streamVars
    PROVE  Unused'
<1> USE DEF linkVars, connVars, lockVars, mapVars, handlerVars, chanVars, streamVars, Unused
<1>0. Unused
  BY DEF UnusedInv
<1>1. CASE HandleOnConnect
  BY <1>0, <1>1 DEF HandleOnConnect, OnConnectLock, OnConnectRLock, OnConnectResubscribe,
                    OnConnectReply, OnConnectReturn, Untouched
<1>2. CASE SubscribeRequest \/ CleanupRequest
  <2>1. conn' = conn /\ (~conn => UNCHANGED <<linkVars, topics, retainedMsgs, msg, todo, chan, recv, connLock, connStep>>)
    BY <1>2 DEF SubscribeRequest, CleanupRequest
  <2>2. ~conn => Untouched'
    BY <1>0, <2>1 DEF Untouched
  <2>3. panic' = "nil conn" => ~conn
    BY <1>2 DEF SubscribeRequest, CleanupRequest
  <2>4. QED BY <2>1, <2>2, <2>3
<1>3. CASE SubscribeReply \/ SubscribeLock \/ SubscribeStore \/ CleanupReply
  BY <1>0, <1>3 DEF SubscribeReply, SubscribeLock, SubscribeStore, CleanupReply, Untouched
<1>4. CASE \/ \E u \in TypeUrls : SubscribeDo(u) \/ SubscribeConnLock(u)
           \/ \E t \in Topics : SubscribeDone(t)
           \/ \E s \in Streams : CleanupConnLock(s)
  BY <1>0, <1>4 DEF SubscribeDo, SubscribeConnLock, SubscribeDone, CleanupConnLock, TakeConnLock, Untouched
<1>5. QED BY <1>1, <1>2, <1>3, <1>4 DEF Subscribe, Cleanup

LEMMA UnusedOutside ==
    ASSUME UnusedInv, panic = "none", (HandleMessage /\ UNCHANGED streamVars) \/ Publishers \/ Link
    PROVE  Unused'
<1> USE DEF linkVars, connVars, lockVars, mapVars, handlerVars, chanVars, streamVars, brokerVars, Unused
<1>0. Unused
  BY DEF UnusedInv
<1>1. CASE HandleMessage /\ UNCHANGED streamVars
  BY <1>0, <1>1 DEF HandleMessage, HandlerTake, HandlerRLock, HandlerSend, HandlerReturn, LinkTake, Untouched
<1>2. CASE Publishers
  <2>1. /\ UNCHANGED <<brokerVars, streamVars, subs, inbox, reply>>
        /\ subs = {} => wire' = wire
    BY <1>2 DEF Publishers, Publish, ForeignPublish, ServerPublish
  <2>2. Untouched => Untouched'
    <3> SUFFICES ASSUME Untouched PROVE Untouched'
      OBVIOUS
    <3>1. subs = {}
      BY DEF Untouched
    <3>2. QED BY <2>1, <3>1 DEF Untouched
  <2>3. conn' = conn /\ panic' = panic
    BY <2>1
  <2>4. QED BY <1>0, <2>2, <2>3
<1>3. CASE Link
  BY <1>0, <1>3 DEF Link, ReadPacket, LoseConnection, Reconnect, LinkReconnect, Untouched
<1>4. QED BY <1>1, <1>2, <1>3

LEMMA UnusedStream ==
    ASSUME UnusedInv, panic = "none", NEW s \in Streams, Stream(s)
    PROVE  Unused'
<1> USE DEF linkVars, connVars, lockVars, mapVars, handlerVars, chanVars, streamVars, brokerVars
<1>0. /\ Unused /\ StreamTypeOK /\ BrokerTypeOK /\ conn' = conn
      /\ panic' \in {"none", "closed channel"}
  BY DEF UnusedInv, TypeInv, TypeOK, Stream, Receive, ReceiveLock, SubscribeAdd, SubscribeSend, ReceiveEnd,
         ContextDone, Clean, UnsubscribeLock, UnsubscribeAll, CloseChannel, Send, SendOk, SendError, RangeEnd
<1> SUFFICES ASSUME ~conn, Untouched PROVE Untouched'
  BY <1>0 DEF Unused
<1>1. CASE SubscribeAdd(s)
  <2>1. Head(requests[s]) \in TypeUrls
    BY <1>0, <1>1, RequestType DEF SubscribeAdd, UnusedInv, TypeInv, RequestAtHand
  <2>2. retainedMsgs[Head(requests[s])] = 0
    BY <2>1 DEF Untouched
  <2>3. \A t \in Streams : recv'[t] # "sending"
    BY <1>0, <1>1, <2>2 DEF SubscribeAdd, SubscribeReturn, Untouched, StreamTypeOK
  <2>4. UNCHANGED <<subs, topics, chan, wire, inbox, msg, todo, retainedMsgs, connLock, connStep, reply>>
    BY <1>1 DEF SubscribeAdd
  <2>5. QED BY <2>3, <2>4 DEF Untouched
<1>2. CASE ReceiveLock(s) \/ SubscribeSend(s) \/ ReceiveEnd(s)
  <2>1. ~SubscribeSend(s)
    BY DEF SubscribeSend, Untouched
  <2>2. \A t \in Streams : recv'[t] # "sending"
    BY <1>0, <1>2, <2>1 DEF ReceiveLock, ReceiveEnd, Untouched, StreamTypeOK
  <2>3. UNCHANGED <<subs, topics, chan, wire, inbox, msg, todo, retainedMsgs, connLock, connStep, reply>>
    BY <1>2, <2>1 DEF ReceiveLock, ReceiveEnd
  <2>4. QED BY <2>2, <2>3 DEF Untouched
<1>3. CASE UnsubscribeAll(s)
  <2>1. topics' = {} /\ \A u \in TypeUrls : retainedMsgs'[u] = 0
    BY <1>3 DEF UnsubscribeAll, RemoveEverywhere, Untouched
  <2>2. UNCHANGED <<subs, chan, wire, inbox, msg, todo, connLock, connStep, reply, recv>>
    BY <1>3 DEF UnsubscribeAll
  <2>3. QED BY <2>1, <2>2 DEF Untouched
<1>4. CASE ContextDone(s) \/ UnsubscribeLock(s) \/ CloseChannel(s) \/ Send(s)
  BY <1>4 DEF ContextDone, UnsubscribeLock, CloseChannel, Send, SendOk, SendError, RangeEnd, Untouched
<1>5. QED BY <1>1, <1>2, <1>3, <1>4 DEF Stream, Receive, Clean

LEMMA UnusedStep == UnusedInv /\ [Next]_vars => UnusedInv'
<1> SUFFICES ASSUME UnusedInv, [Next]_vars PROVE Unused'
  BY TypeInvStep DEF UnusedInv
<1>1. CASE UNCHANGED vars
  BY <1>1 DEF vars, UnusedInv, Unused, Untouched, linkVars, brokerVars, connVars, mapVars, handlerVars,
              chanVars, streamVars
<1>2. CASE Next
  BY <1>2, UnusedBroker, UnusedOutside, UnusedStream DEF Next
<1>3. QED BY <1>1, <1>2

(* broker.go:117 and 171: the process dies of a nil b.conn only if nothing *)
(* has been subscribed and no stream has got anything.                     *)
THEOREM DyingLosesNothing == Spec => []DiesUnused
<1>1. Init => UnusedInv
  <2> SUFFICES ASSUME Init PROVE UnusedInv
    OBVIOUS
  <2>1. TypeInv
    BY InitType
  <2>2. Unused
    BY DEF Init, LinkInit, BrokerInit, Unused, Untouched
  <2>3. QED BY <2>1, <2>2 DEF UnusedInv
<1>2. UnusedInv => DiesUnused
  BY DEF UnusedInv, Unused, Untouched, DiesUnused
<1>3. QED BY <1>1, <1>2, UnusedStep, PTL DEF Spec

-----------------------------------------------------------------------------
(* Receivers and subscriptions, while clients stay and the connection      *)
(* holds.                                                                  *)

(* The type URLs clients ask for, each in one spelling: none is another's  *)
(* with the prefix.                                                        *)
Asked == {u \in TypeUrls : \E r \in Scripts : \E i \in DOMAIN r : r[i] = u}

OneSpelling == \A u, v \in Asked : Trim[u] \in {v, Trim[v]} => u = v

AskedOnly ==
    /\ \A s \in Streams : \A i \in DOMAIN requests[s] : requests[s][i] \in Asked
    /\ \A u \in TypeUrls : spawned[u] > 0 => u \in Asked
    /\ leading \subseteq Asked
    /\ connLock = "subscribe" => connUrls \subseteq Asked
    /\ topics \subseteq Asked

Undisturbed == Staying /\ drops = 0

(* u is subscribed, or its subscribe(typeUrl) holds connLock.              *)
AtHand(u) == u \in topics \/ (connLock = "subscribe" /\ u \in connUrls)

KnownTopics == {Trim[u] : u \in {v \in TypeUrls : AtHand(v)}}

(* Retained messages come only from topics that are at hand.               *)
AllKnown(q, K) == \A i \in DOMAIN q : q[i] # Ack /\ q[i].retained => q[i].topic \in K

RetainedKnown ==
    /\ AllKnown(wire, KnownTopics) /\ AllKnown(inbox, KnownTopics) /\ AllKnown(msg, KnownTopics)
    /\ \A u \in TypeUrls : retainedMsgs[u] # 0 => u \in KnownTopics

(* A goroutine that singleflight turned away relies on one that stores, or *)
(* has stored, the same URL.                                               *)
KeysHeld == \A u \in Asked : Trim[u] \in inFlight => u \in leading \/ AtHand(u)

ServedPart ==
    /\ up /\ reply # "error"
    /\ ReceiversServed /\ KeysHeld /\ RetainedKnown

ServedInv == TopicInv /\ AskedOnly /\ (Undisturbed => ServedPart)

LEMMA AllKnownSeq ==
    ASSUME NEW S, NEW q \in Seq(S), NEW K, AllKnown(q, K)
    PROVE  /\ \A L : K \subseteq L => AllKnown(q, L)
           /\ q # <<>> => AllKnown(Tail(q), K) /\ (Head(q) # Ack /\ Head(q).retained => Head(q).topic \in K)
           /\ \A m \in S : (m # Ack /\ m.retained => m.topic \in K) => AllKnown(Append(q, m), K)
           /\ \A r \in Seq(S) : AllKnown(r, K) => AllKnown(q \o r, K)
<1>1. \A L : K \subseteq L => AllKnown(q, L)
  BY DEF AllKnown
<1>2. ASSUME q # <<>> PROVE AllKnown(Tail(q), K) /\ (Head(q) # Ack /\ Head(q).retained => Head(q).topic \in K)
  <2>1. \A i \in DOMAIN Tail(q) : i + 1 \in DOMAIN q /\ Tail(q)[i] = q[i + 1]
    BY <1>2
  <2>2. 1 \in DOMAIN q /\ Head(q) = q[1]
    BY <1>2
  <2>3. QED BY <2>1, <2>2 DEF AllKnown
<1>3. ASSUME NEW m \in S, m # Ack /\ m.retained => m.topic \in K PROVE AllKnown(Append(q, m), K)
  <2>1. \A i \in DOMAIN Append(q, m) : (i \in DOMAIN q /\ Append(q, m)[i] = q[i]) \/ Append(q, m)[i] = m
    OBVIOUS
  <2>2. QED BY <1>3, <2>1 DEF AllKnown
<1>4. ASSUME NEW r \in Seq(S), AllKnown(r, K) PROVE AllKnown(q \o r, K)
  <2>1. ASSUME NEW i \in DOMAIN (q \o r)
        PROVE  (i \in DOMAIN q /\ (q \o r)[i] = q[i]) \/ (i - Len(q) \in DOMAIN r /\ (q \o r)[i] = r[i - Len(q)])
    OBVIOUS
  <2>2. QED BY <1>4, <2>1 DEF AllKnown
<1>5. QED BY <1>1, <1>2, <1>3, <1>4

(* What is at hand stays at hand, and so does what came from it.           *)
LEMMA KnownKept ==
    ASSUME TypeOK, RetainedKnown, UNCHANGED <<wire, inbox, msg, retainedMsgs>>,
           \A u \in TypeUrls : AtHand(u) => AtHand(u)'
    PROVE  RetainedKnown' /\ KnownTopics \subseteq KnownTopics'
<1>1. KnownTopics \subseteq KnownTopics'
  BY DEF KnownTopics
<1>2. wire \in Seq(Messages \union {Ack}) /\ inbox \in Seq(Messages) /\ msg \in Seq(Messages)
  <2>1. msg \in {<<>>} \union {<<m>> : m \in Messages}
    BY DEF TypeOK, BrokerTypeOK
  <2>2. QED BY <2>1, EmptySeq, SingletonSeq DEF TypeOK, LinkTypeOK
<1>3. AllKnown(wire, KnownTopics') /\ AllKnown(inbox, KnownTopics') /\ AllKnown(msg, KnownTopics')
  BY <1>1, <1>2, AllKnownSeq DEF RetainedKnown
<1>4. QED BY <1>1, <1>3 DEF RetainedKnown

LEMMA ServedUnchanged ==
    ASSUME TypeOK, ServedPart,
           UNCHANGED <<wire, inbox, msg, retainedMsgs, topics, connLock, connUrls, up, reply, receivers,
                       spawned, leading, inFlight>>
    PROVE  ServedPart'
<1>1. \A u \in TypeUrls : AtHand(u)' = AtHand(u)
  BY DEF AtHand
<1>2. RetainedKnown'
  BY <1>1, KnownKept DEF ServedPart
<1>3. ReceiversServed' /\ KeysHeld'
  BY DEF ServedPart, ReceiversServed, Subscribing, KeysHeld, AtHand
<1>4. QED BY <1>2, <1>3 DEF ServedPart

LEMMA AskedStep ==
    ASSUME TrackInv, AskedOnly, Next
    PROVE  AskedOnly'
<1> USE DEF linkVars, connVars, lockVars, mapVars, goVars, handlerVars, chanVars, brokerVars, streamVars
<1>0. /\ spawned \in [TypeUrls -> Nat] /\ topics \subseteq TypeUrls
      /\ requests \in [Streams -> Seq(TypeUrls)] /\ RequestAtHand /\ StreamTypeOK /\ BrokerTypeOK
  BY DEF TrackInv, TypeInv, TypeOK, BrokerTypeOK, StreamTypeOK
<1>1. CASE UNCHANGED <<requests, spawned, leading, topics>> /\ (connLock' = "subscribe" => connLock = "subscribe" /\ connUrls' = connUrls)
  BY <1>1 DEF AskedOnly
<1>2. CASE HandleOnConnect /\ UNCHANGED streamVars
  <2>1. UNCHANGED <<requests, spawned, leading, topics>> /\ connLock' # "subscribe"
    BY <1>2 DEF HandleOnConnect, OnConnectLock, OnConnectRLock, OnConnectResubscribe, OnConnectReply,
                OnConnectReturn, TakeConnLock, ReleaseConnLock
  <2>2. QED BY <1>1, <2>1
<1>3. CASE Subscribe /\ UNCHANGED streamVars
  <2>1. ASSUME NEW u \in TypeUrls, SubscribeDo(u) PROVE AskedOnly'
    <3>1. \A v \in TypeUrls : spawned'[v] > 0 => spawned[v] > 0
      BY <1>0, <2>1 DEF SubscribeDo
    <3>2. leading' \subseteq leading \union {u} /\ spawned[u] > 0
      BY <2>1 DEF SubscribeDo
    <3>3. UNCHANGED <<requests, topics, connLock, connUrls>>
      BY <1>3, <2>1 DEF SubscribeDo
    <3>4. QED BY <3>1, <3>2, <3>3 DEF AskedOnly
  <2>2. ASSUME NEW u \in TypeUrls, SubscribeConnLock(u) PROVE AskedOnly'
    <3>1. leading' = leading \ {u} /\ connUrls' = {u} /\ u \in leading /\ UNCHANGED <<requests, topics, spawned>>
      BY <1>3, <2>2 DEF SubscribeConnLock, TakeConnLock
    <3>2. QED BY <3>1 DEF AskedOnly
  <2>3. CASE SubscribeRequest \/ SubscribeReply \/ SubscribeLock \/ (\E t \in Topics : SubscribeDone(t))
    <3>1. UNCHANGED <<requests, spawned, leading, topics>>
          /\ (connLock' = "subscribe" => connLock = "subscribe" /\ connUrls' = connUrls)
      BY <1>3, <2>3 DEF SubscribeRequest, SubscribeReply, SubscribeLock, SubscribeDone, ReleaseConnLock
    <3>2. QED BY <1>1, <3>1
  <2>4. CASE SubscribeStore
    <3>1. UNCHANGED <<requests, spawned, leading>> /\ topics' = topics \union connUrls
          /\ connLock = "subscribe" /\ connLock' = "free"
      BY <1>3, <2>4 DEF SubscribeStore, ReleaseConnLock
    <3>2. QED BY <3>1 DEF AskedOnly
  <2>5. QED BY <1>3, <2>1, <2>2, <2>3, <2>4 DEF Subscribe
<1>4. CASE (Cleanup \/ HandleMessage) /\ UNCHANGED streamVars
  <2>1. UNCHANGED <<requests, spawned, leading, topics>>
        /\ (connLock' = "subscribe" => connLock = "subscribe" /\ connUrls' = connUrls)
    BY <1>4 DEF Cleanup, CleanupConnLock, CleanupRequest, CleanupReply, TakeConnLock, ReleaseConnLock,
                HandleMessage, HandlerTake, HandlerRLock, HandlerSend, HandlerReturn
  <2>2. QED BY <1>1, <2>1
<1>5. CASE Publishers \/ Link
  <2>1. UNCHANGED <<requests, spawned, leading, topics, connLock, connUrls>>
    BY <1>5 DEF Publishers, Publish, ForeignPublish, Link, Reconnect
  <2>2. QED BY <1>1, <2>1
<1>6. ASSUME NEW s \in Streams, Stream(s) PROVE AskedOnly'
  <2>1. CASE SubscribeAdd(s) \/ SubscribeSend(s)
    <3> DEFINE u == Head(requests[s])
    <3>1. requests[s] # <<>>
      BY <1>0, <2>1 DEF RequestAtHand, SubscribeAdd, SubscribeSend
    <3>2. u \in TypeUrls /\ u \in Asked
      <4>1. requests[s] \in Seq(TypeUrls) /\ 1 \in DOMAIN requests[s] /\ u = requests[s][1]
        BY <1>0, <3>1
      <4>2. QED BY <4>1, <1>0, <3>1, RequestType DEF AskedOnly
    <3>3. UNCHANGED <<topics, leading, connLock, connUrls>>
      BY <2>1 DEF SubscribeAdd, SubscribeSend
    <3>4. CASE UNCHANGED <<requests, spawned>>
      BY <3>3, <3>4 DEF AskedOnly
    <3>5. CASE SubscribeReturn(s)
      <4>1. requests' = [requests EXCEPT ![s] = Tail(@)] /\ SpawnSubscribe(u)
        BY <3>5 DEF SubscribeReturn
      <4>2. \A v \in TypeUrls : spawned'[v] > 0 => spawned[v] > 0 \/ v = u
        BY <1>0, <3>2, <4>1 DEF SpawnSubscribe
      <4>3. ASSUME NEW t \in Streams, NEW i \in DOMAIN requests'[t] PROVE requests'[t][i] \in Asked
        <5>1. CASE t = s
          <6>1. requests'[t] = Tail(requests[s]) /\ requests[s] \in Seq(TypeUrls)
            BY <1>0, <4>1, <5>1
          <6>2. i + 1 \in DOMAIN requests[s] /\ requests'[t][i] = requests[s][i + 1]
            BY <3>1, <4>3, <6>1
          <6>3. QED BY <6>2 DEF AskedOnly
        <5>2. CASE t # s
          BY <1>0, <4>1, <4>3, <5>2 DEF AskedOnly
        <5>3. QED BY <5>1, <5>2
      <4> HIDE DEF u
      <4>4. QED BY <3>2, <3>3, <4>2, <4>3 DEF AskedOnly
    <3>6. QED BY <2>1, <3>4, <3>5 DEF SubscribeAdd, SubscribeSend
  <2>2. CASE UnsubscribeAll(s)
    <3>1. topics' \subseteq topics /\ UNCHANGED <<requests, spawned, leading, connLock, connUrls>>
      BY <2>2 DEF UnsubscribeAll, RemoveEverywhere
    <3>2. QED BY <3>1 DEF AskedOnly
  <2>3. CASE ReceiveLock(s) \/ ReceiveEnd(s) \/ ContextDone(s) \/ UnsubscribeLock(s) \/ CloseChannel(s) \/ Send(s)
    <3>1. UNCHANGED <<requests, spawned, leading, topics, connLock, connUrls>>
      BY <2>3 DEF ReceiveLock, ReceiveEnd, ContextDone, UnsubscribeLock, CloseChannel, Send, SendOk,
                  SendError, RangeEnd
    <3>2. QED BY <1>1, <3>1
  <2>4. QED BY <1>6, <2>1, <2>2, <2>3 DEF Stream, Receive, Clean
<1>7. QED BY <1>2, <1>3, <1>4, <1>5, <1>6 DEF Next

(* The answer to a SUBSCRIBE.                                              *)
LEMMA StoredKnown ==
    ASSUME TypeOK, NEW u \in TypeUrls, NEW K, Trim[u] \in K, AllKnown(wire, K)
    PROVE  AllKnown(wire \o <<Ack>> \o StoredMessage(Trim[u]), K)
<1> DEFINE t == Trim[u]
           S == Messages \union {Ack}
<1>1. wire \in Seq(S) /\ StoredMessage(t) \in Seq(S) /\ <<Ack>> \in Seq(S) /\ LinkTypeOK
  BY TopicsAreUrls, StoredMessageType, SingletonSeq DEF TypeOK, LinkTypeOK
<1>2. AllKnown(<<Ack>>, K)
  BY DEF AllKnown
<1>3. AllKnown(StoredMessage(t), K)
  BY DEF AllKnown, StoredMessage, Message
<1> HIDE DEF S, t
<1>4. wire \o <<Ack>> \in Seq(S) /\ AllKnown(wire \o <<Ack>>, K)
  <2> DEFINE a == <<Ack>>
  <2>1. a \in Seq(S) /\ AllKnown(a, K)
    BY <1>1, <1>2
  <2> HIDE DEF a
  <2>2. wire \o a \in Seq(S)
    BY <1>1, <2>1, ConcatProperties
  <2>3. AllKnown(wire \o a, K)
    BY <1>1, <2>1, AllKnownSeq
  <2>4. QED BY <2>2, <2>3 DEF a
<1>5. AllKnown((wire \o <<Ack>>) \o StoredMessage(t), K)
  BY <1>1, <1>3, <1>4, AllKnownSeq
<1>6. QED BY <1>5 DEF t

LEMMA ServedOnConnect ==
    ASSUME TopicInv, Undisturbed, ServedPart, HandleOnConnect
    PROVE  ServedPart'
<1> USE DEF connVars, lockVars, mapVars, goVars, handlerVars, chanVars
<1>0. /\ TypeOK /\ ConnSteps /\ up /\ reply # "error" /\ topics \subseteq TypeUrls
  BY DEF TopicInv, TrackInv, TypeInv, TypeOK, BrokerTypeOK, ServedPart
<1>1. CASE OnConnectResubscribe
  <2>1. PICK u \in connUrls : LinkSubscribe(Trim[u])
    BY <1>1 DEF OnConnectResubscribe
  <2>2. /\ connLock = "connect" /\ UNCHANGED <<connLock, topics, receivers, retainedMsgs, spawned, leading,
                                                inFlight, msg, inbox, up>>
        /\ wire' = wire \o <<Ack>> \o StoredMessage(Trim[u]) /\ reply' = "waiting"
    BY <1>0, <1>1, <2>1 DEF OnConnectResubscribe, LinkSubscribe
  <2>3. u \in topics
    BY <1>0, <1>1 DEF OnConnectResubscribe, ConnSteps
  <2>4. \A v \in TypeUrls : AtHand(v)' = AtHand(v)
    BY <2>2 DEF AtHand
  <2>5. KnownTopics' = KnownTopics /\ Trim[u] \in KnownTopics
    BY <1>0, <2>3, <2>4 DEF KnownTopics, AtHand
  <2>6. AllKnown(wire', KnownTopics)
    BY <1>0, <2>2, <2>3, <2>5, StoredKnown DEF ServedPart, RetainedKnown
  <2>7. RetainedKnown'
    BY <2>2, <2>5, <2>6 DEF RetainedKnown, ServedPart
  <2>8. ReceiversServed' /\ KeysHeld'
    BY <2>2 DEF ServedPart, ReceiversServed, Subscribing, KeysHeld, AtHand
  <2>9. QED BY <2>2, <2>7, <2>8, <1>0 DEF ServedPart
<1>2. CASE OnConnectLock \/ OnConnectRLock \/ OnConnectReply \/ OnConnectReturn
  <2>1. /\ UNCHANGED <<wire, inbox, msg, retainedMsgs, topics, up, receivers, spawned, leading, inFlight>>
        /\ connLock # "subscribe" /\ connLock' # "subscribe" /\ reply' \in {"none", reply}
    BY <1>2 DEF OnConnectLock, OnConnectRLock, OnConnectReply, OnConnectReturn, TakeConnLock,
                ReleaseConnLock, LinkReturn, linkVars
  <2>2. \A v \in TypeUrls : AtHand(v)' = AtHand(v)
    BY <2>1 DEF AtHand
  <2>3. RetainedKnown'
    BY <1>0, <2>1, <2>2, KnownKept DEF ServedPart
  <2>4. ReceiversServed' /\ KeysHeld'
    BY <2>1 DEF ServedPart, ReceiversServed, Subscribing, KeysHeld, AtHand
  <2>5. QED BY <1>0, <2>1, <2>3, <2>4 DEF ServedPart
<1>3. QED BY <1>1, <1>2 DEF HandleOnConnect

LEMMA ServedSubscribe ==
    ASSUME OneSpelling, TopicInv, AskedOnly, Undisturbed, ServedPart, Subscribe
    PROVE  ServedPart'
<1> USE DEF connVars, lockVars, mapVars, goVars, handlerVars, chanVars
<1>0. /\ TypeOK /\ ConnSteps /\ up /\ reply # "error" /\ topics \subseteq TypeUrls
      /\ connUrls \subseteq TypeUrls /\ spawned \in [TypeUrls -> Nat] /\ leading \subseteq TypeUrls
  BY DEF TopicInv, TrackInv, TypeInv, TypeOK, BrokerTypeOK, ServedPart
<1>1. ASSUME NEW u \in TypeUrls, SubscribeDo(u) PROVE ServedPart'
  <2>1. /\ UNCHANGED <<wire, inbox, msg, retainedMsgs, topics, up, receivers, connLock, connUrls, reply>>
        /\ spawned[u] > 0 /\ spawned' = [spawned EXCEPT ![u] = @ - 1]
        /\ IF Trim[u] \in inFlight
           THEN UNCHANGED <<leading, inFlight>>
           ELSE leading' = leading \union {u} /\ inFlight' = inFlight \union {Trim[u]}
    BY <1>1 DEF SubscribeDo, linkVars
  <2>2. \A v \in TypeUrls : AtHand(v)' = AtHand(v)
    BY <2>1 DEF AtHand
  <2>3. RetainedKnown'
    BY <1>0, <2>1, <2>2, KnownKept DEF ServedPart
  <2>4. u \in Asked
    BY <2>1 DEF AskedOnly
  <2>5. ASSUME NEW v \in Asked, Trim[v] \in inFlight' PROVE v \in leading' \/ AtHand(v)'
    <3>0. v \in TypeUrls
      BY DEF Asked
    <3>1. CASE Trim[v] \in inFlight
      BY <2>1, <2>2, <3>0, <3>1 DEF ServedPart, KeysHeld
    <3>2. CASE Trim[v] \notin inFlight
      <4>1. Trim[v] = Trim[u] /\ Trim[u] \notin inFlight
        BY <2>1, <2>5, <3>2
      <4>2. v = u
        BY <2>4, <4>1 DEF OneSpelling
      <4>3. QED BY <2>1, <4>1, <4>2
    <3>3. QED BY <3>1, <3>2
  <2>6. ASSUME NEW v \in TypeUrls, receivers[v] # <<>> PROVE v \in topics \/ Subscribing(v)'
    <3>1. v \in topics \/ Subscribing(v)
      BY <2>6 DEF ServedPart, ReceiversServed
    <3>2. CASE v = u
      <4>1. u \in leading' \/ AtHand(u)'
        <5>1. CASE Trim[u] \in inFlight'
          BY <2>4, <2>5, <5>1
        <5>2. CASE Trim[u] \notin inFlight'
          BY <2>1, <5>2
        <5>3. QED BY <5>1, <5>2
      <4>2. QED BY <2>1, <3>2, <4>1 DEF AtHand, Subscribing
    <3>3. CASE v # u
      <4>1. spawned'[v] = spawned[v]
        BY <1>0, <2>1, <3>3
      <4>2. leading \subseteq leading'
        BY <2>1
      <4>3. QED BY <2>1, <3>1, <4>1, <4>2 DEF Subscribing
    <3>4. QED BY <3>2, <3>3
  <2>7. ReceiversServed' /\ KeysHeld'
    BY <2>1, <2>5, <2>6 DEF ReceiversServed, KeysHeld
  <2>8. QED BY <1>0, <2>1, <2>3, <2>7 DEF ServedPart
<1>2. ASSUME NEW u \in TypeUrls, SubscribeConnLock(u) PROVE ServedPart'
  <2>1. /\ UNCHANGED <<wire, inbox, msg, retainedMsgs, topics, up, receivers, reply, spawned, inFlight>>
        /\ leading' = leading \ {u} /\ connLock = "free" /\ connLock' = "subscribe" /\ connUrls' = {u}
    BY <1>2 DEF SubscribeConnLock, TakeConnLock, linkVars
  <2>2. \A v \in TypeUrls : AtHand(v) => AtHand(v)'
    BY <2>1 DEF AtHand
  <2>3. RetainedKnown'
    BY <1>0, <2>1, <2>2, KnownKept DEF ServedPart
  <2>4. ReceiversServed' /\ KeysHeld'
    BY <2>1 DEF ServedPart, ReceiversServed, Subscribing, KeysHeld, AtHand
  <2>5. QED BY <1>0, <2>1, <2>3, <2>4 DEF ServedPart
<1>3. CASE SubscribeRequest
  <2>1. CASE conn
    <3>1. PICK u \in connUrls : LinkSubscribe(Trim[u])
      BY <1>3, <2>1 DEF SubscribeRequest
    <3>2. /\ connLock = "subscribe" /\ UNCHANGED <<connLock, connUrls, topics, receivers, retainedMsgs, spawned,
                                                    leading, inFlight, msg, inbox, up>>
          /\ wire' = wire \o <<Ack>> \o StoredMessage(Trim[u]) /\ reply' = "waiting"
      BY <1>0, <1>3, <2>1, <3>1 DEF SubscribeRequest, LinkSubscribe
    <3>3. \A v \in TypeUrls : AtHand(v)' = AtHand(v)
      BY <3>2 DEF AtHand
    <3>4. KnownTopics' = KnownTopics /\ Trim[u] \in KnownTopics /\ u \in TypeUrls
      BY <1>0, <3>2, <3>3 DEF KnownTopics, AtHand
    <3>5. AllKnown(wire', KnownTopics)
      BY <1>0, <3>2, <3>4, StoredKnown DEF ServedPart, RetainedKnown
    <3>6. RetainedKnown'
      BY <3>2, <3>4, <3>5 DEF RetainedKnown, ServedPart
    <3>7. ReceiversServed' /\ KeysHeld'
      BY <3>2 DEF ServedPart, ReceiversServed, Subscribing, KeysHeld, AtHand
    <3>8. QED BY <1>0, <3>2, <3>6, <3>7 DEF ServedPart
  <2>2. CASE ~conn
    <3>1. UNCHANGED <<wire, inbox, msg, retainedMsgs, topics, connLock, connUrls, up, reply, receivers,
                       spawned, leading, inFlight>>
      BY <1>3, <2>2 DEF SubscribeRequest, linkVars
    <3>2. QED BY <1>0, <3>1, ServedUnchanged
  <2>3. QED BY <2>1, <2>2
<1>4. CASE SubscribeReply \/ SubscribeLock
  <2>1. /\ UNCHANGED <<wire, inbox, msg, retainedMsgs, topics, up, receivers, connLock, connUrls, spawned,
                       leading, inFlight>>
        /\ reply' \in {"none", reply}
    BY <1>0, <1>4 DEF SubscribeReply, SubscribeLock, LinkReturn, linkVars
  <2>2. \A v \in TypeUrls : AtHand(v)' = AtHand(v)
    BY <2>1 DEF AtHand
  <2>3. RetainedKnown'
    BY <1>0, <2>1, <2>2, KnownKept DEF ServedPart
  <2>4. ReceiversServed' /\ KeysHeld'
    BY <2>1 DEF ServedPart, ReceiversServed, Subscribing, KeysHeld, AtHand
  <2>5. QED BY <1>0, <2>1, <2>3, <2>4 DEF ServedPart
<1>5. CASE SubscribeStore
  <2>1. /\ UNCHANGED <<wire, inbox, msg, retainedMsgs, up, receivers, reply, spawned, leading, inFlight>>
        /\ connLock = "subscribe" /\ connLock' = "free" /\ topics' = topics \union connUrls
    BY <1>5 DEF SubscribeStore, ReleaseConnLock, linkVars
  <2>2. \A v \in TypeUrls : AtHand(v) => AtHand(v)'
    BY <2>1 DEF AtHand
  <2>3. RetainedKnown'
    BY <1>0, <2>1, <2>2, KnownKept DEF ServedPart
  <2>4. ReceiversServed' /\ KeysHeld'
    BY <2>1 DEF ServedPart, ReceiversServed, Subscribing, KeysHeld, AtHand
  <2>5. QED BY <1>0, <2>1, <2>3, <2>4 DEF ServedPart
<1>6. ASSUME NEW t \in Topics, SubscribeDone(t) PROVE ServedPart'
  <2>1. /\ UNCHANGED <<wire, inbox, msg, retainedMsgs, topics, connLock, connUrls, up, reply, receivers,
                       spawned, leading>>
        /\ inFlight' \subseteq inFlight
    BY <1>6 DEF SubscribeDone, linkVars
  <2>2. \A v \in TypeUrls : AtHand(v)' = AtHand(v)
    BY <2>1 DEF AtHand
  <2>3. RetainedKnown'
    BY <1>0, <2>1, <2>2, KnownKept DEF ServedPart
  <2>4. ReceiversServed' /\ KeysHeld'
    BY <2>1 DEF ServedPart, ReceiversServed, Subscribing, KeysHeld, AtHand
  <2>5. QED BY <1>0, <2>1, <2>3, <2>4 DEF ServedPart
<1>7. QED BY <1>1, <1>2, <1>3, <1>4, <1>5, <1>6 DEF Subscribe

LEMMA ServedOutside ==
    ASSUME TopicInv, Undisturbed, ServedPart, HandleMessage \/ Publishers \/ Link, Undisturbed'
    PROVE  ServedPart'
<1> USE DEF connVars, lockVars, mapVars, goVars, handlerVars, chanVars, brokerVars
<1> DEFINE K == KnownTopics
<1>0. /\ TypeOK /\ up /\ reply # "error" /\ RetainedKnown
      /\ wire \in Seq(Messages \union {Ack}) /\ inbox \in Seq(Messages) /\ drops \in Nat
  BY LinkAssumption DEF TopicInv, TrackInv, TypeInv, TypeOK, LinkTypeOK, ServedPart
<1>1. ASSUME UNCHANGED <<topics, connLock, connUrls, up, receivers, spawned, leading, inFlight>>,
             AllKnown(wire', K), AllKnown(inbox', K), AllKnown(msg', K),
             \A u \in TypeUrls : retainedMsgs'[u] # 0 => u \in K,
             reply' \in {reply, "ok"}
      PROVE  ServedPart'
  <2>1. \A v \in TypeUrls : AtHand(v)' = AtHand(v)
    BY <1>1 DEF AtHand
  <2>2. KnownTopics' = KnownTopics
    BY <2>1 DEF KnownTopics
  <2>3. RetainedKnown'
    BY <1>1, <2>2 DEF RetainedKnown
  <2>4. ReceiversServed' /\ KeysHeld'
    BY <1>1 DEF ServedPart, ReceiversServed, Subscribing, KeysHeld, AtHand
  <2>5. QED BY <1>0, <1>1, <2>3, <2>4 DEF ServedPart
<1> HIDE DEF K
<1>2. /\ AllKnown(wire, K) /\ AllKnown(inbox, K) /\ AllKnown(msg, K)
      /\ \A u \in TypeUrls : retainedMsgs[u] # 0 => u \in K
  BY <1>0 DEF RetainedKnown, K
<1>3. CASE HandlerTake
  <2>1. /\ inbox # <<>> /\ inbox' = Tail(inbox)
        /\ msg' = <<Head(inbox)>> \/ msg' = <<>>
        /\ UNCHANGED <<topics, connLock, connUrls, up, receivers, spawned, leading, inFlight, wire,
                       retainedMsgs, reply>>
    BY <1>3 DEF HandlerTake, LinkTake
  <2>2. AllKnown(inbox', K) /\ (Head(inbox) # Ack /\ Head(inbox).retained => Head(inbox).topic \in K)
    BY <1>0, <1>2, <2>1, AllKnownSeq
  <2>3. AllKnown(msg', K)
    BY <2>1, <2>2 DEF AllKnown
  <2>4. QED BY <1>1, <1>2, <2>1, <2>2, <2>3
<1>4. CASE HandlerRLock
  <2>1. /\ msg # <<>>
        /\ retainedMsgs' = IF msg[1].retained THEN [retainedMsgs EXCEPT ![msg[1].topic] = msg[1].id] ELSE retainedMsgs
        /\ UNCHANGED <<topics, connLock, connUrls, up, receivers, spawned, leading, inFlight, wire,
                       inbox, msg, reply>>
    BY <1>4 DEF HandlerRLock, linkVars
  <2>2. msg[1] # Ack /\ 1 \in DOMAIN msg
    <3>1. msg \in {<<>>} \union {<<m>> : m \in Messages}
      BY <1>0 DEF TypeOK, BrokerTypeOK
    <3>2. QED BY <2>1, <3>1, MessageNotAck
  <2>3. msg[1].retained => msg[1].topic \in K
    BY <1>2, <2>2 DEF AllKnown
  <2>4. retainedMsgs \in [TypeUrls -> 0 .. MaxEvents]
    BY <1>0 DEF TypeOK, BrokerTypeOK
  <2>5. \A u \in TypeUrls : retainedMsgs'[u] # 0 => u \in K
    BY <1>2, <2>1, <2>3, <2>4
  <2>6. QED BY <1>1, <1>2, <2>1, <2>5
<1>5. CASE HandlerSend \/ HandlerReturn
  <2>1. /\ UNCHANGED <<topics, connLock, connUrls, up, receivers, spawned, leading, inFlight, wire,
                       inbox, reply, retainedMsgs>>
        /\ msg' \in {msg, <<>>}
    BY <1>5 DEF HandlerSend, HandlerReturn, linkVars
  <2>2. AllKnown(msg', K)
    BY <1>2, <2>1 DEF AllKnown
  <2>3. QED BY <1>1, <1>2, <2>1, <2>2
<1>6. CASE Publishers
  <2>1. PICK u \in TypeUrls, retain \in BOOLEAN : ServerPublish(Trim[u], retain) /\ UNCHANGED brokerVars
    BY <1>6 DEF Publishers, Publish, ForeignPublish
  <2> DEFINE m == Message(published + 1, Trim[u], FALSE)
  <2>2. wire' = wire \/ wire' = Append(wire, m)
    BY <2>1 DEF ServerPublish
  <2>3. ~m.retained /\ m \in Messages
    <3>1. published + 1 \in EventIds
      BY <1>0, <2>1, LinkAssumption DEF TypeOK, LinkTypeOK, ServerPublish, EventIds
    <3>2. QED BY <3>1, MessageType, TopicsAreUrls DEF Message
  <2>a. m \in Messages \union {Ack} /\ (m # Ack /\ m.retained => m.topic \in K)
    BY <2>3
  <2> HIDE DEF m
  <2>4. AllKnown(wire', K)
    <3> DEFINE S == Messages \union {Ack}
    <3>1. m \in S /\ wire \in Seq(S)
      BY <1>0, <2>a
    <3> HIDE DEF S
    <3>2. AllKnown(Append(wire, m), K)
      BY <1>2, <2>a, <3>1, AllKnownSeq
    <3>3. QED BY <1>2, <2>2, <3>2
  <2>5. UNCHANGED <<topics, connLock, connUrls, up, receivers, spawned, leading, inFlight,
                    inbox, msg, reply, retainedMsgs>>
    BY <2>1 DEF ServerPublish
  <2>6. QED BY <1>1, <1>2, <2>4, <2>5
<1>7. CASE ReadPacket /\ UNCHANGED <<brokerVars, streamVars>>
  <2>1. /\ wire # <<>> /\ wire' = Tail(wire) /\ reply' \in {reply, "ok"}
        /\ inbox' = inbox \/ (inbox' = Append(inbox, Head(wire)) /\ Head(wire) # Ack)
        /\ UNCHANGED <<topics, connLock, connUrls, up, receivers, spawned, leading, inFlight,
                       msg, retainedMsgs>>
    BY <1>7 DEF ReadPacket
  <2>2. AllKnown(wire', K) /\ (Head(wire) # Ack /\ Head(wire).retained => Head(wire).topic \in K)
    BY <1>0, <1>2, <2>1, AllKnownSeq
  <2>3. Head(wire) # Ack => Head(wire) \in Messages
    BY <1>0, <2>1
  <2>4. AllKnown(inbox', K)
    <3>1. CASE inbox' = inbox
      BY <1>2, <3>1
    <3>2. CASE inbox' = Append(inbox, Head(wire)) /\ Head(wire) # Ack
      <4> DEFINE m == Head(wire)
      <4>1. m \in Messages /\ (m # Ack /\ m.retained => m.topic \in K) /\ inbox' = Append(inbox, m)
        BY <2>2, <2>3, <3>2
      <4> HIDE DEF m
      <4>2. QED BY <1>0, <1>2, <4>1, AllKnownSeq
    <3>3. QED BY <2>1, <3>1, <3>2
  <2>5. QED BY <1>1, <1>2, <2>1, <2>2, <2>4
<1>8. CASE LoseConnection \/ Reconnect
  <2>1. CASE LoseConnection
    BY <1>0, <2>1 DEF LoseConnection, Undisturbed
  <2>2. CASE Reconnect
    BY <1>0, <2>2 DEF Reconnect, LinkReconnect
  <2>3. QED BY <1>8, <2>1, <2>2
<1>9. QED BY <1>3, <1>4, <1>5, <1>6, <1>7, <1>8 DEF HandleMessage, Link

LEMMA ServedStream ==
    ASSUME OneSpelling, ServedInv, NEW s \in Streams, Stream(s), Undisturbed'
    PROVE  ServedPart'
<1> USE DEF connVars, lockVars, mapVars, goVars, handlerVars, chanVars, brokerVars, linkVars
<1>0. /\ TypeOK /\ RequestAtHand /\ StreamTypeOK
      /\ clean \in [Streams -> {"open", "ended", "locked", "removed", "closed"}]
      /\ receivers \in [TypeUrls -> Seq(Streams)] /\ spawned \in [TypeUrls -> Nat]
  BY DEF ServedInv, TopicInv, TrackInv, TypeInv, TypeOK, StreamTypeOK, BrokerTypeOK
<1>1. CASE ContextDone(s) \/ Clean(s)
  <2>1. clean'[s] = "open"
    BY DEF Undisturbed, Staying
  <2>2. QED BY <1>0, <1>1, <2>1 DEF ContextDone, Clean, UnsubscribeLock, UnsubscribeAll, CloseChannel
<1>2. CASE Receive(s) \/ Send(s)
  <2>1. clean' = clean /\ drops' = drops
    BY <1>2 DEF Receive, ReceiveLock, SubscribeAdd, SubscribeSend, ReceiveEnd, Send, SendOk, SendError,
                RangeEnd, streamVars
  <2>2. Undisturbed
    BY <2>1 DEF Undisturbed, Staying
  <2>3. ServedPart
    BY <2>2 DEF ServedInv
  <2>4. UNCHANGED <<wire, inbox, msg, retainedMsgs, topics, connLock, connUrls, up, reply, leading, inFlight>>
    BY <1>2 DEF Receive, ReceiveLock, SubscribeAdd, SubscribeSend, ReceiveEnd, Send, SendOk, SendError, RangeEnd
  <2>5. \A v \in TypeUrls : AtHand(v)' = AtHand(v)
    BY <2>4 DEF AtHand
  <2>6. RetainedKnown' /\ KeysHeld'
    BY <1>0, <2>3, <2>4, <2>5, KnownKept DEF ServedPart, KeysHeld, AtHand
  <2>7. CASE UNCHANGED <<receivers, spawned>>
    BY <1>0, <2>3, <2>4, <2>7, ServedUnchanged
  <2>8. CASE SubscribeAdd(s) \/ SubscribeSend(s)
    <3>1. Head(requests[s]) \in TypeUrls /\ Head(requests[s]) \in Asked
      <4>1. requests[s] # <<>> /\ requests[s] \in Seq(TypeUrls)
        BY <1>0, <2>8 DEF RequestAtHand, SubscribeAdd, SubscribeSend, StreamTypeOK
      <4>2. 1 \in DOMAIN requests[s] /\ Head(requests[s]) = requests[s][1]
        BY <4>1
      <4>3. QED BY <1>0, <4>1, <4>2, RequestType DEF ServedInv, AskedOnly
    <3>0. PICK u \in TypeUrls : u = Head(requests[s]) /\ u \in Asked
      BY <3>1
    <3>2. receivers' = receivers \/ receivers' = [receivers EXCEPT ![u] = Append(@, s)]
      BY <2>8, <3>0 DEF SubscribeAdd, SubscribeSend, AddReceiver
    <3>3. spawned' = spawned \/ spawned' = [spawned EXCEPT ![u] = @ + 1]
      BY <2>8, <3>0 DEF SubscribeAdd, SubscribeSend, SubscribeReturn, SpawnSubscribe
    <3>4. receivers' # receivers => u \in topics \/ Subscribing(u)'
      <4> SUFFICES ASSUME receivers' # receivers PROVE u \in topics \/ Subscribing(u)'
        OBVIOUS
      <4>1. SubscribeAdd(s)
        BY <2>8 DEF SubscribeSend
      <4>2. CASE retainedMsgs[u] = 0
        <5>1. spawned' = IF u \in topics THEN spawned ELSE [spawned EXCEPT ![u] = @ + 1]
          BY <3>0, <4>1, <4>2 DEF SubscribeAdd, SubscribeReturn, SpawnSubscribe
        <5>2. u \notin topics => spawned'[u] > 0
          BY <1>0, <5>1
        <5>3. QED BY <5>2 DEF Subscribing
      <4>3. CASE retainedMsgs[u] # 0
        <5>1. PICK v \in TypeUrls : Trim[v] = u /\ AtHand(v)
          BY <2>3, <4>3 DEF ServedPart, RetainedKnown, KnownTopics
        <5>2. v \in Asked
          BY <5>1 DEF AtHand, ServedInv, AskedOnly
        <5>3. v = u
          BY <3>0, <5>1, <5>2 DEF OneSpelling
        <5>4. QED BY <2>4, <5>1, <5>3 DEF AtHand, Subscribing
      <4>4. QED BY <4>2, <4>3
    <3>5. ASSUME NEW v \in TypeUrls, receivers'[v] # <<>> PROVE v \in topics \/ Subscribing(v)'
      <4>1. CASE receivers'[v] = receivers[v]
        <5>1. v \in topics \/ Subscribing(v)
          BY <2>3, <3>5, <4>1 DEF ServedPart, ReceiversServed
        <5>2. spawned[v] > 0 => spawned'[v] > 0
          <6>1. spawned[v] \in Nat /\ (spawned'[v] = spawned[v] \/ spawned'[v] = spawned[v] + 1)
            BY <1>0, <3>3
          <6>2. QED BY <6>1
        <5>3. QED BY <2>4, <5>1, <5>2 DEF Subscribing
      <4>2. CASE receivers'[v] # receivers[v]
        <5>1. v = u /\ receivers' # receivers
          BY <1>0, <3>2, <4>2
        <5>2. QED BY <3>4, <5>1
      <4>3. QED BY <4>1, <4>2
    <3>6. ReceiversServed'
      BY <2>4, <3>5 DEF ReceiversServed
    <3>7. QED BY <2>3, <2>4, <2>6, <3>6 DEF ServedPart
  <2>9. QED BY <1>2, <2>7, <2>8 DEF Receive, ReceiveLock, ReceiveEnd, Send, SendOk, SendError, RangeEnd
<1>3. QED BY <1>1, <1>2 DEF Stream

LEMMA ServedStep == OneSpelling /\ ServedInv /\ [Next]_vars => ServedInv'
<1> SUFFICES ASSUME OneSpelling, ServedInv, [Next]_vars PROVE ServedInv'
  OBVIOUS
<1>0. TopicInv /\ TrackInv /\ AskedOnly /\ TypeOK
  BY DEF ServedInv, TopicInv, TrackInv, TypeInv
<1>1. TopicInv'
  BY <1>0, TopicStep
<1>2. AskedOnly'
  <2>1. CASE Next
    BY <1>0, <2>1, AskedStep
  <2>2. CASE UNCHANGED vars
    BY <1>0, <2>2 DEF vars, linkVars, brokerVars, connVars, mapVars, goVars, streamVars, AskedOnly
  <2>3. QED BY <2>1, <2>2
<1>3. ASSUME Undisturbed' PROVE ServedPart'
  <2>1. CASE UNCHANGED vars
    <3>1. UNCHANGED <<wire, inbox, msg, retainedMsgs, topics, connLock, connUrls, up, reply, receivers,
                      spawned, leading, inFlight, clean, drops>>
      BY <2>1 DEF vars, linkVars, brokerVars, connVars, mapVars, goVars, handlerVars, streamVars
    <3>2. Undisturbed
      BY <1>3, <3>1 DEF Undisturbed, Staying
    <3>3. QED BY <1>0, <3>1, <3>2, ServedUnchanged DEF ServedInv
  <2>2. CASE \E s \in Streams : Stream(s)
    BY <1>3, <2>2, ServedStream
  <2>3. CASE (HandleOnConnect \/ Subscribe \/ Cleanup \/ HandleMessage) /\ UNCHANGED streamVars
    <3>1. Staying /\ drops' = drops
      BY <1>3, <2>3 DEF Undisturbed, Staying, streamVars, linkVars, HandleOnConnect, OnConnectLock, OnConnectRLock,
         OnConnectResubscribe, OnConnectReply, OnConnectReturn, LinkSubscribe, LinkReturn, Subscribe,
         SubscribeDo, SubscribeConnLock, SubscribeRequest, SubscribeReply, SubscribeLock, SubscribeStore,
         SubscribeDone, Cleanup, CleanupConnLock, CleanupRequest, CleanupReply, LinkUnsubscribe,
         HandleMessage, HandlerTake, HandlerRLock, HandlerSend, HandlerReturn, LinkTake
    <3>2. Undisturbed /\ ServedPart
      BY <1>3, <3>1 DEF Undisturbed, ServedInv
    <3>3. ~Cleanup
      <4>1. connLock # "cleanup"
        BY <1>0, <3>1 DEF TopicInv, StaysSubscribed
      <4>2. \A s \in Streams : cleanups[s] = {}
        BY <1>0, <3>1 DEF TrackInv, CleanupOnce, Staying
      <4>3. QED BY <4>1, <4>2 DEF Cleanup, CleanupConnLock, CleanupRequest, CleanupReply
    <3>4. QED BY <1>0, <1>3, <2>3, <3>2, <3>3, ServedOnConnect, ServedSubscribe, ServedOutside
  <2>4. CASE Publishers \/ Link
    <3>1. UNCHANGED streamVars /\ (drops' = drops \/ drops' = drops + 1)
      BY <2>4 DEF Publishers, Publish, ForeignPublish, ServerPublish, Link, ReadPacket, LoseConnection,
                  Reconnect, LinkReconnect
    <3>2. drops \in Nat
      BY <1>0, LinkAssumption DEF TypeOK, LinkTypeOK
    <3>3. Undisturbed
      BY <1>3, <3>1, <3>2 DEF Undisturbed, Staying, streamVars
    <3>4. QED BY <1>0, <1>3, <2>4, <3>3, ServedOutside DEF ServedInv
  <2>5. QED BY <2>1, <2>2, <2>3, <2>4 DEF Next
<1>4. QED BY <1>1, <1>2, <1>3 DEF ServedInv

LEMMA InitServed == Init => ServedInv
<1> SUFFICES ASSUME Init PROVE ServedInv
  OBVIOUS
<1>1. TopicInv
  BY InitTopic
<1>2. AskedOnly
  <2>1. ASSUME NEW s \in Streams, NEW i \in DOMAIN requests[s] PROVE requests[s][i] \in Asked
    <3>1. requests[s] \in Scripts /\ requests[s] \in Seq(TypeUrls)
      BY SubscriberAssumption DEF Init
    <3>2. QED BY <3>1 DEF Asked
  <2>2. QED BY <2>1 DEF Init, BrokerInit, AskedOnly
<1>3. ServedPart
  BY DEF Init, LinkInit, BrokerInit, ServedPart, ReceiversServed, KeysHeld, RetainedKnown, AllKnown
<1>4. QED BY <1>1, <1>2, <1>3 DEF ServedInv

(* broker.go:104 and 115-133: until a connection is lost or a client       *)
(* leaves, whatever streams are registered for is subscribed or about to   *)
(* be, and no goroutine that singleflight turns away was the last hope of  *)
(* its URL - if no two of the URLs asked for name one topic.               *)
THEOREM ReceiversGetServed ==
    OneSpelling => (Spec => [](Staying /\ drops = 0 => ReceiversServed))
<1> SUFFICES ASSUME OneSpelling PROVE Spec => [](Staying /\ drops = 0 => ReceiversServed)
  OBVIOUS
<1>1. ServedInv /\ [Next]_vars => ServedInv'
  BY ServedStep
<1>2. ServedInv => (Staying /\ drops = 0 => ReceiversServed)
  BY DEF ServedInv, Undisturbed, ServedPart
<1>3. QED BY <1>1, <1>2, InitServed, PTL DEF Spec

=============================================================================
