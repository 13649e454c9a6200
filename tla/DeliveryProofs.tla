---------------------------- MODULE DeliveryProofs ----------------------------
(***************************************************************************)
(* Careful clients get their events in order, and none twice: the events   *)
(* in the connection, the client's pipeline, the handler's hands and the   *)
(* channel of a stream are ordered, each of these behind the one before.   *)
(***************************************************************************)
EXTENDS Delivery, ChannelProofs

Packets == Messages \union {Ack}

LiveIds(q) == {q[i].id : i \in {j \in DOMAIN q : IsLive(q[j])}}

Before(A, B) == \A a \in A, b \in B : a < b

(* What the handler has in its hands for stream s.                         *)
Pending(s) ==
    IF "handler" \notin readers \/ Occurrences(todo, s) # {} THEN LiveIds(msg) ELSE {}

(* What is on its way to the handler.                                      *)
Coming == LiveIds(inbox) \union LiveIds(wire)

LinkOrder ==
    /\ Ordered(wire) /\ Ordered(inbox)
    /\ Before(LiveIds(inbox), LiveIds(wire))
    /\ \A id \in Coming : id <= published

HandlerOrder ==
    /\ Before(LiveIds(msg), Coming)
    /\ \A id \in LiveIds(msg) : id <= published
    /\ AllDistinct(todo)

ChannelOrder ==
    \A s \in Streams :
        /\ Ordered(chan[s])
        /\ \A id \in LiveIds(chan[s]) : id <= published
        /\ Before(LiveIds(chan[s]), Pending(s) \union Coming)

OrderPart == LinkOrder /\ HandlerOrder /\ ChannelOrder
OrderInv == ChannelInv /\ OrderPart

(* The events stream s may still receive, and those new in this step.      *)
Ahead(s) == LiveIds(chan[s]) \union Pending(s) \union Coming
NothingStale ==
    \A s \in Streams :
        \A id \in Ahead(s)' : id \in Ahead(s) \/ id \in published + 1 .. published'

-----------------------------------------------------------------------------
(* Sequences of packets.                                                   *)

LEMMA PacketIds ==
    ASSUME NEW m \in Packets, IsLive(m)
    PROVE  m \in Messages /\ m.id \in Nat
BY LinkAssumption DEF Packets, Messages, IsLive, EventIds

LEMMA LiveIdsNat ==
    ASSUME NEW q \in Seq(Packets)
    PROVE  LiveIds(q) \subseteq Nat
<1> SUFFICES ASSUME NEW i \in DOMAIN q, IsLive(q[i]) PROVE q[i].id \in Nat
  BY DEF LiveIds
<1>1. q[i] \in Packets
  OBVIOUS
<1>2. QED BY <1>1, PacketIds

LEMMA EmptyOrdered == Ordered(<<>>) /\ LiveIds(<<>>) = {}
<1> DEFINE q == <<>>
<1>1. DOMAIN q = {}
  OBVIOUS
<1> HIDE DEF q
<1>2. Ordered(q) /\ LiveIds(q) = {}
  BY <1>1 DEF Ordered, LiveIds
<1>3. QED BY <1>2 DEF q

LEMMA SingletonOrdered ==
    ASSUME NEW m \in Packets
    PROVE  Ordered(<<m>>) /\ LiveIds(<<m>>) = IF IsLive(m) THEN {m.id} ELSE {}
<1> DEFINE q == <<m>>
<1>1. DOMAIN q = {1} /\ q[1] = m
  OBVIOUS
<1> HIDE DEF q
<1>2. Ordered(q) /\ LiveIds(q) = IF IsLive(m) THEN {m.id} ELSE {}
  BY <1>1 DEF Ordered, LiveIds
<1>3. QED BY <1>2 DEF q

LEMMA ConcatOrdered ==
    ASSUME NEW p \in Seq(Packets), NEW q \in Seq(Packets)
    PROVE  /\ LiveIds(p \o q) \subseteq LiveIds(p) \union LiveIds(q)
           /\ Ordered(p) /\ Ordered(q) /\ Before(LiveIds(p), LiveIds(q)) => Ordered(p \o q)
<1> DEFINE c == p \o q
           m == Len(p)
           n == Len(q)
<1>1. /\ m \in Nat /\ n \in Nat /\ DOMAIN p = 1 .. m /\ DOMAIN q = 1 .. n
      /\ DOMAIN c = 1 .. m + n
      /\ \A i \in 1 .. m : c[i] = p[i]
      /\ \A i \in m + 1 .. m + n : c[i] = q[i - m] /\ i - m \in 1 .. n
  OBVIOUS
<1> HIDE DEF c, m, n
<1>2. LiveIds(c) \subseteq LiveIds(p) \union LiveIds(q)
  <2> SUFFICES ASSUME NEW i \in 1 .. m + n, IsLive(c[i])
               PROVE  c[i].id \in LiveIds(p) \union LiveIds(q)
    BY <1>1 DEF LiveIds
  <2>1. CASE i \in 1 .. m
    BY <1>1, <2>1 DEF LiveIds
  <2>2. CASE i \in m + 1 .. m + n
    BY <1>1, <2>2 DEF LiveIds
  <2>3. QED BY <1>1, <2>1, <2>2
<1>3. ASSUME Ordered(p), Ordered(q), Before(LiveIds(p), LiveIds(q)) PROVE Ordered(c)
  <2> SUFFICES ASSUME NEW i \in 1 .. m + n, NEW j \in 1 .. m + n, i < j,
                      IsLive(c[i]), IsLive(c[j])
               PROVE  c[i].id < c[j].id
    BY <1>1 DEF Ordered
  <2>1. CASE i \in 1 .. m /\ j \in 1 .. m
    BY <1>1, <1>3, <2>1 DEF Ordered
  <2>2. CASE i \in 1 .. m /\ j \in m + 1 .. m + n
    <3>1. c[i].id \in LiveIds(p)
      BY <1>1, <2>2 DEF LiveIds
    <3>2. c[j].id \in LiveIds(q)
      BY <1>1, <2>2 DEF LiveIds
    <3>3. QED BY <1>3, <3>1, <3>2 DEF Before
  <2>3. CASE i \in m + 1 .. m + n /\ j \in m + 1 .. m + n
    <3>1. i - m < j - m
      BY <1>1
    <3>2. QED BY <1>1, <1>3, <2>3, <3>1 DEF Ordered
  <2>4. QED BY <1>1, <2>1, <2>2, <2>3
<1>4. QED BY <1>2, <1>3 DEF c

LEMMA AppendOrdered ==
    ASSUME NEW q \in Seq(Packets), NEW x \in Packets
    PROVE  /\ Append(q, x) \in Seq(Packets)
           /\ LiveIds(Append(q, x)) \subseteq LiveIds(q) \union (IF IsLive(x) THEN {x.id} ELSE {})
           /\ /\ Ordered(q)
              /\ IsLive(x) => \A id \in LiveIds(q) : id < x.id
              => Ordered(Append(q, x))
<1>1. <<x>> \in Seq(Packets) /\ Append(q, x) = q \o <<x>>
  OBVIOUS
<1>2. Ordered(<<x>>) /\ LiveIds(<<x>>) = IF IsLive(x) THEN {x.id} ELSE {}
  BY SingletonOrdered
<1>3. Append(q, x) \in Seq(Packets)
  OBVIOUS
<1>4. LiveIds(q \o <<x>>) \subseteq LiveIds(q) \union LiveIds(<<x>>)
  BY <1>1, ConcatOrdered
<1>5. ASSUME Ordered(q), IsLive(x) => \A id \in LiveIds(q) : id < x.id PROVE Ordered(q \o <<x>>)
  <2>1. Before(LiveIds(q), LiveIds(<<x>>))
    BY <1>2, <1>5 DEF Before
  <2>2. QED BY <1>1, <1>2, <1>5, <2>1, ConcatOrdered
<1>6. QED BY <1>1, <1>2, <1>3, <1>4, <1>5

LEMMA TailOrdered ==
    ASSUME NEW q \in Seq(Packets), q # <<>>, Ordered(q)
    PROVE  /\ Head(q) \in Packets /\ Tail(q) \in Seq(Packets)
           /\ Ordered(Tail(q))
           /\ LiveIds(Tail(q)) \subseteq LiveIds(q)
           /\ IsLive(Head(q)) => /\ Head(q).id \in LiveIds(q)
                                 /\ \A id \in LiveIds(Tail(q)) : Head(q).id < id
<1> DEFINE n == Len(q)
           t == Tail(q)
<1>1. /\ n \in Nat \ {0} /\ DOMAIN q = 1 .. n /\ Head(q) = q[1]
      /\ DOMAIN t = 1 .. n - 1
      /\ \A i \in 1 .. n - 1 : t[i] = q[i + 1]
      /\ q[1] \in Packets /\ t \in Seq(Packets)
  OBVIOUS
<1> HIDE DEF n, t
<1>2. ASSUME NEW i \in 1 .. n - 1, NEW j \in 1 .. n - 1, i < j, IsLive(t[i]), IsLive(t[j])
      PROVE  t[i].id < t[j].id
  <2>1. i + 1 \in 1 .. n /\ j + 1 \in 1 .. n /\ i + 1 < j + 1
    BY <1>1, <1>2
  <2>2. t[i] = q[i + 1] /\ t[j] = q[j + 1]
    BY <1>1
  <2>3. QED BY <1>1, <1>2, <2>1, <2>2 DEF Ordered
<1>3. ASSUME NEW i \in 1 .. n - 1, IsLive(t[i]) PROVE t[i].id \in LiveIds(q)
  <2>1. i + 1 \in 1 .. n /\ t[i] = q[i + 1]
    BY <1>1
  <2>2. QED BY <1>1, <1>3, <2>1 DEF LiveIds
<1>4. ASSUME IsLive(q[1]) PROVE q[1].id \in LiveIds(q)
  BY <1>1, <1>4 DEF LiveIds
<1>5. ASSUME IsLive(q[1]), NEW i \in 1 .. n - 1, IsLive(t[i]) PROVE q[1].id < t[i].id
  <2>1. 1 < i + 1 /\ i + 1 \in 1 .. n /\ 1 \in 1 .. n
    BY <1>1
  <2>2. QED BY <1>1, <1>5, <2>1 DEF Ordered
<1>6. Ordered(t)
  BY <1>1, <1>2 DEF Ordered
<1>7. LiveIds(t) \subseteq LiveIds(q)
  BY <1>1, <1>3 DEF LiveIds
<1>8. IsLive(q[1]) => \A id \in LiveIds(t) : q[1].id < id
  BY <1>1, <1>5 DEF LiveIds
<1>9. QED BY <1>1, <1>4, <1>6, <1>7, <1>8 DEF t

-----------------------------------------------------------------------------
(* What types say of packets.                                              *)

LEMMA PacketTypes ==
    ASSUME TypeInv
    PROVE  /\ wire \in Seq(Packets) /\ inbox \in Seq(Packets) /\ msg \in Seq(Packets)
           /\ \A s \in Streams : chan[s] \in Seq(Packets)
           /\ published \in Nat
           /\ LiveIds(wire) \subseteq Nat /\ LiveIds(inbox) \subseteq Nat
           /\ LiveIds(msg) \subseteq Nat
           /\ \A s \in Streams : LiveIds(chan[s]) \subseteq Nat
<1>1. wire \in Seq(Packets) /\ published \in Nat
  BY LinkAssumption DEF TypeInv, TypeOK, LinkTypeOK, Packets
<1>2. ASSUME NEW q \in Seq(Messages) PROVE q \in Seq(Packets)
  BY DEF Packets
<1>3. inbox \in Seq(Packets)
  BY <1>2 DEF TypeInv, TypeOK, LinkTypeOK
<1>4. ASSUME NEW s \in Streams PROVE chan[s] \in Seq(Packets)
  BY <1>2 DEF TypeInv, TypeOK, BrokerTypeOK
<1>5. msg \in Seq(Packets)
  <2>1. msg = <<>> \/ \E m \in Messages : msg = <<m>>
    BY DEF TypeInv, TypeOK, BrokerTypeOK
  <2>2. ASSUME NEW m \in Messages, msg = <<m>> PROVE msg \in Seq(Packets)
    BY <2>2, SingletonSeq DEF Packets
  <2>3. QED BY <2>1, <2>2, EmptySeq
<1>6. QED BY <1>1, <1>3, <1>4, <1>5, LiveIdsNat

-----------------------------------------------------------------------------
(* The link: what is on its way stays in order, and grows by new events.   *)

ComingStep ==
    /\ LinkOrder' /\ published \in Nat /\ published' \in Nat /\ published <= published'
    /\ \A id \in Coming' : id \in Coming \/ id \in published + 1 .. published'

LEMMA ComingWire ==
    ASSUME TypeInv, LinkOrder, published' \in Nat, published <= published', UNCHANGED inbox,
           Ordered(wire'),
           \A id \in LiveIds(wire') : id \in LiveIds(wire) \/ id \in published + 1 .. published'
    PROVE  ComingStep
<1>1. LiveIds(inbox) \subseteq Nat /\ LiveIds(wire) \subseteq Nat /\ published \in Nat
  BY PacketTypes
<1>2. Ordered(inbox') /\ LiveIds(inbox') = LiveIds(inbox)
  BY DEF LinkOrder
<1>3. \A id \in Coming : id \in Nat /\ id <= published
  BY <1>1 DEF LinkOrder, Coming
<1>4. \A id \in Coming' : id \in Coming \/ id \in published + 1 .. published'
  BY <1>2 DEF Coming
<1>5. \A id \in Coming' : id <= published'
  BY <1>1, <1>3, <1>4
<1>6. Before(LiveIds(inbox), LiveIds(wire'))
  BY <1>1, <1>3 DEF LinkOrder, Before, Coming
<1>7. Before(LiveIds(inbox'), LiveIds(wire'))
  BY <1>2, <1>6
<1>8. LinkOrder'
  BY <1>2, <1>5, <1>7 DEF LinkOrder
<1>9. QED BY <1>1, <1>4, <1>8 DEF ComingStep

LEMMA ComingUnchanged ==
    ASSUME TypeInv, LinkOrder, wire' = wire \/ wire' = <<>>, UNCHANGED <<inbox, published>>
    PROVE  ComingStep
BY PacketTypes, EmptyOrdered, ComingWire DEF LinkOrder

LEMMA ComingSubscribe ==
    ASSUME TypeInv, LinkOrder, NEW t \in Topics, LinkSubscribe(t)
    PROVE  ComingStep
<1>1. CASE ~up
  BY <1>1, ComingUnchanged DEF LinkSubscribe
<1>2. CASE up
  <2>1. Ack \in Packets /\ ~IsLive(Ack)
    BY DEF Packets, IsLive
  <2>2. StoredMessage(t) \in Seq(Packets)
    BY StoredMessageType DEF TypeInv, TypeOK, Packets
  <2>3. Ordered(StoredMessage(t)) /\ LiveIds(StoredMessage(t)) = {}
    <3>1. CASE stored[t] = 0
      BY <3>1, EmptyOrdered DEF StoredMessage
    <3>2. CASE stored[t] # 0
      <4> DEFINE m == Message(stored[t], t, TRUE)
      <4>1. StoredMessage(t) = <<m>> /\ ~IsLive(m)
        BY <3>2 DEF StoredMessage, Message, IsLive
      <4>2. m \in Packets
        <5>1. t \in TypeUrls /\ stored[t] \in EventIds
          BY <3>2, LinkAssumption DEF TypeInv, TypeOK, LinkTypeOK, Topics, EventIds
        <5>2. QED BY <5>1, MessageType DEF Packets
      <4> HIDE DEF m
      <4>3. QED BY <4>1, <4>2, SingletonOrdered
    <3>3. QED BY <3>1, <3>2
  <2>4. <<Ack>> \in Seq(Packets) /\ Ordered(<<Ack>>) /\ LiveIds(<<Ack>>) = {}
    <3>1. Ordered(<<Ack>>) /\ LiveIds(<<Ack>>) = IF IsLive(Ack) THEN {Ack.id} ELSE {}
      BY <2>1, SingletonOrdered
    <3>2. QED BY <2>1, <3>1, SingletonSeq
  <2>5. wire \in Seq(Packets) /\ wire \o <<Ack>> \in Seq(Packets)
    BY <2>4, PacketTypes
  <2>6. Ordered(wire \o <<Ack>>) /\ LiveIds(wire \o <<Ack>>) \subseteq LiveIds(wire)
    BY <2>4, <2>5, ConcatOrdered DEF LinkOrder, Before
  <2>7. /\ Ordered(wire \o <<Ack>> \o StoredMessage(t))
        /\ LiveIds(wire \o <<Ack>> \o StoredMessage(t)) \subseteq LiveIds(wire)
    BY <2>2, <2>3, <2>5, <2>6, ConcatOrdered DEF Before
  <2>8. wire' = wire \o <<Ack>> \o StoredMessage(t) /\ UNCHANGED <<inbox, published>>
    BY <1>2 DEF LinkSubscribe
  <2>9. Ordered(wire') /\ \A id \in LiveIds(wire') : id \in LiveIds(wire)
    BY <2>7, <2>8
  <2>10. /\ published' \in Nat /\ published <= published' /\ UNCHANGED inbox
    BY <2>8, PacketTypes
  <2>11. QED BY <2>9, <2>10, ComingWire
<1>3. QED BY <1>1, <1>2

LEMMA ComingUnsubscribe ==
    ASSUME TypeInv, LinkOrder, NEW ts, LinkUnsubscribe(ts)
    PROVE  ComingStep
<1>1. CASE ~up
  BY <1>1, ComingUnchanged DEF LinkUnsubscribe
<1>2. CASE up
  <2>1. Ack \in Packets /\ ~IsLive(Ack)
    BY DEF Packets, IsLive
  <2>2. Ordered(Append(wire, Ack)) /\ LiveIds(Append(wire, Ack)) \subseteq LiveIds(wire)
    BY <2>1, PacketTypes, AppendOrdered DEF LinkOrder
  <2>3. wire' = Append(wire, Ack) /\ UNCHANGED <<inbox, published>>
    BY <1>2 DEF LinkUnsubscribe
  <2>4. QED BY <2>2, <2>3, PacketTypes, ComingWire
<1>3. QED BY <1>1, <1>2

LEMMA ComingPublish ==
    ASSUME TypeInv, LinkOrder, NEW t \in Topics, NEW retain \in BOOLEAN, ServerPublish(t, retain)
    PROVE  ComingStep
<1> DEFINE m == Message(published + 1, t, FALSE)
<1>1. published' = published + 1 /\ UNCHANGED inbox /\ published \in Nat
  BY PacketTypes DEF ServerPublish
<1>2. CASE t \notin subs
  BY <1>1, <1>2, ComingWire DEF ServerPublish, LinkOrder
<1>3. CASE t \in subs
  <2>1. m \in Messages /\ m # Ack /\ IsLive(m) /\ m.id = published + 1
    <3>1. published + 1 \in EventIds /\ t \in TypeUrls
      BY LinkAssumption DEF ServerPublish, TypeInv, TypeOK, LinkTypeOK, EventIds, Topics
    <3>2. m \in Messages /\ m # Ack
      BY <3>1, MessageType
    <3>3. QED BY <3>2 DEF IsLive, Message
  <2>2. wire' = Append(wire, m)
    BY <1>3 DEF ServerPublish
  <2> HIDE DEF m
  <2>3. \A id \in LiveIds(wire) \union LiveIds(inbox) : id < m.id
    BY <1>1, <2>1, PacketTypes DEF LinkOrder, Coming
  <2>4. /\ Ordered(Append(wire, m))
        /\ LiveIds(Append(wire, m)) \subseteq LiveIds(wire) \union {m.id}
    BY <2>1, <2>3, PacketTypes, AppendOrdered DEF LinkOrder, Packets
  <2>5. QED BY <1>1, <2>1, <2>2, <2>4, ComingWire
<1>4. QED BY <1>2, <1>3

LEMMA ComingRead ==
    ASSUME TypeInv, LinkOrder, ReadPacket
    PROVE  ComingStep
<1>1. /\ wire # <<>> /\ wire' = Tail(wire) /\ UNCHANGED published
  BY DEF ReadPacket
<1>2. /\ Head(wire) \in Packets
      /\ Ordered(Tail(wire)) /\ LiveIds(Tail(wire)) \subseteq LiveIds(wire)
      /\ IsLive(Head(wire)) => /\ Head(wire).id \in LiveIds(wire)
                               /\ \A id \in LiveIds(Tail(wire)) : Head(wire).id < id
  BY <1>1, PacketTypes, TailOrdered DEF LinkOrder
<1>3. CASE UNCHANGED inbox
  BY <1>1, <1>2, <1>3, PacketTypes DEF ComingStep, LinkOrder, Coming, Before
<1>4. CASE inbox' = Append(inbox, Head(wire))
  <2> DEFINE h == Head(wire)
  <2>1. IsLive(h) => \A id \in LiveIds(inbox) : id < h.id
    BY <1>2 DEF LinkOrder, Before
  <2>2. /\ Ordered(inbox')
        /\ LiveIds(inbox') \subseteq LiveIds(inbox) \union (IF IsLive(h) THEN {h.id} ELSE {})
    BY <1>2, <1>4, <2>1, PacketTypes, AppendOrdered DEF LinkOrder
  <2> HIDE DEF h
  <2>3. QED BY <1>1, <1>2, <2>2, PacketTypes DEF ComingStep, LinkOrder, Coming, Before, h
<1>5. QED BY <1>3, <1>4 DEF ReadPacket

LEMMA ComingEnvironment ==
    ASSUME TypeInv, LinkOrder, Publishers \/ ReadPacket \/ LoseConnection \/ LinkReconnect
    PROVE  ComingStep
<1>1. CASE Publishers
  <2>1. PICK u \in TypeUrls, retain \in BOOLEAN : ServerPublish(Trim[u], retain)
    BY <1>1 DEF Publishers, Publish, ForeignPublish
  <2>2. QED BY <2>1, TopicsAreUrls, ComingPublish
<1>2. CASE LoseConnection \/ LinkReconnect
  BY <1>2, ComingUnchanged DEF LoseConnection, LinkReconnect
<1>3. QED BY <1>1, <1>2, ComingRead

-----------------------------------------------------------------------------
(* The broker's part of an operation of the link.                          *)

LEMMA OrderFromComing ==
    ASSUME TypeInv, OrderPart, ComingStep, UNCHANGED <<msg, todo, chan>>,
           "handler" \in readers' <=> "handler" \in readers
    PROVE  OrderPart' /\ NothingStale
<1>1. \A s \in Streams : Pending(s)' = Pending(s) /\ Pending(s) \subseteq LiveIds(msg)
  BY DEF Pending
<1>2. /\ LiveIds(msg) \subseteq Nat /\ published \in Nat /\ published' \in Nat
      /\ published <= published'
      /\ \A s \in Streams : LiveIds(chan[s]) \subseteq Nat
  BY PacketTypes DEF ComingStep
<1>3. \A id \in Coming' : id \in Coming \/ (id \in Nat /\ id > published)
  BY <1>2 DEF ComingStep
<1>4. HandlerOrder'
  <2>1. Before(LiveIds(msg), Coming')
    <3>1. \A id \in LiveIds(msg) : id \in Nat /\ id <= published
      BY <1>2 DEF OrderPart, HandlerOrder
    <3>2. Before(LiveIds(msg), Coming)
      BY DEF OrderPart, HandlerOrder
    <3>3. QED BY <1>2, <1>3, <3>1, <3>2 DEF Before
  <2>2. \A id \in LiveIds(msg) : id <= published'
    BY <1>2 DEF OrderPart, HandlerOrder
  <2>3. QED BY <2>1, <2>2 DEF OrderPart, HandlerOrder
<1>5. ASSUME NEW s \in Streams
      PROVE  /\ Ordered(chan[s])
             /\ \A id \in LiveIds(chan[s]) : id <= published'
             /\ Before(LiveIds(chan[s]), Pending(s)' \union Coming')
  <2>1. /\ Ordered(chan[s])
        /\ \A id \in LiveIds(chan[s]) : id \in Nat /\ id <= published
        /\ Before(LiveIds(chan[s]), Pending(s) \union Coming)
    BY <1>2 DEF OrderPart, ChannelOrder
  <2>2. \A id \in LiveIds(chan[s]) : id <= published'
    BY <1>2, <2>1
  <2>3. Before(LiveIds(chan[s]), Pending(s)' \union Coming')
    BY <1>1, <1>2, <1>3, <2>1 DEF Before
  <2>4. QED BY <2>1, <2>2, <2>3
<1>6. ChannelOrder'
  BY <1>5 DEF ChannelOrder
<1>7. NothingStale
  BY <1>1 DEF NothingStale, Ahead, ComingStep
<1>8. QED BY <1>4, <1>6, <1>7 DEF OrderPart, ComingStep

LEMMA OrderOthers ==
    ASSUME OrderInv,
           \/ (HandleOnConnect \/ Subscribe \/ Cleanup) /\ UNCHANGED streamVars
           \/ Publishers
           \/ Link
    PROVE  OrderPart' /\ NothingStale
<1> USE DEF linkVars, connVars, lockVars, mapVars, goVars, handlerVars, chanVars, streamVars, brokerVars
<1>0. TypeInv /\ OrderPart /\ LinkOrder /\ connUrls \subseteq TypeUrls
  BY DEF OrderInv, OrderPart, ChannelInv, TypeInv, TypeOK, BrokerTypeOK
<1>1. CASE HandleOnConnect
  <2>1. /\ UNCHANGED <<msg, todo, chan>>
        /\ "handler" \in readers' <=> "handler" \in readers
    BY <1>1 DEF HandleOnConnect, OnConnectLock, OnConnectRLock, OnConnectResubscribe,
                OnConnectReply, OnConnectReturn, ReadLock
  <2>2. CASE OnConnectResubscribe
    <3>1. PICK u \in TypeUrls : LinkSubscribe(Trim[u])
      BY <1>0, <2>2 DEF OnConnectResubscribe
    <3>2. QED BY <1>0, <2>1, <3>1, TopicsAreUrls, ComingSubscribe, OrderFromComing
  <2>3. CASE ~OnConnectResubscribe
    <3>1. UNCHANGED <<wire, inbox, published>>
      BY <1>1, <2>3 DEF HandleOnConnect, OnConnectLock, OnConnectRLock, OnConnectReply,
                        OnConnectReturn, LinkReturn
    <3>2. QED BY <1>0, <2>1, <3>1, ComingUnchanged, OrderFromComing
  <2>4. QED BY <2>2, <2>3
<1>2. CASE Subscribe
  <2>1. UNCHANGED <<msg, todo, chan, readers>>
    BY <1>2 DEF Subscribe, SubscribeDo, SubscribeConnLock, SubscribeRequest, SubscribeReply,
                SubscribeLock, SubscribeStore, SubscribeDone
  <2>2. CASE SubscribeRequest /\ conn
    <3>1. PICK u \in TypeUrls : LinkSubscribe(Trim[u])
      BY <1>0, <2>2 DEF SubscribeRequest
    <3>2. QED BY <1>0, <2>1, <3>1, TopicsAreUrls, ComingSubscribe, OrderFromComing
  <2>3. CASE ~(SubscribeRequest /\ conn)
    <3>1. UNCHANGED <<wire, inbox, published>>
      BY <1>2, <2>3 DEF Subscribe, SubscribeDo, SubscribeConnLock, SubscribeRequest,
                        SubscribeReply, SubscribeLock, SubscribeStore, SubscribeDone, LinkReturn
    <3>2. QED BY <1>0, <2>1, <3>1, ComingUnchanged, OrderFromComing
  <2>4. QED BY <2>2, <2>3
<1>3. CASE Cleanup
  <2>1. UNCHANGED <<msg, todo, chan, readers>>
    BY <1>3 DEF Cleanup, CleanupConnLock, CleanupRequest, CleanupReply
  <2>2. CASE CleanupRequest /\ conn
    <3>1. LinkUnsubscribe({Trim[u] : u \in connUrls})
      BY <2>2 DEF CleanupRequest
    <3>2. QED BY <1>0, <2>1, <3>1, ComingUnsubscribe, OrderFromComing
  <2>3. CASE ~(CleanupRequest /\ conn)
    <3>1. UNCHANGED <<wire, inbox, published>>
      BY <1>3, <2>3 DEF Cleanup, CleanupConnLock, CleanupRequest, CleanupReply, LinkReturn
    <3>2. QED BY <1>0, <2>1, <3>1, ComingUnchanged, OrderFromComing
  <2>4. QED BY <2>2, <2>3
<1>4. CASE Publishers \/ Link
  <2>1. UNCHANGED <<msg, todo, chan, readers>>
    BY <1>4 DEF Publishers, Publish, ForeignPublish, Link, Reconnect
  <2>2. Publishers \/ ReadPacket \/ LoseConnection \/ LinkReconnect
    BY <1>4 DEF Link, Reconnect
  <2>3. QED BY <1>0, <2>1, <2>2, ComingEnvironment, OrderFromComing
<1>5. QED BY <1>1, <1>2, <1>3, <1>4

-----------------------------------------------------------------------------
(* The handler and the channels.                                           *)

LEMMA OrderKept ==
    ASSUME TypeInv, OrderPart, UNCHANGED <<wire, inbox, published>>,
           msg' = msg \/ msg' = <<>>, AllDistinct(todo'),
           \A s \in Streams :
               /\ Pending(s)' \subseteq Pending(s)
               /\ Ordered(chan'[s]) /\ LiveIds(chan'[s]) \subseteq LiveIds(chan[s])
    PROVE  OrderPart' /\ NothingStale
<1>1. Coming' = Coming
  BY DEF Coming
<1>2. LinkOrder'
  BY <1>1 DEF OrderPart, LinkOrder
<1>3. LiveIds(msg') \subseteq LiveIds(msg)
  BY EmptyOrdered
<1>4. HandlerOrder'
  BY <1>1, <1>3 DEF OrderPart, HandlerOrder, Before
<1>5. ChannelOrder'
  BY <1>1 DEF OrderPart, ChannelOrder, Before
<1>6. NothingStale
  BY <1>1 DEF NothingStale, Ahead
<1>7. QED BY <1>2, <1>4, <1>5, <1>6 DEF OrderPart

LEMMA OrderTake ==
    ASSUME TypeInv, OrderPart, HandlerTake
    PROVE  OrderPart' /\ NothingStale
<1> DEFINE h == Head(inbox)
<1>1. /\ msg = <<>> /\ inbox # <<>> /\ inbox' = Tail(inbox)
      /\ msg' = <<h>> \/ msg' = <<>>
      /\ UNCHANGED <<wire, published, chan, todo, readers>>
  BY DEF HandlerTake, LinkTake, chanVars, lockVars
<1>2. /\ h \in Packets
      /\ Ordered(Tail(inbox)) /\ LiveIds(Tail(inbox)) \subseteq LiveIds(inbox)
      /\ IsLive(h) => /\ h.id \in LiveIds(inbox)
                      /\ \A id \in LiveIds(Tail(inbox)) : h.id < id
  BY <1>1, PacketTypes, TailOrdered DEF OrderPart, LinkOrder
<1> HIDE DEF h
<1>3. \A id \in LiveIds(msg') : IsLive(h) /\ id = h.id
  BY <1>1, <1>2, SingletonOrdered, EmptyOrdered
<1>4. /\ Coming' \subseteq Coming
      /\ \A id \in LiveIds(msg') : id \in Coming /\ \A other \in Coming' : id < other
  BY <1>1, <1>2, <1>3 DEF Coming, OrderPart, LinkOrder, Before
<1>5. LinkOrder'
  BY <1>1, <1>2, <1>4 DEF OrderPart, LinkOrder, Before
<1>6. HandlerOrder'
  BY <1>1, <1>4 DEF OrderPart, LinkOrder, HandlerOrder, Before
<1>7. \A s \in Streams : Pending(s)' \subseteq Coming
  BY <1>4 DEF Pending
<1>8. ChannelOrder'
  BY <1>1, <1>4, <1>7 DEF OrderPart, ChannelOrder, Before
<1>9. NothingStale
  BY <1>1, <1>4, <1>7 DEF NothingStale, Ahead
<1>10. QED BY <1>5, <1>6, <1>8, <1>9 DEF OrderPart

LEMMA OrderSend ==
    ASSUME OrderInv, HandlerSend
    PROVE  OrderPart' /\ NothingStale
<1>0. /\ TypeInv /\ OrderPart /\ todo \in Seq(Streams) /\ AllDistinct(todo)
      /\ todo # <<>> /\ "handler" \in readers /\ msg # <<>>
      /\ chan \in [Streams -> Seq(Messages)]
  BY DEF HandlerSend, OrderInv, OrderPart, HandlerOrder, ChannelInv, TypeInv, TypeOK, BrokerTypeOK,
         HandlerReads
<1> PICK r \in Streams : r = Head(todo)
  BY <1>0
<1>1. UNCHANGED <<wire, inbox, published, msg, readers>>
  BY DEF HandlerSend, linkVars, lockVars
<1>2. CASE UNCHANGED <<todo, chan>>
  <2>1. \A s \in Streams : Pending(s)' = Pending(s)
    BY <1>1, <1>2 DEF Pending
  <2>2. QED BY <1>0, <1>1, <1>2, <2>1, OrderKept DEF OrderPart, ChannelOrder
<1>3. CASE todo' = Tail(todo) /\ chan' \in {chan, [chan EXCEPT ![r] = Append(@, msg[1])]}
  <2>1. /\ r \in Streams /\ Occurrences(todo, r) # {} /\ AllDistinct(Tail(todo))
        /\ Occurrences(Tail(todo), r) = {}
        /\ \A s \in Streams : Occurrences(todo, s) = {} => Occurrences(Tail(todo), s) = {}
    <3>1. /\ AllDistinct(Tail(todo))
          /\ \A i \in DOMAIN Tail(todo) :
                i + 1 \in DOMAIN todo /\ Tail(todo)[i] = todo[i + 1] /\ Tail(todo)[i] # r
      BY <1>0, TailOfDistinct
    <3>2. r \in Streams /\ 1 \in DOMAIN todo /\ r = todo[1]
      BY <1>0
    <3>3. QED BY <3>1, <3>2 DEF Occurrences
  <2>2. \A s \in Streams : Pending(s)' \subseteq Pending(s)
    BY <1>0, <1>1, <1>3, <2>1 DEF Pending
  <2>3. Pending(r) = LiveIds(msg) /\ Pending(r)' = {}
    <3>1. "handler" \in readers' /\ Occurrences(todo', r) = {}
      BY <1>0, <1>1, <1>3, <2>1
    <3>2. Pending(r)' = {}
      BY <3>1 DEF Pending
    <3>3. Pending(r) = LiveIds(msg)
      BY <2>1 DEF Pending
    <3>4. QED BY <3>2, <3>3
  <2>4. CASE chan' = chan
    BY <1>0, <1>1, <1>3, <2>1, <2>2, <2>4, OrderKept DEF OrderPart, ChannelOrder
  <2>5. CASE chan' = [chan EXCEPT ![r] = Append(@, msg[1])]
    <3>1. /\ msg[1] \in Packets
          /\ LiveIds(msg) = IF IsLive(msg[1]) THEN {msg[1].id} ELSE {}
      <4>1. PICK m \in Messages : msg = <<m>>
        BY <1>0 DEF TypeInv, TypeOK, BrokerTypeOK
      <4>2. msg[1] = m /\ m \in Packets
        BY <4>1 DEF Packets
      <4>3. QED BY <4>1, <4>2, SingletonOrdered
    <3>2. chan[r] \in Seq(Packets)
      BY <1>0, <2>1, PacketTypes
    <3>3. /\ Ordered(Append(chan[r], msg[1]))
          /\ LiveIds(Append(chan[r], msg[1])) \subseteq LiveIds(chan[r]) \union LiveIds(msg)
      <4>1. Ordered(chan[r]) /\ Before(LiveIds(chan[r]), LiveIds(msg))
        BY <1>0, <2>1, <2>3 DEF OrderPart, ChannelOrder, Before
      <4>2. IsLive(msg[1]) => \A id \in LiveIds(chan[r]) : id < msg[1].id
        BY <3>1, <4>1 DEF Before
      <4>3. QED BY <3>1, <3>2, <4>1, <4>2, AppendOrdered
    <3>4. chan'[r] = Append(chan[r], msg[1]) /\ \A s \in Streams \ {r} : chan'[s] = chan[s]
      BY <1>0, <2>1, <2>5
    <3>5. Coming' = Coming /\ LinkOrder' /\ HandlerOrder'
      BY <1>0, <1>1, <1>3, <2>1 DEF Coming, OrderPart, LinkOrder, HandlerOrder
    <3>6. ASSUME NEW s \in Streams
          PROVE  /\ Ordered(chan'[s])
                 /\ \A id \in LiveIds(chan'[s]) : id <= published
                 /\ Before(LiveIds(chan'[s]), Pending(s)' \union Coming)
                 /\ LiveIds(chan'[s]) \subseteq LiveIds(chan[s]) \union Pending(s)
      <4>1. CASE s = r
        <5>1. /\ \A id \in LiveIds(chan[r]) : id <= published
              /\ Before(LiveIds(chan[r]), LiveIds(msg) \union Coming)
          BY <1>0, <2>1, <2>3 DEF OrderPart, ChannelOrder
        <5>2. (\A id \in LiveIds(msg) : id <= published) /\ Before(LiveIds(msg), Coming)
          BY <1>0 DEF OrderPart, HandlerOrder
        <5>3. \A id \in LiveIds(chan'[r]) : id \in LiveIds(chan[r]) \/ id \in LiveIds(msg)
          BY <3>3, <3>4
        <5>4. \A id \in LiveIds(chan'[r]) : id <= published
          BY <5>1, <5>2, <5>3
        <5>5. Before(LiveIds(chan'[r]), Coming)
          BY <5>1, <5>2, <5>3 DEF Before
        <5>6. QED BY <2>3, <3>3, <3>4, <4>1, <5>4, <5>5
      <4>2. CASE s # r
        BY <1>0, <2>2, <3>4, <4>2 DEF OrderPart, ChannelOrder, Before
      <4>3. QED BY <4>1, <4>2
    <3>7. ChannelOrder'
      BY <1>1, <3>5, <3>6 DEF ChannelOrder
    <3>8. NothingStale
      BY <2>2, <3>5, <3>6 DEF NothingStale, Ahead
    <3>9. QED BY <3>5, <3>7, <3>8 DEF OrderPart
  <2>6. QED BY <1>3, <2>4, <2>5
<1>4. QED BY <1>2, <1>3 DEF HandlerSend

LEMMA OrderHandler ==
    ASSUME OrderInv, HandleMessage
    PROVE  OrderPart' /\ NothingStale
<1>0. TypeInv /\ OrderPart /\ ListsDistinct /\ \A s \in Streams : Ordered(chan[s])
  BY DEF OrderInv, OrderPart, ChannelOrder, ChannelInv
<1>1. CASE HandlerRLock
  <2>1. /\ UNCHANGED <<wire, inbox, published, msg, chan>>
        /\ todo' = receivers[msg[1].topic] /\ msg # <<>> /\ "handler" \notin readers
    BY <1>1 DEF HandlerRLock, linkVars, chanVars
  <2>2. AllDistinct(todo')
    <3>1. PICK m \in Messages : msg = <<m>>
      BY <1>0, <2>1 DEF TypeInv, TypeOK, BrokerTypeOK
    <3>2. msg[1].topic \in TypeUrls
      BY <3>1 DEF Messages
    <3>3. QED BY <1>0, <2>1, <3>2 DEF ListsDistinct
  <2>3. \A s \in Streams : Pending(s)' \subseteq Pending(s)
    BY <2>1 DEF Pending
  <2>4. QED BY <1>0, <2>1, <2>2, <2>3, OrderKept
<1>2. CASE HandlerReturn
  <2>1. /\ UNCHANGED <<wire, inbox, published, todo, chan>> /\ msg' = <<>>
    BY <1>2 DEF HandlerReturn, linkVars, chanVars
  <2>2. AllDistinct(todo')
    BY <1>0, <2>1 DEF OrderPart, HandlerOrder
  <2>3. \A s \in Streams : Pending(s)' \subseteq Pending(s)
    BY <2>1, EmptyOrdered DEF Pending
  <2>4. QED BY <1>0, <2>1, <2>2, <2>3, OrderKept
<1>3. QED BY <1>0, <1>1, <1>2, OrderTake, OrderSend DEF HandleMessage

LEMMA OrderStream ==
    ASSUME OrderInv, NEW s \in Streams, Stream(s)
    PROVE  OrderPart' /\ NothingStale
<1>0. /\ TypeInv /\ OrderPart /\ AllDistinct(todo)
      /\ \A t \in Streams : Ordered(chan[t])
      /\ chan \in [Streams -> Seq(Messages)]
  BY DEF OrderInv, OrderPart, HandlerOrder, ChannelOrder, ChannelInv, TypeInv, TypeOK, BrokerTypeOK
<1>1. UNCHANGED <<wire, inbox, published, msg, todo, readers>>
  BY DEF Stream, Receive, ReceiveLock, SubscribeAdd, SubscribeSend, ReceiveEnd, ContextDone, Clean,
         UnsubscribeLock, UnsubscribeAll, CloseChannel, Send, SendOk, SendError, RangeEnd,
         linkVars, brokerVars, lockVars, handlerVars
<1>2. \A t \in Streams : Pending(t)' = Pending(t)
  BY <1>1 DEF Pending
<1>3. CASE chan' = chan
  BY <1>0, <1>1, <1>2, <1>3, OrderKept
<1>4. CASE Send(s) /\ chan' # chan
  <2>1. chan[s] # <<>> /\ chan' = [chan EXCEPT ![s] = Tail(@)]
    BY <1>4 DEF Send, SendOk, SendError, RangeEnd, brokerVars, chanVars
  <2>2. Ordered(Tail(chan[s])) /\ LiveIds(Tail(chan[s])) \subseteq LiveIds(chan[s])
    BY <1>0, <2>1, PacketTypes, TailOrdered
  <2>3. \A t \in Streams : Ordered(chan'[t]) /\ LiveIds(chan'[t]) \subseteq LiveIds(chan[t])
    BY <1>0, <2>1, <2>2
  <2>4. QED BY <1>0, <1>1, <1>2, <2>3, OrderKept
<1>5. CASE SubscribeSend(s) /\ chan' # chan
  <2> DEFINE u == Head(requests[s])
             m == Message(retainedMsgs[u], u, TRUE)
  <2>1. chan' = [chan EXCEPT ![s] = Append(@, m)] /\ recv[s] = "sending"
    BY <1>5 DEF SubscribeSend
  <2>2. m \in Packets /\ ~IsLive(m)
    <3>1. u \in TypeUrls /\ retainedMsgs[u] # 0
      BY <1>0, <2>1, RequestType DEF TypeInv, RequestAtHand, RetainedAtHand, TypeOK
    <3>2. retainedMsgs[u] \in EventIds
      <4>1. retainedMsgs[u] \in 0 .. MaxEvents
        BY <1>0, <3>1 DEF TypeInv, TypeOK, BrokerTypeOK
      <4> HIDE DEF u
      <4>2. QED BY <3>1, <4>1, LinkAssumption DEF EventIds
    <3>3. m \in Messages
      BY <3>1, <3>2, MessageType
    <3>4. QED BY <3>3 DEF Packets, IsLive, Message
  <2> HIDE DEF m
  <2>3. Ordered(Append(chan[s], m)) /\ LiveIds(Append(chan[s], m)) \subseteq LiveIds(chan[s])
    BY <1>0, <2>2, PacketTypes, AppendOrdered
  <2>4. \A t \in Streams : Ordered(chan'[t]) /\ LiveIds(chan'[t]) \subseteq LiveIds(chan[t])
    BY <1>0, <2>1, <2>3
  <2>5. QED BY <1>0, <1>1, <1>2, <2>4, OrderKept
<1>6. QED
  BY <1>3, <1>4, <1>5
  DEF Stream, Receive, ReceiveLock, SubscribeAdd, ReceiveEnd, ContextDone, Clean, UnsubscribeLock,
      UnsubscribeAll, CloseChannel, brokerVars, chanVars

-----------------------------------------------------------------------------

LEMMA InitOrder == CarefulClients /\ Init => OrderInv
<1> SUFFICES ASSUME CarefulClients, Init PROVE OrderInv
  OBVIOUS
<1>1. ChannelInv
  BY InitChannel
<1>2. wire = <<>> /\ inbox = <<>> /\ msg = <<>> /\ todo = <<>> /\ \A s \in Streams : chan[s] = <<>>
  BY DEF Init, LinkInit, BrokerInit
<1>3. Coming = {} /\ \A s \in Streams : Pending(s) = {}
  BY <1>2, EmptyOrdered DEF Coming, Pending
<1>4. AllDistinct(<<>>)
  BY DEF AllDistinct
<1>5. LinkOrder /\ HandlerOrder /\ ChannelOrder
  BY <1>2, <1>3, <1>4, EmptyOrdered DEF LinkOrder, HandlerOrder, ChannelOrder, Before
<1>6. QED BY <1>1, <1>5 DEF OrderInv, OrderPart

LEMMA OrderStep ==
    ASSUME CarefulClients, OrderInv, [Next]_vars
    PROVE  OrderInv' /\ NothingStale
<1>1. ChannelInv'
  BY ChannelInvStep DEF OrderInv
<1>2. CASE Next
  <2>1. OrderPart' /\ NothingStale
    BY <1>2, OrderHandler, OrderOthers, OrderStream DEF Next
  <2>2. QED BY <1>1, <2>1 DEF OrderInv
<1>3. CASE UNCHANGED vars
  <2>1. /\ UNCHANGED <<wire, inbox, published, msg, todo, chan, readers>>
        /\ TypeInv /\ OrderPart
    BY <1>3 DEF vars, linkVars, brokerVars, lockVars, handlerVars, chanVars, OrderInv, ChannelInv
  <2>2. \A s \in Streams : Pending(s)' = Pending(s)
    BY <2>1 DEF Pending
  <2>3. OrderPart' /\ NothingStale
    BY <2>1, <2>2, OrderKept DEF OrderPart, HandlerOrder, ChannelOrder
  <2>4. QED BY <1>1, <2>3 DEF OrderInv
<1>4. QED BY <1>2, <1>3

LEMMA OrderInPipeline ==
    ASSUME OrderInv
    PROVE  EventsInOrder
<1> SUFFICES ASSUME NEW s \in Streams PROVE Ordered(Pipeline(s))
  BY DEF EventsInOrder
<1> DEFINE hand == IF \E i \in DOMAIN todo : todo[i] = s THEN msg ELSE <<>>
           c == chan[s]
<1>0. TypeInv /\ OrderPart
  BY DEF OrderInv, ChannelInv
<1>1. /\ c \in Seq(Packets) /\ hand \in Seq(Packets)
      /\ inbox \in Seq(Packets) /\ wire \in Seq(Packets)
  BY <1>0, PacketTypes, EmptySeq
<1>2. LiveIds(hand) \subseteq Pending(s) /\ LiveIds(hand) \subseteq LiveIds(msg)
  <2>1. CASE Occurrences(todo, s) # {}
    <3>1. hand = msg /\ Pending(s) = LiveIds(msg)
      BY <2>1 DEF Pending, Occurrences
    <3>2. QED BY <3>1
  <2>2. CASE Occurrences(todo, s) = {}
    <3>1. hand = <<>>
      BY <2>2 DEF Occurrences
    <3>2. LiveIds(hand) = {}
      BY <3>1, EmptyOrdered
    <3>3. QED BY <3>2
  <2>3. QED BY <2>1, <2>2
<1>3. Ordered(hand)
  <2>1. msg = <<>> \/ \E m \in Messages : msg = <<m>>
    BY <1>0 DEF TypeInv, TypeOK, BrokerTypeOK
  <2>2. Ordered(msg)
    BY <2>1, SingletonOrdered, EmptyOrdered DEF Packets
  <2>3. QED BY <2>2, EmptyOrdered
<1>4. /\ Ordered(c) /\ Ordered(inbox) /\ Ordered(wire)
      /\ Before(LiveIds(c), LiveIds(hand)) /\ Before(LiveIds(c), LiveIds(inbox))
      /\ Before(LiveIds(c), LiveIds(wire))
      /\ Before(LiveIds(hand), LiveIds(inbox)) /\ Before(LiveIds(hand), LiveIds(wire))
      /\ Before(LiveIds(inbox), LiveIds(wire))
  BY <1>0, <1>2 DEF OrderPart, LinkOrder, HandlerOrder, ChannelOrder, Coming, Before
<1>5. Pipeline(s) = c \o hand \o inbox \o wire
  BY DEF Pipeline
<1> HIDE DEF hand, c
<1>6. /\ c \o hand \in Seq(Packets) /\ Ordered(c \o hand)
      /\ LiveIds(c \o hand) \subseteq LiveIds(c) \union LiveIds(hand)
  BY <1>1, <1>3, <1>4, ConcatOrdered
<1>7. /\ c \o hand \o inbox \in Seq(Packets) /\ Ordered(c \o hand \o inbox)
      /\ LiveIds(c \o hand \o inbox) \subseteq LiveIds(c \o hand) \union LiveIds(inbox)
  <2> DEFINE p == c \o hand
  <2>1. Before(LiveIds(p), LiveIds(inbox))
    BY <1>4, <1>6 DEF Before
  <2>2. p \in Seq(Packets) /\ Ordered(p)
    BY <1>6
  <2> HIDE DEF p
  <2>3. /\ p \o inbox \in Seq(Packets) /\ Ordered(p \o inbox)
        /\ LiveIds(p \o inbox) \subseteq LiveIds(p) \union LiveIds(inbox)
    BY <1>1, <1>4, <2>1, <2>2, ConcatOrdered
  <2>4. QED BY <2>3 DEF p
<1>8. Before(LiveIds(c \o hand \o inbox), LiveIds(wire))
  BY <1>4, <1>6, <1>7 DEF Before
<1>9. QED BY <1>1, <1>4, <1>5, <1>7, <1>8, ConcatOrdered

(* Events reach a stream in the order the server accepted them and none    *)
(* twice, for any number of streams, types, events and lost connections,   *)
(* if clients are careful.                                                 *)
THEOREM OrderKeeps == CarefulClients => (Spec => []EventsInOrder)
<1> SUFFICES ASSUME CarefulClients PROVE Spec => []EventsInOrder
  OBVIOUS
<1>1. Init => OrderInv
  BY InitOrder
<1>2. OrderInv /\ [Next]_vars => OrderInv'
  BY OrderStep
<1>3. OrderInv => EventsInOrder
  BY OrderInPipeline
<1>4. QED BY <1>1, <1>2, <1>3, PTL DEF Spec

-----------------------------------------------------------------------------
(* The refinement: what a client has received is behind it.                *)

GotBehind ==
    /\ got \in [Streams -> Nat] /\ count \in [Streams -> Nat]
    /\ \A s \in Streams : got[s] <= published /\ \A id \in Ahead(s) : got[s] < id

BusInv == OrderInv /\ GotBehind

LEMMA PublishedGrows ==
    ASSUME TypeInv, [Next]_vars
    PROVE  published' = published \/ published' = published + 1
<1> USE DEF linkVars, brokerVars
<1>1. CASE HandleOnConnect
  BY <1>1 DEF HandleOnConnect, OnConnectLock, OnConnectRLock, OnConnectResubscribe, OnConnectReply,
              OnConnectReturn, LinkSubscribe, LinkReturn
<1>2. CASE Subscribe \/ Cleanup
  BY <1>2 DEF Subscribe, SubscribeDo, SubscribeConnLock, SubscribeRequest, SubscribeReply,
              SubscribeLock, SubscribeStore, SubscribeDone, Cleanup, CleanupConnLock,
              CleanupRequest, CleanupReply, LinkSubscribe, LinkUnsubscribe, LinkReturn
<1>3. CASE HandleMessage
  BY <1>3 DEF HandleMessage, HandlerTake, HandlerRLock, HandlerSend, HandlerReturn, LinkTake
<1>4. CASE Publishers \/ Link
  BY <1>4 DEF Publishers, Publish, ForeignPublish, ServerPublish, Link, ReadPacket,
              LoseConnection, Reconnect, LinkReconnect
<1>5. ASSUME NEW s \in Streams, Stream(s) PROVE published' = published
  BY <1>5 DEF Stream, Receive, ReceiveLock, SubscribeAdd, SubscribeSend, ReceiveEnd, ContextDone,
              Clean, UnsubscribeLock, UnsubscribeAll, CloseChannel, Send, SendOk, SendError, RangeEnd
<1>6. QED BY <1>1, <1>2, <1>3, <1>4, <1>5 DEF Next, vars

LEMMA ReceivesStep ==
    ASSUME BusInv, NEW s \in Streams, Receives(s)
    PROVE  /\ UNCHANGED published
           /\ got[s] < Head(chan[s]).id /\ Head(chan[s]).id \in Nat
           /\ Head(chan[s]).id <= published
           /\ \A id \in Ahead(s)' : Head(chan[s]).id < id
           /\ \A t \in Streams : Receives(t) => t = s
<1> DEFINE q == chan[s]
           h == Head(q)
<1>0. /\ TypeInv /\ OrderPart /\ GotBehind /\ IsLive(h)
      /\ chan \in [Streams -> Seq(Messages)] /\ q \in Seq(Messages) /\ q # <<>>
      /\ chan' = [chan EXCEPT ![s] = Tail(q)]
      /\ UNCHANGED <<published, wire, inbox, msg, todo, readers>>
  BY DEF BusInv, OrderInv, ChannelInv, TypeInv, TypeOK, BrokerTypeOK, Receives, SendOk, linkVars,
         lockVars, handlerVars
<1>1. /\ Ordered(q) /\ (\A id \in LiveIds(q) : id <= published)
      /\ Before(LiveIds(q), Pending(s) \union Coming)
  BY <1>0 DEF OrderPart, ChannelOrder
<1>2. /\ h \in Packets /\ h.id \in LiveIds(q) /\ \A id \in LiveIds(Tail(q)) : h.id < id
  BY <1>0, <1>1, PacketTypes, TailOrdered
<1>3. h.id \in Nat /\ h.id \in Ahead(s)
  BY <1>0, <1>2, PacketIds DEF Ahead
<1>4. got[s] < h.id /\ h.id <= published
  BY <1>0, <1>1, <1>2, <1>3 DEF GotBehind
<1>5. Ahead(s)' = LiveIds(Tail(q)) \union Pending(s) \union Coming
  <2>1. chan'[s] = Tail(q) /\ Pending(s)' = Pending(s) /\ Coming' = Coming
    BY <1>0 DEF Pending, Coming
  <2>2. QED BY <2>1 DEF Ahead
<1>6. \A id \in Ahead(s)' : h.id < id
  BY <1>1, <1>2, <1>5 DEF Before
<1>7. ASSUME NEW t \in Streams, Receives(t) PROVE t = s
  <2>1. chan[t] \in Seq(Messages) /\ chan[t] # <<>> /\ chan'[t] = Tail(chan[t])
    BY <1>0, <1>7 DEF Receives, SendOk
  <2>2. Len(Tail(chan[t])) = Len(chan[t]) - 1 /\ Len(chan[t]) \in Nat
    BY <2>1
  <2>3. ASSUME t # s PROVE FALSE
    <3>1. Tail(chan[t]) = chan[t]
      BY <1>0, <2>1, <2>3
    <3>2. Len(Tail(chan[t])) = Len(chan[t])
      BY <3>1
    <3>3. QED BY <2>2, <3>2
  <2>4. QED BY <2>3
<1>8. QED BY <1>0, <1>3, <1>4, <1>6, <1>7

LEMMA BusStep ==
    ASSUME CarefulClients, BusInv, [DeliveryNext]_deliveryVars
    PROVE  BusInv' /\ [Bus!Next]_(Bus!vars)
<1>0. /\ OrderInv /\ GotBehind /\ TypeInv /\ published \in Nat
      /\ got \in [Streams -> Nat] /\ count \in [Streams -> Nat]
  BY PacketTypes DEF BusInv, OrderInv, ChannelInv, GotBehind
<1>1. [Next]_vars
  BY DEF DeliveryNext, deliveryVars
<1>2. OrderInv' /\ NothingStale /\ TypeInv'
  BY <1>0, <1>1, OrderStep DEF OrderInv, ChannelInv
<1>3. published' = published \/ published' = published + 1
  BY <1>0, <1>1, PublishedGrows
<1>4. ASSUME NEW s \in Streams, NEW id \in Ahead(s)'
      PROVE  id \in Ahead(s) \/ (id \in Nat /\ id > published)
  <2>1. id \in Ahead(s) \/ id \in published + 1 .. published'
    BY <1>2 DEF NothingStale
  <2>2. QED BY <1>0, <1>3, <2>1
<1>5. CASE got' = got /\ count' = count
  <2>1. ASSUME NEW s \in Streams, NEW id \in Ahead(s)' PROVE got[s] < id
    <3>1. id \in Ahead(s) \/ (id \in Nat /\ id > published)
      BY <1>4
    <3>2. got[s] \in Nat /\ got[s] <= published /\ (id \in Ahead(s) => got[s] < id)
      BY <1>0 DEF GotBehind
    <3>3. QED BY <1>0, <3>1, <3>2
  <2>2. \A s \in Streams : got[s] <= published'
    BY <1>0, <1>3 DEF GotBehind
  <2>3. GotBehind'
    BY <1>0, <1>5, <2>1, <2>2 DEF GotBehind
  <2>4. [Bus!Next]_(Bus!vars)
    BY <1>3, <1>5 DEF Bus!Next, Bus!Publish, Bus!vars
  <2>5. QED BY <1>2, <2>3, <2>4 DEF BusInv
<1>6. ASSUME NEW s \in Streams, Receives(s), DeliveryNext PROVE BusInv' /\ Bus!Next
  <2> DEFINE n == Head(chan[s]).id
  <2>1. /\ published' = published
        /\ got[s] < n /\ n \in Nat /\ n <= published
        /\ \A id \in Ahead(s)' : n < id
        /\ \A t \in Streams : Receives(t) => t = s
    BY <1>6, ReceivesStep
  <2>2. got' = [got EXCEPT ![s] = n] /\ count' = [count EXCEPT ![s] = count[s] + 1]
    BY <1>0, <1>6, <2>1 DEF DeliveryNext
  <2> HIDE DEF n
  <2>3. got'[s] = n /\ \A t \in Streams \ {s} : got'[t] = got[t]
    BY <1>0, <2>2
  <2>4. got' \in [Streams -> Nat] /\ count' \in [Streams -> Nat]
    BY <1>0, <2>1, <2>2
  <2>5. ASSUME NEW t \in Streams PROVE got'[t] <= published' /\ \A id \in Ahead(t)' : got'[t] < id
    <3>1. CASE t = s
      BY <2>1, <2>3, <3>1
    <3>2. CASE t # s
      <4>1. got'[t] = got[t] /\ got[t] \in Nat /\ got[t] <= published
        BY <1>0, <2>3, <3>2 DEF GotBehind
      <4>2. ASSUME NEW id \in Ahead(t)' PROVE got[t] < id
        <5>1. id \in Ahead(t) \/ (id \in Nat /\ id > published)
          BY <1>4
        <5>2. id \in Ahead(t) => got[t] < id
          BY <1>0 DEF GotBehind
        <5>3. QED BY <1>0, <4>1, <5>1, <5>2
      <4>3. QED BY <2>1, <4>1, <4>2
    <3>3. QED BY <3>1, <3>2
  <2>6. BusInv'
    BY <1>2, <2>4, <2>5 DEF BusInv, GotBehind
  <2>7. Bus!Receive(s)
    <3>1. n \in got[s] + 1 .. published
      BY <1>0, <2>1
    <3>2. QED BY <2>1, <2>2, <3>1 DEF Bus!Receive
  <2>8. QED BY <2>6, <2>7 DEF Bus!Next
<1>7. CASE DeliveryNext /\ \A s \in Streams : ~Receives(s)
  BY <1>0, <1>5, <1>7 DEF DeliveryNext
<1>8. CASE UNCHANGED deliveryVars
  BY <1>5, <1>8 DEF deliveryVars
<1>9. QED BY <1>6, <1>7, <1>8

(* The whole event path, from the server to the clients of the streams,    *)
(* implements the event bus if clients are careful: every step of it is a  *)
(* step of EventBus or none.                                               *)
THEOREM ImplementsEventBus == CarefulClients => (DeliverySpec => DeliversInOrder)
<1> SUFFICES ASSUME CarefulClients PROVE DeliverySpec => DeliversInOrder
  OBVIOUS
<1>1. DeliveryInit => BusInv /\ Bus!Init
  <2> SUFFICES ASSUME DeliveryInit PROVE BusInv /\ Bus!Init
    OBVIOUS
  <2>1. OrderInv /\ published = 0 /\ got = [s \in Streams |-> 0] /\ count = got
    BY InitOrder DEF DeliveryInit, Init, LinkInit
  <2>2. wire = <<>> /\ inbox = <<>> /\ msg = <<>> /\ \A s \in Streams : chan[s] = <<>>
    BY DEF DeliveryInit, Init, LinkInit, BrokerInit
  <2>3. \A s \in Streams : Ahead(s) = {}
    BY <2>2, EmptyOrdered DEF Ahead, Pending, Coming
  <2>4. QED BY <2>1, <2>3 DEF BusInv, GotBehind, Bus!Init
<1>2. BusInv /\ [DeliveryNext]_deliveryVars => BusInv' /\ [Bus!Next]_(Bus!vars)
  BY BusStep
<1>3. QED BY <1>1, <1>2, PTL DEF DeliverySpec, DeliversInOrder, Bus!Spec

=============================================================================
