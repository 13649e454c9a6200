----------------------------- MODULE ChannelProofs -----------------------------
(***************************************************************************)
(* Under which use of the service Handle may close its channel: when no    *)
(* stream asks twice for a type and every client waits, before it leaves,  *)
(* until its requests have been processed.                                 *)
(***************************************************************************)
EXTENDS SubscriberProofs

CarefulClients == ~CancelEarly /\ \A script \in Scripts : AllDistinct(script)

-----------------------------------------------------------------------------
(* The inductive invariant, part by part.                                  *)

(* A stream is in a list at most once, ...                                 *)
ListsDistinct == \A u \in TypeUrls : AllDistinct(receivers[u])

(* ... because what it has still to ask for is new to it: with the request *)
(* it is about to finish as the only exception.                            *)
RequestsNew ==
    \A s \in Streams :
        /\ AllDistinct(requests[s])
        /\ \A u \in TypeUrls :
              Occurrences(receivers[u], s) # {} =>
                  \A i \in DOMAIN requests[s] :
                      requests[s][i] = u => recv[s] = "sending" /\ i = 1

(* A stream's context ends behind its last request, ...                    *)
LeavesLast ==
    \A s \in Streams :
        /\ clean[s] # "open" \/ loop[s] = "done" => recv[s] = "done"
        /\ s \in closed => clean[s] = "closed"

(* ... and from UnsubscribeAll on neither the lists nor the handler's copy *)
(* of one have the stream.                                                 *)
GoneIsGone ==
    \A s \in Streams :
        clean[s] \in {"removed", "closed"} =>
            /\ \A u \in TypeUrls : Occurrences(receivers[u], s) = {}
            /\ Occurrences(todo, s) = {}

ChannelInv ==
    /\ TypeInv
    /\ ListsDistinct /\ RequestsNew /\ LeavesLast /\ GoneIsGone
    /\ NoSendOnClosed

ChannelPart == ListsDistinct /\ RequestsNew /\ LeavesLast /\ GoneIsGone /\ NoSendOnClosed

LEMMA ChannelPartUnchanged ==
    ASSUME ChannelPart,
           UNCHANGED <<receivers, requests, recv, clean, loop, closed, todo, panic>>
    PROVE  ChannelPart'
BY DEF ChannelPart, ListsDistinct, RequestsNew, LeavesLast, GoneIsGone, NoSendOnClosed

LEMMA TailOfDistinct ==
    ASSUME NEW S, NEW q \in Seq(S), q # <<>>, AllDistinct(q)
    PROVE  /\ AllDistinct(Tail(q))
           /\ \A i \in DOMAIN Tail(q) : i + 1 \in DOMAIN q /\ Tail(q)[i] = q[i + 1] /\ Tail(q)[i] # Head(q)
<1>1. /\ Len(q) \in Nat \ {0} /\ DOMAIN q = 1 .. Len(q) /\ Head(q) = q[1]
      /\ DOMAIN Tail(q) = 1 .. Len(q) - 1
      /\ \A i \in 1 .. Len(q) - 1 : Tail(q)[i] = q[i + 1]
  OBVIOUS
<1> DEFINE rest == Tail(q)
<1> HIDE DEF rest
<1>2. DOMAIN rest = 1 .. Len(q) - 1 /\ \A i \in 1 .. Len(q) - 1 : rest[i] = q[i + 1]
  BY <1>1 DEF rest
<1>3. AllDistinct(rest)
  BY <1>1, <1>2 DEF AllDistinct
<1>4. \A i \in DOMAIN rest : i + 1 \in DOMAIN q /\ rest[i] = q[i + 1] /\ rest[i] # Head(q)
  BY <1>1, <1>2 DEF AllDistinct
<1>5. QED BY <1>3, <1>4 DEF rest

-----------------------------------------------------------------------------
(* The handler.                                                            *)

LEMMA ChannelPartHandler ==
    ASSUME ChannelInv, HandleMessage, UNCHANGED streamVars
    PROVE  ChannelPart'
<1> USE DEF connVars, lockVars, mapVars, goVars, handlerVars, chanVars, streamVars
<1>0. /\ ChannelPart
      /\ todo \in Seq(Streams)
      /\ msg # <<>> => msg[1].topic \in TypeUrls
  <2>1. msg \in {<<>>} \union {<<m>> : m \in Messages}
    BY DEF ChannelInv, TypeInv, TypeOK, BrokerTypeOK
  <2>2. msg # <<>> => msg[1] \in Messages
    BY <2>1
  <2>3. QED BY <2>2 DEF ChannelInv, ChannelPart, TypeInv, TypeOK, BrokerTypeOK, Messages
<1>1. CASE HandlerTake \/ HandlerReturn
  BY <1>0, <1>1, ChannelPartUnchanged DEF HandlerTake, HandlerReturn
<1>2. CASE HandlerRLock
  <2>1. /\ todo' = receivers[msg[1].topic] /\ msg # <<>>
        /\ UNCHANGED <<receivers, requests, recv, clean, loop, closed, panic>>
    BY <1>2 DEF HandlerRLock
  <2>2. \A s \in Streams : clean[s] \in {"removed", "closed"} => Occurrences(todo', s) = {}
    BY <1>0, <2>1 DEF ChannelPart, GoneIsGone
  <2>3. QED BY <1>0, <2>1, <2>2
            DEF ChannelPart, ListsDistinct, RequestsNew, LeavesLast, GoneIsGone, NoSendOnClosed
<1>3. CASE HandlerSend
  <2>1. /\ todo # <<>> /\ Len(todo) \in Nat \ {0}
        /\ Head(todo) \in Streams /\ 1 \in Occurrences(todo, Head(todo))
    <3>1. todo # <<>> /\ todo \in Seq(Streams)
      BY <1>0, <1>3 DEF HandlerSend
    <3>2. Len(todo) \in Nat \ {0} /\ Head(todo) = todo[1] /\ Head(todo) \in Streams
      BY <3>1
    <3>3. 1 \in Occurrences(todo, Head(todo))
      BY <3>2 DEF Occurrences
    <3>4. QED BY <3>1, <3>2, <3>3
  <2>2. Head(todo) \notin closed
    BY <1>0, <2>1 DEF ChannelPart, LeavesLast, GoneIsGone
  <2>3. /\ todo' = Tail(todo)
        /\ UNCHANGED <<receivers, requests, recv, clean, loop, closed, panic>>
    BY <1>3, <2>2 DEF HandlerSend
  <2>4. \A s \in Streams : Occurrences(todo, s) = {} => Occurrences(todo', s) = {}
    <3>1. /\ Len(todo') = Len(todo) - 1
          /\ \A i \in 1 .. Len(todo) - 1 : todo'[i] = todo[i + 1]
      BY <1>0, <2>1, <2>3
    <3>2. QED BY <2>1, <3>1 DEF Occurrences
  <2>5. GoneIsGone'
    BY <1>0, <2>3, <2>4 DEF ChannelPart, GoneIsGone
  <2>6. ListsDistinct' /\ RequestsNew' /\ LeavesLast' /\ NoSendOnClosed'
    BY <1>0, <2>3 DEF ChannelPart, ListsDistinct, RequestsNew, LeavesLast, NoSendOnClosed
  <2>7. QED BY <2>5, <2>6 DEF ChannelPart
<1>4. QED BY <1>1, <1>2, <1>3 DEF HandleMessage

-----------------------------------------------------------------------------
(* Operations that leave the lists, the channels and the streams alone.    *)

LEMMA ChannelPartOthers ==
    ASSUME ChannelInv,
           \/ (HandleOnConnect \/ Subscribe \/ Cleanup) /\ UNCHANGED streamVars
           \/ Publishers
           \/ Link
    PROVE  ChannelPart'
<1> USE DEF connVars, lockVars, mapVars, goVars, handlerVars, chanVars, streamVars, brokerVars
<1>0. ChannelPart
  BY DEF ChannelInv, ChannelPart
<1>1. CASE HandleOnConnect /\ UNCHANGED streamVars
  BY <1>0, <1>1, ChannelPartUnchanged
  DEF HandleOnConnect, OnConnectLock, OnConnectRLock, OnConnectResubscribe, OnConnectReply,
      OnConnectReturn
<1>2. CASE Subscribe /\ UNCHANGED streamVars
  <2>1. CASE SubscribeRequest
    <3>1. /\ UNCHANGED <<receivers, requests, recv, clean, loop, closed, todo>>
          /\ panic' = panic \/ panic' = "nil conn"
      BY <1>2, <2>1 DEF SubscribeRequest
    <3>2. QED BY <1>0, <3>1
              DEF ChannelPart, ListsDistinct, RequestsNew, LeavesLast, GoneIsGone, NoSendOnClosed
  <2>2. CASE ~SubscribeRequest
    BY <1>0, <1>2, <2>2, ChannelPartUnchanged
    DEF Subscribe, SubscribeDo, SubscribeConnLock, SubscribeReply, SubscribeLock, SubscribeStore,
        SubscribeDone
  <2>3. QED BY <2>1, <2>2
<1>3. CASE Cleanup /\ UNCHANGED streamVars
  <2>1. /\ UNCHANGED <<receivers, requests, recv, clean, loop, closed, todo>>
        /\ panic' = panic \/ panic' = "nil conn"
    BY <1>3 DEF Cleanup, CleanupConnLock, CleanupRequest, CleanupReply
  <2>2. QED BY <1>0, <2>1
            DEF ChannelPart, ListsDistinct, RequestsNew, LeavesLast, GoneIsGone, NoSendOnClosed
<1>4. CASE Publishers
  BY <1>0, <1>4, ChannelPartUnchanged DEF Publishers, Publish, ForeignPublish
<1>5. CASE Link
  BY <1>0, <1>5, ChannelPartUnchanged DEF Link, Reconnect
<1>6. QED BY <1>1, <1>2, <1>3, <1>4, <1>5

-----------------------------------------------------------------------------
(* The streams.                                                            *)

LEMMA RequestsStepNew ==
    ASSUME ChannelInv, NEW s \in Streams, requests[s] # <<>>,
           recv[s] \in {"locked", "sending"},
           requests' = [requests EXCEPT ![s] = Tail(@)],
           recv' = [recv EXCEPT ![s] = "receive"],
           \A t \in Streams, u \in TypeUrls :
               Occurrences(receivers'[u], t) # {} =>
                   Occurrences(receivers[u], t) # {} \/ (t = s /\ u = Head(requests[s]))
    PROVE  RequestsNew'
<1>0. /\ requests \in [Streams -> Seq(TypeUrls)]
      /\ recv \in [Streams -> {"receive", "locked", "sending", "done"}]
      /\ RequestsNew
  BY DEF ChannelInv, TypeInv, TypeOK, StreamTypeOK
<1>1. /\ AllDistinct(Tail(requests[s]))
      /\ \A i \in DOMAIN Tail(requests[s]) :
            /\ i + 1 \in DOMAIN requests[s] /\ Tail(requests[s])[i] = requests[s][i + 1]
            /\ Tail(requests[s])[i] # Head(requests[s])
      /\ DOMAIN Tail(requests[s]) \subseteq Nat \ {0}
  <2>1. requests[s] \in Seq(TypeUrls) /\ AllDistinct(requests[s])
    BY <1>0 DEF RequestsNew
  <2>2. DOMAIN Tail(requests[s]) \subseteq Nat \ {0}
    BY <2>1
  <2>3. QED BY <2>1, <2>2, TailOfDistinct
<1>2. ASSUME NEW t \in Streams PROVE AllDistinct(requests'[t])
  BY <1>0, <1>1 DEF RequestsNew
<1>3. ASSUME NEW t \in Streams, NEW u \in TypeUrls, Occurrences(receivers'[u], t) # {},
             NEW i \in DOMAIN requests'[t], requests'[t][i] = u
      PROVE  recv'[t] = "sending" /\ i = 1
  <2>1. CASE t = s
    <3>1. requests'[s] = Tail(requests[s])
      BY <1>0
    <3>2. i \in DOMAIN Tail(requests[s]) /\ Tail(requests[s])[i] = u
      BY <1>3, <2>1, <3>1
    <3>3. u # Head(requests[s]) /\ i + 1 \in DOMAIN requests[s] /\ requests[s][i + 1] = u /\ i + 1 # 1
      BY <1>1, <3>2
    <3>4. Occurrences(receivers[u], s) # {}
      BY <1>3, <2>1, <3>3
    <3>5. QED BY <1>0, <3>3, <3>4 DEF RequestsNew
  <2>2. CASE t # s
    BY <1>0, <1>3, <2>2 DEF RequestsNew
  <2>3. QED BY <2>1, <2>2
<1>4. QED BY <1>2, <1>3 DEF RequestsNew

LEMMA ChannelPartReceive ==
    ASSUME ChannelInv, NEW s \in Streams, Receive(s)
    PROVE  ChannelPart'
<1> USE DEF connVars, lockVars, mapVars, goVars, handlerVars, chanVars, streamVars, brokerVars
<1>0. /\ requests \in [Streams -> Seq(TypeUrls)]
      /\ recv \in [Streams -> {"receive", "locked", "sending", "done"}]
      /\ receivers \in [TypeUrls -> Seq(Streams)]
      /\ StreamTypeOK /\ RequestAtHand /\ ChannelPart
  BY DEF ChannelInv, ChannelPart, TypeInv, TypeOK, StreamTypeOK, BrokerTypeOK
<1>1. CASE ReceiveLock(s)
  <2>1. /\ recv[s] = "receive" /\ recv' = [recv EXCEPT ![s] = "locked"]
        /\ UNCHANGED <<receivers, requests, clean, loop, closed, todo, panic>>
    BY <1>1 DEF ReceiveLock
  <2>2. LeavesLast' /\ GoneIsGone'
    BY <1>0, <2>1 DEF ChannelPart, LeavesLast, GoneIsGone
  <2>3. ListsDistinct' /\ RequestsNew' /\ NoSendOnClosed'
    BY <1>0, <2>1 DEF ChannelPart, ListsDistinct, RequestsNew, NoSendOnClosed
  <2>4. QED BY <2>2, <2>3 DEF ChannelPart
<1>2. CASE ReceiveEnd(s)
  <2>1. /\ recv[s] = "receive" /\ recv' = [recv EXCEPT ![s] = "done"]
        /\ UNCHANGED <<receivers, requests, clean, loop, closed, todo, panic>>
    BY <1>2 DEF ReceiveEnd
  <2>2. LeavesLast' /\ GoneIsGone'
    BY <1>0, <2>1 DEF ChannelPart, LeavesLast, GoneIsGone
  <2>3. ListsDistinct' /\ RequestsNew' /\ NoSendOnClosed'
    BY <1>0, <2>1 DEF ChannelPart, ListsDistinct, RequestsNew, NoSendOnClosed
  <2>4. QED BY <2>2, <2>3 DEF ChannelPart
<1>3. CASE SubscribeAdd(s)
  <2> DEFINE u == Head(requests[s])
  <2>1. /\ recv[s] = "locked" /\ requests[s] # <<>> /\ u \in TypeUrls
        /\ 1 \in DOMAIN requests[s] /\ requests[s][1] = u
    BY <1>0, <1>3, RequestType DEF SubscribeAdd, RequestAtHand
  <2>2. /\ receivers' = [receivers EXCEPT ![u] = Append(@, s)]
        /\ UNCHANGED <<clean, loop, closed, todo, panic>>
    BY <1>3 DEF SubscribeAdd, AddReceiver
  <2>3. Occurrences(receivers[u], s) = {} /\ clean[s] = "open" /\ loop[s] # "done"
    BY <1>0, <2>1 DEF ChannelPart, RequestsNew, LeavesLast
  <2>4. ListsDistinct'
    BY <1>0, <2>1, <2>2, <2>3, AppendToDistinct DEF ChannelPart, ListsDistinct
  <2>5. \A t \in Streams, v \in TypeUrls :
            Occurrences(receivers'[v], t) # {} =>
                Occurrences(receivers[v], t) # {} \/ (t = s /\ v = u)
    BY <1>0, <2>1, <2>2, AppendOccurrences
  <2>6. GoneIsGone' /\ NoSendOnClosed'
    BY <1>0, <2>2, <2>3, <2>5 DEF ChannelPart, GoneIsGone, NoSendOnClosed
  <2>7. CASE SubscribeReturn(s)
    <3>1. requests' = [requests EXCEPT ![s] = Tail(@)] /\ recv' = [recv EXCEPT ![s] = "receive"]
      BY <2>7 DEF SubscribeReturn
    <3>2. RequestsNew'
      BY <2>1, <2>5, <3>1, RequestsStepNew
    <3>3. LeavesLast'
      BY <1>0, <2>1, <2>2, <3>1 DEF ChannelPart, LeavesLast
    <3>4. QED BY <2>4, <2>6, <3>2, <3>3 DEF ChannelPart
  <2>8. CASE recv' = [recv EXCEPT ![s] = "sending"] /\ UNCHANGED requests
    <3>1. RequestsNew'
      <4>1. \A i \in DOMAIN requests[s] : requests[s][i] = u => i = 1
        BY <1>0, <2>1 DEF ChannelPart, RequestsNew, AllDistinct
      <4>2. recv'[s] = "sending" /\ \A t \in Streams \ {s} : recv'[t] = recv[t]
        BY <1>0, <2>8
      <4>3. ASSUME NEW t \in Streams, NEW v \in TypeUrls, Occurrences(receivers'[v], t) # {},
                   NEW i \in DOMAIN requests[t], requests[t][i] = v
            PROVE  recv'[t] = "sending" /\ i = 1
        <5>1. CASE t = s /\ v = u
          <6>1. i \in DOMAIN requests[s] /\ requests[s][i] = u
            BY <4>3, <5>1
          <6>2. i = 1
            BY <4>1, <6>1
          <6>3. QED BY <4>2, <5>1, <6>2
        <5>2. CASE ~(t = s /\ v = u)
          <6>1. Occurrences(receivers[v], t) # {}
            BY <2>5, <4>3, <5>2
          <6>2. recv[t] = "sending" /\ i = 1
            BY <1>0, <4>3, <6>1 DEF ChannelPart, RequestsNew
          <6>3. QED BY <4>2, <6>2
        <5>3. QED BY <5>1, <5>2
      <4>4. requests' = requests /\ \A t \in Streams : AllDistinct(requests[t])
        BY <1>0, <2>8 DEF ChannelPart, RequestsNew
      <4>5. ASSUME NEW t \in Streams
            PROVE  AllDistinct(requests'[t])
        BY <4>4
      <4>6. ASSUME NEW t \in Streams, NEW v \in TypeUrls, Occurrences(receivers'[v], t) # {},
                   NEW i \in DOMAIN requests'[t], requests'[t][i] = v
            PROVE  recv'[t] = "sending" /\ i = 1
        BY <4>3, <4>4, <4>6
      <4>7. QED BY <4>5, <4>6 DEF RequestsNew
    <3>2. LeavesLast'
      BY <1>0, <2>1, <2>2, <2>8 DEF ChannelPart, LeavesLast
    <3>3. QED BY <2>4, <2>6, <3>1, <3>2 DEF ChannelPart
  <2>9. QED BY <1>3, <2>7, <2>8 DEF SubscribeAdd
<1>4. CASE SubscribeSend(s)
  <2>1. recv[s] = "sending" /\ requests[s] # <<>>
    BY <1>0, <1>4 DEF SubscribeSend, RequestAtHand
  <2>2. s \notin closed
    BY <1>0, <2>1 DEF ChannelPart, LeavesLast
  <2>3. /\ requests' = [requests EXCEPT ![s] = Tail(@)] /\ recv' = [recv EXCEPT ![s] = "receive"]
        /\ UNCHANGED <<receivers, clean, loop, closed, todo, panic>>
    BY <1>4, <2>2 DEF SubscribeSend, SubscribeReturn
  <2>4. RequestsNew'
    BY <2>1, <2>3, RequestsStepNew
  <2>5. QED BY <1>0, <2>1, <2>3, <2>4
            DEF ChannelPart, ListsDistinct, LeavesLast, GoneIsGone, NoSendOnClosed
<1>5. QED BY <1>1, <1>2, <1>3, <1>4 DEF Receive

LEMMA ChannelPartClean ==
    ASSUME CarefulClients, ChannelInv, NEW s \in Streams, ContextDone(s) \/ Clean(s) \/ Send(s)
    PROVE  ChannelPart'
<1> USE DEF connVars, lockVars, mapVars, goVars, handlerVars, chanVars, streamVars, brokerVars
<1>0. /\ clean \in [Streams -> {"open", "ended", "locked", "removed", "closed"}]
      /\ loop \in [Streams -> {"run", "done"}]
      /\ receivers \in [TypeUrls -> Seq(Streams)]
      /\ todo \in Seq(Streams)
      /\ HandlerReads /\ ChannelPart
  BY DEF ChannelInv, ChannelPart, TypeInv, TypeOK, StreamTypeOK, BrokerTypeOK
<1>1. MayLeave(s) => recv[s] = "done"
  BY DEF MayLeave, CarefulClients
<1>2. CASE ContextDone(s) \/ UnsubscribeLock(s)
  <2>1. /\ clean[s] = "open" => recv[s] = "done"
        /\ clean' = [clean EXCEPT ![s] = "ended"] \/ clean' = [clean EXCEPT ![s] = "locked"]
        /\ UNCHANGED <<receivers, requests, recv, loop, closed, todo, panic>>
    BY <1>0, <1>1, <1>2 DEF ContextDone, UnsubscribeLock, ChannelPart, LeavesLast
  <2>2. clean[s] \in {"open", "ended"}
    BY <1>2 DEF ContextDone, UnsubscribeLock
  <2>3. ListsDistinct' /\ RequestsNew' /\ NoSendOnClosed'
    BY <1>0, <2>1 DEF ChannelPart, ListsDistinct, RequestsNew, NoSendOnClosed
  <2>4. LeavesLast'
    BY <1>0, <2>1, <2>2 DEF ChannelPart, LeavesLast
  <2>5. GoneIsGone'
    BY <1>0, <2>1 DEF ChannelPart, GoneIsGone
  <2>6. QED BY <2>3, <2>4, <2>5 DEF ChannelPart
<1>6. CASE CloseChannel(s)
  <2>1. /\ clean[s] = "removed" /\ clean' = [clean EXCEPT ![s] = "closed"]
        /\ closed' = closed \union {s}
        /\ UNCHANGED <<receivers, requests, recv, loop, todo, panic>>
    BY <1>6 DEF CloseChannel
  <2>2. ListsDistinct' /\ RequestsNew' /\ NoSendOnClosed'
    BY <1>0, <2>1 DEF ChannelPart, ListsDistinct, RequestsNew, NoSendOnClosed
  <2>3. LeavesLast'
    BY <1>0, <2>1 DEF ChannelPart, LeavesLast
  <2>4. GoneIsGone'
    BY <1>0, <2>1 DEF ChannelPart, GoneIsGone
  <2>5. QED BY <2>2, <2>3, <2>4 DEF ChannelPart
<1>3. CASE UnsubscribeAll(s)
  <2>1. /\ clean[s] = "locked" /\ clean' = [clean EXCEPT ![s] = "removed"]
        /\ receivers' = [u \in TypeUrls |-> RemoveReceiver(receivers[u], s)]
        /\ UNCHANGED <<requests, recv, loop, closed, todo, panic>>
        /\ todo = <<>>
    BY <1>0, <1>3 DEF UnsubscribeAll, RemoveEverywhere, HandlerReads
  <2>2. \A u \in TypeUrls :
            /\ AllDistinct(receivers'[u])
            /\ Occurrences(receivers'[u], s) = {}
            /\ \A r : Occurrences(receivers'[u], r) # {} => Occurrences(receivers[u], r) # {}
    BY <1>0, <2>1, RemovalFromDistinct DEF ChannelPart, ListsDistinct
  <2>3. ListsDistinct' /\ NoSendOnClosed' /\ LeavesLast'
    BY <1>0, <2>1, <2>2 DEF ChannelPart, ListsDistinct, NoSendOnClosed, LeavesLast
  <2>4. RequestsNew'
    BY <1>0, <2>1, <2>2 DEF ChannelPart, RequestsNew
  <2>5. GoneIsGone'
    <3>1. \A t \in Streams : Occurrences(todo', t) = {}
      BY <2>1 DEF Occurrences
    <3>2. QED BY <1>0, <2>1, <2>2, <3>1 DEF ChannelPart, GoneIsGone
  <2>6. QED BY <2>3, <2>4, <2>5 DEF ChannelPart
<1>4. CASE SendOk(s)
  BY <1>0, <1>4, ChannelPartUnchanged DEF SendOk
<1>5. CASE SendError(s) \/ RangeEnd(s)
  <2>1. /\ loop' = [loop EXCEPT ![s] = "done"]
        /\ UNCHANGED <<receivers, requests, recv, clean, closed, todo, panic>>
    BY <1>5 DEF SendError, RangeEnd
  <2>2. recv[s] = "done"
    <3>1. CASE SendError(s)
      BY <1>1, <3>1 DEF SendError
    <3>2. CASE RangeEnd(s)
      BY <1>0, <3>2 DEF RangeEnd, ChannelPart, LeavesLast
    <3>3. QED BY <1>5, <3>1, <3>2
  <2>3. ListsDistinct' /\ RequestsNew' /\ NoSendOnClosed' /\ GoneIsGone'
    BY <1>0, <2>1 DEF ChannelPart, ListsDistinct, RequestsNew, NoSendOnClosed, GoneIsGone
  <2>4. LeavesLast'
    BY <1>0, <2>1, <2>2 DEF ChannelPart, LeavesLast
  <2>5. QED BY <2>3, <2>4 DEF ChannelPart
<1>7. QED BY <1>2, <1>3, <1>4, <1>5, <1>6 DEF Clean, Send

-----------------------------------------------------------------------------

LEMMA InitChannel == CarefulClients /\ Init => ChannelInv
<1> SUFFICES ASSUME CarefulClients, Init PROVE ChannelInv
  OBVIOUS
<1>1. TypeInv
  BY InitType
<1>2. \A u \in TypeUrls : receivers[u] = <<>>
  BY DEF Init, BrokerInit
<1>3. \A u \in TypeUrls : AllDistinct(receivers[u]) /\ \A s : Occurrences(receivers[u], s) = {}
  <2> DEFINE empty == <<>>
  <2>1. Len(empty) = 0 /\ DOMAIN empty = {}
    OBVIOUS
  <2> HIDE DEF empty
  <2>2. AllDistinct(empty) /\ \A s : Occurrences(empty, s) = {}
    BY <2>1 DEF AllDistinct, Occurrences
  <2>3. QED BY <1>2, <2>2 DEF empty
<1>4. \A s \in Streams : AllDistinct(requests[s])
  BY DEF Init, CarefulClients
<1>5. QED BY <1>1, <1>3, <1>4
          DEF Init, BrokerInit, ChannelInv, ListsDistinct, RequestsNew, LeavesLast, GoneIsGone,
              NoSendOnClosed

LEMMA ChannelInvStep == CarefulClients /\ ChannelInv /\ [Next]_vars => ChannelInv'
<1> SUFFICES ASSUME CarefulClients, ChannelInv, [Next]_vars PROVE ChannelInv'
  OBVIOUS
<1>1. TypeInv'
  BY TypeInvStep DEF ChannelInv
<1>2. CASE Next
  <2>1. ChannelPart'
    BY <1>2, ChannelPartHandler, ChannelPartOthers, ChannelPartReceive, ChannelPartClean
    DEF Next, Stream
  <2>2. QED BY <1>1, <2>1 DEF ChannelInv, ChannelPart
<1>3. CASE UNCHANGED vars
  BY <1>1, <1>3, ChannelPartUnchanged
  DEF ChannelInv, ChannelPart, vars, brokerVars, mapVars, handlerVars, chanVars, streamVars
<1>4. QED BY <1>2, <1>3

(* subscriber.go:41-43, "msgs cannot be used again by the broker and we    *)
(* are safe to close it": true for any number of streams, types, events    *)
(* and lost connections, and for any capacity of the channel, if clients   *)
(* are careful.                                                            *)
THEOREM SafeToClose == CarefulClients => (Spec => []NoSendOnClosed)
<1> SUFFICES ASSUME CarefulClients PROVE Spec => []NoSendOnClosed
  OBVIOUS
<1>1. Init => ChannelInv
  BY InitChannel
<1>2. ChannelInv /\ [Next]_vars => ChannelInv'
  BY ChannelInvStep
<1>3. ChannelInv => NoSendOnClosed
  BY DEF ChannelInv
<1>4. QED BY <1>1, <1>2, <1>3, PTL DEF Spec

=============================================================================
