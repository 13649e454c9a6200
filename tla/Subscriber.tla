------------------------------ MODULE Subscriber ------------------------------
(***************************************************************************)
(* internal/broker/subscriber.go: Subscriber.Handle, and with it the whole *)
(* event path of the service.  internal/service/events_service.go runs one *)
(* Handle per Subscribe or SubscribeOnce call.                             *)
(*                                                                         *)
(* Each stream has three goroutines that share one channel:                *)
(*  - the receive loop, which passes the stream's subscribe requests to    *)
(*    Broker.Subscribe (`recv`, with `requests` still to come);            *)
(*  - the goroutine that waits for the stream's context to end, then calls *)
(*    UnsubscribeAll and closes the channel (`clean`);                     *)
(*  - Handle itself, which sends what arrives in the channel (`loop`).     *)
(***************************************************************************)
EXTENDS Broker

CONSTANTS
    Scripts,      \* the request sequences a stream may send
    Leavers,      \* the streams whose client may go away
    CancelEarly   \* may it go while a request has not been processed?

ASSUME SubscriberAssumption ==
    /\ Scripts \subseteq Seq(TypeUrls)
    /\ Leavers \subseteq Streams
    /\ CancelEarly \in BOOLEAN

VARIABLES
    requests,     \* the requests Receive has still to return
    recv,         \* the receive loop
    clean,        \* the goroutine that waits for the context
    loop          \* Handle

streamVars == <<requests, recv, clean, loop>>
vars == <<linkVars, brokerVars, streamVars>>

StreamTypeOK ==
    /\ requests \in [Streams -> Seq(TypeUrls)]
    /\ recv \in [Streams -> {"receive", "locked", "sending", "done"}]
    /\ clean \in [Streams -> {"open", "ended", "locked", "removed", "closed"}]
    /\ loop \in [Streams -> {"run", "done"}]

(* Every variable has its type.                                            *)
TypeOK == LinkTypeOK /\ BrokerTypeOK /\ StreamTypeOK

Init ==
    /\ LinkInit
    /\ BrokerInit
    /\ requests \in [Streams -> Scripts]
    /\ recv = [s \in Streams |-> "receive"]
    /\ clean = [s \in Streams |-> "open"]
    /\ loop = [s \in Streams |-> "run"]

-----------------------------------------------------------------------------
(* The receive loop: Receive returned a request and Broker.Subscribe is    *)
(* called.  The Receive of SubscribeOnce (fakeBidiStream) never looks at   *)
(* the context, that of a real stream may have a request at hand when the  *)
(* context ends.                                                           *)
ReceiveLock(s) ==
    /\ recv[s] = "receive" /\ requests[s] # <<>>
    /\ AnnounceWriter
    /\ recv' = [recv EXCEPT ![s] = "locked"]
    /\ UNCHANGED <<linkVars, connVars, readers, mapVars, goVars, handlerVars,
                   chanVars, panic, requests, clean, loop>>

(* Slip: an early return for a subscribed URL, without Unlock.             *)
SubscribeReturnLocked(s) ==
    /\ SpawnSubscribe(Head(requests[s]))
    /\ writer' = (Head(requests[s]) \in topics)
    /\ requests' = [requests EXCEPT ![s] = Tail(@)]
    /\ recv' = [recv EXCEPT ![s] = "receive"]

(* The end of Broker.Subscribe: start the goroutine, unlock.               *)
SubscribeReturn(s) ==
    /\ SpawnSubscribe(Head(requests[s]))
    /\ writer' = FALSE
    /\ requests' = [requests EXCEPT ![s] = Tail(@)]
    /\ recv' = [recv EXCEPT ![s] = "receive"]

SubscribeAdd(s) ==
    /\ recv[s] = "locked" /\ readers = {}
    /\ AddReceiver(Head(requests[s]), s)
    /\ \/ /\ retainedMsgs[Head(requests[s])] = 0
          /\ SubscribeReturn(s)
       \/ /\ retainedMsgs[Head(requests[s])] # 0
          /\ recv' = [recv EXCEPT ![s] = "sending"]
          /\ UNCHANGED <<spawned, writer, requests>>
    /\ UNCHANGED <<linkVars, connVars, readers, topics, retainedMsgs, leading,
                   inFlight, cleanups, handlerVars, chanVars, panic, clean, loop>>

(* `msgs <- msg`, with the lock held for as long as it takes.              *)
SubscribeSend(s) ==
    /\ recv[s] = "sending"
    /\ LET u == Head(requests[s])
       IN  \/ /\ s \in closed
              /\ panic' = "closed channel"
              /\ UNCHANGED <<chan, spawned, writer, requests, recv>>
           \/ /\ s \notin closed
              /\ Len(chan[s]) < ChanCap
              /\ chan' = [chan EXCEPT ![s] = Append(@, Message(retainedMsgs[u], u, TRUE))]
              /\ SubscribeReturn(s)
              /\ UNCHANGED panic
    /\ UNCHANGED <<linkVars, connVars, readers, mapVars, leading, inFlight, cleanups,
                   handlerVars, closed, clean, loop>>

(* Receive fails: no request is left, or the context has ended.            *)
ReceiveEnd(s) ==
    /\ recv[s] = "receive"
    /\ requests[s] = <<>> \/ clean[s] # "open"
    /\ recv' = [recv EXCEPT ![s] = "done"]
    /\ UNCHANGED <<linkVars, brokerVars, requests, clean, loop>>

Receive(s) ==
    \/ ReceiveLock(s)
    \/ SubscribeAdd(s)
    \/ SubscribeSend(s)
    \/ ReceiveEnd(s)

-----------------------------------------------------------------------------
(* The client of a stream may go away.                                     *)
MayLeave(s) == s \in Leavers /\ (CancelEarly \/ recv[s] = "done")

(* The context ends with the client, or because Handle has returned.       *)
ContextDone(s) ==
    /\ clean[s] = "open"
    /\ MayLeave(s) \/ loop[s] = "done"
    /\ clean' = [clean EXCEPT ![s] = "ended"]
    /\ UNCHANGED <<linkVars, brokerVars, requests, recv, loop>>

UnsubscribeLock(s) ==
    /\ clean[s] = "ended"
    /\ AnnounceWriter
    /\ clean' = [clean EXCEPT ![s] = "locked"]
    /\ UNCHANGED <<linkVars, connVars, readers, mapVars, goVars, handlerVars,
                   chanVars, panic, requests, recv, loop>>

(* Slip: takes the lock for reading, beside the handler.                   *)
UnsubscribeAllShared(s) ==
    /\ clean[s] = "locked"
    /\ RemoveEverywhere(s)
    /\ writer' = FALSE
    /\ clean' = [clean EXCEPT ![s] = "removed"]
    /\ UNCHANGED <<linkVars, connVars, readers, spawned, leading, inFlight,
                   handlerVars, chanVars, panic, requests, recv, loop>>

UnsubscribeAll(s) ==
    /\ clean[s] = "locked" /\ readers = {}
    /\ RemoveEverywhere(s)
    /\ writer' = FALSE
    /\ clean' = [clean EXCEPT ![s] = "removed"]
    /\ UNCHANGED <<linkVars, connVars, readers, spawned, leading, inFlight,
                   handlerVars, chanVars, panic, requests, recv, loop>>

CloseChannel(s) ==
    /\ clean[s] = "removed"
    /\ closed' = closed \union {s}
    /\ clean' = [clean EXCEPT ![s] = "closed"]
    /\ UNCHANGED <<linkVars, connVars, lockVars, mapVars, goVars, handlerVars, chan,
                   panic, requests, recv, loop>>

Clean(s) ==
    \/ UnsubscribeLock(s)
    \/ UnsubscribeAll(s)
    \/ CloseChannel(s)

-----------------------------------------------------------------------------
(* Handle: `for m := range msgs`.                                          *)

SendOk(s) ==
    /\ loop[s] = "run" /\ chan[s] # <<>>
    /\ chan' = [chan EXCEPT ![s] = Tail(@)]
    /\ UNCHANGED <<linkVars, connVars, lockVars, mapVars, goVars, handlerVars, closed,
                   panic, streamVars>>

(* The client has gone, Send fails and Handle returns.                     *)
SendError(s) ==
    /\ loop[s] = "run" /\ chan[s] # <<>>
    /\ MayLeave(s)
    /\ chan' = [chan EXCEPT ![s] = Tail(@)]
    /\ loop' = [loop EXCEPT ![s] = "done"]
    /\ UNCHANGED <<linkVars, connVars, lockVars, mapVars, goVars, handlerVars, closed,
                   panic, requests, recv, clean>>

(* The channel is closed and empty.                                        *)
RangeEnd(s) ==
    /\ loop[s] = "run" /\ chan[s] = <<>> /\ s \in closed
    /\ loop' = [loop EXCEPT ![s] = "done"]
    /\ UNCHANGED <<linkVars, brokerVars, requests, recv, clean>>

Send(s) == SendOk(s) \/ SendError(s) \/ RangeEnd(s)

-----------------------------------------------------------------------------
Stream(s) == Receive(s) \/ ContextDone(s) \/ Clean(s) \/ Send(s)

Link ==
    \/ ReadPacket /\ UNCHANGED <<brokerVars, streamVars>>
    \/ LoseConnection /\ UNCHANGED <<brokerVars, streamVars>>
    \/ Reconnect /\ UNCHANGED streamVars

Publishers ==
    /\ \E u \in TypeUrls, retain \in BOOLEAN : Publish(u, retain) \/ ForeignPublish(u, retain)
    /\ UNCHANGED streamVars

(* A panic in any of these goroutines ends the process.                    *)
Next ==
    /\ panic = "none"
    /\ \/ (HandleOnConnect \/ Subscribe \/ Cleanup \/ HandleMessage) /\ UNCHANGED streamVars
       \/ Publishers
       \/ Link
       \/ \E s \in Streams : Stream(s)

Spec == Init /\ [][Next]_vars

-----------------------------------------------------------------------------
(* Fairness: the Go scheduler runs every goroutine that can take a step,   *)
(* the network delivers, and paho keeps trying to reconnect.  Nobody is    *)
(* obliged to publish or to leave, and no connection has to be lost.  The  *)
(* handler's select and the client's Send may end either way, so only      *)
(* their being taken is fair, not their outcome.                           *)
Alive(A) == panic = "none" /\ A

Fairness ==
    /\ WF_vars(Alive(HandleOnConnect /\ UNCHANGED streamVars))
    /\ \A u \in TypeUrls :
          WF_vars(Alive((SubscribeDo(u) \/ SubscribeConnLock(u)) /\ UNCHANGED streamVars))
    /\ WF_vars(Alive((SubscribeRequest \/ SubscribeReply \/ SubscribeLock \/ SubscribeStore)
                     /\ UNCHANGED streamVars))
    /\ \A t \in Topics : WF_vars(Alive(SubscribeDone(t) /\ UNCHANGED streamVars))
    /\ WF_vars(Alive((CleanupRequest \/ CleanupReply) /\ UNCHANGED streamVars))
    /\ WF_vars(Alive(HandleMessage /\ UNCHANGED streamVars))
    /\ WF_vars(Alive(ReadPacket /\ UNCHANGED <<brokerVars, streamVars>>))
    /\ WF_vars(Alive(Reconnect /\ UNCHANGED streamVars))
    /\ \A s \in Streams :
          /\ WF_vars(Alive(CleanupConnLock(s) /\ UNCHANGED streamVars))
          /\ WF_vars(Alive(Receive(s)))
          /\ WF_vars(Alive(loop[s] = "done" /\ ContextDone(s)))
          /\ WF_vars(Alive(Clean(s)))
          /\ WF_vars(Alive(Send(s)))

FairSpec == Spec /\ Fairness

=============================================================================
