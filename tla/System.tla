-------------------------------- MODULE System --------------------------------
(***************************************************************************)
(* Startup and Subscriber together: the bundles' scripts on the service's  *)
(* own broker, from the MQTT server to the JavaScript function.            *)
(*                                                                         *)
(* For the broker a function handed to on is a stream that asks for one    *)
(* type and never leaves: its channel is the one onEvent makes, its        *)
(* Broker.Subscribe runs on the event loop of the script, and what takes   *)
(* events from its channel is the goroutine onEvent starts.  That one      *)
(* takes the next when wrapOperation has returned, so `pending` holds what *)
(* it has at hand and `chan` the rest.                                     *)
(***************************************************************************)
EXTENDS Startup

CONSTANTS
    OnEvent,       \* the callbacks handed to on
    EventType,     \* the event each of them is for
    TypeUrls, Trim, InboxSize, MaxEvents, MaxDrops   \* see MqttLink

(* A function is handed over once: to on, or to schedule.                  *)
ASSUME SystemAssumption ==
    /\ OnEvent \subseteq Callbacks
    /\ \A b \in Bundles : \A i \in DOMAIN Script[b] :
          Script[b][i] \in HandOvers => (Script[b][i][1] = "on" <=> Script[b][i][2] \in OnEvent)
    /\ EventType \in [OnEvent -> TypeUrls]
    /\ Trim \in [TypeUrls -> TypeUrls]
    /\ InboxSize \in Nat \ {0}
    /\ MaxEvents \in Nat
    /\ MaxDrops \in Nat

VARIABLES
    up, subs, routes, stored, wire, inbox, reply, published, drops,
    conn, connLock, connStep, connUrls, onConnects, readers, writer,
    receivers, topics, retainedMsgs, spawned, leading, inFlight, cleanups,
    msg, sendTo, chan, closed, panic, requests, recv, clean, handle,
    heard,   \* history: the events each callback's goroutine has taken
    got,     \* history: the last live event each callback was called with
    count    \* history: the number of live events it was called with

Broker == INSTANCE SubscriberProperties
          WITH Streams <- OnEvent, ChanCap <- MsgsCap, Scripts <- {<<u>> : u \in TypeUrls},
               Leavers <- {}, CancelEarly <- FALSE, todo <- sendTo, loop <- handle

linkVars == <<up, subs, routes, stored, wire, inbox, reply, published, drops>>
insideVars ==
    <<conn, connLock, connStep, connUrls, onConnects, readers, writer,
      receivers, topics, retainedMsgs, spawned, leading, inFlight, cleanups,
      msg, sendTo, chan, closed, panic>>
streamVars == <<requests, recv, clean, handle>>
brokerVars == <<linkVars, insideVars, streamVars>>
history == <<heard, got, count>>
systemVars == <<vars, brokerVars, history>>

SystemInit ==
    /\ Init
    /\ Broker!Init /\ requests = [c \in OnEvent |-> <<EventType[c]>>]
    /\ heard = [c \in OnEvent |-> <<>>]
    /\ got = [c \in OnEvent |-> 0]
    /\ count = [c \in OnEvent |-> 0]

-----------------------------------------------------------------------------
(* onEvent, on the loop of the bundle: the call returns with the last step *)
(* of Broker.Subscribe.                                                    *)
AtCall(b, name) == calls[b] # <<>> /\ Head(calls[b])[1] = name

InOn(c) == calls[Home[c]] # <<>> /\ Head(calls[Home[c]]) = <<"on", c>>

OnLock(c) ==
    /\ InOn(c)
    /\ Broker!ReceiveLock(c)
    /\ UNCHANGED <<vars, history>>

OnSubscribe(c) ==
    /\ InOn(c)
    /\ Broker!SubscribeAdd(c) \/ Broker!SubscribeSend(c)
    /\ IF requests'[c] = <<>> THEN LoopCall(Home[c]) /\ UNCHANGED mainVars ELSE UNCHANGED vars
    /\ UNCHANGED history

(* core.publish: Broker.Publish, unless the object is no event, and then   *)
(* nothing.                                                                *)
ScriptPublish(b) ==
    /\ AtCall(b, "publish")
    /\ LoopCall(b) /\ UNCHANGED mainVars
    /\ \/ (\E u \in TypeUrls : Broker!Publish(u, FALSE)) /\ UNCHANGED streamVars
       \/ UNCHANGED brokerVars
    /\ UNCHANGED history

(* Loop b begins to call c with a live event.                              *)
CallsLive(b, c) ==
    \E id \in DOMAIN heard[c] :
        job[b] = <<>> /\ job'[b] = <<Callback(c, id)>> /\ Broker!IsLive(heard[c][id])

(* The rest of what a loop does has nothing to do with the broker.         *)
LoopAlone(b) ==
    /\ ~AtCall(b, "on") /\ ~AtCall(b, "publish")
    /\ Loop(b) /\ UNCHANGED mainVars
    /\ UNCHANGED <<brokerVars, heard>>
    /\ got' = [c \in OnEvent |-> IF CallsLive(b, c) THEN heard[c][job'[b][1].id].id ELSE got[c]]
    /\ count' = [c \in OnEvent |-> IF CallsLive(b, c) THEN count[c] + 1 ELSE count[c]]

BundleLoop(b) ==
    \/ \E c \in OnEvent : Home[c] = b /\ (OnLock(c) \/ OnSubscribe(c))
    \/ ScriptPublish(b)
    \/ LoopAlone(b)

(* The goroutine of onEvent: `for m := range msgs`, and wrapOperation.     *)
TakeEvent(c) ==
    /\ pending[c] = <<>> /\ wrap[c] = Idle
    /\ Broker!SendOk(c)
    /\ Deliver(c) /\ UNCHANGED mainVars
    /\ heard' = [heard EXCEPT ![c] = Append(@, Head(chan[c]))]
    /\ UNCHANGED <<got, count>>

Operate(c) == WrapOperation(c) /\ UNCHANGED <<mainVars, brokerVars, history>>

(* The broker and its connection exist from Boot on.                       *)
InBroker(A) == main # "boot" /\ A /\ UNCHANGED <<vars, streamVars, history>>

SystemNext ==
    /\ panic = "none" /\ main # "exit"
    /\ \/ Main /\ UNCHANGED <<brokerVars, history>>
       \/ \E b \in Bundles :
             BundleLoop(b) \/ (Service(b) /\ UNCHANGED <<mainVars, brokerVars, history>>)
       \/ \E c \in OnEvent : TakeEvent(c)
       \/ \E c \in Callbacks :
             Operate(c) \/ (Trigger(c) /\ UNCHANGED <<mainVars, brokerVars, history>>)
       \/ InBroker(Broker!HandleOnConnect)
       \/ InBroker(Broker!Subscribe)
       \/ InBroker(Broker!HandleMessage)
       \/ InBroker(Broker!Publishers)
       \/ InBroker(Broker!Link)

SystemSpec == SystemInit /\ [][SystemNext]_systemVars

-----------------------------------------------------------------------------
(* As in Startup and Subscriber: every goroutine that can take a step      *)
(* takes one, and the network delivers.                                    *)
Lives(A) == panic = "none" /\ main # "exit" /\ A

SystemFairness ==
    /\ WF_systemVars(Lives(Main /\ UNCHANGED <<brokerVars, history>>))
    /\ \A b \in Bundles : WF_systemVars(Lives(BundleLoop(b)))
    /\ \A c \in OnEvent : WF_systemVars(Lives(TakeEvent(c)))
    /\ \A c \in Callbacks : WF_systemVars(Lives(Operate(c)))
    /\ WF_systemVars(Lives(InBroker(Broker!HandleOnConnect)))
    /\ \A u \in TypeUrls :
          WF_systemVars(Lives(InBroker(Broker!SubscribeDo(u) \/ Broker!SubscribeConnLock(u))))
    /\ WF_systemVars(Lives(InBroker(\/ Broker!SubscribeRequest \/ Broker!SubscribeReply
                                    \/ Broker!SubscribeLock \/ Broker!SubscribeStore)))
    /\ WF_systemVars(Lives(InBroker(Broker!HandleMessage)))
    /\ WF_systemVars(Lives(InBroker(Broker!ReadPacket /\ UNCHANGED insideVars)))
    /\ WF_systemVars(Lives(InBroker(Broker!Reconnect)))

FairSystem == SystemSpec /\ SystemFairness

-----------------------------------------------------------------------------

(* core.go:177-199: the function a script hands to on is called with the   *)
(* events that are published while it is subscribed, in the order of their *)
(* publishing and with none twice - through the server, the client, the    *)
(* handler, the channel, wrapOperation and the loop.                       *)
Bus == INSTANCE EventBus WITH Streams <- OnEvent
RunsInOrder == Bus!Spec

(* main.go:172-203: the scripts' calls of Broker.Subscribe, which wait for *)
(* the handler, for HandleOnConnect and for each other, keep no bundle and *)
(* not the service from starting, unless the process dies.                 *)
StartsServing == <>(main \in {"serving", "exit"} \/ panic # "none")

=============================================================================
