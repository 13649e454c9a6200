----------------------------- MODULE SystemProofs -----------------------------
(***************************************************************************)
(* The composition: every step of the whole system is a step of the        *)
(* service's start (Startup) and of the event path (Subscriber), or leaves *)
(* it alone, so both keep what is proved of them.  Together they give the  *)
(* scripts the events of the bus in order and none twice.                  *)
(***************************************************************************)
EXTENDS System, CallProofs

(* The event path with its theorems.                                       *)
Path == INSTANCE DeliveryProofs
        WITH Streams <- OnEvent, ChanCap <- MsgsCap, Scripts <- {<<u>> : u \in TypeUrls},
             Leavers <- {}, CancelEarly <- FALSE, todo <- sendTo, loop <- handle

-----------------------------------------------------------------------------
(* What Path assumes of its constants holds.                               *)

LEMMA PathLink ==
    /\ Trim \in [TypeUrls -> TypeUrls]
    /\ InboxSize \in Nat \ {0}
    /\ MaxEvents \in Nat
    /\ MaxDrops \in Nat
BY SystemAssumption

LEMMA PathBroker == MsgsCap \in Nat \ {0}
BY AutomationAssumption

LEMMA PathScripts ==
    /\ {<<u>> : u \in TypeUrls} \subseteq Seq(TypeUrls)
    /\ {} \subseteq OnEvent
    /\ FALSE \in BOOLEAN
<1>1. ASSUME NEW u \in TypeUrls PROVE <<u>> \in Seq(TypeUrls)
  OBVIOUS
<1>2. QED
  BY <1>1

LEMMA PathCareful == Path!CarefulClients
<1>1. ASSUME NEW u \in TypeUrls PROVE Path!AllDistinct(<<u>>)
  BY DEF Path!AllDistinct
<1>2. QED
  BY <1>1 DEF Path!CarefulClients

LEMMA PathStep ==
    ASSUME Path!OrderInv, [Path!Next]_(Path!vars)
    PROVE  Path!OrderInv' /\ Path!NothingStale
BY PathLink, PathBroker, PathScripts, PathCareful, Path!OrderStep

-----------------------------------------------------------------------------
(* Path's event path is System's.                                          *)

LEMMA SameInit ==
    Path!Init <=> Broker!Init
BY DEF Path!Init, Broker!Init, Path!LinkInit, Broker!LinkInit, Path!BrokerInit,
       Broker!BrokerInit

LEMMA SameNext ==
    [Path!Next]_(Path!vars) <=> [Broker!Next]_(Broker!vars)
BY DEF Path!Next, Broker!Next, Path!HandleOnConnect, Broker!HandleOnConnect, Path!OnConnectLock,
       Broker!OnConnectLock, Path!TakeConnLock, Broker!TakeConnLock, Path!linkVars,
       Broker!linkVars, Path!lockVars, Broker!lockVars, Path!mapVars, Broker!mapVars,
       Path!goVars, Broker!goVars, Path!handlerVars, Broker!handlerVars, Path!chanVars,
       Broker!chanVars, Path!OnConnectRLock, Broker!OnConnectRLock, Path!ReadLock,
       Broker!ReadLock, Path!OnConnectResubscribe, Broker!OnConnectResubscribe,
       Path!LinkSubscribe, Broker!LinkSubscribe, Path!Ack, Broker!Ack, Path!StoredMessage,
       Broker!StoredMessage, Path!Message, Broker!Message, Path!OnConnectReply,
       Broker!OnConnectReply, Path!LinkReturn, Broker!LinkReturn, Path!OnConnectReturn,
       Broker!OnConnectReturn, Path!ReleaseConnLock, Broker!ReleaseConnLock, Path!Subscribe,
       Broker!Subscribe, Path!SubscribeDo, Broker!SubscribeDo, Path!connVars, Broker!connVars,
       Path!SubscribeConnLock, Broker!SubscribeConnLock, Path!SubscribeRequest,
       Broker!SubscribeRequest, Path!SubscribeReply, Broker!SubscribeReply, Path!SubscribeLock,
       Broker!SubscribeLock, Path!AnnounceWriter, Broker!AnnounceWriter, Path!SubscribeStore,
       Broker!SubscribeStore, Path!Topics, Broker!Topics, Path!SubscribeDone,
       Broker!SubscribeDone, Path!Cleanup, Broker!Cleanup, Path!CleanupConnLock,
       Broker!CleanupConnLock, Path!CleanupRequest, Broker!CleanupRequest, Path!LinkUnsubscribe,
       Broker!LinkUnsubscribe, Path!CleanupReply, Broker!CleanupReply, Path!HandleMessage,
       Broker!HandleMessage, Path!HandlerTake, Broker!HandlerTake, Path!LinkTake,
       Broker!LinkTake, Path!HandlerRLock, Broker!HandlerRLock, Path!HandlerSend,
       Broker!HandlerSend, Path!HandlerReturn, Broker!HandlerReturn, Path!streamVars,
       Broker!streamVars, Path!Publishers, Broker!Publishers, Path!Publish, Broker!Publish,
       Path!ServerPublish, Broker!ServerPublish, Path!brokerVars, Broker!brokerVars,
       Path!ForeignPublish, Broker!ForeignPublish, Path!Link, Broker!Link, Path!ReadPacket,
       Broker!ReadPacket, Path!LoseConnection, Broker!LoseConnection, Path!Reconnect,
       Broker!Reconnect, Path!LinkReconnect, Broker!LinkReconnect, Path!Stream, Broker!Stream,
       Path!Receive, Broker!Receive, Path!ReceiveLock, Broker!ReceiveLock, Path!SubscribeAdd,
       Broker!SubscribeAdd, Path!AddReceiver, Broker!AddReceiver, Path!SubscribeReturn,
       Broker!SubscribeReturn, Path!SpawnSubscribe, Broker!SpawnSubscribe, Path!SubscribeSend,
       Broker!SubscribeSend, Path!ReceiveEnd, Broker!ReceiveEnd, Path!ContextDone,
       Broker!ContextDone, Path!MayLeave, Broker!MayLeave, Path!Clean, Broker!Clean,
       Path!UnsubscribeLock, Broker!UnsubscribeLock, Path!UnsubscribeAll, Broker!UnsubscribeAll,
       Path!RemoveEverywhere, Broker!RemoveEverywhere, Path!RemoveReceiver,
       Broker!RemoveReceiver, Path!Occurrences, Broker!Occurrences, Path!ArrayAfter,
       Broker!ArrayAfter, Path!ShiftLeft, Broker!ShiftLeft, Path!TopicCleanup,
       Broker!TopicCleanup, Path!BecomesUnused, Broker!BecomesUnused, Path!CloseChannel,
       Broker!CloseChannel, Path!Send, Broker!Send, Path!SendOk, Broker!SendOk, Path!SendError,
       Broker!SendError, Path!RangeEnd, Broker!RangeEnd, Path!vars, Broker!vars

LEMMA SameSend ==
    ASSUME NEW c \in OnEvent
    PROVE  /\ Path!SendOk(c) <=> Broker!SendOk(c)
           /\ \A m : Path!IsLive(m) <=> Broker!IsLive(m)
BY DEF Path!SendOk, Broker!SendOk, Path!linkVars, Broker!linkVars, Path!connVars,
       Broker!connVars, Path!lockVars, Broker!lockVars, Path!mapVars, Broker!mapVars,
       Path!goVars, Broker!goVars, Path!handlerVars, Broker!handlerVars, Path!streamVars,
       Broker!streamVars, Path!IsLive, Broker!IsLive, Path!Ack, Broker!Ack

-----------------------------------------------------------------------------
(* The inductive invariant.                                                *)

(* What on has got is never scheduled.                                     *)
OnOnly ==
    /\ \A b \in Bundles : \A i \in DOMAIN calls[b] :
          calls[b][i][1] = "schedule" => calls[b][i][2] \notin OnEvent
    /\ entries \intersect OnEvent = {}

HistoryTypes ==
    /\ heard \in [OnEvent -> Seq(Path!Messages)]
    /\ got \in [OnEvent -> Nat] /\ count \in [OnEvent -> Nat]

(* The events the goroutine of c has taken are the ones that arrived, in   *)
(* order, and older than all that is still on its way; those the callback  *)
(* may still be called with are newer than the last it was called with.    *)
HeardInOrder(c) ==
    /\ Len(heard[c]) = arrived[c]
    /\ Path!Ordered(heard[c])
    /\ \A id \in Path!LiveIds(heard[c]) :
          id <= published /\ \A ahead \in Path!Ahead(c) : id < ahead
    /\ \A i \in Abstract!Open(c) : Path!IsLive(heard[c][i]) => got[c] < heard[c][i].id

HistoryPart == HistoryTypes /\ \A c \in OnEvent : HeardInOrder(c)

SystemInv == CallInv /\ Path!BusInv /\ OnOnly /\ HistoryPart

-----------------------------------------------------------------------------
(* A step of the system is one of each part, or none.                      *)

LEMMA BrokerAlone ==
    ASSUME UNCHANGED brokerVars
    PROVE  UNCHANGED Broker!vars
BY DEF brokerVars, linkVars, insideVars, streamVars, Broker!vars, Broker!linkVars,
       Broker!brokerVars, Broker!connVars, Broker!lockVars, Broker!mapVars, Broker!goVars,
       Broker!handlerVars, Broker!chanVars, Broker!streamVars

LEMMA StreamsAlone ==
    ASSUME UNCHANGED streamVars
    PROVE  UNCHANGED Broker!streamVars
BY DEF streamVars, Broker!streamVars

LEMMA BothParts ==
    ASSUME SystemNext
    PROVE  [Next]_vars /\ [Broker!Next]_(Broker!vars)
<1>0. panic = "none" /\ main # "exit"
  BY DEF SystemNext
<1>1. CASE Main /\ UNCHANGED <<brokerVars, history>>
  BY <1>0, <1>1, BrokerAlone DEF Next
<1>2. ASSUME NEW b \in Bundles, BundleLoop(b)
      PROVE  [Next]_vars /\ [Broker!Next]_(Broker!vars)
  <2>1. ASSUME NEW c \in OnEvent, OnLock(c)
        PROVE  [Next]_vars /\ [Broker!Next]_(Broker!vars)
    BY <1>0, <2>1 DEF OnLock, Broker!Next, Broker!Stream, Broker!Receive
  <2>2. ASSUME NEW c \in OnEvent, Home[c] = b, OnSubscribe(c)
        PROVE  [Next]_vars /\ [Broker!Next]_(Broker!vars)
    <3>1. Broker!Next
      BY <1>0, <2>2 DEF OnSubscribe, Broker!Next, Broker!Stream, Broker!Receive
    <3>2. (LoopCall(b) /\ UNCHANGED mainVars) \/ UNCHANGED vars
      BY <2>2 DEF OnSubscribe
    <3>3. QED
      BY <1>0, <3>1, <3>2 DEF Next, Loop
  <2>3. CASE ScriptPublish(b)
    <3>1. LoopCall(b) /\ UNCHANGED mainVars
      BY <2>3 DEF ScriptPublish
    <3>2. CASE (\E u \in TypeUrls : Broker!Publish(u, FALSE)) /\ UNCHANGED streamVars
      BY <1>0, <3>1, <3>2, StreamsAlone DEF Next, Loop, Broker!Next, Broker!Publishers
    <3>3. CASE UNCHANGED brokerVars
      BY <1>0, <3>1, <3>3, BrokerAlone DEF Next, Loop
    <3>4. QED
      BY <2>3, <3>2, <3>3 DEF ScriptPublish
  <2>4. CASE LoopAlone(b)
    BY <1>0, <2>4, BrokerAlone DEF LoopAlone, Next
  <2>5. QED
    BY <1>2, <2>1, <2>2, <2>3, <2>4 DEF BundleLoop
<1>3. ASSUME NEW b \in Bundles, Service(b) /\ UNCHANGED <<mainVars, brokerVars, history>>
      PROVE  [Next]_vars /\ [Broker!Next]_(Broker!vars)
  BY <1>0, <1>3, BrokerAlone DEF Next
<1>4. ASSUME NEW c \in OnEvent, TakeEvent(c)
      PROVE  [Next]_vars /\ [Broker!Next]_(Broker!vars)
  <2>1. c \in Callbacks
    BY SystemAssumption
  <2>2. QED
    BY <1>0, <1>4, <2>1 DEF TakeEvent, Next, Broker!Next, Broker!Stream, Broker!Send
<1>5. ASSUME NEW c \in Callbacks,
             Operate(c) \/ (Trigger(c) /\ UNCHANGED <<mainVars, brokerVars, history>>)
      PROVE  [Next]_vars /\ [Broker!Next]_(Broker!vars)
  BY <1>0, <1>5, BrokerAlone DEF Operate, Next
<1>6. CASE \/ InBroker(Broker!HandleOnConnect)
           \/ InBroker(Broker!Subscribe)
           \/ InBroker(Broker!HandleMessage)
           \/ InBroker(Broker!Publishers)
           \/ InBroker(Broker!Link)
  <2>1. UNCHANGED vars /\ UNCHANGED Broker!streamVars
    BY <1>6, StreamsAlone DEF InBroker
  <2>2. Broker!Next
    BY <1>0, <1>6, <2>1 DEF InBroker, Broker!Next
  <2>3. QED
    BY <2>1, <2>2
<1>7. QED
  BY <1>1, <1>2, <1>3, <1>4, <1>5, <1>6 DEF SystemNext

-----------------------------------------------------------------------------
(* What on has got is never scheduled.                                     *)

LEMMA ScriptsNeverSchedule ==
    ASSUME NEW b \in Bundles, NEW j \in Jobs
    PROVE  \A i \in DOMAIN CallsOf(b, j) :
              CallsOf(b, j)[i][1] = "schedule" => CallsOf(b, j)[i][2] \notin OnEvent
<1>1. ASSUME NEW i \in DOMAIN Script[b], Script[b][i][1] = "schedule"
      PROVE  Script[b][i][2] \notin OnEvent
  <2>1. Script[b][i] \in Calls
    BY AutomationAssumption
  <2>2. Script[b][i] \in HandOvers
    BY <1>1, <2>1 DEF Calls, OtherCalls
  <2>3. QED
    BY <1>1, <2>2, SystemAssumption
<1>2. ASSUME NEW c \in Callbacks, NEW i \in DOMAIN Body[c]
      PROVE  Body[c][i][1] # "schedule"
  <2>1. Body[c][i] \in OtherCalls
    BY AutomationAssumption
  <2>2. QED
    BY <2>1 DEF OtherCalls
<1>3. CASE j.kind = "parameters"
  BY <1>3 DEF CallsOf
<1>4. CASE j.kind = "script"
  BY <1>1, <1>4 DEF CallsOf
<1>5. CASE j.kind = "callback"
  <2>1. j.cb \in Callbacks /\ CallsOf(b, j) = Body[j.cb]
    BY <1>5 DEF Jobs, CallsOf
  <2>2. QED
    BY <1>2, <2>1
<1>6. QED
  BY <1>3, <1>4, <1>5 DEF Jobs

(* Where the calls of a loop change they are those of a job, or what is    *)
(* left of them, or a throw.                                               *)
LEMMA OnOnlyLoop ==
    ASSUME CallInv, OnOnly, NEW b \in Bundles, Loop(b)
    PROVE  OnOnly'
<1> USE DEF loopVars, scriptVars, coreVars
<1>1. calls \in [Bundles -> Seq(Calls)] /\ jobs \in [Bundles -> Seq(Jobs)]
  BY DEF CallInv, StartInv, TypeOK, AutomationTypeOK
<1> DEFINE Never(q) == \A i \in DOMAIN q : q[i][1] = "schedule" => q[i][2] \notin OnEvent
<1>2. Never(calls[b]) /\ \A a \in Bundles : Never(calls[a])
  BY DEF OnOnly
<1>3. ASSUME calls' = [calls EXCEPT ![b] = calls'[b]], Never(calls'[b]),
             entries' \intersect OnEvent = {}
      PROVE  OnOnly'
  <2>1. \A a \in Bundles \ {b} : calls'[a] = calls[a]
    BY <1>1, <1>3
  <2>2. \A a \in Bundles : Never(calls'[a])
    BY <1>2, <1>3, <2>1
  <2>3. QED
    BY <1>3, <2>2 DEF OnOnly
<1>4. Never(<<>>) /\ Never(<<<<"throw">>>>)
  OBVIOUS
<1>5. ASSUME calls[b] # <<>> PROVE Never(Tail(calls[b]))
  <2>1. /\ Len(Tail(calls[b])) \in Nat
        /\ \A i \in DOMAIN Tail(calls[b]) :
              i + 1 \in DOMAIN calls[b] /\ Tail(calls[b])[i] = calls[b][i + 1]
    BY <1>1, <1>5
  <2>2. QED
    BY <1>2, <2>1
<1>6. CASE LoopTake(b)
  <2>1. Head(jobs[b]) \in Jobs
    BY <1>1, <1>6 DEF LoopTake
  <2>2. /\ calls' = [calls EXCEPT ![b] = CallsOf(b, Head(jobs[b]))] /\ entries' = entries
    BY <1>6 DEF LoopTake
  <2>3. Never(CallsOf(b, Head(jobs[b])))
    BY <2>1, ScriptsNeverSchedule
  <2>4. calls'[b] = CallsOf(b, Head(jobs[b]))
    BY <1>1, <2>2
  <2> HIDE DEF Never
  <2>5. QED
    BY <1>3, <2>2, <2>3, <2>4 DEF OnOnly
<1>7. CASE LoopCall(b)
  <2>1. calls[b] # <<>> /\ (calls' = [calls EXCEPT ![b] = Tail(@)] \/ calls' = [calls EXCEPT ![b] = <<<<"throw">>>>])
    BY <1>7 DEF LoopCall, Returned, Thrown
  <2>2. calls' = [calls EXCEPT ![b] = calls'[b]] /\ calls'[b] \in {Tail(calls[b]), <<<<"throw">>>>}
    BY <1>1, <2>1
  <2>3. entries' \intersect OnEvent = {}
    <3>1. CASE Head(calls[b])[1] = "schedule" /\ entries' = entries \union {Head(calls[b])[2]}
      <4>1. 1 \in DOMAIN calls[b] /\ Head(calls[b]) = calls[b][1]
        BY <1>1, <2>1
      <4>2. QED
        BY <1>2, <3>1, <4>1 DEF OnOnly
    <3>2. CASE entries' \subseteq entries
      BY <3>2 DEF OnOnly
    <3>3. QED
      BY <1>7, <3>1, <3>2 DEF LoopCall
  <2>4. Never(calls'[b])
    BY <1>4, <1>5, <2>1, <2>2
  <2> HIDE DEF Never
  <2>5. QED
    BY <1>3, <2>2, <2>3, <2>4
<1>8. CASE ServiceReturn(b)
  <2>1. /\ calls[b] # <<>> /\ entries' = entries
        /\ calls' = [calls EXCEPT ![b] = Tail(@)] \/ calls' = [calls EXCEPT ![b] = <<<<"throw">>>>]
    BY <1>8 DEF ServiceReturn, AtService, Returned, Thrown
  <2>2. calls' = [calls EXCEPT ![b] = calls'[b]] /\ calls'[b] \in {Tail(calls[b]), <<<<"throw">>>>}
    BY <1>1, <2>1
  <2>3. Never(calls'[b])
    BY <1>4, <1>5, <2>1, <2>2
  <2> HIDE DEF Never
  <2>4. QED
    BY <1>3, <2>1, <2>2, <2>3 DEF OnOnly
<1>9. CASE LoopReturn(b)
  <2>1. calls' = [calls EXCEPT ![b] = <<>>] /\ entries' = entries
    BY <1>9 DEF LoopReturn
  <2>2. calls'[b] = <<>>
    BY <1>1, <2>1
  <2>3. Never(calls'[b])
    BY <1>4, <2>2
  <2> HIDE DEF Never
  <2>4. QED
    BY <1>3, <2>1, <2>2, <2>3 DEF OnOnly
<1>10. CASE ServiceCall(b)
  BY <1>10 DEF ServiceCall, OnOnly
<1>11. QED
  BY <1>6, <1>7, <1>8, <1>9, <1>10 DEF Loop

LEMMA OnOnlyStep ==
    ASSUME CallInv, OnOnly, [Next]_vars
    PROVE  OnOnly'
<1> USE DEF loopVars, scriptVars, coreVars
<1>1. ASSUME UNCHANGED <<calls, entries>> PROVE OnOnly'
  BY <1>1 DEF OnOnly
<1>2. CASE Main \/ UNCHANGED vars
  BY <1>1, <1>2
  DEF Main, Boot, Prepare, PrepareLock, PreparedBefore, New, ApplyOptions, EnableModules, LoadVars,
      RunParameters, RunParametersReturn, RunScript, RunScriptReturn, Serve, vars, automationVars
<1>3. ASSUME NEW b \in Bundles, Service(b) PROVE OnOnly'
  BY <1>1, <1>3 DEF Service
<1>4. ASSUME NEW c \in Callbacks, Deliver(c) \/ Trigger(c) \/ WrapOperation(c) PROVE OnOnly'
  BY <1>1, <1>4 DEF Deliver, Trigger, Arrive, WrapOperation, Call, ConvertError, CallPlain,
                    Register, CallWrapped, Complete
<1>5. QED
  BY <1>2, <1>3, <1>4, OnOnlyLoop DEF Next

-----------------------------------------------------------------------------
(* What arrives, and what is open.                                         *)

LEMMA OpenShrinks ==
    ASSUME CallInv, [Next]_vars, NEW c \in Callbacks, arrived'[c] = arrived[c]
    PROVE  Abstract!Open(c)' \subseteq Abstract!Open(c)
<1>1. [Abstract!Next]_(Abstract!vars)
  BY AbstractStep
<1>2. ran \in [Callbacks -> SUBSET Ids] /\ skipped \in [Callbacks -> SUBSET Ids]
  BY DEF CallInv, StartInv, TypeOK, AutomationTypeOK
<1>3. ran[c] \subseteq ran'[c] /\ skipped[c] \subseteq skipped'[c]
  <2>1. CASE UNCHANGED <<ran, skipped>>
    BY <2>1
  <2>2. ASSUME NEW d \in Callbacks, NEW id,
               \/ ran' = [ran EXCEPT ![d] = ran[d] \union {id}] /\ skipped' = skipped
               \/ skipped' = [skipped EXCEPT ![d] = skipped[d] \union {id}] /\ ran' = ran
        PROVE  ran[c] \subseteq ran'[c] /\ skipped[c] \subseteq skipped'[c]
    BY <1>2, <2>2
  <2>3. QED
    BY <1>1, <2>1, <2>2
    DEF Abstract!Next, Abstract!Arrive, Abstract!Run, Abstract!Return, Abstract!Skip, Abstract!vars
<1>4. QED
  BY <1>3 DEF Abstract!Open

(* Only what the goroutine of onEvent takes arrives for its callback.      *)
LEMMA OnlyTaken ==
    ASSUME CallInv, OnOnly, SystemNext, \A c \in OnEvent : ~TakeEvent(c), NEW c \in OnEvent
    PROVE  arrived'[c] = arrived[c]
<1> USE DEF loopVars, scriptVars, coreVars
<1>1. CASE Main
  BY <1>1 DEF Main, Boot, Prepare, PrepareLock, PreparedBefore, New, ApplyOptions, EnableModules,
              LoadVars, RunParameters, RunParametersReturn, RunScript, RunScriptReturn, Serve,
              automationVars
<1>2. ASSUME NEW b \in Bundles, Loop(b) \/ Service(b)
      PROVE  arrived' = arrived
  BY <1>2 DEF Loop, LoopTake, LoopCall, ServiceCall, ServiceReturn, LoopReturn, Service
<1>3. CASE UNCHANGED vars
  BY <1>3 DEF vars, automationVars
<1>4. ASSUME NEW d \in Callbacks, Operate(d)
      PROVE  arrived' = arrived
  BY <1>4 DEF Operate, WrapOperation, Call, ConvertError, CallPlain, Register, CallWrapped, Complete
<1>5. ASSUME NEW d \in Callbacks, Trigger(d)
      PROVE  arrived'[c] = arrived[c]
  <2>1. d # c /\ arrived' = [arrived EXCEPT ![d] = @ + 1]
    BY <1>5 DEF Trigger, Arrive, OnOnly
  <2>2. c \in Callbacks /\ arrived \in [Callbacks -> 0 .. MaxArrivals]
    BY SystemAssumption DEF CallInv, StartInv, TypeOK, AutomationTypeOK
  <2>3. QED
    BY <2>1, <2>2
<1>6. ASSUME NEW b \in Bundles, BundleLoop(b) PROVE arrived' = arrived
  <2>1. (\E a \in Bundles : Loop(a)) \/ UNCHANGED vars
    <3>1. \A d \in OnEvent : Home[d] \in Bundles
      BY AutomationAssumption, SystemAssumption
    <3>2. QED
      BY <1>6, <3>1 DEF BundleLoop, OnLock, OnSubscribe, ScriptPublish, LoopAlone, Loop
  <2>2. QED
    BY <1>2, <2>1 DEF vars, automationVars
<1>7. QED
  BY <1>1, <1>2, <1>3, <1>4, <1>5, <1>6 DEF SystemNext, InBroker

(* A loop begins to call a callback with a live event: one it has not been *)
(* called with, and the oldest of these.                                   *)
LEMMA LiveCall ==
    ASSUME SystemInv, NEW b \in Bundles, LoopAlone(b), NEW c \in OnEvent, CallsLive(b, c)
    PROVE  \E id \in DOMAIN heard[c] :
              /\ Path!IsLive(heard[c][id])
              /\ id \in Abstract!Open(c)
              /\ \A other \in Abstract!Open(c)' : id < other
              /\ got' = [got EXCEPT ![c] = heard[c][id].id]
              /\ count' = [count EXCEPT ![c] = count[c] + 1]
<1> USE DEF loopVars, scriptVars, coreVars
<1>1. PICK id \in DOMAIN heard[c] :
         job[b] = <<>> /\ job'[b] = <<Callback(c, id)>> /\ Broker!IsLive(heard[c][id])
  BY DEF CallsLive
<1>2. /\ CallInv /\ c \in Callbacks
      /\ jobs \in [Bundles -> Seq(Jobs)] /\ ran \in [Callbacks -> SUBSET Ids]
      /\ job \in [Bundles -> {<<>>} \union {<<j>> : j \in Jobs}]
      /\ got \in [OnEvent -> Nat] /\ count \in [OnEvent -> Nat]
  BY SystemAssumption
  DEF SystemInv, CallInv, StartInv, TypeOK, AutomationTypeOK, HistoryPart, HistoryTypes
<1>3. LoopTake(b)
  <2>1. job'[b] # job[b]
    BY <1>1
  <2>2. ~LoopReturn(b)
    BY <1>1 DEF LoopReturn
  <2>3. QED
    BY <2>1, <2>2 DEF LoopAlone, Loop, LoopCall, ServiceCall, ServiceReturn
<1>4. Head(jobs[b]) = Callback(c, id)
  <2>1. job'[b] = <<Head(jobs[b])>>
    BY <1>2, <1>3 DEF LoopTake
  <2>2. <<Head(jobs[b])>>[1] = <<Callback(c, id)>>[1]
    BY <1>1, <2>1
  <2>3. QED
    BY <2>2
<1>5. /\ id \in Abstract!Open(c) /\ \A other \in Abstract!Open(c) : id <= other
      /\ ran' = [ran EXCEPT ![c] = ran[c] \union {id}]
  <2>1. IsFor(Head(jobs[b]), c) /\ Head(jobs[b]).id = id
    BY <1>4 DEF IsFor, Callback
  <2>2. QED
    BY <1>2, <1>3, <2>1, TakenIsOldest
<1>6. \A other \in Abstract!Open(c)' : id < other
  <2>1. UNCHANGED <<arrived, skipped>>
    BY <1>3 DEF LoopTake
  <2>2. /\ Abstract!Open(c)' \subseteq Abstract!Open(c) \ {id}
        /\ Abstract!Open(c) \subseteq Int
    BY <1>2, <1>5, <2>1 DEF Abstract!Open
  <2>3. QED
    BY <1>5, <2>2
<1>7. \A d \in OnEvent : CallsLive(b, d) <=> d = c
  <2>1. ASSUME NEW d \in OnEvent, CallsLive(b, d) PROVE d = c
    <3>1. PICK other \in DOMAIN heard[d] : job'[b] = <<Callback(d, other)>>
      BY <2>1 DEF CallsLive
    <3>2. <<Callback(d, other)>>[1] = <<Callback(c, id)>>[1]
      BY <1>1, <3>1
    <3>3. Callback(d, other).cb = Callback(c, id).cb
      BY <3>2
    <3>4. QED
      BY <3>3 DEF Callback
  <2>2. QED
    BY <2>1
<1>8. job'[b][1].id = id
  BY <1>1 DEF Callback
<1>9. /\ got' = [got EXCEPT ![c] = heard[c][id].id]
      /\ count' = [count EXCEPT ![c] = count[c] + 1]
  BY <1>2, <1>7, <1>8 DEF LoopAlone
<1>10. Path!IsLive(heard[c][id])
  BY <1>1, SameSend
<1>11. QED
  BY <1>5, <1>6, <1>9, <1>10

-----------------------------------------------------------------------------
(* The invariant is kept.                                                  *)

PartsKept ==
    /\ CallInv' /\ Path!OrderInv' /\ OnOnly' /\ Path!NothingStale
    /\ published \in Nat /\ published' \in {published, published + 1}

LEMMA PartsStep ==
    ASSUME SystemInv, [SystemNext]_systemVars
    PROVE  PartsKept /\ [Next]_vars
<1>1. CallInv /\ OnOnly /\ Path!OrderInv
  BY DEF SystemInv, Path!BusInv
<1>2. [Next]_vars /\ [Broker!Next]_(Broker!vars)
  <2>1. CASE SystemNext
    BY <2>1, BothParts
  <2>2. CASE UNCHANGED systemVars
    BY <2>2, BrokerAlone DEF systemVars
  <2>3. QED
    BY <2>1, <2>2
<1>3. CallInv' /\ OnOnly'
  BY <1>1, <1>2, CallStep, OnOnlyStep
<1>4. [Path!Next]_(Path!vars)
  BY <1>2, SameNext
<1>5. Path!OrderInv' /\ Path!NothingStale
  BY <1>1, <1>4, PathStep
<1>6. Path!TypeInv
  BY <1>1 DEF Path!OrderInv, Path!ChannelInv
<1>7. published \in Nat
  BY <1>6, PathLink, PathBroker, PathScripts, Path!PacketTypes
<1>8. published' \in {published, published + 1}
  BY <1>4, <1>6, PathLink, PathBroker, PathScripts, Path!PublishedGrows
<1>9. QED
  BY <1>2, <1>3, <1>5, <1>7, <1>8 DEF PartsKept

(* The types the history's proofs need.                                    *)
LEMMA HistoryFacts ==
    ASSUME SystemInv, NEW c \in OnEvent
    PROVE  /\ HeardInOrder(c) /\ c \in Callbacks
           /\ heard \in [OnEvent -> Seq(Path!Messages)] /\ heard[c] \in Seq(Path!Packets)
           /\ Path!LiveIds(heard[c]) \subseteq Nat
           /\ got \in [OnEvent -> Nat] /\ got[c] \in Nat /\ count \in [OnEvent -> Nat]
           /\ got[c] <= published /\ \A id \in Path!Ahead(c) : got[c] < id
           /\ arrived \in [Callbacks -> 0 .. MaxArrivals] /\ arrived[c] \in Nat
           /\ chan \in [OnEvent -> Seq(Path!Messages)] /\ chan[c] \in Seq(Path!Packets)
           /\ DOMAIN heard[c] = 1 .. arrived[c]
           /\ Abstract!Open(c) \subseteq DOMAIN heard[c]
<1>1. /\ HeardInOrder(c) /\ c \in Callbacks
      /\ heard \in [OnEvent -> Seq(Path!Messages)]
      /\ got \in [OnEvent -> Nat] /\ count \in [OnEvent -> Nat]
      /\ got[c] <= published /\ \A id \in Path!Ahead(c) : got[c] < id
      /\ arrived \in [Callbacks -> 0 .. MaxArrivals]
      /\ chan \in [OnEvent -> Seq(Path!Messages)]
  BY SystemAssumption
  DEF SystemInv, HistoryPart, HistoryTypes, CallInv, StartInv, TypeOK, AutomationTypeOK,
      Path!BusInv, Path!GotBehind, Path!OrderInv, Path!ChannelInv, Path!TypeInv, Path!TypeOK,
      Path!BrokerTypeOK
<1>2. heard[c] \in Seq(Path!Packets) /\ chan[c] \in Seq(Path!Packets)
  <2>1. ASSUME NEW q \in Seq(Path!Messages) PROVE q \in Seq(Path!Packets)
    BY DEF Path!Packets
  <2>2. QED
    BY <1>1, <2>1
<1>3. Path!LiveIds(heard[c]) \subseteq Nat
  BY <1>2, PathLink, PathBroker, PathScripts, Path!LiveIdsNat
<1>4. got[c] \in Nat /\ arrived[c] \in Nat
  <2>1. arrived[c] \in 0 .. MaxArrivals
    BY <1>1
  <2>2. QED
    BY <1>1, <2>1
<1>5. DOMAIN heard[c] = 1 .. arrived[c]
  BY <1>1, <1>2 DEF HeardInOrder
<1>6. QED
  BY <1>1, <1>2, <1>3, <1>4, <1>5 DEF Abstract!Open

(* What comes anew is newer than all that has been published.              *)
LEMMA StillAhead ==
    ASSUME PartsKept, NEW c \in OnEvent, NEW id \in Nat, id <= published,
           \A ahead \in Path!Ahead(c) : id < ahead
    PROVE  id <= published' /\ \A ahead \in Path!Ahead(c)' : id < ahead
<1>1. published \in Nat /\ published' \in {published, published + 1}
  BY DEF PartsKept
<1>2. ASSUME NEW ahead \in Path!Ahead(c)' PROVE id < ahead
  <2>1. ahead \in Path!Ahead(c) \/ ahead \in published + 1 .. published'
    BY DEF PartsKept, Path!NothingStale
  <2>2. QED
    BY <1>1, <2>1
<1>3. QED
  BY <1>1, <1>2

LEMMA HeardKept ==
    ASSUME SystemInv, PartsKept, [Next]_vars, NEW c \in OnEvent,
           heard'[c] = heard[c], got'[c] = got[c], arrived'[c] = arrived[c]
    PROVE  HeardInOrder(c)'
<1>1. /\ HeardInOrder(c) /\ c \in Callbacks /\ Path!LiveIds(heard[c]) \subseteq Nat /\ CallInv
  BY HistoryFacts DEF SystemInv
<1>2. Abstract!Open(c)' \subseteq Abstract!Open(c)
  BY <1>1, OpenShrinks
<1>3. \A id \in Path!LiveIds(heard[c]) :
         id <= published' /\ \A ahead \in Path!Ahead(c)' : id < ahead
  BY <1>1, StillAhead DEF HeardInOrder
<1>4. QED
  BY <1>1, <1>2, <1>3 DEF HeardInOrder

HistoryKept == HistoryPart' /\ Path!GotBehind' /\ [Bus!Next]_(Bus!vars)

LEMMA NothingHeard ==
    ASSUME SystemInv, PartsKept, [Next]_vars, UNCHANGED history,
           \A c \in OnEvent : arrived'[c] = arrived[c]
    PROVE  HistoryKept
<1>1. UNCHANGED <<heard, got, count>>
  BY DEF history
<1>2. HistoryPart'
  BY <1>1, HeardKept DEF HistoryPart, HistoryTypes, SystemInv
<1>3. \A c \in OnEvent : got[c] <= published' /\ \A id \in Path!Ahead(c)' : got[c] < id
  BY HistoryFacts, StillAhead
<1>4. Path!GotBehind'
  BY <1>1, <1>3 DEF Path!GotBehind, SystemInv, Path!BusInv
<1>5. [Bus!Next]_(Bus!vars)
  BY <1>1 DEF PartsKept, Bus!Next, Bus!Publish, Bus!vars
<1>6. QED
  BY <1>2, <1>4, <1>5 DEF HistoryKept

(* The goroutine of c takes an event: it is behind those it has taken and  *)
(* before all that comes.                                                  *)
LEMMA EventHeard ==
    ASSUME SystemInv, PartsKept, [Next]_vars, NEW c \in OnEvent, TakeEvent(c)
    PROVE  HistoryKept
<1> DEFINE q == heard[c]
           h == Head(chan[c])
           n == arrived[c] + 1
<1>1. /\ Path!SendOk(c) /\ chan[c] # <<>> /\ UNCHANGED <<got, count, published>>
      /\ heard' = [heard EXCEPT ![c] = Append(q, h)]
      /\ arrived' = [arrived EXCEPT ![c] = n]
  BY SameSend DEF TakeEvent, Deliver, Arrive, Path!SendOk, Path!linkVars
<1>2. /\ HeardInOrder(c) /\ q \in Seq(Path!Packets) /\ chan[c] \in Seq(Path!Packets)
      /\ Path!LiveIds(q) \subseteq Nat /\ DOMAIN q = 1 .. arrived[c] /\ arrived[c] \in Nat
      /\ Path!Ordered(chan[c]) /\ chan[c] \in Seq(Path!Messages)
  BY HistoryFacts DEF SystemInv, Path!BusInv, Path!OrderInv, Path!OrderPart, Path!ChannelOrder
<1>3. h \in Path!Messages /\ h \in Path!Packets
  BY <1>1, <1>2 DEF Path!Packets
<1>4. ASSUME Path!IsLive(h)
      PROVE  /\ h.id \in Nat /\ got[c] < h.id /\ h.id <= published
             /\ \A id \in Path!Ahead(c)' : h.id < id
             /\ h.id \in Path!Ahead(c)
  <2>1. Path!BusInv /\ Path!Receives(c)
    BY <1>1, <1>4 DEF SystemInv, Path!Receives
  <2>2. /\ h.id \in Nat /\ got[c] < h.id /\ h.id <= published
        /\ \A id \in Path!Ahead(c)' : h.id < id
    BY <2>1, PathLink, PathBroker, PathScripts, Path!ReceivesStep
  <2>3. h.id \in Path!LiveIds(chan[c])
    BY <1>1, <1>2, <1>4, PathLink, PathBroker, PathScripts, Path!TailOrdered
  <2>4. QED
    BY <2>2, <2>3 DEF Path!Ahead
<1> HIDE DEF h
<1>5. /\ Path!LiveIds(Append(q, h)) \subseteq
            Path!LiveIds(q) \union (IF Path!IsLive(h) THEN {h.id} ELSE {})
      /\ Path!Ordered(Append(q, h))
  <2>1. Path!IsLive(h) => \A id \in Path!LiveIds(q) : id < h.id
    BY <1>2, <1>4 DEF HeardInOrder
  <2>2. QED
    BY <1>2, <1>3, <2>1, PathLink, PathBroker, PathScripts, Path!AppendOrdered DEF HeardInOrder
<1>6. /\ heard'[c] = Append(q, h) /\ arrived'[c] = n
      /\ heard' \in [OnEvent -> Seq(Path!Messages)]
      /\ \A d \in OnEvent \ {c} : heard'[d] = heard[d] /\ arrived'[d] = arrived[d]
  <2>1. /\ heard \in [OnEvent -> Seq(Path!Messages)]
        /\ arrived \in [Callbacks -> 0 .. MaxArrivals] /\ c \in Callbacks
        /\ OnEvent \subseteq Callbacks
    BY HistoryFacts, SystemAssumption
  <2>2. Append(q, h) \in Seq(Path!Messages)
    BY <1>3, <2>1
  <2>3. QED
    BY <1>1, <2>1, <2>2
<1>7. HeardInOrder(c)'
  <2>1. Len(heard'[c]) = n /\ heard'[c][n] = h /\ \A i \in 1 .. arrived[c] : heard'[c][i] = q[i]
    BY <1>2, <1>6 DEF HeardInOrder
  <2>2. ASSUME NEW id \in Path!LiveIds(heard'[c])
        PROVE  id <= published' /\ \A ahead \in Path!Ahead(c)' : id < ahead
    <3>1. CASE id \in Path!LiveIds(q)
      BY <1>2, <3>1, StillAhead DEF HeardInOrder
    <3>2. CASE Path!IsLive(h) /\ id = h.id
      BY <1>1, <1>4, <3>2
    <3>3. QED
      BY <1>5, <1>6, <3>1, <3>2
  <2>3. ASSUME NEW i \in Abstract!Open(c)', Path!IsLive(heard'[c][i])
        PROVE  got[c] < heard'[c][i].id
    <3>1. i = n \/ i \in Abstract!Open(c)
      <4>1. UNCHANGED <<ran, skipped>> /\ i \in 1 .. n
        BY <1>6 DEF TakeEvent, Deliver, Arrive, Abstract!Open
      <4>2. QED
        BY <1>2, <4>1 DEF Abstract!Open
    <3>2. CASE i = n
      BY <1>4, <2>1, <2>3, <3>2
    <3>3. CASE i \in Abstract!Open(c)
      <4>1. i \in 1 .. arrived[c]
        BY <3>3 DEF Abstract!Open
      <4>2. QED
        BY <1>2, <2>1, <2>3, <3>3, <4>1 DEF HeardInOrder
    <3>4. QED
      BY <3>1, <3>2, <3>3
  <2>4. QED
    BY <1>1, <1>5, <1>6, <2>1, <2>2, <2>3 DEF HeardInOrder
<1>8. \A d \in OnEvent \ {c} : HeardInOrder(d)'
  BY <1>1, <1>6, HeardKept
<1>9. HistoryPart'
  BY <1>1, <1>6, <1>7, <1>8 DEF HistoryPart, HistoryTypes, SystemInv
<1>10. Path!GotBehind'
  <2>1. \A d \in OnEvent : got[d] <= published' /\ \A id \in Path!Ahead(d)' : got[d] < id
    BY HistoryFacts, StillAhead
  <2>2. QED
    BY <1>1, <2>1 DEF Path!GotBehind, SystemInv, Path!BusInv
<1>11. QED
  BY <1>1, <1>9, <1>10 DEF HistoryKept, Bus!vars

(* A callback is called with a live event.                                 *)
LEMMA EventCalled ==
    ASSUME SystemInv, PartsKept, [Next]_vars, NEW b \in Bundles, LoopAlone(b),
           NEW c \in OnEvent, CallsLive(b, c)
    PROVE  HistoryKept
<1> PICK id \in DOMAIN heard[c] :
       /\ Path!IsLive(heard[c][id])
       /\ id \in Abstract!Open(c)
       /\ \A other \in Abstract!Open(c)' : id < other
       /\ got' = [got EXCEPT ![c] = heard[c][id].id]
       /\ count' = [count EXCEPT ![c] = count[c] + 1]
  BY LiveCall
<1> DEFINE x == heard[c][id].id
<1>1. UNCHANGED <<heard, published>> /\ UNCHANGED <<arrived>>
  <2>1. UNCHANGED arrived
    BY DEF LoopAlone, Loop, LoopTake, LoopCall, ServiceCall, ServiceReturn, LoopReturn, coreVars
  <2>2. QED
    BY <2>1 DEF LoopAlone, brokerVars, linkVars
<1>2. x \in Path!LiveIds(heard[c])
  BY DEF Path!LiveIds
<1>3. x \in Nat /\ x <= published /\ \A ahead \in Path!Ahead(c) : x < ahead
  BY <1>2, HistoryFacts DEF HeardInOrder
<1>4. got[c] < x
  BY HistoryFacts DEF HeardInOrder
<1> HIDE DEF x
<1>5. x <= published' /\ \A ahead \in Path!Ahead(c)' : x < ahead
  BY <1>3, StillAhead
<1>6. /\ got' \in [OnEvent -> Nat] /\ count' \in [OnEvent -> Nat]
      /\ got'[c] = x /\ \A d \in OnEvent \ {c} : got'[d] = got[d]
  BY <1>3, HistoryFacts DEF x
<1>7. HeardInOrder(c)'
  <2>1. Path!Ordered(heard'[c]) /\ Len(heard'[c]) = arrived'[c]
    BY <1>1, HistoryFacts DEF HeardInOrder
  <2>2. \A other \in Path!LiveIds(heard[c]) :
           other <= published' /\ \A ahead \in Path!Ahead(c)' : other < ahead
    BY HistoryFacts, StillAhead DEF HeardInOrder
  <2>3. ASSUME NEW other \in Abstract!Open(c)', Path!IsLive(heard[c][other])
        PROVE  x < heard[c][other].id
    <3>1. other \in DOMAIN heard[c]
      BY <1>1, HistoryFacts DEF Abstract!Open
    <3>2. id < other
      OBVIOUS
    <3>3. QED
      BY <2>3, <3>1, <3>2, HistoryFacts DEF HeardInOrder, Path!Ordered, x
  <2>4. QED
    BY <1>1, <1>6, <2>1, <2>2, <2>3 DEF HeardInOrder
<1>8. \A d \in OnEvent \ {c} : HeardInOrder(d)'
  BY <1>1, <1>6, HeardKept
<1>9. HistoryPart'
  BY <1>1, <1>6, <1>7, <1>8 DEF HistoryPart, HistoryTypes, SystemInv
<1>10. Path!GotBehind'
  <2>1. ASSUME NEW d \in OnEvent
        PROVE  got'[d] <= published' /\ \A ahead \in Path!Ahead(d)' : got'[d] < ahead
    <3>1. CASE d = c
      BY <1>5, <1>6, <3>1
    <3>2. CASE d # c
      BY <1>6, <3>2, HistoryFacts, StillAhead
    <3>3. QED
      BY <3>1, <3>2
  <2>2. QED
    BY <1>6, <2>1 DEF Path!GotBehind
<1>11. Bus!Next
  <2>1. x \in got[c] + 1 .. published
    BY <1>3, <1>4, HistoryFacts DEF PartsKept
  <2>2. Bus!Receive(c)
    BY <1>1, <2>1 DEF Bus!Receive, x
  <2>3. QED
    BY <2>2 DEF Bus!Next
<1>12. QED
  BY <1>9, <1>10, <1>11 DEF HistoryKept

LEMMA SystemStep ==
    ASSUME SystemInv, [SystemNext]_systemVars
    PROVE  SystemInv' /\ [Bus!Next]_(Bus!vars)
<1>1. PartsKept /\ [Next]_vars
  BY PartsStep
<1>2. HistoryKept
  <2>1. CASE \E c \in OnEvent : SystemNext /\ TakeEvent(c)
    BY <1>1, <2>1, EventHeard
  <2>2. CASE \E b \in Bundles, c \in OnEvent : LoopAlone(b) /\ CallsLive(b, c)
    BY <1>1, <2>2, EventCalled
  <2>3. CASE /\ SystemNext
             /\ \A c \in OnEvent : ~TakeEvent(c)
             /\ \A b \in Bundles, c \in OnEvent : ~(LoopAlone(b) /\ CallsLive(b, c))
    <3>1. \A c \in OnEvent : arrived'[c] = arrived[c]
      BY <2>3, OnlyTaken DEF SystemInv
    <3>2. ASSUME NEW b \in Bundles, LoopAlone(b) PROVE UNCHANGED history
      <4>1. \A c \in OnEvent : ~CallsLive(b, c)
        BY <2>3, <3>2
      <4>2. got \in [OnEvent -> Nat] /\ count \in [OnEvent -> Nat]
        BY DEF SystemInv, HistoryPart, HistoryTypes
      <4>3. got' = got /\ count' = count
        BY <3>2, <4>1, <4>2 DEF LoopAlone
      <4>4. QED
        BY <3>2, <4>3 DEF LoopAlone, history
    <3>3. UNCHANGED history
      BY <2>3, <3>2 DEF SystemNext, BundleLoop, OnLock, OnSubscribe, ScriptPublish, Operate, InBroker
    <3>4. QED
      BY <1>1, <3>1, <3>3, NothingHeard
  <2>4. CASE UNCHANGED systemVars
    <3>1. UNCHANGED history /\ \A c \in OnEvent : arrived'[c] = arrived[c]
      BY <2>4 DEF systemVars, vars, automationVars, coreVars
    <3>2. QED
      BY <1>1, <3>1, NothingHeard
  <2>5. QED
    BY <2>1, <2>2, <2>3, <2>4
<1>3. QED
  BY <1>1, <1>2 DEF PartsKept, HistoryKept, SystemInv, Path!BusInv

LEMMA SystemStart ==
    ASSUME SystemInit
    PROVE  SystemInv /\ Bus!Init
<1>1. /\ Init /\ Path!Init /\ published = 0
      /\ heard = [c \in OnEvent |-> <<>>]
      /\ got = [c \in OnEvent |-> 0] /\ count = [c \in OnEvent |-> 0]
  BY SameInit DEF SystemInit, Path!Init, Path!LinkInit
<1>2. CallInv
  BY <1>1, InitCall
<1>3. Path!OrderInv
  BY <1>1, PathLink, PathBroker, PathScripts, PathCareful, Path!InitOrder
<1>4. \A c \in OnEvent : Path!Ahead(c) = {}
  <2>1. /\ wire = <<>> /\ inbox = <<>> /\ msg = <<>> /\ \A c \in OnEvent : chan[c] = <<>>
    BY <1>1 DEF Path!Init, Path!LinkInit, Path!BrokerInit
  <2>2. QED
    BY <2>1, PathLink, PathBroker, PathScripts, Path!EmptyOrdered
    DEF Path!Ahead, Path!Pending, Path!Coming
<1>5. Path!BusInv
  BY <1>1, <1>3, <1>4 DEF Path!BusInv, Path!GotBehind
<1>6. OnOnly
  BY <1>1 DEF OnOnly, Init, AutomationInit
<1>7. HistoryPart
  <2>1. ASSUME NEW c \in OnEvent PROVE HeardInOrder(c)
    <3>1. heard[c] = <<>> /\ arrived[c] = 0
      BY <1>1, SystemAssumption DEF Init, AutomationInit
    <3>2. Path!Ordered(<<>>) /\ Path!LiveIds(<<>>) = {}
      BY PathLink, PathBroker, PathScripts, Path!EmptyOrdered
    <3>3. Len(heard[c]) = arrived[c] /\ Abstract!Open(c) = {}
      BY <3>1 DEF Abstract!Open
    <3>4. QED
      BY <3>1, <3>2, <3>3 DEF HeardInOrder
  <2>2. HistoryTypes
    BY <1>1 DEF HistoryTypes
  <2>3. QED
    BY <2>1, <2>2 DEF HistoryPart
<1>8. QED
  BY <1>1, <1>2, <1>5, <1>6, <1>7 DEF SystemInv, Bus!Init

-----------------------------------------------------------------------------
(* The theorems.                                                           *)

(* main.go and core.go:177-199: the system is the service's start and the  *)
(* event path at once - what is between them, the event loops that call    *)
(* Broker.Subscribe and Broker.Publish and the goroutines that empty the   *)
(* channels, adds no behaviour to either, so that all that is proved of    *)
(* the parts holds of the whole.                                           *)
THEOREM SystemIsItsParts == SystemSpec => Spec /\ Broker!Spec
<1>1. SystemInit => Init /\ Broker!Init
  BY DEF SystemInit
<1>2. [SystemNext]_systemVars => [Next]_vars /\ [Broker!Next]_(Broker!vars)
  BY BothParts, BrokerAlone DEF systemVars
<1>3. QED
  BY <1>1, <1>2, PTL DEF SystemSpec, Spec, Broker!Spec

(* core.go:177-199: the function a script hands to on is called with the   *)
(* events of the bus in the order of their publishing and none twice, for  *)
(* any bundles, scripts, callbacks, types, events and lost connections:    *)
(* every step of the system is one of EventBus or none.                    *)
THEOREM ScriptsGetTheBus == SystemSpec => RunsInOrder
<1>1. SystemInit => SystemInv /\ Bus!Init
  BY SystemStart
<1>2. SystemInv /\ [SystemNext]_systemVars => SystemInv' /\ [Bus!Next]_(Bus!vars)
  BY SystemStep
<1>3. QED
  BY <1>1, <1>2, PTL DEF SystemSpec, RunsInOrder, Bus!Spec

=============================================================================
