------------------------------ MODULE Automation ------------------------------
(***************************************************************************)
(* internal/automation: the Engine of each bundle (engine.go) and the core *)
(* module its scripts use (core.go), with the connect module.              *)
(*                                                                         *)
(* JavaScript runs on the engine's event loop only, one job after the      *)
(* other.  Everything else reaches it through RunOnLoop, which appends to  *)
(* the loop's queue and never waits:                                       *)
(*  - Engine.Run and RunScript, which wait for an answer themselves;       *)
(*  - the goroutine onEvent starts, which reads the channel it has given   *)
(*    to Broker.Subscribe;                                                 *)
(*  - the goroutine cron starts for each trigger of an entry.  Those of    *)
(*    one entry wait for each other (DelayIfStillRunning).                 *)
(* The last two call wrapOperation, which may register an operation with   *)
(* the long-running service around the call.                               *)
(*                                                                         *)
(* A script is the sequence of the calls it makes.  It may catch what a    *)
(* call throws and go on, or end with it.  A function it hands over twice  *)
(* is two callbacks, and callbacks hand over none.  What a                 *)
(* callback is called with is an id: the how-manieth event it is.  A       *)
(* trigger carries nothing; it is counted when it gets the entry's mutex.  *)
(***************************************************************************)
EXTENDS Connect, Integers, Sequences

CONSTANTS
    Callbacks,   \* the functions that scripts hand to on and schedule
    Home,        \* the bundle of each
    Script,      \* the calls each bundle's entry point makes
    Body,        \* the calls each callback makes
    Wrapped,     \* the bundles with automationConfig.WrapInOperation
    MsgsCap,     \* make(chan *eventsv1.Event, 100)
    MaxArrivals  \* bound: events or triggers of one callback

HandOvers == {"on", "schedule"} \X Callbacks
OtherCalls ==
    {<<"log">>, <<"throw">>, <<"publish">>, <<"service">>} \union ({"clearSchedule"} \X Callbacks)
Calls == HandOvers \union OtherCalls

ASSUME AutomationAssumption ==
    /\ Home \in [Callbacks -> Bundles]
    /\ Script \in [Bundles -> Seq(Calls)]
    /\ \A b \in Bundles : \A i, j \in DOMAIN Script[b] :
          Script[b][i] \in HandOvers =>
            /\ Home[Script[b][i][2]] = b
            /\ Script[b][j] \in HandOvers /\ Script[b][j][2] = Script[b][i][2] => i = j
    /\ Body \in [Callbacks -> Seq(OtherCalls)]
    /\ Wrapped \subseteq Bundles
    /\ MsgsCap \in Nat \ {0}
    /\ MaxArrivals \in Nat

VARIABLES
    loop,        \* the bundle's event loop: absent, created, or running
    jobs,        \* the functions given to RunOnLoop, oldest first
    job,         \* the one that is running (<<>>: none)
    calls,       \* the calls it has still to make
    answer,      \* valueChan and errCh of Engine.Run and RunScript
    globals,     \* have the bundle's parameters been set?
    bundleLock,  \* does Prepare hold bundle.lock?
    subscribed,  \* callbacks that on has subscribed
    entries,     \* callbacks with an entry in the cron scheduler
    pending,     \* their events in msgs, or triggers waiting for the entry
    wrap,        \* wrapOperation, as far as it has come
    arrived,     \* number of events or triggers so far
    ran,         \* the ids the callback was called with
    skipped,     \* the ids it will never be called with
    completed    \* the ids whose operation was reported complete

scriptVars == <<job, calls, request>>
loopVars == <<loop, jobs, scriptVars, answer, globals>>
coreVars == <<subscribed, entries, pending, wrap, arrived, skipped, completed>>
automationVars == <<loopVars, bundleLock, coreVars, ran>>

Ids == 1 .. MaxArrivals

Jobs == {[kind |-> "parameters"], [kind |-> "script"]}
            \union [kind : {"callback"}, cb : Callbacks, id : Ids]

Callback(c, id) == [kind |-> "callback", cb |-> c, id |-> id]

Idle == [at |-> "idle", id |-> 0]

AutomationTypeOK ==
    /\ loop \in [Bundles -> {"absent", "created", "running"}]
    /\ jobs \in [Bundles -> Seq(Jobs)]
    /\ job \in [Bundles -> {<<>>} \union {<<j>> : j \in Jobs}]
    /\ calls \in [Bundles -> Seq(Calls)]
    /\ request \in [Bundles -> Requests]
    /\ answer \in [Bundles -> {"none", "ok", "error"}]
    /\ globals \in [Bundles -> BOOLEAN]
    /\ bundleLock \in [Bundles -> BOOLEAN]
    /\ subscribed \in SUBSET Callbacks
    /\ entries \in SUBSET Callbacks
    /\ pending \in [Callbacks -> Seq(Ids)]
    /\ wrap \in [Callbacks -> {Idle} \union [at : {"called", "registered", "returning"}, id : Ids]]
    /\ arrived \in [Callbacks -> 0 .. MaxArrivals]
    /\ ran \in [Callbacks -> SUBSET Ids]
    /\ skipped \in [Callbacks -> SUBSET Ids]
    /\ completed \in [Callbacks -> SUBSET Ids]

AutomationInit ==
    /\ loop = [b \in Bundles |-> "absent"]
    /\ jobs = [b \in Bundles |-> <<>>]
    /\ job = [b \in Bundles |-> <<>>]
    /\ calls = [b \in Bundles |-> <<>>]
    /\ request = [b \in Bundles |-> NoRequest]
    /\ answer = [b \in Bundles |-> "none"]
    /\ globals = [b \in Bundles |-> FALSE]
    /\ bundleLock = [b \in Bundles |-> FALSE]
    /\ subscribed = {} /\ entries = {}
    /\ pending = [c \in Callbacks |-> <<>>]
    /\ wrap = [c \in Callbacks |-> Idle]
    /\ arrived = [c \in Callbacks |-> 0]
    /\ ran = [c \in Callbacks |-> {}]
    /\ skipped = [c \in Callbacks |-> {}]
    /\ completed = [c \in Callbacks |-> {}]

-----------------------------------------------------------------------------
(* The event loop.                                                         *)

RunOnLoop(b, j) == jobs' = [jobs EXCEPT ![b] = Append(@, j)]

CallsOf(b, j) ==
    CASE j.kind = "parameters" -> <<>>
      [] j.kind = "script" -> Script[b]
      [] j.kind = "callback" -> Body[j.cb]

LoopTake(b) ==
    /\ loop[b] = "running" /\ job[b] = <<>> /\ jobs[b] # <<>>
    /\ LET j == Head(jobs[b])
       IN  /\ job' = [job EXCEPT ![b] = <<j>>]
           /\ calls' = [calls EXCEPT ![b] = CallsOf(b, j)]
           /\ ran' = IF j.kind = "callback" THEN [ran EXCEPT ![j.cb] = @ \union {j.id}] ELSE ran
    /\ jobs' = [jobs EXCEPT ![b] = Tail(@)]
    /\ UNCHANGED <<loop, request, answer, globals, bundleLock, coreVars>>

(* The call at hand returns, or throws.                                    *)
Returned(b) == calls' = [calls EXCEPT ![b] = Tail(@)]
Thrown(b) == Returned(b) \/ calls' = [calls EXCEPT ![b] = <<<<"throw">>>>]

(* The calls of a script into the core module, and console.log, which      *)
(* takes bundle.lock (bundle.go, internalLog).                             *)
LoopCall(b) ==
    /\ calls[b] # <<>>
    /\ LET call == Head(calls[b])
       IN  \/ /\ call[1] = "log" /\ ~bundleLock[b]
              /\ Returned(b)
              /\ UNCHANGED <<subscribed, entries>>
           \/ /\ call[1] = "on"
              /\ Returned(b)
              /\ subscribed' = subscribed \union {call[2]}
              /\ UNCHANGED entries
           \/ /\ call[1] = "schedule"
              /\ Returned(b)
              /\ entries' = entries \union {call[2]}
              /\ UNCHANGED subscribed
           \/ /\ call[1] = "clearSchedule"
              /\ Returned(b)
              /\ entries' = entries \ {call[2]}
              /\ UNCHANGED subscribed
           \/ /\ call[1] = "publish"
              /\ Thrown(b)
              /\ UNCHANGED <<subscribed, entries>>
    /\ UNCHANGED <<loop, jobs, job, request, answer, globals, bundleLock, pending, wrap, arrived,
                   skipped, completed, ran>>

(* The call of a service, up to the request, and from the response on.     *)
AtService(b) == calls[b] # <<>> /\ Head(calls[b]) = <<"service">>

ServiceCall(b) ==
    /\ AtService(b)
    /\ Do(b) \/ ResolveEndpoint(b)
    /\ UNCHANGED <<loop, jobs, job, calls, answer, globals, bundleLock, coreVars, ran>>

ServiceReturn(b) ==
    /\ AtService(b)
    /\ request[b].at \in {"result", "error"}
    /\ request' = [request EXCEPT ![b] = NoRequest]
    /\ IF request[b].at = "result" THEN Returned(b) ELSE Thrown(b)
    /\ UNCHANGED <<loop, jobs, job, answer, globals, bundleLock, coreVars, ran>>

(* The service may answer.                                                 *)
Service(b) ==
    /\ Respond(b)
    /\ UNCHANGED <<loop, jobs, job, calls, answer, globals, bundleLock, coreVars, ran>>

(* Slip: a script that throws sends no answer.                             *)
LoopReturnSilent(b) ==
    /\ job[b] # <<>>
    /\ calls[b] # <<>> => Head(calls[b]) = <<"throw">>
    /\ job' = [job EXCEPT ![b] = <<>>]
    /\ calls' = [calls EXCEPT ![b] = <<>>]
    /\ answer' = IF job[b][1].kind = "callback" \/ calls[b] # <<>> THEN answer
                 ELSE [answer EXCEPT ![b] = "ok"]
    /\ globals' = IF job[b][1].kind = "parameters" THEN [globals EXCEPT ![b] = TRUE] ELSE globals
    /\ UNCHANGED <<loop, jobs, request, bundleLock, coreVars, ran>>

(* The job returns or throws.  Nobody looks at what a callback returned.   *)
LoopReturn(b) ==
    /\ job[b] # <<>>
    /\ calls[b] # <<>> => Head(calls[b]) = <<"throw">>
    /\ job' = [job EXCEPT ![b] = <<>>]
    /\ calls' = [calls EXCEPT ![b] = <<>>]
    /\ answer' = IF job[b][1].kind = "callback" THEN answer
                 ELSE [answer EXCEPT ![b] = IF calls[b] = <<>> THEN "ok" ELSE "error"]
    /\ globals' = IF job[b][1].kind = "parameters" THEN [globals EXCEPT ![b] = TRUE] ELSE globals
    /\ UNCHANGED <<loop, jobs, request, bundleLock, coreVars, ran>>

Loop(b) == LoopTake(b) \/ LoopCall(b) \/ ServiceCall(b) \/ ServiceReturn(b) \/ LoopReturn(b)

-----------------------------------------------------------------------------
(* Events and triggers.                                                    *)

Arrive(c) ==
    /\ arrived[c] < MaxArrivals
    /\ arrived' = [arrived EXCEPT ![c] = @ + 1]
    /\ pending' = [pending EXCEPT ![c] = Append(@, arrived[c] + 1)]
    /\ UNCHANGED <<loopVars, bundleLock, subscribed, entries, wrap, skipped, completed, ran>>

(* The broker sends an event.  One that finds the channel full is dropped  *)
(* and never arrives.                                                      *)
Deliver(c) ==
    /\ c \in subscribed
    /\ Len(pending[c]) < MsgsCap
    /\ Arrive(c)

(* The schedule of an entry is due.                                        *)
Trigger(c) ==
    /\ c \in entries
    /\ Arrive(c)

-----------------------------------------------------------------------------
(* wrapOperation.  The goroutine of onEvent calls it for one event after   *)
(* the other, cron for the trigger that got the entry's mutex.             *)

Call(c) ==
    /\ wrap[c] = Idle /\ pending[c] # <<>>
    /\ wrap' = [wrap EXCEPT ![c] = [at |-> "called", id |-> Head(pending[c])]]
    /\ pending' = [pending EXCEPT ![c] = Tail(@)]
    /\ UNCHANGED <<loopVars, bundleLock, subscribed, entries, arrived, skipped, completed, ran>>

(* An event that cannot be converted is left out.                          *)
ConvertError(c) ==
    /\ c \in subscribed
    /\ wrap[c] = Idle /\ pending[c] # <<>>
    /\ skipped' = [skipped EXCEPT ![c] = @ \union {Head(pending[c])}]
    /\ pending' = [pending EXCEPT ![c] = Tail(@)]
    /\ UNCHANGED <<loopVars, bundleLock, subscribed, entries, wrap, arrived, completed, ran>>

(* Slip: the callback is put before what is on the queue already.          *)
CallPlainAhead(c) ==
    /\ wrap[c].at = "called"
    /\ jobs' = [jobs EXCEPT ![Home[c]] = <<Callback(c, wrap[c].id)>> \o @]
    /\ wrap' = [wrap EXCEPT ![c] = Idle]
    /\ UNCHANGED <<loop, scriptVars, answer, globals, bundleLock, subscribed, entries, pending,
                   arrived, skipped, completed, ran>>

(* Without a client for the long-running service - not configured, or it   *)
(* could not be created - the callback goes to the loop and that is all.   *)
CallPlain(c) ==
    /\ wrap[c].at = "called"
    /\ RunOnLoop(Home[c], Callback(c, wrap[c].id))
    /\ wrap' = [wrap EXCEPT ![c] = Idle]
    /\ UNCHANGED <<loop, scriptVars, answer, globals, bundleLock, subscribed, entries, pending,
                   arrived, skipped, completed, ran>>

(* Slip: a registration is repeated when its answer is late.               *)
RegisterAgain(c) ==
    /\ wrap[c].at \in {"called", "registered"} /\ Home[c] \in Wrapped
    /\ wrap' = [wrap EXCEPT ![c].at = IF @ = "called" THEN "registered" ELSE "called"]
    /\ UNCHANGED <<loopVars, bundleLock, subscribed, entries, pending, arrived, skipped,
                   completed, ran>>

(* op.Wrap registers the operation, and fails when that does.              *)
Register(c) ==
    /\ wrap[c].at = "called" /\ Home[c] \in Wrapped
    /\ \/ /\ wrap' = [wrap EXCEPT ![c].at = "registered"]
          /\ UNCHANGED skipped
       \/ /\ skipped' = [skipped EXCEPT ![c] = @ \union {wrap[c].id}]
          /\ wrap' = [wrap EXCEPT ![c] = Idle]
    /\ UNCHANGED <<loopVars, bundleLock, subscribed, entries, pending, arrived, completed, ran>>

(* The function given to op.Wrap puts the callback on the loop and returns *)
(* what result and resultErr hold at that moment.                          *)
CallWrapped(c) ==
    /\ wrap[c].at = "registered"
    /\ RunOnLoop(Home[c], Callback(c, wrap[c].id))
    /\ wrap' = [wrap EXCEPT ![c].at = "returning"]
    /\ UNCHANGED <<loop, scriptVars, answer, globals, bundleLock, subscribed, entries, pending,
                   arrived, skipped, completed, ran>>

(* Slip: the event stays at hand.                                          *)
CompleteHalf(c) ==
    /\ wrap[c].at = "returning"
    /\ completed' = [completed EXCEPT ![c] = @ \union {wrap[c].id}]
    /\ wrap' = [wrap EXCEPT ![c].at = "idle"]
    /\ UNCHANGED <<loopVars, bundleLock, subscribed, entries, pending, arrived, skipped, ran>>

(* op.Wrap reports the operation complete.                                 *)
Complete(c) ==
    /\ wrap[c].at = "returning"
    /\ completed' = [completed EXCEPT ![c] = @ \union {wrap[c].id}]
    /\ wrap' = [wrap EXCEPT ![c] = Idle]
    /\ UNCHANGED <<loopVars, bundleLock, subscribed, entries, pending, arrived, skipped, ran>>

WrapOperation(c) ==
    \/ Call(c)
    \/ ConvertError(c)
    \/ CallPlain(c)
    \/ Register(c)
    \/ CallWrapped(c)
    \/ Complete(c)

=============================================================================
