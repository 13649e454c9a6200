----------------------------- MODULE StartupProofs -----------------------------
(***************************************************************************)
(* What holds of the start-up for every set of bundles and every script:   *)
(* types and locks, the order in which main starts and registers bundles,  *)
(* and - from `Working` on - that no code of a bundle runs before its      *)
(* parameters are set, no callback before its entry point has returned,    *)
(* and that main shares the runtime of a bundle with nobody.               *)
(***************************************************************************)
EXTENDS Startup, TLAPS

-----------------------------------------------------------------------------
(* Types.                                                                  *)

Working ==
    main \in {"new", "options", "modules", "vars", "parameters", "wait parameters", "script",
             "wait script"}

(* While main prepares a bundle there is one.                              *)
StartInv == TypeOK /\ (Working => todo # <<>>)

LEMMA CurrentIsBundle ==
    ASSUME StartInv, todo # <<>>
    PROVE  Current \in Bundles /\ Tail(todo) \in Seq(Bundles)
<1>1. todo \in Seq(Bundles)
  BY DEF StartInv, TypeOK
<1>2. QED
  BY <1>1 DEF Current

LEMMA InitType == Init => StartInv
<1> SUFFICES ASSUME Init PROVE StartInv
  OBVIOUS
<1>1. AutomationTypeOK
  <2>1. 0 \in 0 .. MaxArrivals
    BY AutomationAssumption
  <2>2. QED
    BY <2>1 DEF Init, AutomationInit, AutomationTypeOK, Requests
<1>2. QED
  BY <1>1 DEF Init, StartInv, TypeOK, Working

LEMMA CallsAreCalls ==
    ASSUME NEW b \in Bundles, NEW j \in Jobs
    PROVE  CallsOf(b, j) \in Seq(Calls)
<1>1. \A c \in Callbacks : Body[c] \in Seq(Calls)
  BY AutomationAssumption DEF Calls
<1>2. Script[b] \in Seq(Calls)
  BY AutomationAssumption
<1>3. QED
  BY <1>1, <1>2 DEF Jobs, CallsOf

LEMMA EmptyIsSeq == ASSUME NEW S PROVE <<>> \in Seq(S)
OBVIOUS

LEMMA RunOnLoopType ==
    ASSUME jobs \in [Bundles -> Seq(Jobs)], NEW b \in Bundles, NEW j \in Jobs, RunOnLoop(b, j)
    PROVE  jobs' \in [Bundles -> Seq(Jobs)]
<1>1. Append(jobs[b], j) \in Seq(Jobs)
  OBVIOUS
<1>2. QED
  BY <1>1 DEF RunOnLoop

LEMMA ThrownType ==
    ASSUME calls \in [Bundles -> Seq(Calls)], NEW b \in Bundles, calls[b] # <<>>, Thrown(b)
    PROVE  calls' \in [Bundles -> Seq(Calls)]
<1>1. Tail(calls[b]) \in Seq(Calls)
  OBVIOUS
<1>2. <<<<"throw">>>> \in Seq(Calls)
  BY DEF Calls, OtherCalls
<1>3. QED
  BY <1>1, <1>2 DEF Thrown, Returned

LEMMA RequestType ==
    ASSUME request \in [Bundles -> Requests], NEW b \in Bundles,
           Do(b) \/ ResolveEndpoint(b) \/ Respond(b)
    PROVE  request' \in [Bundles -> Requests]
<1>0. NameParts \in Nat \ {0} /\ request[b] \in Requests
  BY ConnectAssumption
<1>1. ASSUME NEW how \in {"sent", "result", "error"}, Ends(b, how)
      PROVE  request' \in [Bundles -> Requests]
  BY <1>1 DEF Ends, Requests
<1>2. CASE Do(b)
  <2>1. [at |-> "resolve", queries |-> NameParts] \in Requests
    BY <1>0 DEF Requests
  <2>2. QED
    BY <1>1, <1>2, <2>1 DEF Do
<1>3. CASE ResolveEndpoint(b)
  <2>1. CASE request[b].queries > 1 /\ request' = [request EXCEPT ![b].queries = @ - 1]
    <3>1. request[b].at = "resolve"
      BY <1>3 DEF ResolveEndpoint
    <3>2. request[b] \in [at : {"resolve"}, queries : 1 .. NameParts]
      BY <1>0, <3>1 DEF Requests, NoRequest
    <3>3. [request[b] EXCEPT !.queries = @ - 1] \in [at : {"resolve"}, queries : 1 .. NameParts]
      BY <1>0, <2>1, <3>2
    <3>4. QED
      BY <2>1, <3>3 DEF Requests
  <2>2. QED
    BY <1>1, <1>3, <2>1 DEF ResolveEndpoint
<1>4. CASE Respond(b)
  BY <1>1, <1>4 DEF Respond
<1>5. QED
  BY <1>2, <1>3, <1>4

LEMMA TypeLoop ==
    ASSUME AutomationTypeOK, NEW b \in Bundles, Loop(b)
    PROVE  AutomationTypeOK'
<1> USE DEF loopVars, scriptVars, coreVars
<1>1. CASE LoopTake(b)
  <2> DEFINE j == Head(jobs[b])
  <2>1. j \in Jobs /\ Tail(jobs[b]) \in Seq(Jobs)
    BY <1>1 DEF LoopTake, AutomationTypeOK
  <2>2. CallsOf(b, j) \in Seq(Calls)
    BY <2>1, CallsAreCalls
  <2>3. job' \in [Bundles -> {<<>>} \union {<<k>> : k \in Jobs}]
    BY <1>1, <2>1 DEF LoopTake, AutomationTypeOK
  <2>4. ran' \in [Callbacks -> SUBSET Ids]
    BY <1>1, <2>1 DEF LoopTake, AutomationTypeOK, Jobs
  <2>5. jobs' \in [Bundles -> Seq(Jobs)] /\ calls' \in [Bundles -> Seq(Calls)]
    BY <1>1, <2>1, <2>2 DEF LoopTake, AutomationTypeOK
  <2>6. QED
    BY <1>1, <2>3, <2>4, <2>5 DEF LoopTake, AutomationTypeOK
<1>2. CASE LoopCall(b)
  <2>1. Head(calls[b]) \in Calls /\ Tail(calls[b]) \in Seq(Calls)
    BY <1>2 DEF LoopCall, AutomationTypeOK
  <2>2. subscribed' \in SUBSET Callbacks /\ entries' \in SUBSET Callbacks
    BY <1>2, <2>1 DEF LoopCall, AutomationTypeOK, Calls, HandOvers, OtherCalls
  <2>3. Returned(b) \/ Thrown(b)
    BY <1>2 DEF LoopCall
  <2>4. calls' \in [Bundles -> Seq(Calls)]
    BY <1>2, <2>3, ThrownType DEF LoopCall, AutomationTypeOK, Thrown
  <2>5. QED
    BY <1>2, <2>2, <2>4 DEF LoopCall, AutomationTypeOK
<1>3. CASE LoopReturn(b)
  BY <1>3 DEF LoopReturn, AutomationTypeOK
<1>4. CASE ServiceCall(b)
  <2>1. request' \in [Bundles -> Requests]
    BY <1>4, RequestType DEF ServiceCall, AutomationTypeOK
  <2>2. QED
    BY <1>4, <2>1 DEF ServiceCall, AutomationTypeOK
<1>5. CASE ServiceReturn(b)
  <2>1. calls[b] # <<>>
    BY <1>5 DEF ServiceReturn, AtService
  <2>2. calls' \in [Bundles -> Seq(Calls)]
    BY <1>5, <2>1, ThrownType DEF ServiceReturn, AutomationTypeOK, Thrown
  <2>3. request' \in [Bundles -> Requests]
    BY <1>5 DEF ServiceReturn, AutomationTypeOK, Requests
  <2>4. QED
    BY <1>5, <2>2, <2>3 DEF ServiceReturn, AutomationTypeOK
<1>6. QED
  BY <1>1, <1>2, <1>3, <1>4, <1>5 DEF Loop

LEMMA TypeCore ==
    ASSUME AutomationTypeOK, NEW c \in Callbacks, Deliver(c) \/ Trigger(c) \/ WrapOperation(c)
    PROVE  AutomationTypeOK'
<1> USE DEF loopVars, scriptVars, coreVars
<1>0. /\ MaxArrivals \in Nat /\ Home[c] \in Bundles
      /\ wrap[c] \in {Idle} \union [at : {"called", "registered", "returning"}, id : Ids]
      /\ wrap[c].at # "idle" => wrap[c].id \in Ids
  BY AutomationAssumption DEF AutomationTypeOK, Idle
<1>1. CASE Deliver(c) \/ Trigger(c)
  <2>1. arrived[c] + 1 \in Ids /\ arrived[c] + 1 \in 0 .. MaxArrivals
    BY <1>0, <1>1 DEF Deliver, Trigger, Arrive, AutomationTypeOK, Ids
  <2>2. Append(pending[c], arrived[c] + 1) \in Seq(Ids)
    BY <2>1 DEF AutomationTypeOK
  <2>3. /\ pending' = [pending EXCEPT ![c] = Append(pending[c], arrived[c] + 1)]
        /\ arrived' = [arrived EXCEPT ![c] = arrived[c] + 1]
    BY <1>1 DEF Deliver, Trigger, Arrive
  <2>4. pending' \in [Callbacks -> Seq(Ids)]
    BY <2>2, <2>3 DEF AutomationTypeOK
  <2>5. arrived' \in [Callbacks -> 0 .. MaxArrivals]
    BY <2>1, <2>3 DEF AutomationTypeOK
  <2>6. QED
    BY <1>1, <2>4, <2>5 DEF Deliver, Trigger, Arrive, AutomationTypeOK
<1>2. CASE Call(c) \/ ConvertError(c)
  <2>1. Head(pending[c]) \in Ids /\ Tail(pending[c]) \in Seq(Ids)
    BY <1>2 DEF Call, ConvertError, AutomationTypeOK
  <2>2. CASE Call(c)
    BY <2>1, <2>2 DEF Call, AutomationTypeOK
  <2>3. CASE ConvertError(c)
    BY <2>1, <2>3 DEF ConvertError, AutomationTypeOK
  <2>4. QED
    BY <1>2, <2>2, <2>3
<1>3. CASE CallPlain(c) \/ CallWrapped(c)
  <2>1. Callback(c, wrap[c].id) \in Jobs
    BY <1>0, <1>3 DEF CallPlain, CallWrapped, Callback, Jobs
  <2>2. jobs' \in [Bundles -> Seq(Jobs)]
    BY <1>0, <1>3, <2>1, RunOnLoopType DEF CallPlain, CallWrapped, AutomationTypeOK
  <2>3. CASE CallPlain(c)
    BY <2>2, <2>3 DEF CallPlain, AutomationTypeOK
  <2>4. CASE CallWrapped(c)
    BY <1>0, <2>2, <2>4 DEF CallWrapped, AutomationTypeOK, Idle
  <2>5. QED
    BY <1>3, <2>3, <2>4
<1>4. CASE Register(c)
  <2>1. wrap' \in [Callbacks -> {Idle} \union
                                 [at : {"called", "registered", "returning"}, id : Ids]]
    <3>1. /\ wrap[c].id \in Ids
          /\ wrap[c] \in [at : {"called", "registered", "returning"}, id : Ids]
      BY <1>0, <1>4 DEF Register, Idle
    <3>2. [wrap[c] EXCEPT !.at = "registered"] \in
              [at : {"called", "registered", "returning"}, id : Ids]
      BY <3>1
    <3>3. \/ wrap' = [wrap EXCEPT ![c] = [wrap[c] EXCEPT !.at = "registered"]]
          \/ wrap' = [wrap EXCEPT ![c] = Idle]
      BY <1>4 DEF Register
    <3>4. QED
      BY <3>2, <3>3 DEF AutomationTypeOK
  <2>2. skipped' \in [Callbacks -> SUBSET Ids]
    <3>1. \/ skipped' = skipped
          \/ skipped' = [skipped EXCEPT ![c] = skipped[c] \union {wrap[c].id}]
      BY <1>4 DEF Register
    <3>2. skipped \in [Callbacks -> SUBSET Ids] /\ wrap[c].id \in Ids
      BY <1>0, <1>4 DEF Register, AutomationTypeOK
    <3>3. skipped[c] \union {wrap[c].id} \in SUBSET Ids
      BY <3>2
    <3>4. QED
      BY <3>1, <3>2, <3>3
  <2>3. QED
    BY <1>4, <2>1, <2>2 DEF Register, AutomationTypeOK
<1>5. CASE Complete(c)
  BY <1>0, <1>5 DEF Complete, AutomationTypeOK
<1>6. QED
  BY <1>1, <1>2, <1>3, <1>4, <1>5 DEF WrapOperation

LEMMA TypeMain ==
    ASSUME StartInv, Main
    PROVE  StartInv'
<1> USE DEF loopVars, scriptVars, coreVars, automationVars, StartInv, TypeOK, Working
<1>0. /\ AutomationTypeOK /\ Prepares \in Seq(Bundles)
      /\ todo # <<>> => Current \in Bundles /\ Tail(todo) \in Seq(Bundles)
  BY CurrentIsBundle, StartupAssumption
<1>1. CASE Boot
  <2>1. AutomationTypeOK'
    BY <1>0, <1>1 DEF Boot, AutomationTypeOK
  <2>2. todo' \in Seq(Bundles)
    <3>1. todo' = todo \/ todo' = <<>> \/ todo' = Prepares
      BY <1>1 DEF Boot
    <3>2. QED
      BY <1>0, <3>1, EmptyIsSeq
  <2>3. QED
    BY <1>1, <2>1, <2>2 DEF Boot
<1>2. CASE PrepareLock
  BY <1>0, <1>2 DEF PrepareLock, AutomationTypeOK
<1>3. CASE PreparedBefore
  BY <1>0, <1>3 DEF PreparedBefore, PrepareReturn, Unlock, AutomationTypeOK
<1>4. CASE New
  BY <1>0, <1>4 DEF New, AutomationTypeOK
<1>11. CASE ApplyOptions
  BY <1>0, <1>11 DEF ApplyOptions, AutomationTypeOK
<1>5. CASE EnableModules
  <2>1. AutomationTypeOK'
    BY <1>0, <1>5 DEF EnableModules, Unlock, AutomationTypeOK
  <2>2. regReaders' \in Nat
    BY <1>5 DEF EnableModules
  <2>3. QED
    BY <1>0, <1>5, <2>1, <2>2 DEF EnableModules, PrepareReturn
<1>6. CASE LoadVars
  BY <1>0, <1>6 DEF LoadVars, PrepareReturn, Unlock, AutomationTypeOK
<1>7. CASE RunParameters \/ RunScript
  <2>1. [kind |-> "parameters"] \in Jobs /\ [kind |-> "script"] \in Jobs
    BY DEF Jobs
  <2>2. jobs' \in [Bundles -> Seq(Jobs)]
    BY <1>0, <1>7, <2>1, RunOnLoopType DEF RunParameters, RunScript, AutomationTypeOK
  <2>3. AutomationTypeOK'
    BY <1>0, <1>7, <2>2 DEF RunParameters, RunScript, AutomationTypeOK
  <2>4. QED
    BY <1>7, <2>3 DEF RunParameters, RunScript
<1>8. CASE RunParametersReturn \/ RunScriptReturn
  BY <1>0, <1>8 DEF RunParametersReturn, RunScriptReturn, TakeAnswer, PrepareReturn, AutomationTypeOK
<1>9. CASE Serve
  BY <1>0, <1>9 DEF Serve, AutomationTypeOK
<1>10. QED
  BY <1>1, <1>2, <1>3, <1>4, <1>11, <1>5, <1>6, <1>7, <1>8, <1>9 DEF Main, Prepare

LEMMA StartInvStep == StartInv /\ [Next]_vars => StartInv'
<1> SUFFICES ASSUME StartInv, [Next]_vars PROVE StartInv'
  OBVIOUS
<1>1. CASE Main
  BY <1>1, TypeMain
<1>2. ASSUME NEW b \in Bundles, Loop(b), UNCHANGED mainVars
      PROVE  StartInv'
  BY <1>2, TypeLoop DEF StartInv, TypeOK, Working, mainVars
<1>6. ASSUME NEW b \in Bundles, Service(b), UNCHANGED mainVars
      PROVE  StartInv'
  <2>1. request' \in [Bundles -> Requests]
    BY <1>6, RequestType DEF Service, StartInv, TypeOK, AutomationTypeOK
  <2>2. AutomationTypeOK'
    BY <1>6, <2>1 DEF Service, StartInv, TypeOK, AutomationTypeOK, coreVars
  <2>3. QED
    BY <1>6, <2>2 DEF StartInv, TypeOK, Working, mainVars
<1>3. ASSUME NEW c \in Callbacks, Deliver(c) \/ Trigger(c) \/ WrapOperation(c), UNCHANGED mainVars
      PROVE  StartInv'
  BY <1>3, TypeCore DEF StartInv, TypeOK, Working, mainVars
<1>4. CASE UNCHANGED vars
  BY <1>4 DEF StartInv, TypeOK, AutomationTypeOK, Working, vars, automationVars, loopVars,
              scriptVars, coreVars, mainVars
<1>5. QED
  BY <1>1, <1>2, <1>3, <1>4, <1>6 DEF Next

(* Every variable of the start-up, the event loops and the core module     *)
(* keeps its type.                                                         *)
THEOREM TypeCorrect == Spec => []TypeOK
<1>1. StartInv => TypeOK
  BY DEF StartInv
<1>2. QED
  BY InitType, StartInvStep, <1>1, PTL DEF Spec

-----------------------------------------------------------------------------
(* bundle.lock.                                                            *)

LEMMA LockMain ==
    ASSUME StartInv, LockReturned, Main
    PROVE  LockReturned'
<1> USE DEF loopVars, scriptVars, coreVars, automationVars, Current
<1>0. /\ bundleLock \in [Bundles -> BOOLEAN]
      /\ \A b \in Bundles :
            bundleLock[b] => b \in BadVars \/ (main \in {"new", "options", "modules", "vars"} /\ Head(todo) = b)
      /\ todo # <<>> => Head(todo) \in Bundles
  BY CurrentIsBundle DEF StartInv, TypeOK, AutomationTypeOK, LockReturned
<1>1. CASE Boot \/ RunParameters \/ RunScript \/ RunParametersReturn \/ RunScriptReturn \/ Serve
  BY <1>0, <1>1 DEF Boot, RunParameters, RunScript, RunParametersReturn, RunScriptReturn, Serve,
                    LockReturned
<1>2. CASE PrepareLock
  BY <1>0, <1>2 DEF PrepareLock, LockReturned
<1>3. CASE PreparedBefore
  BY <1>0, <1>3 DEF PreparedBefore, Unlock, PrepareReturn, LockReturned
<1>4. CASE New \/ ApplyOptions
  BY <1>0, <1>4 DEF New, ApplyOptions, LockReturned
<1>5. CASE EnableModules
  BY <1>0, <1>5 DEF EnableModules, Unlock, PrepareReturn, LockReturned
<1>6. CASE LoadVars
  BY <1>0, <1>6 DEF LoadVars, Unlock, PrepareReturn, LockReturned
<1>7. QED
  BY <1>1, <1>2, <1>3, <1>4, <1>5, <1>6 DEF Main, Prepare

LEMMA LockStep == StartInv /\ LockReturned /\ [Next]_vars => LockReturned'
<1> SUFFICES ASSUME StartInv, LockReturned, [Next]_vars PROVE LockReturned'
  OBVIOUS
<1>1. CASE Main
  BY <1>1, LockMain
<1>2. ASSUME NEW b \in Bundles, Loop(b), UNCHANGED mainVars
      PROVE  LockReturned'
  BY <1>2 DEF Loop, LoopTake, LoopCall, ServiceCall, ServiceReturn, LoopReturn, LockReturned,
              Current, mainVars
<1>6. ASSUME NEW b \in Bundles, Service(b), UNCHANGED mainVars
      PROVE  LockReturned'
  BY <1>6 DEF Service, LockReturned, Current, mainVars
<1>3. ASSUME NEW c \in Callbacks, Deliver(c) \/ Trigger(c) \/ WrapOperation(c), UNCHANGED mainVars
      PROVE  LockReturned'
  BY <1>3 DEF Deliver, Trigger, Arrive, WrapOperation, Call, ConvertError, CallPlain, Register,
              CallWrapped, Complete, LockReturned, Current, mainVars
<1>4. CASE UNCHANGED vars
  BY <1>4 DEF LockReturned, Current, vars, automationVars, mainVars
<1>5. QED
  BY <1>1, <1>2, <1>3, <1>4, <1>6 DEF Next

(* Prepare holds bundle.lock only on its way through New and vars.json,    *)
(* and keeps it only when vars.json is bad.                                *)
THEOREM LockGivenBack == Spec => []LockReturned
<1>1. Init => StartInv /\ LockReturned
  BY InitType DEF Init, AutomationInit, LockReturned
<1>2. StartInv /\ LockReturned /\ [Next]_vars => StartInv' /\ LockReturned'
  BY StartInvStep, LockStep
<1>3. QED
  BY <1>1, <1>2, PTL DEF Spec

-----------------------------------------------------------------------------
(* The runtime of each bundle, while main is at work on it and after.      *)

Parameters == [kind |-> "parameters"]
EntryPoint == [kind |-> "script"]
CallbackJobs == [kind : {"callback"}, cb : Callbacks, id : Ids]

(* No callback of bundle b is known to broker or scheduler, or on its way. *)
Quiet(b) ==
    \A c \in Callbacks : Home[c] = b =>
        c \notin subscribed /\ c \notin entries /\ pending[c] = <<>> /\ wrap[c] = Idle

LoopFree(b) == jobs[b] = <<>> /\ job[b] = <<>>

Resting(b) == LoopFree(b) /\ answer[b] = "none" /\ Quiet(b)

(* The loop has the parameters, or has answered.                           *)
SettingParameters(b) ==
    \/ jobs[b] = <<Parameters>> /\ job[b] = <<>> /\ answer[b] = "none"
    \/ jobs[b] = <<>> /\ job[b] = <<Parameters>> /\ answer[b] = "none"
    \/ LoopFree(b) /\ globals[b]

(* Nothing but callbacks is left to do.                                    *)
Ready(b) == globals[b] /\ jobs[b] \in Seq(CallbackJobs)
Calling(b) == Ready(b) /\ (job[b] = <<>> \/ \E j \in CallbackJobs : job[b] = <<j>>)

RunningScript(b) ==
    \/ /\ globals[b] /\ Quiet(b) /\ answer[b] = "none"
       /\ jobs[b] = <<EntryPoint>> /\ job[b] = <<>>
    \/ Ready(b) /\ job[b] = <<EntryPoint>> /\ answer[b] = "none"
    \/ Calling(b)

Preparing(b) ==
    main \in {"parameters", "wait parameters", "script", "wait script"} /\ Current = b

(* How far bundle b has come.                                              *)
Stage(b) ==
    /\ Preparing(b) => b \in runtime
    /\ b \notin runtime => Resting(b)
    /\ main = "parameters" /\ Preparing(b) => Resting(b)
    /\ main = "wait parameters" /\ Preparing(b) => Quiet(b) /\ SettingParameters(b)
    /\ main = "script" /\ Preparing(b) => Resting(b) /\ globals[b]
    /\ main = "wait script" /\ Preparing(b) => RunningScript(b)
    /\ b \in runtime /\ ~Preparing(b) => Calling(b)

(* Only the entry point makes calls that hand over a callback, its own.    *)
OwnCalls(b, q) == \A i \in DOMAIN q : q[i] \in HandOvers => Home[q[i][2]] = b

CallsOwn(b) ==
    /\ job[b] = <<>> \/ job[b] = <<Parameters>> => calls[b] = <<>>
    /\ OwnCalls(b, calls[b])

NewBundle == main \in {"options", "modules", "vars"} => Current \notin runtime

OrderInv ==
    /\ StartInv
    /\ NewBundle
    /\ \A b \in Bundles : Stage(b)
    /\ \A b \in Bundles : CallsOwn(b)

-----------------------------------------------------------------------------
LEMMA KindsDiffer ==
    ASSUME NEW j \in CallbackJobs
    PROVE  j # Parameters /\ j # EntryPoint /\ j.kind = "callback" /\ j.cb \in Callbacks
BY DEF CallbackJobs, Parameters, EntryPoint

LEMMA OrderGivesScriptFirst == OrderInv => ScriptFirst
<1> SUFFICES ASSUME OrderInv, NEW b \in Bundles, job[b] # <<>>, job[b][1].kind # "parameters"
             PROVE  /\ globals[b]
                    /\ job[b][1].kind = "callback" =>
                          ~ \E i \in DOMAIN jobs[b] : jobs[b][i].kind = "script"
  BY DEF ScriptFirst
<1>1. Stage(b)
  BY DEF OrderInv
<1>2. RunningScript(b)
  <2>1. ~Resting(b)
    BY DEF Resting, LoopFree
  <2>2. ~SettingParameters(b)
    BY DEF SettingParameters, LoopFree, Parameters
  <2>3. QED
    BY <1>1, <2>1, <2>2 DEF Stage, Preparing, RunningScript
<1>3. CASE job[b] = <<EntryPoint>> /\ Ready(b)
  BY <1>3 DEF EntryPoint, Ready
<1>4. CASE Calling(b)
  <2>1. \A i \in DOMAIN jobs[b] : jobs[b][i] \in CallbackJobs
    BY <1>4 DEF Calling, Ready
  <2>2. \A i \in DOMAIN jobs[b] : jobs[b][i].kind = "callback"
    BY <2>1, KindsDiffer
  <2>3. QED
    BY <1>4, <2>2 DEF Calling, Ready
<1>5. QED
  BY <1>2, <1>3, <1>4 DEF RunningScript

LEMMA InitOrder == Init => OrderInv
<1> SUFFICES ASSUME Init PROVE OrderInv
  OBVIOUS
<1>1. StartInv
  BY InitType
<1>2. \A b \in Bundles : Stage(b)
  BY AutomationAssumption DEF Init, AutomationInit, Stage, Resting, LoopFree, Quiet, Preparing
<1>3. \A b \in Bundles : CallsOwn(b)
  <2>1. \A b \in Bundles : calls[b] = <<>> /\ job[b] = <<>>
    BY DEF Init, AutomationInit
  <2>2. \A b : OwnCalls(b, <<>>)
    BY DEF OwnCalls
  <2>3. QED
    BY <2>1, <2>2 DEF CallsOwn
<1>4. QED
  BY <1>1, <1>2, <1>3 DEF OrderInv, NewBundle, Init

(* A bundle that a step leaves alone.                                      *)
LEMMA StageUnchanged ==
    ASSUME NEW b \in Bundles, Stage(b), UNCHANGED mainVars, Quiet(b) => Quiet(b)',
           jobs'[b] = jobs[b], job'[b] = job[b], answer'[b] = answer[b], globals'[b] = globals[b]
    PROVE  Stage(b)'
<1>1. /\ LoopFree(b)' <=> LoopFree(b)
      /\ Calling(b)' <=> Calling(b)
      /\ Ready(b)' <=> Ready(b)
      /\ Preparing(b)' <=> Preparing(b)
  BY DEF LoopFree, Calling, Ready, Preparing, Current, mainVars, CallbackJobs, Ids
<1>2. Resting(b) => Resting(b)'
  BY <1>1 DEF Resting
<1>3. SettingParameters(b) => SettingParameters(b)'
  BY <1>1 DEF SettingParameters, Parameters
<1>4. RunningScript(b) => RunningScript(b)'
  BY <1>1 DEF RunningScript, EntryPoint
<1>5. QED
  BY <1>1, <1>2, <1>3, <1>4 DEF Stage, mainVars

(* A step of no concern to it.                                             *)
LEMMA OrderUnchanged ==
    ASSUME OrderInv, UNCHANGED mainVars, UNCHANGED <<jobs, job, calls, answer, globals, coreVars>>,
           NEW b \in Bundles
    PROVE  Stage(b)' /\ CallsOwn(b)'
<1>1. CallsOwn(b)'
  BY DEF OrderInv, CallsOwn, OwnCalls, Parameters
<1>2. Quiet(b) => Quiet(b)'
  BY DEF Quiet, coreVars
<1>3. QED
  BY <1>1, <1>2, StageUnchanged DEF OrderInv

-----------------------------------------------------------------------------
(* Events and triggers.                                                    *)

LEMMA CoreStep ==
    ASSUME OrderInv, NEW c \in Callbacks, Deliver(c) \/ Trigger(c) \/ WrapOperation(c)
    PROVE  /\ ~Quiet(Home[c])
           /\ \A b \in Bundles : Quiet(b) => Quiet(b)'
           /\ UNCHANGED <<job, calls, answer, globals>>
           /\ jobs' = jobs \/ \E j \in CallbackJobs : RunOnLoop(Home[c], j)
<1> USE DEF loopVars, scriptVars, coreVars
<1>1. /\ wrap[c] \in {Idle} \union [at : {"called", "registered", "returning"}, id : Ids]
      /\ pending \in [Callbacks -> Seq(Ids)] /\ DOMAIN wrap = Callbacks
  BY DEF OrderInv, StartInv, TypeOK, AutomationTypeOK
<1>2. c \in subscribed \/ c \in entries \/ pending[c] # <<>> \/ wrap[c] # Idle
  BY DEF Deliver, Trigger, WrapOperation, Call, ConvertError, CallPlain, Register, CallWrapped,
         Complete, Idle
<1>3. /\ UNCHANGED <<subscribed, entries, job, calls, answer, globals>>
      /\ \A d \in Callbacks \ {c} : pending'[d] = pending[d] /\ wrap'[d] = wrap[d]
  BY <1>1 DEF Deliver, Trigger, Arrive, WrapOperation, Call, ConvertError, CallPlain, Register,
              CallWrapped, Complete
<1>4. jobs' = jobs \/ \E j \in CallbackJobs : RunOnLoop(Home[c], j)
  <2>1. CASE CallPlain(c) \/ CallWrapped(c)
    <3>1. wrap[c].id \in Ids
      BY <1>1, <2>1 DEF CallPlain, CallWrapped, Idle
    <3>2. Callback(c, wrap[c].id) \in CallbackJobs
      BY <3>1 DEF Callback, CallbackJobs
    <3>3. QED
      BY <2>1, <3>2 DEF CallPlain, CallWrapped
  <2>2. CASE ~(CallPlain(c) \/ CallWrapped(c))
    BY <2>2 DEF Deliver, Trigger, Arrive, WrapOperation, Call, ConvertError, Register, Complete
  <2>3. QED
    BY <2>1, <2>2
<1>5. QED
  BY <1>2, <1>3, <1>4 DEF Quiet

LEMMA StageCore ==
    ASSUME OrderInv, NEW c \in Callbacks, Deliver(c) \/ Trigger(c) \/ WrapOperation(c),
           UNCHANGED mainVars, NEW b \in Bundles
    PROVE  Stage(b)' /\ CallsOwn(b)'
<1>1. Stage(b) /\ CallsOwn(b) /\ Home[c] \in Bundles /\ jobs \in [Bundles -> Seq(Jobs)]
  BY AutomationAssumption DEF OrderInv, StartInv, TypeOK, AutomationTypeOK
<1>2. CallsOwn(b)'
  <2>1. job' = job /\ calls' = calls
    BY CoreStep
  <2>2. QED
    BY <1>1, <2>1 DEF CallsOwn, OwnCalls, Parameters
<1>3. CASE jobs'[b] = jobs[b]
  <2>1. job'[b] = job[b] /\ answer'[b] = answer[b] /\ globals'[b] = globals[b]
    BY CoreStep
  <2>2. Quiet(b) => Quiet(b)'
    BY CoreStep
  <2>3. QED
    BY <1>1, <1>2, <1>3, <2>1, <2>2, StageUnchanged
<1>4. CASE jobs'[b] # jobs[b]
  <2>1. PICK j \in CallbackJobs : RunOnLoop(Home[c], j)
    BY <1>4, CoreStep
  <2>2. b = Home[c] /\ jobs'[b] = Append(jobs[b], j)
    BY <1>1, <1>4, <2>1 DEF RunOnLoop
  <2>3. ~Quiet(b)
    BY <2>2, CoreStep
  <2>4. Ready(b) => Ready(b)'
    BY <2>1, <2>2, CoreStep DEF Ready, CallbackJobs, Ids
  <2>5. Calling(b) => Calling(b)'
    BY <2>4, CoreStep DEF Calling, CallbackJobs, Ids
  <2>6. RunningScript(b) => RunningScript(b)'
    BY <2>3, <2>4, <2>5, CoreStep DEF RunningScript, EntryPoint
  <2>7. Preparing(b)' <=> Preparing(b)
    BY DEF Preparing, Current, mainVars
  <2>8. QED
    BY <1>1, <1>2, <2>3, <2>5, <2>6, <2>7 DEF Stage, Resting, mainVars
<1>5. QED
  BY <1>2, <1>3, <1>4

-----------------------------------------------------------------------------
(* The event loop.                                                         *)

LEMMA LoopTakeStep ==
    ASSUME OrderInv, NEW b \in Bundles, LoopTake(b), UNCHANGED mainVars
    PROVE  Stage(b)' /\ CallsOwn(b)'
<1> USE DEF loopVars, scriptVars, coreVars
<1> DEFINE j == Head(jobs[b])
<1>1. /\ Stage(b)
      /\ jobs \in [Bundles -> Seq(Jobs)] /\ job \in [Bundles -> {<<>>} \union {<<k>> : k \in Jobs}]
      /\ calls \in [Bundles -> Seq(Calls)]
  BY DEF OrderInv, StartInv, TypeOK, AutomationTypeOK
<1>2. /\ job[b] = <<>> /\ jobs[b] # <<>> /\ job'[b] = <<j>> /\ jobs'[b] = Tail(jobs[b])
      /\ j \in Jobs /\ calls'[b] = CallsOf(b, j)
      /\ answer' = answer /\ globals' = globals
      /\ Quiet(b)' <=> Quiet(b)
  BY <1>1 DEF LoopTake, Quiet
<1>3. CallsOwn(b)'
  <2>1. CASE j = Parameters
    <3>1. calls'[b] = <<>>
      BY <1>2, <2>1 DEF Parameters, CallsOf
    <3>2. QED
      BY <3>1 DEF CallsOwn, OwnCalls
  <2>2. CASE j = EntryPoint
    <3>1. calls'[b] = Script[b]
      BY <1>2, <2>2 DEF EntryPoint, CallsOf
    <3>2. OwnCalls(b, Script[b])
      BY AutomationAssumption DEF OwnCalls
    <3>3. job'[b] # <<>> /\ job'[b] # <<Parameters>>
      BY <1>2, <2>2 DEF Parameters, EntryPoint
    <3>4. QED
      BY <3>1, <3>2, <3>3 DEF CallsOwn, OwnCalls
  <2>3. CASE j \in CallbackJobs
    <3>1. calls'[b] = Body[j.cb] /\ Body[j.cb] \in Seq(OtherCalls)
      BY <1>2, <2>3, KindsDiffer, AutomationAssumption DEF CallsOf
    <3>2. \A x \in OtherCalls : x \notin HandOvers
      BY DEF OtherCalls, HandOvers
    <3>3. \A i \in DOMAIN calls'[b] : calls'[b][i] \notin HandOvers
      BY <3>1, <3>2
    <3>4. job'[b] # <<>> /\ job'[b] # <<Parameters>>
      BY <1>2, <2>3, KindsDiffer
    <3>5. QED
      BY <3>3, <3>4 DEF CallsOwn, OwnCalls
  <2>4. QED
    BY <1>2, <2>1, <2>2, <2>3 DEF Jobs, Parameters, EntryPoint, CallbackJobs
<1>4. Ready(b) => Calling(b)'
  <2> SUFFICES ASSUME Ready(b) PROVE Calling(b)'
    OBVIOUS
  <2>1. j \in CallbackJobs /\ Tail(jobs[b]) \in Seq(CallbackJobs)
    BY <1>2 DEF Ready
  <2>2. QED
    BY <1>2, <2>1 DEF Ready, Calling, CallbackJobs, Ids
<1>5. jobs[b] = <<EntryPoint>> => Tail(jobs[b]) = <<>> /\ j = EntryPoint
  OBVIOUS
<1>6. jobs[b] = <<Parameters>> => Tail(jobs[b]) = <<>> /\ j = Parameters
  OBVIOUS
<1>7. ~LoopFree(b) /\ ~Resting(b)
  BY <1>2 DEF LoopFree, Resting
<1>8. SettingParameters(b) => SettingParameters(b)'
  BY <1>2, <1>6, <1>7 DEF SettingParameters, Parameters
<1>9. <<>> \in Seq(CallbackJobs)
  BY EmptyIsSeq
<1>10. RunningScript(b) => RunningScript(b)'
  <2>1. CASE Calling(b)
    BY <1>4, <2>1 DEF Calling, RunningScript
  <2>2. CASE jobs[b] = <<EntryPoint>> /\ globals[b] /\ answer[b] = "none"
    BY <1>2, <1>5, <1>9, <2>2 DEF RunningScript, Ready, EntryPoint, CallbackJobs, Ids
  <2>3. QED
    BY <1>2, <2>1, <2>2 DEF RunningScript
<1>11. (Preparing(b)' <=> Preparing(b)) /\ (Calling(b) => Ready(b))
  BY DEF Preparing, Current, mainVars, Calling
<1>12. QED
  BY <1>1, <1>2, <1>3, <1>4, <1>7, <1>8, <1>10, <1>11 DEF Stage, mainVars

(* The script has some of its calls still to make, or is about to throw.   *)
LEMMA LoopCallStep ==
    ASSUME OrderInv, NEW b \in Bundles, LoopCall(b) \/ ServiceReturn(b), UNCHANGED mainVars
    PROVE  Stage(b)' /\ CallsOwn(b)' /\ \A a \in Bundles \ {b} : Quiet(a) => Quiet(a)'
<1> USE DEF loopVars, scriptVars, coreVars
<1> DEFINE call == Head(calls[b])
<1>1. /\ Stage(b) /\ CallsOwn(b)
      /\ calls \in [Bundles -> Seq(Calls)]
  BY DEF OrderInv, StartInv, TypeOK, AutomationTypeOK
<1>2. /\ calls[b] # <<>> /\ Thrown(b)
      /\ UNCHANGED <<jobs, job, answer, globals, pending, wrap>>
  BY <1>1 DEF LoopCall, ServiceReturn, AtService, Thrown
<1>10. calls'[b] = Tail(calls[b]) \/ calls'[b] = <<<<"throw">>>>
  BY <1>1, <1>2 DEF Thrown, Returned
<1>3. call \in HandOvers => Home[call[2]] = b
  BY <1>1, <1>2 DEF CallsOwn, OwnCalls
<1>4. \A c \in Callbacks : Home[c] # b =>
          (c \in subscribed' => c \in subscribed) /\ (c \in entries' => c \in entries)
  <2>1. call \in Calls
    BY <1>1, <1>2
  <2>2. /\ call[1] = "on" => call \in HandOvers
        /\ call[1] = "schedule" => call \in HandOvers
    BY <2>1 DEF Calls, OtherCalls, HandOvers
  <2>3. CASE LoopCall(b)
    BY <1>3, <2>2, <2>3 DEF LoopCall
  <2>4. CASE ServiceReturn(b)
    BY <2>4 DEF ServiceReturn
  <2>5. QED
    BY <2>3, <2>4
<1>5. \A a \in Bundles \ {b} : Quiet(a) => Quiet(a)'
  BY <1>2, <1>4 DEF Quiet
<1>6. CallsOwn(b)'
  <2>1. job[b] # <<>> /\ job[b] # <<Parameters>>
    BY <1>1, <1>2 DEF CallsOwn
  <2>2. \A i \in DOMAIN Tail(calls[b]) :
            i + 1 \in DOMAIN calls[b] /\ Tail(calls[b])[i] = calls[b][i + 1]
    BY <1>1, <1>2
  <2>3. OwnCalls(b, Tail(calls[b]))
    BY <1>1, <2>2 DEF CallsOwn, OwnCalls
  <2>4. OwnCalls(b, <<<<"throw">>>>)
    <3>1. \A i \in DOMAIN <<<<"throw">>>> : <<<<"throw">>>>[i] = <<"throw">>
      OBVIOUS
    <3>2. <<"throw">> \notin HandOvers
      BY DEF HandOvers
    <3>3. QED
      BY <3>1, <3>2 DEF OwnCalls
  <2>5. OwnCalls(b, calls'[b])
    BY <1>10, <2>3, <2>4
  <2>6. QED
    BY <1>2, <2>1, <2>5 DEF CallsOwn, OwnCalls, Parameters
<1>7. job[b] # <<>> /\ job[b] # <<Parameters>>
  BY <1>1, <1>2 DEF CallsOwn
<1>8. Stage(b)'
  <2>1. ~Resting(b) /\ ~SettingParameters(b)
    BY <1>7 DEF Resting, LoopFree, SettingParameters
  <2>2. RunningScript(b) => RunningScript(b)'
    BY <1>2, <1>7 DEF RunningScript, Ready, Calling, EntryPoint, CallbackJobs, Ids
  <2>3. Calling(b) => Calling(b)'
    BY <1>2 DEF Calling, Ready, CallbackJobs, Ids
  <2>4. Preparing(b)' <=> Preparing(b)
    BY DEF Preparing, Current, mainVars
  <2>5. QED
    BY <1>1, <2>1, <2>2, <2>3, <2>4 DEF Stage, mainVars
<1>9. QED
  BY <1>5, <1>6, <1>8

LEMMA LoopReturnStep ==
    ASSUME OrderInv, NEW b \in Bundles, LoopReturn(b), UNCHANGED mainVars
    PROVE  Stage(b)' /\ CallsOwn(b)'
<1> USE DEF loopVars, scriptVars, coreVars
<1>1. /\ Stage(b) /\ CallsOwn(b)
      /\ job \in [Bundles -> {<<>>} \union {<<k>> : k \in Jobs}] /\ calls \in [Bundles -> Seq(Calls)]
      /\ globals \in [Bundles -> BOOLEAN]
  BY DEF OrderInv, StartInv, TypeOK, AutomationTypeOK
<1>2. /\ job[b] # <<>> /\ job'[b] = <<>> /\ calls'[b] = <<>> /\ jobs' = jobs
      /\ (globals[b] => globals'[b])
      /\ (job[b] = <<Parameters>> => globals'[b])
      /\ UNCHANGED <<subscribed, entries, pending, wrap>>
  BY <1>1 DEF LoopReturn, Parameters
<1>3. CallsOwn(b)'
  BY <1>2 DEF CallsOwn, OwnCalls
<1>4. ~Resting(b) /\ (Quiet(b) => Quiet(b)')
  BY <1>2 DEF Resting, LoopFree, Quiet
<1>5. Ready(b) => Ready(b)' /\ Calling(b)'
  BY <1>2 DEF Ready, Calling, CallbackJobs, Ids
<1>6. RunningScript(b) => RunningScript(b)'
  BY <1>2, <1>5 DEF RunningScript, Calling
<1>7. SettingParameters(b) => SettingParameters(b)'
  BY <1>2 DEF SettingParameters, LoopFree
<1>8. (Preparing(b)' <=> Preparing(b)) /\ (Calling(b) => Ready(b))
  BY DEF Preparing, Current, mainVars, Calling
<1>9. QED
  BY <1>1, <1>3, <1>4, <1>5, <1>6, <1>7, <1>8 DEF Stage, mainVars

LEMMA StageLoop ==
    ASSUME OrderInv, NEW b \in Bundles, Loop(b), UNCHANGED mainVars, NEW a \in Bundles
    PROVE  Stage(a)' /\ CallsOwn(a)'
<1> USE DEF loopVars, scriptVars, coreVars
<1>1. CASE a = b
  <2>1. CASE ServiceCall(b)
    BY <2>1, OrderUnchanged DEF ServiceCall
  <2>2. QED
    BY <1>1, <2>1, LoopTakeStep, LoopCallStep, LoopReturnStep DEF Loop
<1>2. CASE a # b
  <2>1. Stage(a) /\ CallsOwn(a)
    BY DEF OrderInv
  <2>2. /\ jobs'[a] = jobs[a] /\ job'[a] = job[a] /\ calls'[a] = calls[a]
        /\ answer'[a] = answer[a] /\ globals'[a] = globals[a]
    <3>1. AutomationTypeOK
      BY DEF OrderInv, StartInv, TypeOK
    <3>2. CASE LoopTake(b)
      BY <1>2, <3>1, <3>2 DEF LoopTake, AutomationTypeOK
    <3>3. CASE LoopCall(b)
      BY <1>2, <3>1, <3>3 DEF LoopCall, Thrown, Returned, AutomationTypeOK
    <3>4. CASE LoopReturn(b)
      BY <1>2, <3>1, <3>4 DEF LoopReturn, AutomationTypeOK
    <3>5. CASE ServiceCall(b)
      BY <1>2, <3>1, <3>5 DEF ServiceCall, AutomationTypeOK
    <3>6. CASE ServiceReturn(b)
      BY <1>2, <3>1, <3>6 DEF ServiceReturn, Thrown, Returned, AutomationTypeOK
    <3>7. QED
      BY <3>2, <3>3, <3>4, <3>5, <3>6 DEF Loop
  <2>3. Quiet(a) => Quiet(a)'
    <3>1. CASE LoopCall(b) \/ ServiceReturn(b)
      BY <1>2, <3>1, LoopCallStep
    <3>2. CASE LoopTake(b) \/ ServiceCall(b) \/ LoopReturn(b)
      BY <3>2 DEF LoopTake, ServiceCall, LoopReturn, Quiet
    <3>3. QED
      BY <3>1, <3>2 DEF Loop
  <2>4. Stage(a)'
    BY <2>1, <2>2, <2>3, StageUnchanged
  <2>5. CallsOwn(a)'
    BY <2>1, <2>2 DEF CallsOwn, OwnCalls, Parameters
  <2>6. QED
    BY <2>4, <2>5
<1>3. QED
  BY <1>1, <1>2

-----------------------------------------------------------------------------
(* main.                                                                   *)

(* Steps before a bundle's loop is used, or after.                         *)
LEMMA StageElsewhere ==
    ASSUME NEW b \in Bundles, Stage(b), ~Preparing(b), ~Preparing(b)',
           UNCHANGED <<jobs, job, answer, globals, coreVars>>, b \in runtime' <=> b \in runtime
    PROVE  Stage(b)'
<1>1. Quiet(b)' <=> Quiet(b)
  BY DEF Quiet, coreVars
<1>2. Resting(b)' <=> Resting(b)
  BY <1>1 DEF Resting, LoopFree
<1>3. Calling(b)' <=> Calling(b)
  BY DEF Calling, Ready, CallbackJobs, Ids
<1>4. QED
  BY <1>2, <1>3 DEF Stage

LEMMA StageMain ==
    ASSUME OrderInv, Main, NEW b \in Bundles
    PROVE  Stage(b)'
<1> USE DEF loopVars, scriptVars, automationVars
<1>1. /\ Stage(b)
      /\ Working => todo # <<>> /\ Current \in Bundles
      /\ jobs \in [Bundles -> Seq(Jobs)] /\ answer \in [Bundles -> {"none", "ok", "error"}]
  BY CurrentIsBundle DEF OrderInv, StartInv, TypeOK, AutomationTypeOK
<1>2. CASE Boot \/ PrepareLock \/ PreparedBefore \/ New \/ ApplyOptions \/ EnableModules \/ Serve
  <2>1. ~Preparing(b) /\ ~Preparing(b)'
    BY <1>2 DEF Preparing, Boot, PrepareLock, PreparedBefore, PrepareReturn, New, ApplyOptions,
                EnableModules, Serve
  <2>2. UNCHANGED <<jobs, job, answer, globals, coreVars, runtime>>
    BY <1>2 DEF Boot, PrepareLock, PreparedBefore, New, ApplyOptions, EnableModules, Serve
  <2>3. QED
    BY <1>1, <2>1, <2>2, StageElsewhere
<1>3. CASE LoadVars
  <2>1. UNCHANGED <<jobs, job, answer, globals, coreVars>> /\ ~Preparing(b)
    BY <1>3 DEF LoadVars, Preparing
  <2>2. CASE Current \in BadVars \/ b # Current
    <3>1. ~Preparing(b)' /\ (b \in runtime' <=> b \in runtime)
      BY <1>3, <2>2 DEF LoadVars, PrepareReturn, Preparing, Current
    <3>2. QED
      BY <1>1, <2>1, <3>1, StageElsewhere
  <2>3. CASE Current \notin BadVars /\ b = Current
    <3>1. Resting(b)
      BY <1>1, <1>3, <2>3 DEF LoadVars, OrderInv, NewBundle, Stage
    <3>2. Resting(b)'
      BY <2>1, <3>1 DEF Resting, LoopFree, Quiet, coreVars
    <3>3. main' = "parameters" /\ b \in runtime' /\ Preparing(b)'
      BY <1>3, <2>3 DEF LoadVars, Preparing, Current
    <3>4. QED
      BY <3>2, <3>3 DEF Stage
  <2>4. QED
    BY <2>2, <2>3
<1>4. ASSUME RunParameters \/ RunParametersReturn \/ RunScript \/ RunScriptReturn
      PROVE  Stage(b)'
  <2>1. /\ UNCHANGED <<job, globals, coreVars, runtime>>
        /\ Preparing(b) <=> b = Current
    BY <1>4 DEF RunParameters, RunParametersReturn, RunScript, RunScriptReturn, Preparing
  <2>2. Quiet(b)' <=> Quiet(b)
    BY <2>1 DEF Quiet, coreVars
  <2>3. CASE b # Current
    <3>1. jobs'[b] = jobs[b] /\ answer'[b] = answer[b] /\ ~Preparing(b)'
      <4>1. CASE RunParameters \/ RunScript
        BY <1>1, <2>3, <4>1 DEF RunParameters, RunScript, RunOnLoop, Preparing, Current
      <4>2. CASE RunParametersReturn
        BY <1>1, <2>3, <4>2 DEF RunParametersReturn, TakeAnswer, Preparing, Current
      <4>3. CASE RunScriptReturn
        BY <1>1, <2>3, <4>3 DEF RunScriptReturn, TakeAnswer, PrepareReturn, Preparing
      <4>4. QED
        BY <1>4, <4>1, <4>2, <4>3
    <3>2. (Resting(b)' <=> Resting(b)) /\ (Calling(b)' <=> Calling(b))
      BY <2>1, <2>2, <3>1 DEF Resting, LoopFree, Calling, Ready, CallbackJobs, Ids
    <3>3. QED
      BY <1>1, <2>1, <2>3, <3>1, <3>2 DEF Stage
  <2>4. CASE b = Current /\ RunParameters
    <3>1. Resting(b)
      BY <1>1, <2>1, <2>4 DEF RunParameters, Stage
    <3>2. jobs'[b] = <<Parameters>> /\ answer' = answer
      <4>1. jobs[b] = <<>> /\ Append(<<>>, Parameters) = <<Parameters>>
        BY <3>1 DEF Resting, LoopFree
      <4>2. jobs' = [jobs EXCEPT ![b] = Append(jobs[b], Parameters)] /\ answer' = answer
        BY <2>4 DEF RunParameters, RunOnLoop, Parameters
      <4>3. QED
        BY <1>1, <4>1, <4>2
    <3>3. Quiet(b)' /\ SettingParameters(b)'
      BY <2>1, <2>2, <3>1, <3>2 DEF Resting, LoopFree, SettingParameters, Parameters
    <3>4. main' = "wait parameters" /\ b \in runtime' /\ Preparing(b)'
      BY <1>1, <2>1, <2>4 DEF RunParameters, Preparing, Current, Stage
    <3>5. QED
      BY <3>3, <3>4 DEF Stage
  <2>5. CASE b = Current /\ RunParametersReturn
    <3>1. Quiet(b) /\ LoopFree(b) /\ globals[b]
      BY <1>1, <2>1, <2>5 DEF RunParametersReturn, TakeAnswer, Stage, SettingParameters
    <3>2. answer'[b] = "none" /\ jobs' = jobs
      BY <1>1, <2>5 DEF RunParametersReturn, TakeAnswer
    <3>3. Resting(b)' /\ globals'[b]
      BY <2>1, <2>2, <3>1, <3>2 DEF Resting, LoopFree
    <3>4. main' = "script" /\ b \in runtime' /\ Preparing(b)'
      BY <1>1, <2>1, <2>5 DEF RunParametersReturn, Preparing, Current, Stage
    <3>5. QED
      BY <3>3, <3>4 DEF Stage
  <2>6. CASE b = Current /\ RunScript
    <3>1. Resting(b) /\ globals[b]
      BY <1>1, <2>1, <2>6 DEF RunScript, Stage
    <3>2. jobs'[b] = <<EntryPoint>> /\ answer' = answer
      <4>1. jobs[b] = <<>> /\ Append(<<>>, EntryPoint) = <<EntryPoint>>
        BY <3>1 DEF Resting, LoopFree
      <4>2. jobs' = [jobs EXCEPT ![b] = Append(jobs[b], EntryPoint)] /\ answer' = answer
        BY <2>6 DEF RunScript, RunOnLoop, EntryPoint
      <4>3. QED
        BY <1>1, <4>1, <4>2
    <3>3. RunningScript(b)'
      BY <2>1, <2>2, <3>1, <3>2 DEF Resting, LoopFree, RunningScript, EntryPoint
    <3>4. main' = "wait script" /\ b \in runtime' /\ Preparing(b)'
      BY <1>1, <2>1, <2>6 DEF RunScript, Preparing, Current, Stage
    <3>5. QED
      BY <3>3, <3>4 DEF Stage
  <2>7. CASE b = Current /\ RunScriptReturn
    <3>1. Calling(b) /\ b \in runtime
      BY <1>1, <2>1, <2>7 DEF RunScriptReturn, TakeAnswer, Stage, RunningScript
    <3>2. Calling(b)'
      BY <2>1, <2>7, <3>1 DEF RunScriptReturn, Calling, Ready, CallbackJobs, Ids
    <3>3. main' = "prepare" /\ b \in runtime' /\ ~Preparing(b)'
      BY <2>1, <2>7, <3>1 DEF RunScriptReturn, PrepareReturn, Preparing
    <3>4. QED
      BY <3>2, <3>3 DEF Stage
  <2>8. QED
    BY <1>4, <2>3, <2>4, <2>5, <2>6, <2>7
<1>5. QED
  BY <1>2, <1>3, <1>4 DEF Main, Prepare

LEMMA MainStep ==
    ASSUME OrderInv, Main
    PROVE  NewBundle' /\ \A b \in Bundles : CallsOwn(b)'
<1> USE DEF loopVars, scriptVars, automationVars
<1>1. job' = job /\ calls' = calls
  BY DEF Main, Prepare, Boot, PrepareLock, PreparedBefore, New, ApplyOptions, EnableModules,
         LoadVars, RunParameters, RunParametersReturn, RunScript, RunScriptReturn, Serve
<1>2. \A b \in Bundles : CallsOwn(b)'
  BY <1>1 DEF OrderInv, CallsOwn, OwnCalls, Parameters
<1>3. main' \in {"options", "modules", "vars"} =>
         /\ todo' = todo /\ runtime' = runtime
         /\ main \in {"options", "modules", "vars"} \/ Current \notin runtime
  <2>1. CASE New \/ ApplyOptions
    BY <2>1 DEF New, ApplyOptions
  <2>2. CASE EnableModules
    BY <2>2 DEF EnableModules, PrepareReturn
  <2>3. CASE ~New /\ ~ApplyOptions /\ ~EnableModules
    BY <2>3 DEF Main, Prepare, Boot, PrepareLock, PreparedBefore, LoadVars, RunParameters,
                RunParametersReturn, RunScript, RunScriptReturn, Serve, PrepareReturn
  <2>4. QED
    BY <2>1, <2>2, <2>3
<1>4. NewBundle'
  BY <1>3 DEF OrderInv, NewBundle, Current
<1>5. QED
  BY <1>2, <1>4

LEMMA OrderStep == OrderInv /\ [Next]_vars => OrderInv'
<1> SUFFICES ASSUME OrderInv, [Next]_vars PROVE OrderInv'
  OBVIOUS
<1>1. StartInv'
  BY StartInvStep DEF OrderInv
<1>2. CASE Main
  BY <1>1, <1>2, StageMain, MainStep DEF OrderInv
<1>3. UNCHANGED mainVars => NewBundle'
  BY DEF OrderInv, NewBundle, Current, mainVars
<1>4. ASSUME NEW b \in Bundles, Loop(b), UNCHANGED mainVars
      PROVE  OrderInv'
  BY <1>1, <1>3, <1>4, StageLoop DEF OrderInv
<1>5. ASSUME NEW c \in Callbacks, Deliver(c) \/ Trigger(c) \/ WrapOperation(c), UNCHANGED mainVars
      PROVE  OrderInv'
  BY <1>1, <1>3, <1>5, StageCore DEF OrderInv
<1>6. ASSUME NEW b \in Bundles, Service(b), UNCHANGED mainVars
      PROVE  OrderInv'
  BY <1>1, <1>3, <1>6, OrderUnchanged DEF OrderInv, Service
<1>7. CASE UNCHANGED vars
  <2>1. UNCHANGED mainVars /\ UNCHANGED <<jobs, job, calls, answer, globals, coreVars>>
    BY <1>7 DEF vars, automationVars, loopVars, scriptVars
  <2>2. QED
    BY <1>1, <1>3, <2>1, OrderUnchanged DEF OrderInv
<1>8. QED
  BY <1>2, <1>4, <1>5, <1>6, <1>7 DEF Next

(* bundle.go:269-286: the parameters are set before any code of a bundle   *)
(* runs, and its entry point has returned before any of its callbacks is   *)
(* called, whatever the other bundles, the broker and the scheduler do in  *)
(* the meantime.                                                           *)
THEOREM ScriptRunsFirst == Spec => []ScriptFirst
BY InitOrder, OrderStep, OrderGivesScriptFirst, PTL DEF Spec

(* module.go, Module: while main uses the runtime of a bundle, nothing     *)
(* runs in its event loop and nothing can give it a job.                   *)
THEOREM MainAloneInRuntime == Spec => []RuntimeAlone
<1>1. OrderInv => RuntimeAlone
  <2> SUFFICES ASSUME OrderInv, main \in {"options", "modules"}
               PROVE  Resting(Current)
    BY DEF RuntimeAlone, Resting, LoopFree, Quiet
  <2>1. Current \in Bundles /\ Current \notin runtime
    BY CurrentIsBundle DEF OrderInv, StartInv, Working, NewBundle
  <2>2. QED
    BY <2>1 DEF OrderInv, Stage
<1>2. QED
  BY InitOrder, OrderStep, <1>1, PTL DEF Spec

=============================================================================
