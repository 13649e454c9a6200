------------------------------- MODULE Startup -------------------------------
(***************************************************************************)
(* The start of the service (cmds/events-service/main.go): main prepares   *)
(* one bundle after the other (Bundle.Prepare, automation.New,             *)
(* Registry.EnableModules) and then serves, while the bundles that are     *)
(* already prepared run.                                                   *)
(***************************************************************************)
EXTENDS Automation

CONSTANTS
    Prepares,   \* the bundles Prepare is called for, in this order
    BadVars     \* those whose vars.json cannot be read or parsed

ASSUME StartupAssumption ==
    /\ Prepares \in Seq(Bundles)
    /\ BadVars \subseteq Bundles

VARIABLES
    main,       \* what main does next
    todo,       \* the Prepare calls it has still to finish
    runtime,    \* the bundles with bundle.runtime # nil
    regReaders  \* read locks held on the module registry

mainVars == <<main, todo, runtime, regReaders>>
vars == <<automationVars, mainVars>>

(* Every variable has its type.                                            *)
TypeOK ==
    /\ AutomationTypeOK
    /\ main \in {"boot", "prepare", "new", "options", "modules", "vars", "parameters", "wait parameters",
                 "script", "wait script", "serving", "exit"}
    /\ todo \in Seq(Bundles)
    /\ runtime \in SUBSET Bundles
    /\ regReaders \in Nat

Init ==
    /\ AutomationInit
    /\ main = "boot" /\ todo = <<>>
    /\ runtime = {}
    /\ regReaders = 0

Current == Head(todo)

-----------------------------------------------------------------------------

(* Configuration, MQTT connection and service catalog; each may fail.  A   *)
(* missing script path or a failed Discover is no failure.                 *)
Boot ==
    /\ main = "boot"
    /\ \/ main' = "exit" /\ UNCHANGED todo
       \/ main' = "prepare" /\ todo' \in {<<>>, Prepares}
    /\ UNCHANGED <<automationVars, runtime, regReaders>>

PrepareLock ==
    /\ main = "prepare" /\ todo # <<>>
    /\ ~bundleLock[Current]
    /\ bundleLock' = [bundleLock EXCEPT ![Current] = TRUE]
    /\ main' = "new"
    /\ UNCHANGED <<loopVars, coreVars, ran, todo, runtime, regReaders>>

(* Prepare returns, and main goes on with the next bundle.                 *)
PrepareReturn == main' = "prepare" /\ todo' = Tail(todo)

Unlock == bundleLock' = [bundleLock EXCEPT ![Current] = FALSE]

PreparedBefore ==
    /\ main = "new" /\ Current \in runtime
    /\ Unlock
    /\ PrepareReturn
    /\ UNCHANGED <<loopVars, coreVars, ran, runtime, regReaders>>

(* Slip: the second Prepare of a bundle goes on.                           *)
NewAgain ==
    /\ main = "new"
    /\ loop' = [loop EXCEPT ![Current] = "created"]
    /\ main' = "options"
    /\ UNCHANGED <<jobs, scriptVars, answer, globals, bundleLock, coreVars, ran, todo, runtime,
                   regReaders>>

(* New: main runs the new loop itself for core.Enable, and has the runtime *)
(* to itself until the loop is started.                                    *)
New ==
    /\ main = "new" /\ Current \notin runtime
    /\ loop' = [loop EXCEPT ![Current] = "created"]
    /\ main' = "options"
    /\ UNCHANGED <<jobs, scriptVars, answer, globals, bundleLock, coreVars, ran, todo, runtime,
                   regReaders>>

(* Slip: an option that calls Engine.Run, and waits for its answer.        *)
OptionRuns ==
    /\ main = "options"
    /\ \/ /\ jobs[Current] = <<>>
          /\ RunOnLoop(Current, [kind |-> "parameters"])
          /\ UNCHANGED <<loop, main>>
       \/ /\ answer[Current] # "none"
          /\ loop' = [loop EXCEPT ![Current] = "running"]
          /\ main' = "modules"
          /\ UNCHANGED jobs
    /\ UNCHANGED <<scriptVars, answer, globals, bundleLock, coreVars, ran, todo, runtime, regReaders>>

(* The options - WithConsole sets a global in the runtime - and then       *)
(* loop.Start.                                                             *)
ApplyOptions ==
    /\ main = "options"
    /\ loop' = [loop EXCEPT ![Current] = "running"]
    /\ main' = "modules"
    /\ UNCHANGED <<jobs, scriptVars, answer, globals, bundleLock, coreVars, ran, todo, runtime,
                   regReaders>>

(* Slip: the error return keeps the lock.                                  *)
EnableModulesLocked ==
    /\ main = "modules"
    /\ regReaders' = regReaders + 2
    /\ \/ main' = "vars" /\ UNCHANGED todo
       \/ PrepareReturn
    /\ UNCHANGED <<loopVars, coreVars, ran, runtime, bundleLock>>

(* EnableModules locks the registry for reading, and again when it         *)
(* returns.  It makes an instance of every module, in the runtime of a     *)
(* loop that runs; when one of them fails New fails, and the loop runs on. *)
EnableModules ==
    /\ main = "modules"
    /\ regReaders' = regReaders + 2
    /\ \/ /\ main' = "vars"
          /\ UNCHANGED <<bundleLock, todo>>
       \/ /\ "error" \in NewModuleInstance
          /\ Unlock
          /\ PrepareReturn
    /\ UNCHANGED <<loopVars, coreVars, ran, runtime>>

(* Slip: without a vars.json the parameters are not set at all.            *)
LoadVarsOnly ==
    /\ main = "vars"
    /\ \/ /\ Current \notin BadVars
          /\ runtime' = runtime \union {Current}
          /\ Unlock
          /\ main' \in {"parameters", "script"}
          /\ UNCHANGED todo
       \/ /\ Current \in BadVars
          /\ PrepareReturn
          /\ UNCHANGED <<bundleLock, runtime>>
    /\ UNCHANGED <<loopVars, coreVars, ran, regReaders>>

LoadVars ==
    /\ main = "vars"
    /\ \/ /\ Current \notin BadVars
          /\ runtime' = runtime \union {Current}
          /\ Unlock
          /\ main' = "parameters"
          /\ UNCHANGED todo
       \/ /\ Current \in BadVars
          /\ PrepareReturn
          /\ UNCHANGED <<bundleLock, runtime>>
    /\ UNCHANGED <<loopVars, coreVars, ran, regReaders>>

(* Engine.Run, and its answer, which Prepare ignores.                      *)
RunParameters ==
    /\ main = "parameters"
    /\ RunOnLoop(Current, [kind |-> "parameters"])
    /\ main' = "wait parameters"
    /\ UNCHANGED <<loop, scriptVars, answer, globals, bundleLock, coreVars, ran, todo, runtime,
                   regReaders>>

TakeAnswer ==
    /\ answer[Current] # "none"
    /\ answer' = [answer EXCEPT ![Current] = "none"]

RunParametersReturn ==
    /\ main = "wait parameters"
    /\ TakeAnswer
    /\ main' = "script"
    /\ UNCHANGED <<loop, jobs, scriptVars, globals, bundleLock, coreVars, ran, todo, runtime,
                   regReaders>>

RunScript ==
    /\ main = "script"
    /\ RunOnLoop(Current, [kind |-> "script"])
    /\ main' = "wait script"
    /\ UNCHANGED <<loop, scriptVars, answer, globals, bundleLock, coreVars, ran, todo, runtime,
                   regReaders>>

(* With an error or without, main goes on.                                 *)
RunScriptReturn ==
    /\ main = "wait script"
    /\ TakeAnswer
    /\ PrepareReturn
    /\ UNCHANGED <<loop, jobs, scriptVars, globals, bundleLock, coreVars, ran, runtime,
                   regReaders>>

Prepare ==
    \/ PrepareLock
    \/ PreparedBefore
    \/ New
    \/ ApplyOptions
    \/ EnableModules
    \/ LoadVars
    \/ RunParameters
    \/ RunParametersReturn
    \/ RunScript
    \/ RunScriptReturn

(* The servers are created and run, or cannot be.                          *)
Serve ==
    /\ main = "prepare" /\ todo = <<>>
    /\ main' \in {"serving", "exit"}
    /\ UNCHANGED <<automationVars, todo, runtime, regReaders>>

Main == Boot \/ Prepare \/ Serve

-----------------------------------------------------------------------------

Next ==
    /\ main # "exit"
    /\ \/ Main
       \/ \E b \in Bundles : (Loop(b) \/ Service(b)) /\ UNCHANGED mainVars
       \/ \E c \in Callbacks :
             (Deliver(c) \/ Trigger(c) \/ WrapOperation(c)) /\ UNCHANGED mainVars

Spec == Init /\ [][Next]_vars

(* Every goroutine that can take a step takes one, and the long-running    *)
(* service answers.  No event has to come and no schedule to be due.       *)
Running(A) == main # "exit" /\ A

FairSpec ==
    /\ Spec
    /\ WF_vars(Running(Main))
    /\ \A b \in Bundles : WF_vars(Running(Loop(b) /\ UNCHANGED mainVars))
    /\ \A c \in Callbacks : WF_vars(Running(WrapOperation(c) /\ UNCHANGED mainVars))

-----------------------------------------------------------------------------
(* Properties.                                                             *)

(* Where the ids of callback c are: on the loop, inside wrapOperation, and *)
(* in the channel or with the scheduler.                                   *)
JobsOf(c) ==
    {i \in DOMAIN jobs[Home[c]] :
        jobs[Home[c]][i].kind = "callback" /\ jobs[Home[c]][i].cb = c}
OnLoop(c) == {jobs[Home[c]][i].id : i \in JobsOf(c)}
InHand(c) == IF wrap[c].at \in {"called", "registered"} THEN {wrap[c].id} ELSE {}
Waiting(c) == {pending[c][i] : i \in DOMAIN pending[c]}

Before(S, T) == \A i \in S, j \in T : i < j

InOrder(c) ==
    /\ \A i, j \in JobsOf(c) : i < j => jobs[Home[c]][i].id < jobs[Home[c]][j].id
    /\ \A i, j \in DOMAIN pending[c] : i < j => pending[c][i] < pending[c][j]
    /\ Before(ran[c], OnLoop(c))
    /\ Before(ran[c] \union OnLoop(c), InHand(c))
    /\ Before(ran[c] \union OnLoop(c) \union InHand(c), Waiting(c))

NoneLost(c) ==
    LET called == ran[c] \union OnLoop(c) \union InHand(c) \union Waiting(c)
    IN  /\ called \union skipped[c] = 1 .. arrived[c]
        /\ called \intersect skipped[c] = {}

(* core.go:186-198 and 65-78: a callback is called for every event and     *)
(* trigger that arrived, once and in their order, except for those whose   *)
(* conversion or registration failed - through channel, scheduler,         *)
(* wrapOperation and loop, with operations and without.                    *)
CalledInOrder == \A c \in Callbacks : InOrder(c) /\ NoneLost(c)

(* What callback c is being called with: the job of its bundle's loop.     *)
Now(c) ==
    LET j == job[Home[c]]
    IN  IF j # <<>> /\ j[1].kind = "callback" /\ j[1].cb = c THEN j[1].id ELSE 0

(* The same, as the specification of what a script is promised: one call   *)
(* after the other, and none twice.  The scheduler, the channel,           *)
(* wrapOperation and the loop are details of it.                           *)
Abstract == INSTANCE OnceInOrder WITH now <- [c \in Callbacks |-> Now(c)]
CallsOnceInOrder == Abstract!Spec

(* bundle.go:269-286: no code of a bundle runs before its parameters are   *)
(* set, and no callback before its entry point script has returned.        *)
ScriptFirst ==
    \A b \in Bundles :
        job[b] # <<>> /\ job[b][1].kind # "parameters" =>
            /\ globals[b]
            /\ job[b][1].kind = "callback" => ~ \E i \in DOMAIN jobs[b] : jobs[b][i].kind = "script"

(* bundle.go:226-267: Prepare gives bundle.lock back before it waits for   *)
(* the loop, and on every return except those for a bad vars.json.         *)
LockReturned ==
    \A b \in Bundles :
        bundleLock[b] => b \in BadVars \/ (main \in {"new", "options", "modules", "vars"} /\ Current = b)

(* module.go, Module: a JavaScript runtime belongs to one goroutine.  main *)
(* uses it in New - the options, the modules' instances, with the loop     *)
(* started - and then its loop has nothing to run, nor has anything that   *)
(* could give it a job.                                                    *)
RuntimeAlone ==
    main \in {"options", "modules"} =>
        /\ jobs[Current] = <<>> /\ job[Current] = <<>>
        /\ \A c \in Callbacks : Home[c] = Current =>
              c \notin subscribed \union entries /\ pending[c] = <<>> /\ wrap[c] = Idle

(* The loop of bundle b waits for a service that does not answer.          *)
Stuck(b) == request[b].at = "sent"

(* main.go:172-203: whatever the bundles do - fail, throw, log while they  *)
(* are prepared - the service gets to serve or exits; unless the script it *)
(* prepares called a service that never answers.                           *)
EventuallyServing ==
    \/ <>(main \in {"serving", "exit"})
    \/ <>[](main = "wait script" /\ Stuck(Current))

(* core.go:80-145: no call is stuck on its way to the loop, and a loop     *)
(* that waits for a service for ever holds back the callbacks of its own   *)
(* bundle only.                                                            *)
EventuallyCalled ==
    \A c \in Callbacks :
        \/ <>[]Stuck(Home[c])
        \/ \A id \in Ids :
              arrived[c] >= id ~> id \in ran[c] \union skipped[c] \/ main = "exit"

(* module.go:21-22, "wrap any event and schedule callbacks in long-running *)
(* operations": an operation is complete when its callback has run.        *)
CompletedAfterCall == \A c \in Callbacks : completed[c] \subseteq ran[c]

=============================================================================
