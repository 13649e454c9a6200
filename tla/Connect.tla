------------------------------- MODULE Connect -------------------------------
(***************************************************************************)
(* internal/automation/modules/connect/module.go: the native module        *)
(* `services`, one client per method of each configured connect service.   *)
(*                                                                         *)
(* A script calls a method as a function.  client.do runs on the event     *)
(* loop from beginning to end, so while it looks up an endpoint and waits  *)
(* for the response the bundle's loop does nothing else.  The lookups      *)
(* share a deadline of a second; the HTTP request has none.                *)
(***************************************************************************)
EXTENDS Naturals

CONSTANTS
    Bundles,      \* the automation bundles
    TypeServer,   \* is cfg.TypeServerURL set?
    NameParts     \* parts of a service's name, as strings.Split(name, ".")

ASSUME ConnectAssumption ==
    /\ TypeServer \in BOOLEAN
    /\ NameParts \in Nat \ {0}

VARIABLE
    request       \* the call into a service that each bundle's loop is in

NoRequest == [at |-> "none", queries |-> 0]

(* A request either is at rest, looks for an endpoint with some of its     *)
(* queries left, is with the service, or has come to an end.               *)
Requests ==
    {NoRequest} \union [at : {"resolve"}, queries : 1 .. NameParts]
                \union [at : {"sent", "result", "error"}, queries : {0}]

(* NewModuleInstance: nothing without a type server; otherwise a client    *)
(* for each method that does not stream, or an error when a descriptor is  *)
(* not to be had or not that of a service.                                 *)
NewModuleInstance == IF TypeServer THEN {"object", "error"} ELSE {"nil"}

Ends(b, how) == request' = [request EXCEPT ![b] = [at |-> how, queries |-> 0]]

(* client.do: the argument is converted, if it can be.  Without the module *)
(* there is no function to call.                                           *)
Do(b) ==
    /\ request[b] = NoRequest
    /\ \/ TypeServer /\ request' = [request EXCEPT ![b] = [at |-> "resolve", queries |-> NameParts]]
       \/ Ends(b, "error")

(* Slip: the first query that fails ends the lookup without an error.      *)
ResolveEndpointOnce(b) ==
    /\ request[b].at = "resolve"
    /\ Ends(b, "sent") \/ request' = [request EXCEPT ![b].queries = 0]

(* One query of resolveEndpoint, the most specific name first: it yields   *)
(* an instance, to which the request is sent, or fails or yields none.     *)
ResolveEndpoint(b) ==
    /\ request[b].at = "resolve"
    /\ \/ Ends(b, "sent")
       \/ request[b].queries > 1 /\ request' = [request EXCEPT ![b].queries = @ - 1]
       \/ request[b].queries = 1 /\ Ends(b, "error")

(* The service answers with a message; or with a status other than 200, a  *)
(* body that is no message of the response type, or not at all before the  *)
(* connection breaks: all of these throw.                                  *)
Respond(b) ==
    /\ request[b].at = "sent"
    /\ Ends(b, "result") \/ Ends(b, "error")

=============================================================================
