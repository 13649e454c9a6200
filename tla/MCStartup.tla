------------------------------ MODULE MCStartup ------------------------------
(***************************************************************************)
(* A small instance of Startup for TLC: `first` subscribes and logs, also  *)
(* while it is prepared a second time; `second` has a schedule that ends   *)
(* itself, calls a service and publishes, and a script that throws;        *)
(* `third` has a bad vars.json.  main                                      *)
(* calls Prepare once for each; the fourth call is one Prepare guards      *)
(* itself against.                                                         *)
(***************************************************************************)
EXTENDS Startup, TLC

CONSTANTS first, second, third, event, tick

InBundle == event :> first @@ tick :> second

Scripts == first :> <<<<"on", event>>, <<"log">>>>
        @@ second :> <<<<"schedule", tick>>, <<"service">>, <<"throw">>>>
        @@ third :> <<<<"log">>>>

Bodies == event :> <<<<"log">>>> @@ tick :> <<<<"publish">>, <<"clearSchedule", tick>>>>

Order == <<first, third, second, first>>
Alone == <<second>>

=============================================================================
