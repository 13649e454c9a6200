------------------------------- MODULE MCSystem -------------------------------
(***************************************************************************)
(* A small instance of System for TLC: two bundles that subscribe to a     *)
(* type each.  The callback of the first publishes.                        *)
(***************************************************************************)
EXTENDS System, TLC

CONSTANTS first, second, one, two

InBundle == one :> first @@ two :> second
Scripts == first :> <<<<"on", one>>>> @@ second :> <<<<"on", two>>>>
Bodies == one :> <<<<"publish">>>> @@ two :> <<>>
Order == <<first, second>>
TypeOf == one :> "a" @@ two :> "b"
TrimNothing == [u \in TypeUrls |-> u]

=============================================================================
