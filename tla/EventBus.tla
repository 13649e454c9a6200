------------------------------- MODULE EventBus -------------------------------
(***************************************************************************)
(* What the service promises the client of a stream: the events that were  *)
(* published while it was subscribed, in the order of their publishing and *)
(* none twice.  It may miss some: the server delivers with QoS 0, and a    *)
(* channel that stays full loses what comes.                               *)
(***************************************************************************)
EXTENDS Naturals

CONSTANT Streams

VARIABLES
    published,   \* number of events published; an event's id is its number
    got,         \* the last event each client has received (0: none)
    count        \* the number of events it has received

vars == <<published, got, count>>

Init ==
    /\ published = 0
    /\ got = [s \in Streams |-> 0]
    /\ count = [s \in Streams |-> 0]

Publish ==
    /\ published' = published + 1
    /\ UNCHANGED <<got, count>>

Receive(s) ==
    /\ \E id \in got[s] + 1 .. published : got' = [got EXCEPT ![s] = id]
    /\ count' = [count EXCEPT ![s] = @ + 1]
    /\ UNCHANGED published

Next == Publish \/ \E s \in Streams : Receive(s)

Spec == Init /\ [][Next]_vars

=============================================================================
