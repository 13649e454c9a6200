------------------------------ MODULE OnceInOrder ------------------------------
(***************************************************************************)
(* What on and schedule promise a script: the function it hands over is    *)
(* called for each event or trigger at most once and in their order, and   *)
(* an event is passed over only if it has been left out for good.          *)
(***************************************************************************)
EXTENDS Naturals

CONSTANT Callbacks   \* the functions that scripts hand over

VARIABLES
    arrived,   \* number of events or triggers so far
    ran,       \* those the callback was called with
    skipped,   \* those it will never be called with
    now        \* the one it is being called with (0: none)

vars == <<arrived, ran, skipped, now>>

Init ==
    /\ arrived = [c \in Callbacks |-> 0]
    /\ ran = [c \in Callbacks |-> {}]
    /\ skipped = [c \in Callbacks |-> {}]
    /\ now = [c \in Callbacks |-> 0]

Open(c) == (1 .. arrived[c]) \ (ran[c] \union skipped[c])

Arrive(c) ==
    /\ arrived' = [arrived EXCEPT ![c] = @ + 1]
    /\ UNCHANGED <<ran, skipped, now>>

(* The callback is called for the oldest one that is open.                 *)
Run(c) ==
    /\ now[c] = 0
    /\ \E id \in Open(c) :
          /\ \A other \in Open(c) : id <= other
          /\ ran' = [ran EXCEPT ![c] = @ \union {id}]
          /\ now' = [now EXCEPT ![c] = id]
    /\ UNCHANGED <<arrived, skipped>>

Return(c) ==
    /\ now[c] # 0
    /\ now' = [now EXCEPT ![c] = 0]
    /\ UNCHANGED <<arrived, ran, skipped>>

(* Its conversion or the registration of its operation has failed.         *)
Skip(c) ==
    /\ \E id \in Open(c) : skipped' = [skipped EXCEPT ![c] = @ \union {id}]
    /\ UNCHANGED <<arrived, ran, now>>

Next == \E c \in Callbacks : Arrive(c) \/ Run(c) \/ Return(c) \/ Skip(c)

Spec == Init /\ [][Next]_vars

=============================================================================
