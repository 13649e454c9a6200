----------------------------- MODULE ReceiverList -----------------------------
(***************************************************************************)
(* The receiver list of one event type, a Go slice of channels, and what   *)
(* Broker.UnsubscribeAll does to it (internal/broker/broker.go).           *)
(*                                                                         *)
(* The loop ranges over the slice header it read before the first          *)
(* iteration, `receivers`, while `append(receivers[:idx],                  *)
(* receivers[idx+1:]...)` shifts the elements of the very array that       *)
(* header points to.  What a later iteration examines is therefore the     *)
(* shifted array, and every removal leaves a list one shorter than the     *)
(* header, however many removals came before.                              *)
(***************************************************************************)
EXTENDS Integers, Sequences

(* The array after append(arr[:i], arr[i+1:]...): the elements behind      *)
(* index i move one to the left, the last element stays where it was.      *)
ShiftLeft(arr, i) ==
    [j \in DOMAIN arr |-> IF i <= j /\ j < Len(arr) THEN arr[j + 1] ELSE arr[j]]

(* The array after the first i iterations of the range loop.               *)
ArrayAfter(receivers, msgs) ==
    LET arr[i \in 0 .. Len(receivers)] ==
            IF i = 0 THEN receivers
            ELSE IF arr[i - 1][i] = msgs THEN ShiftLeft(arr[i - 1], i)
            ELSE arr[i - 1]
    IN  arr

Occurrences(receivers, msgs) ==
    {i \in 1 .. Len(receivers) : receivers[i] = msgs}

(* b.receivers[key] after the loop: untouched when nothing matched, else   *)
(* the header's array cut to one element less.                             *)
RemoveReceiver(receivers, msgs) ==
    IF Occurrences(receivers, msgs) = {} THEN receivers
    ELSE SubSeq(ArrayAfter(receivers, msgs)[Len(receivers)], 1, Len(receivers) - 1)

(* topicCleanup holds the key when an iteration saw the stored list empty. *)
BecomesUnused(receivers, msgs) ==
    receivers # <<>> /\ RemoveReceiver(receivers, msgs) = <<>>

=============================================================================
