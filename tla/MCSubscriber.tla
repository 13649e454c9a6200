----------------------------- MODULE MCSubscriber -----------------------------
(***************************************************************************)
(* Small instances of Subscriber for TLC.  A cfg chooses among the         *)
(* definitions below with `<-`.                                            *)
(***************************************************************************)
EXTENDS SubscriberProperties, TLC

(* Type URLs without the prefix, and one with it.                          *)
TrimNothing == [u \in TypeUrls |-> u]
TrimPrefixed == [u \in TypeUrls |-> "a"]

(* What the client of a stream asks for.                                   *)
OnceA == {<<"a">>}
OnceAorB == {<<"a">>, <<"b">>}
DistinctAB == {<<"a">>, <<"a", "b">>}
ABC == {<<"a", "b", "c">>}
AnyOfA == {<<"a">>, <<"a", "a">>, <<"prefix/a">>, <<"prefix/a", "a">>}

Symmetry == Permutations(Streams)

=============================================================================
