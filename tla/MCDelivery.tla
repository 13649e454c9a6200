------------------------------ MODULE MCDelivery ------------------------------
(***************************************************************************)
(* A small instance of Delivery for TLC.                                   *)
(***************************************************************************)
EXTENDS Delivery

TrimNothing == [u \in TypeUrls |-> u]
OnceA == {<<"a">>}

=============================================================================
