----------------------------- MODULE MCDelivery -----------------------------
(***************************************************************************)
(* Instances of Delivery for TLC.                                          *)
(***************************************************************************)
EXTENDS Delivery, TLC

CONSTANTS d1, d2, m1, m2

(* Each device sends the other one message. *)
Senders == m1 :> d1 @@ m2 :> d2
Addressees == m1 :> d2 @@ m2 :> d1
=============================================================================
