---------------------------- MODULE MCCheckPayment ----------------------------
(* Instances of CheckPayment: the payments of one check. *)
EXTENDS CheckPayment, TLC

CONSTANTS r1, r2

TwoPayments == {r1, r2}
NoOffer == {i \in Input : ~i.offer}
=============================================================================
