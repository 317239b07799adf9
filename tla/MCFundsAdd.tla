------------------------------ MODULE MCFundsAdd ------------------------------
(* Instances of FundsAdd: one request, with every input. *)
EXTENDS FundsAdd, TLC

CONSTANTS r1, c1

OneRequest == {r1}
OneCard == {c1}
SameCard == [r \in Request |-> c1]
=============================================================================
