-------------------------- MODULE MCVirtualPurchase --------------------------
(* Instances of VirtualPurchase: two purchases of the same customer. *)
EXTENDS VirtualPurchase, TLC

CONSTANTS r1, r2, alice

TwoRequests == {r1, r2}
PlainInput == {[offer |-> FALSE, isNew |-> FALSE]}
PlainOrFull == PlainInput \cup {[offer |-> TRUE, isNew |-> TRUE]}
OneCustomer == {alice}
SameCustomer == [r \in Request |-> alice]
Symmetric == Permutations(TwoRequests)
=============================================================================
