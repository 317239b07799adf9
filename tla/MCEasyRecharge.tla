----------------------------- MODULE MCEasyRecharge -----------------------------
(* Two rows of one customer, two messages, a recharge, and a caller. *)
EXTENDS EasyRecharge, TLC

CONSTANTS r1, r2, c1, m1, m2, b1, a1

TwoRows == {r1, r2}
FirstIsFirst == [r \in TwoRows |-> IF r = r1 THEN 1 ELSE 2]
OfOne == [r \in TwoRows |-> c1]
TwoHandlers == {m1, m2}
OneCaller == {a1}
OneBuyer == {b1}
Handlers == Permutations(Inbound)
BuysTwo == [b \in Buyer |-> 2]
TwoItems == <<1, 2, 2, 3>>
=============================================================================
