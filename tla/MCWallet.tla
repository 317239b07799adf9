-------------------------------- MODULE MCWallet --------------------------------
(* Instances of Wallet: a customer with two cards, who may add one of them anew. *)
EXTENDS Wallet, TLC

CONSTANTS w1, w2, o1, o2, o3, a, b

TwoRows == {w1, w2}
ThreeOps == {o1, o2, o3}
\* Every operation that adds a card adds card a.
FirstAgain == [r \in Row |-> IF r = w2 THEN b ELSE a]
SwapOps == Permutations({o1, o2, o3})
=============================================================================
