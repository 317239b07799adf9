----------------------------- MODULE MCBalanceCache -----------------------------
(* Instances of BalanceCache: a ticket change and a recharge. *)
EXTENDS BalanceCache, TLC

CONSTANTS u1, b1

OneUser == {u1}
OneBuyer == {b1}
=============================================================================
