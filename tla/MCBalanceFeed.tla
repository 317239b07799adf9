----------------------------- MODULE MCBalanceFeed -----------------------------
(* Instances of BalanceFeed: ticket updates of a flood and a balance message. *)
EXTENDS BalanceFeed, TLC

CONSTANTS t1, t2, b1, p1, p2

Tickets == {t1, t2}
AllMessages == {t1, t2, b1}
TwoProcesses == {p1, p2}
Spread == [m \in Message |-> IF m = t1 THEN p1 ELSE p2]
=============================================================================
