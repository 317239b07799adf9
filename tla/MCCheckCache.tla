----------------------------- MODULE MCCheckCache -----------------------------
(* Instances of CheckCache: a check that is changed and then closed. *)
EXTENDS CheckCache, TLC

CONSTANTS u1, g1

OneUser == {u1}
OneTag == {g1}
\* Something is due until the check is closed.
OpenThenClosed == [v \in Version |-> Last - v]
=============================================================================
