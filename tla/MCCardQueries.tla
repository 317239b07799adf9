----------------------------- MODULE MCCardQueries -----------------------------
(* Instances of CardQueries: a wallet with a card MARS does not know. *)
EXTENDS CardQueries, TLC

CONSTANTS stray, lost, known, q1

ThreeCards == <<stray, lost, known>>
OneReader == {q1}
KnownTwice == [c \in Card |-> IF c = known THEN 2 ELSE 0]
=============================================================================
