----------------------------- MODULE MCTokenRefresh -----------------------------
(* Instance of TokenRefresh: three chains, two rejected calls in flight. *)
EXTENDS TokenRefresh

CONSTANTS c1, c2, c3

ThreeChains == {c1, c2, c3}
TwoChains == {c1, c2}
=============================================================================
