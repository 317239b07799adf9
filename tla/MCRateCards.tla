------------------------------- MODULE MCRateCards -------------------------------
(* An instance of RateCards at two stores: a customer who recharges, who has  *)
(* picked an offer and whose app leaves out the payment type, and one who     *)
(* buys a digital card with Apple Pay.                                        *)
EXTENDS RateCards

CONSTANTS s1, s2, u1, u2

TwoStores == {s1, s2}
TwoUsers == {u1, u2}
FirstUser == {u1}
SecondUser == {u2}
NearFirst == [u \in TwoUsers |-> s1]
FirstOffers == {{1}}
DefaultVersion == -1
=============================================================================
