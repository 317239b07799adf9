--------------------------- MODULE PurchaseContract ---------------------------
(***************************************************************************)
(* What a purchase promises its customer, with the steps of the handlers   *)
(* forgotten: a payment that is authorized and perhaps voided, a credit    *)
(* MARS gives for it, and one answer.                                      *)
(***************************************************************************)
CONSTANT Request

VARIABLES
  payment,  \* of each request: none, authorized or void
  credit,   \* requests whose purchase MARS applied
  reply     \* the answer to each request: none, ok or error

vars == <<payment, credit, reply>>

Init ==
  /\ payment = [r \in Request |-> "none"]
  /\ credit = {}
  /\ reply = [r \in Request |-> "none"]

\* The caller may not learn of the authorization: then the answer is an error.
Authorize(r) ==
  /\ reply[r] = "none" /\ payment[r] = "none"
  /\ payment' = [payment EXCEPT ![r] = "authorized"]
  /\ reply' \in {reply, [reply EXCEPT ![r] = "error"]}
  /\ UNCHANGED credit

\* MARS credits the card, possibly after the customer was told of a failure.
Credit(r) ==
  /\ payment[r] # "none"
  /\ credit' = credit \cup {r}
  /\ UNCHANGED <<payment, reply>>

\* The last void call may fail with its effect done, which ends the request.
Void(r) ==
  /\ reply[r] = "none" /\ payment[r] = "authorized"
  /\ payment' = [payment EXCEPT ![r] = "void"]
  /\ reply' \in {reply, [reply EXCEPT ![r] = "error"]}
  /\ UNCHANGED credit

Confirm(r) ==
  /\ reply[r] = "none" /\ payment[r] = "authorized" /\ r \in credit
  /\ reply' = [reply EXCEPT ![r] = "ok"]
  /\ UNCHANGED <<payment, credit>>

Refuse(r) ==
  /\ reply[r] = "none"
  /\ reply' = [reply EXCEPT ![r] = "error"]
  /\ UNCHANGED <<payment, credit>>

Next ==
  \E r \in Request : Authorize(r) \/ Credit(r) \/ Void(r) \/ Confirm(r) \/ Refuse(r)

Spec == Init /\ [][Next]_vars
=============================================================================
