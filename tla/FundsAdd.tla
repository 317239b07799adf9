------------------------------- MODULE FundsAdd -------------------------------
(***************************************************************************)
(* powercardFundsAdd: recharge an existing powercard.  Besides the steps   *)
(* of PurchaseTransaction it works on the card's row: it loads the row at  *)
(* the start, may save it with a new easyRechargeEnabled once the payment  *)
(* is authorized, and resets easyRechargeSent after the recharge.          *)
(*                                                                         *)
(* repository.save writes every column of the loaded entity that differs   *)
(* from the row at the time of the save, so a save writes back what the    *)
(* entity was loaded with.                                                 *)
(***************************************************************************)
EXTENDS PurchaseTransaction

CONSTANTS
  Card,         \* powercards of the customer
  CardOf,       \* the card each request recharges
  EasyChoices   \* values of input.easyRechargeEnabled, "absent" when missing

ASSUME FundsAddAssumption ==
  /\ CardOf \in [Request -> Card]
  /\ EasyChoices \subseteq {"absent", "on", "off"}
  /\ EasyChoices # {}

VARIABLES
  easy,    \* input.easyRechargeEnabled of each request
  rows,    \* the card's row: easyRechargeEnabled and easyRechargeSent
  entity   \* the request's loaded copy of the row

rowVars == <<easy, rows, entity>>
vars == <<purchaseVars, rowVars>>

Row == [enabled: BOOLEAN, sent: BOOLEAN]
Blank == [enabled |-> FALSE, sent |-> FALSE]

Labels == Terminal \cup
  {"idle", "start", "authorized", "saveEasy", "recharging", "recharge",
   "marsReply", "innerLookup", "innerVoid", "resetFind", "resetSave",
   "redeem", "updating", "customer", "creatingSnapshot", "snapshot",
   "deleteState", "voiding", "lookup", "void", "cleanup"}

TypeOK ==
  /\ PurchaseTypeOK(Labels)
  /\ easy \in [Request -> EasyChoices]
  /\ rows \in [Card -> Row]
  /\ entity \in [Request -> Row]

Init ==
  /\ PurchaseInit
  /\ easy \in [Request -> EasyChoices]
  /\ rows \in [Card -> Row]
  /\ entity = [r \in Request |-> Blank]

-----------------------------------------------------------------------------
(***************************************************************************)
(* findPowercardOrFail loads the row.  The calls that follow only read     *)
(* (balances, offers, rate card, the check of dollarsPaid): any of them    *)
(* may reject the request before a payment exists.                         *)
(***************************************************************************)
Begin(r) ==
  /\ \/ Succeeds(r, "idle", "start")
     \/ Succeeds(r, "idle", "rejected")
  /\ entity' = [entity EXCEPT ![r] = rows[CardOf[r]]]
  /\ UNCHANGED <<input, serviceVars, record, marsVars, effectVars, easy, rows>>

Start(r) == TransactionStart(r) /\ UNCHANGED rowVars

\* Mutant: the recharge starts without its own progress record.
WriteAuthorizedOnly(r) ==
  /\ UpdateTransactionState(r, "authorized", "AUTHORIZED", "recharge", "failed", "record")
  /\ UNCHANGED rowVars

\* Outside the try block: a failure leaves the handler at once.
WriteAuthorized(r) ==
  /\ UpdateTransactionState(r, "authorized", "AUTHORIZED",
       IF easy[r] = "absent" THEN "recharging" ELSE "saveEasy", "failed", "record")
  /\ UNCHANGED rowVars

\* save(powercard) with easyRechargeEnabled set from the input.
SaveEasyRecharge(r) ==
  LET edited == [entity[r] EXCEPT !.enabled = (easy[r] = "on")]
      saved  == [rows EXCEPT ![CardOf[r]] = edited]
  IN  /\ \/ Succeeds(r, "saveEasy", "recharging") /\ rows' = saved
         \/ Throws(r, "saveEasy", "voiding", "step") /\ rows' \in {rows, saved}
      /\ entity' = [entity EXCEPT ![r] = edited]
      /\ UNCHANGED <<input, serviceVars, record, marsVars, effectVars, easy>>

\* Mutant: the write stands before the try block.
WriteRechargingOutside(r) ==
  /\ UpdateTransactionState(r, "recharging", "RECHARGING_POWERCARD", "recharge", "failed", "step")
  /\ UNCHANGED rowVars

WriteRecharging(r) ==
  /\ UpdateTransactionState(r, "recharging", "RECHARGING_POWERCARD", "recharge", "voiding", "step")
  /\ UNCHANGED rowVars

-----------------------------------------------------------------------------
(* marsRecharge *)

Recharge(r)       == MarsSend(r, "recharge", "marsReply") /\ UNCHANGED rowVars
RechargeDone(r)   == MarsAnswers(r, "marsReply", "resetFind") /\ UNCHANGED rowVars
RechargeFailed(r) == MarsFails(r, "marsReply", "innerLookup") /\ UNCHANGED rowVars

\* Its own void, before the error reaches the catch block of the handler.
InnerLookup(r) ==
  VoidLookup(r, "innerLookup", "innerVoid", "voiding", "voiding") /\ UNCHANGED rowVars
\* Mutant: the flag is not passed on.
InnerVoidUnflagged(r) ==
  VoidSend(r, "innerVoid", FALSE, "voiding", "voiding") /\ UNCHANGED rowVars
InnerVoid(r) ==
  VoidSend(r, "innerVoid", timedOut[r], "voiding", "voiding") /\ UNCHANGED rowVars

(***************************************************************************)
(* powercardResetEasyRechargeNotificationSent loads the row again and      *)
(* saves it; marsRecharge swallows its errors.                             *)
(***************************************************************************)
ResetFind(r) ==
  /\ \/ /\ Succeeds(r, "resetFind", "resetSave")
        /\ entity' = [entity EXCEPT ![r] = [rows[CardOf[r]] EXCEPT !.sent = FALSE]]
     \/ Succeeds(r, "resetFind", "redeem") /\ UNCHANGED entity
  /\ UNCHANGED <<input, serviceVars, record, marsVars, effectVars, easy, rows>>

ResetSave(r) ==
  /\ Succeeds(r, "resetSave", "redeem")
  /\ rows' \in {rows, [rows EXCEPT ![CardOf[r]] = entity[r]]}
  /\ UNCHANGED <<input, serviceVars, record, marsVars, effectVars, easy, entity>>

-----------------------------------------------------------------------------
(* After the recharge *)

Redeem(r) == RedeemOffer(r, "redeem", "updating") /\ UNCHANGED rowVars

WriteUpdatingCustomer(r) ==
  /\ UpdateTransactionState(r, "updating", "UPDATING_CUSTOMER", "customer", "voiding", "step")
  /\ UNCHANGED rowVars

UpdateCustomer(r) ==
  MakeCustomerNotNew(r, "customer", "creatingSnapshot") /\ UNCHANGED rowVars

WriteCreatingSnapshot(r) ==
  /\ UpdateTransactionState(r, "creatingSnapshot", "CREATING_POWERCARD_SNAPSHOT",
       "snapshot", "voiding", "step")
  /\ UNCHANGED rowVars

\* The snapshot, then the mobile pass, whose errors are swallowed.
Snapshot(r) ==
  CreatePowercardBalanceSnapshot(r, "snapshot", "deleteState") /\ UNCHANGED rowVars

\* The last call of the try block: if it throws, the finished recharge is voided.
DeleteState(r) ==
  /\ DeleteTransactionState(r, "deleteState", "returned", "voiding", "step")
  /\ UNCHANGED rowVars

Catch(r) == CatchBlock(r) /\ UNCHANGED rowVars

-----------------------------------------------------------------------------
\* The steps the event loop takes for request r.
Handler(r) ==
  \/ Begin(r) \/ Start(r) \/ WriteAuthorized(r) \/ SaveEasyRecharge(r)
  \/ WriteRecharging(r) \/ Recharge(r) \/ RechargeDone(r) \/ RechargeFailed(r)
  \/ InnerLookup(r) \/ InnerVoid(r) \/ ResetFind(r) \/ ResetSave(r)
  \/ Redeem(r) \/ WriteUpdatingCustomer(r) \/ UpdateCustomer(r)
  \/ WriteCreatingSnapshot(r) \/ Snapshot(r) \/ DeleteState(r) \/ Catch(r)

\* What happens to r whether the handler likes it or not.
Outside(r) == (MarsDecides(r) \/ Crash(r)) /\ UNCHANGED rowVars

\* Every request has ended; the model stops, the service waits for more.
Done == (\A r \in Request : pc[r] \in Terminal /\ mars[r] # "inflight") /\ UNCHANGED vars

Next == Done \/ \E r \in Request : Handler(r) \/ Outside(r)

Spec == Init /\ [][Next]_vars

(***************************************************************************)
(* Node runs every continuation whose promise settled, and every await of  *)
(* the handler settles: each HTTP call has a timeout, RechargeFailed among *)
(* them.  Nothing is assumed of MARS, and a request need not be made.      *)
(***************************************************************************)
Fairness == \A r \in Request : WF_vars(pc[r] # "idle" /\ Handler(r))
FairSpec == Spec /\ Fairness

-----------------------------------------------------------------------------
(***************************************************************************)
(* What the Redis record says of a payment, at every step and so also      *)
(* after a crash: AUTHORIZED means MARS was never asked and the payment    *)
(* stands; UPDATING_CUSTOMER means the recharge and the offer are done and *)
(* the payment stands; CREATING_POWERCARD_SNAPSHOT also that the customer  *)
(* is updated.  Only RECHARGING_POWERCARD leaves open whether MARS applied *)
(* the recharge or the payment was voided.                                 *)
(***************************************************************************)
RecordIsReliable ==
  \A r \in Request :
    /\ record[r] = "AUTHORIZED" =>
         tx[r] = "authorized" /\ mars[r] = "none" /\ r \notin redeemed
    /\ record[r] = "RECHARGING_POWERCARD" => r \notin notNew \cup snapshots
    /\ record[r] \in {"UPDATING_CUSTOMER", "CREATING_POWERCARD_SNAPSHOT"} =>
         /\ tx[r] = "authorized" /\ mars[r] = "applied"
         /\ input[r].offer => r \in redeemed
    /\ record[r] = "CREATING_POWERCARD_SNAPSHOT" => (input[r].isNew => r \in notNew)

(***************************************************************************)
(* When the recharge timed out, so that MARS may have applied it, and the  *)
(* payment was voided with the transaction service answering every call,   *)
(* the service was told that the recharge timed out, and only then.        *)
(***************************************************************************)
TimeoutIsReported ==
  \A r \in Request : (tx[r] = "void" /\ "void" \notin fault[r]) =>
    (saidTimedOut[r] <=> timedOut[r])

\* Every recharge that starts is answered, even when MARS never answers.
EveryRequestEnds == \A r \in Request : pc[r] # "idle" ~> pc[r] \in Terminal

-----------------------------------------------------------------------------
(* The inductive invariant: what each await of the handler may rely on. *)

BeforeMars(r) ==
  /\ pc[r] \in {"authorized", "saveEasy", "recharging", "recharge"} => Sound(r) /\ Unserved(r)
  /\ pc[r] = "authorized" => record[r] = NoRecord
  /\ pc[r] \in {"saveEasy", "recharging"} => record[r] = "AUTHORIZED"

AfterMars(r) ==
  /\ pc[r] \in {"recharge", "marsReply", "innerLookup", "innerVoid", "resetFind",
                "resetSave", "redeem", "updating"} => record[r] = "RECHARGING_POWERCARD"
  /\ pc[r] \in {"customer", "creatingSnapshot"} => record[r] = "UPDATING_CUSTOMER"
  /\ pc[r] \in {"snapshot", "deleteState"} => record[r] = "CREATING_POWERCARD_SNAPSHOT"
  /\ pc[r] = "marsReply" => Sound(r)
  /\ pc[r] \in {"resetFind", "resetSave", "redeem", "updating", "customer",
                "creatingSnapshot", "snapshot", "deleteState", "returned"} =>
       Sound(r) /\ mars[r] = "applied"
  /\ pc[r] \in {"updating", "customer", "creatingSnapshot", "snapshot", "deleteState",
                "returned"} => (input[r].offer => r \in redeemed)
  /\ pc[r] \in {"creatingSnapshot", "snapshot", "deleteState", "returned"} =>
       (input[r].isNew => r \in notNew)
  /\ pc[r] \in {"deleteState", "returned"} => r \in snapshots

\* Until the payment is voided, a recharge that did not time out is not reported so.
Flagged(r) ==
  /\ pc[r] \in {"innerLookup", "innerVoid"} => ~saidTimedOut[r] /\ "void" \notin fault[r]
  /\ (pc[r] \in {"voiding", "lookup", "void"} /\ tx[r] = "authorized"
       /\ "void" \notin fault[r]) => ~timedOut[r] /\ ~saidTimedOut[r]

IInv ==
  /\ TypeOK
  /\ VoidedUnlessCutShort
  /\ VoidOnlyAfterFailure
  /\ RecordIsReliable
  /\ TimeoutIsReported
  /\ \A r \in Request :
       /\ BeforePayment(r) /\ BeforeMars(r) /\ AfterMars(r)
       /\ Voiding(r) /\ Flagged(r) /\ Settled(r)
=============================================================================
