------------------------------ MODULE CheckPayment ------------------------------
(***************************************************************************)
(* checkPaymentApply: pay a restaurant check, or a part of it.  A payment  *)
(* takes the steps of PurchaseTransaction without a progress record, an    *)
(* offer or a snapshot; instead MARS answers with the receipt of the whole *)
(* check as it stands, and the handler saves it.                           *)
(*                                                                         *)
(* The requests are the payments of one check.  They share its receipt:    *)
(* each looks for the row, awaits, and saves its own answer under the id   *)
(* it found.                                                               *)
(***************************************************************************)
EXTENDS PurchaseTransaction

VARIABLES
  answer,     \* the payments in the receipt MARS answered with
  target,     \* the id of the row a handler is about to save
  receipts,   \* rows of the check in receipt, named for who inserted them
  shows,      \* the payments each row shows
  raced,      \* history: a receipt was missed while another was being saved
  overtaken,  \* history: a save passed an older answer on its way
  cleared     \* history: the receipts of the check were cleared

rowVars == <<receipts, shows>>
histories == <<raced, overtaken, cleared>>
receiptVars == <<answer, target, rowVars, histories>>
vars == <<purchaseVars, receiptVars>>

Labels == Terminal \cup
  {"idle", "start", "authorized", "marsReply", "customer", "findReceipt",
   "saveReceipt", "voiding", "send"}

TypeOK ==
  /\ PurchaseTypeOK(Labels)
  /\ answer \in [Request -> SUBSET Request]
  /\ target \in [Request -> Request]
  /\ receipts \subseteq Request
  /\ shows \in [Request -> SUBSET Request]
  /\ raced \in BOOLEAN /\ overtaken \in BOOLEAN /\ cleared \in BOOLEAN

Init ==
  /\ PurchaseInit
  /\ answer = [r \in Request |-> {}]
  /\ target = [r \in Request |-> r]
  /\ receipts = {}
  /\ shows = [r \in Request |-> {}]
  /\ raced = FALSE /\ overtaken = FALSE /\ cleared = FALSE

-----------------------------------------------------------------------------
(* The payment *)

\* The check is read, and the address of the store; either may fail.
Begin(r) ==
  /\ Succeeds(r, "idle", "start") \/ Succeeds(r, "idle", "rejected")
  /\ UNCHANGED <<input, serviceVars, record, marsVars, effectVars, receiptVars>>

Start(r) == TransactionStart(r) /\ UNCHANGED receiptVars

ApplyPayment(r) == MarsSend(r, "authorized", "marsReply") /\ UNCHANGED receiptVars

\* MARS answers a payment it applies with the check as it then stands.
MarsDecidesPayment(r) ==
  /\ MarsDecides(r)
  /\ answer' = [answer EXCEPT ![r] = {p \in credited' : mars'[r] = "applied"}]
  /\ UNCHANGED <<target, rowVars, histories>>

Applied(r) == MarsAnswers(r, "marsReply", "customer") /\ UNCHANGED receiptVars

ApplyFailed(r) == MarsFails(r, "marsReply", "voiding") /\ UNCHANGED receiptVars

UpdateCustomer(r) ==
  MakeCustomerNotNew(r, "customer", "findReceipt") /\ UNCHANGED receiptVars

-----------------------------------------------------------------------------
(* The receipt *)

\* Mutant: the receipt is looked for and never reused.
FindReceiptIgnored(r) ==
  /\ Succeeds(r, "findReceipt", "saveReceipt")
  /\ UNCHANGED <<input, serviceVars, record, marsVars, effectVars>>
  /\ UNCHANGED <<answer, target, rowVars, histories>>

\* "There can be several payments to the same check": one row is reused.
FindReceipt(r) ==
  /\ \/ /\ Succeeds(r, "findReceipt", "saveReceipt")
        /\ \/ receipts = {} /\ target' = [target EXCEPT ![r] = r]
           \/ \E q \in receipts : target' = [target EXCEPT ![r] = q]
        /\ raced' = (raced \/ (receipts = {} /\ \E p \in Request : pc[p] = "saveReceipt"))
     \/ Throws(r, "findReceipt", "voiding", "step") /\ UNCHANGED <<target, raced>>
  /\ UNCHANGED <<input, serviceVars, record, marsVars, effectVars>>
  /\ UNCHANGED <<answer, rowVars, overtaken, cleared>>

\* Payments whose answer may still be saved.
Pending ==
  {p \in credited : pc[p] \in {"marsReply", "customer", "findReceipt", "saveReceipt"}}

\* Mutant: an existing row only gets what it does not show.
SavedOnce(r) ==
  /\ receipts' = receipts \cup {target[r]}
  /\ shows' = [shows EXCEPT ![target[r]] = IF @ = {} THEN answer[r] ELSE @]
  /\ overtaken' = (overtaken \/ \E p \in Pending : r \notin answer[p])

Saved(r) ==
  /\ receipts' = receipts \cup {target[r]}
  /\ shows' = [shows EXCEPT ![target[r]] = answer[r]]
  /\ overtaken' = (overtaken \/ \E p \in Pending : r \notin answer[p])

SaveReceipt(r) ==
  /\ \/ Succeeds(r, "saveReceipt", "returned") /\ Saved(r)
     \/ Throws(r, "saveReceipt", "voiding", "step") /\ Saved(r)
     \/ Throws(r, "saveReceipt", "voiding", "step") /\ UNCHANGED <<rowVars, overtaken>>
  /\ UNCHANGED <<input, serviceVars, record, marsVars, effectVars>>
  /\ UNCHANGED <<answer, target, raced, cleared>>

\* receiptsClear removes every receipt of the check.
ReceiptsClear ==
  /\ receipts' = {} /\ cleared' = TRUE
  /\ UNCHANGED <<purchaseVars, answer, target, shows, raced, overtaken>>

-----------------------------------------------------------------------------
(* The catch block: void, throw *)

Lookup(r) == VoidLookup(r, "voiding", "send", "failed", "failed") /\ UNCHANGED receiptVars

Send(r) == VoidSend(r, "send", FALSE, "failed", "failed") /\ UNCHANGED receiptVars

-----------------------------------------------------------------------------
Handler(r) ==
  \/ Begin(r) \/ Start(r) \/ ApplyPayment(r) \/ Applied(r) \/ ApplyFailed(r)
  \/ UpdateCustomer(r) \/ FindReceipt(r) \/ SaveReceipt(r) \/ Lookup(r) \/ Send(r)

Outside(r) == MarsDecidesPayment(r) \/ (Crash(r) /\ UNCHANGED receiptVars)

Next == ReceiptsClear \/ \E r \in Request : Handler(r) \/ Outside(r)

Spec == Init /\ [][Next]_vars

-----------------------------------------------------------------------------
(***************************************************************************)
(* A payment that returns its receipt is authorized and was never offered  *)
(* for voiding, MARS applied it, the customer is no longer new, and        *)
(* nothing failed.                                                         *)
(***************************************************************************)
PaymentIsComplete ==
  \A r \in Request : pc[r] = "returned" =>
    /\ tx[r] = "authorized" /\ voidsSent[r] = 0
    /\ mars[r] = "applied"
    /\ input[r].isNew => r \in notNew
    /\ fault[r] = {}

(***************************************************************************)
(* The payments of a check share one receipt, unless one looked for it     *)
(* while another had looked and was about to save.                         *)
(***************************************************************************)
OneReceiptUnlessRaced == ~raced => \A p, q \in receipts : p = q

(***************************************************************************)
(* The receipt shows every payment that was confirmed, whichever payment   *)
(* saved it last, unless receipts raced or a save passed an older answer   *)
(* that was saved after it.                                                *)
(***************************************************************************)
ReceiptShowsPaid ==
  ~raced /\ ~overtaken =>
    \A r \in Request : pc[r] = "returned" =>
      /\ cleared \/ receipts # {}
      /\ \A q \in receipts : r \in shows[q]

-----------------------------------------------------------------------------
(* The inductive invariant *)

\* What each await of the handler may rely on.
Steps(r) ==
  /\ record[r] = NoRecord
  /\ pc[r] \in {"idle", "start"} => tx[r] = "none"
  /\ pc[r] \in {"idle", "start", "rejected"} =>
       /\ fault[r] = {} /\ tx[r] # "void"
       /\ voidsSent[r] = 0 /\ ~timedOut[r] /\ ~saidTimedOut[r]
  /\ pc[r] \in {"authorized", "marsReply", "customer", "findReceipt", "saveReceipt",
                "returned"} => Sound(r)
  /\ pc[r] \in {"idle", "start", "rejected", "authorized"} => mars[r] = "none"
  /\ pc[r] \in {"customer", "findReceipt", "saveReceipt", "returned"} => mars[r] = "applied"
  /\ pc[r] \in {"findReceipt", "saveReceipt", "returned"} => (input[r].isNew => r \in notNew)
  /\ pc[r] = "voiding" => tx[r] # "none" /\ fault[r] # {}
  /\ pc[r] = "send" => tx[r] = "authorized" /\ fault[r] # {}
  /\ mars[r] # "none" => tx[r] # "none"

\* MARS answers a payment with a receipt that shows it.
AnswerShowsItself == \A r \in credited : r \in answer[r]

\* Rows there are, and rows about to be saved.
Claims == receipts \cup {target[r] : r \in {p \in Request : pc[p] = "saveReceipt"}}

OneClaim == ~raced => \A p, q \in Claims : p = q

\* What a confirmed payment may rely on: the rows and the answers under way show it.
PaidIsShown ==
  ~raced /\ ~overtaken =>
    \A r \in Request : pc[r] = "returned" =>
      /\ cleared \/ receipts # {}
      /\ \A q \in receipts : r \in shows[q]
      /\ \A p \in Pending : r \in answer[p]

IInv ==
  /\ TypeOK
  /\ VoidedUnlessCutShort /\ VoidOnlyAfterFailure
  /\ \A r \in Request : Steps(r)
  /\ AnswerShowsItself /\ OneClaim /\ PaidIsShown
=============================================================================
