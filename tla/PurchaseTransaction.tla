------------------------- MODULE PurchaseTransaction -------------------------
(***************************************************************************)
(* What powercardFundsAdd and powercardVirtualPurchaseCreate share: the    *)
(* payment held by the transaction service, the progress record kept in    *)
(* Redis, the MARS call in flight, the offer, customer and snapshot steps, *)
(* and the way a failed purchase voids its payment.                        *)
(*                                                                         *)
(* Both handlers run in one try block of awaited calls.  A step here is    *)
(* the code between two awaits; pc[r] names the next await of request r.   *)
(* FundsAdd and VirtualPurchase extend this module, give every step its    *)
(* place in their handler, and add the state only they touch.              *)
(*                                                                         *)
(* A call that fails may have taken effect (the answer is lost) or not.    *)
(* MARS is the exception: its effect may also come after the caller gave   *)
(* up, so a request to MARS stays in flight until MARS decides.            *)
(***************************************************************************)
EXTENDS Naturals, FiniteSets

CONSTANTS
  Request,      \* purchase requests; each runs its handler once
  InputChoices  \* what an input may carry: an offer, a new customer

Input == [offer: BOOLEAN, isNew: BOOLEAN]

ASSUME PurchaseAssumption == InputChoices \subseteq Input /\ InputChoices # {}

VARIABLES
  pc,            \* the next await of the request's handler
  input,         \* does the input carry an offer, is the customer new
  tx,            \* status of the payment at the transaction service
  voidsSent,     \* daveAndBustersTransactionVoid calls sent for the payment
  saidTimedOut,  \* some void call told the service that MARS timed out
  record,        \* powercardTransactionState kept in Redis, or NONE
  mars,          \* the activation or recharge at MARS
  timedOut,      \* error.timedOut of the failed MARS call
  redeemed,      \* requests whose offer MARS redeemed
  notNew,        \* requests that set isNewCustomer to false
  snapshots,     \* requests with a row in powercardBalanceSnapshot
  fault          \* history: what went wrong for the request

serviceVars == <<tx, voidsSent, saidTimedOut>>
effectVars  == <<redeemed, notNew, snapshots>>
marsVars    == <<mars, timedOut>>
purchaseVars == <<pc, input, serviceVars, record, marsVars, effectVars, fault>>

NoRecord == "NONE"
TransactionStates ==
  {"AUTHORIZED", "ACTIVATING_VIRTUAL_POWERCARD", "CREATING_VIRTUAL_POWERCARD",
   "UPDATING_CUSTOMER", "RECHARGING_POWERCARD", "REDEEMING_OFFER",
   "CREATING_POWERCARD_SNAPSHOT", "VOIDING_TRANSACTION"}

\* "rejected": thrown before the handler knew a transaction uuid;
\* "failed": thrown afterwards; "crashed": the process died.
Terminal == {"returned", "rejected", "failed", "crashed"}

(***************************************************************************)
(* "step": a call inside the try block failed.  "record": the state write  *)
(* before the try block, or the one that opens the catch block, failed.    *)
(* "void": getTransaction or the void call failed.  "cleanup": the delete  *)
(* that closes the catch block failed.                                     *)
(***************************************************************************)
FaultKind == {"step", "record", "void", "cleanup"}

PurchaseTypeOK(Labels) ==
  /\ pc \in [Request -> Labels]
  /\ input \in [Request -> InputChoices]
  /\ tx \in [Request -> {"none", "authorized", "void"}]
  /\ voidsSent \in [Request -> Nat]
  /\ saidTimedOut \in [Request -> BOOLEAN]
  /\ record \in [Request -> TransactionStates \cup {NoRecord}]
  /\ mars \in [Request -> {"none", "inflight", "applied", "refused"}]
  /\ timedOut \in [Request -> BOOLEAN]
  /\ redeemed \subseteq Request
  /\ notNew \subseteq Request
  /\ snapshots \subseteq Request
  /\ fault \in [Request -> SUBSET FaultKind]

PurchaseInit ==
  /\ pc = [r \in Request |-> "idle"]
  /\ input \in [Request -> InputChoices]
  /\ tx = [r \in Request |-> "none"]
  /\ voidsSent = [r \in Request |-> 0]
  /\ saidTimedOut = [r \in Request |-> FALSE]
  /\ record = [r \in Request |-> NoRecord]
  /\ mars = [r \in Request |-> "none"]
  /\ timedOut = [r \in Request |-> FALSE]
  /\ redeemed = {}
  /\ notNew = {}
  /\ snapshots = {}
  /\ fault = [r \in Request |-> {}]

-----------------------------------------------------------------------------
(* Control *)

\* The await at "from" resolves and the handler goes on to "to".
Succeeds(r, from, to) ==
  /\ pc[r] = from
  /\ pc' = [pc EXCEPT ![r] = to]
  /\ UNCHANGED fault

\* The await at "from" rejects; "catch" is where the error lands.
Throws(r, from, catch, kind) ==
  /\ pc[r] = from
  /\ pc' = [pc EXCEPT ![r] = catch]
  /\ fault' = [fault EXCEPT ![r] = @ \cup {kind}]

(***************************************************************************)
(* transactionStart: the service authorizes the payment and answers with a *)
(* uuid, declines it, or authorizes it while the answer is lost; the       *)
(* lookup of the store's address before the call may also throw.           *)
(***************************************************************************)
TransactionStart(r) ==
  /\ \/ /\ Succeeds(r, "start", "authorized")
        /\ tx' = [tx EXCEPT ![r] = "authorized"]
     \/ /\ Succeeds(r, "start", "rejected")
        /\ tx' \in {tx, [tx EXCEPT ![r] = "authorized"]}
  /\ UNCHANGED <<input, voidsSent, saidTimedOut, record, marsVars, effectVars>>

-----------------------------------------------------------------------------
(* The progress record in Redis *)

UpdateTransactionState(r, from, state, to, catch, kind) ==
  /\ LET written == [record EXCEPT ![r] = state]
     IN  \/ Succeeds(r, from, to) /\ record' = written
         \/ Throws(r, from, catch, kind) /\ record' \in {record, written}
  /\ UNCHANGED <<input, serviceVars, marsVars, effectVars>>

DeleteTransactionState(r, from, to, catch, kind) ==
  UpdateTransactionState(r, from, NoRecord, to, catch, kind)

-----------------------------------------------------------------------------
(* The steps both handlers take once MARS has answered *)

\* Only an input with an offer redeems one.
RedeemOffer(r, from, to) ==
  /\ \/ /\ Succeeds(r, from, to)
        /\ redeemed' = IF input[r].offer THEN redeemed \cup {r} ELSE redeemed
     \/ /\ input[r].offer
        /\ Throws(r, from, "voiding", "step")
        /\ redeemed' \in {redeemed, redeemed \cup {r}}
  /\ UNCHANGED <<input, serviceVars, record, marsVars, notNew, snapshots>>

\* Mutant: the error of customerUpdate is swallowed.
MakeCustomerNotNewSilently(r, from, to) ==
  /\ Succeeds(r, from, to)
  /\ notNew' \in {notNew, IF input[r].isNew THEN notNew \cup {r} ELSE notNew}
  /\ UNCHANGED <<input, serviceVars, record, marsVars, redeemed, snapshots>>

MakeCustomerNotNew(r, from, to) ==
  /\ \/ /\ Succeeds(r, from, to)
        /\ notNew' = IF input[r].isNew THEN notNew \cup {r} ELSE notNew
     \/ /\ input[r].isNew
        /\ Throws(r, from, "voiding", "step")
        /\ notNew' \in {notNew, notNew \cup {r}}
  /\ UNCHANGED <<input, serviceVars, record, marsVars, redeemed, snapshots>>

CreatePowercardBalanceSnapshot(r, from, to) ==
  /\ \/ Succeeds(r, from, to) /\ snapshots' = snapshots \cup {r}
     \/ /\ Throws(r, from, "voiding", "step")
        /\ snapshots' \in {snapshots, snapshots \cup {r}}
  /\ UNCHANGED <<input, serviceVars, record, marsVars, redeemed, notNew>>

-----------------------------------------------------------------------------
(* MARS *)

\* The HTTP request of CardRecharge or CardActivateDigital leaves.
MarsSend(r, from, to) ==
  /\ Succeeds(r, from, to)
  /\ mars' = [mars EXCEPT ![r] = "inflight"]
  /\ UNCHANGED <<input, serviceVars, record, timedOut, effectVars>>

\* MARS decides on a request in flight, whether or not anyone still waits.
MarsDecides(r) ==
  /\ mars[r] = "inflight"
  /\ mars' \in {[mars EXCEPT ![r] = d] : d \in {"applied", "refused"}}
  /\ UNCHANGED <<pc, input, serviceVars, record, timedOut, effectVars, fault>>

\* Mutant: the handler does not wait for the answer.
MarsAnswersUnread(r, from, to) ==
  /\ Succeeds(r, from, to)
  /\ UNCHANGED <<input, serviceVars, record, marsVars, effectVars>>

\* The answer arrives and the balance cache takes the new balances.
MarsAnswers(r, from, to) ==
  /\ mars[r] = "applied"
  /\ Succeeds(r, from, to)
  /\ UNCHANGED <<input, serviceVars, record, marsVars, effectVars>>

\* Mutant: no timeout, the handler waits until MARS refuses.
MarsRefuses(r, from, to) ==
  /\ mars[r] = "refused"
  /\ Throws(r, from, to, "step")
  /\ UNCHANGED <<input, serviceVars, record, marsVars, effectVars>>

(***************************************************************************)
(* checkResponseAndBuildError: the axios timeout fires (timedOut), MARS    *)
(* refuses, the connection breaks, or MARS has applied the request and the *)
(* balance cache (Redis) fails afterwards, inside the same try block.      *)
(***************************************************************************)
MarsFails(r, from, to) ==
  /\ Throws(r, from, to, "step")
  /\ timedOut' \in {timedOut, [timedOut EXCEPT ![r] = TRUE]}
  /\ UNCHANGED <<input, serviceVars, record, mars, effectVars>>

-----------------------------------------------------------------------------
(* transactionVoid *)

\* Mutant: the status of the payment is not looked at.
VoidLookupIgnored(r, from, void, skip, catch) ==
  /\ Succeeds(r, from, void) \/ Throws(r, from, catch, "void")
  /\ UNCHANGED <<input, serviceVars, record, marsVars, effectVars>>

\* Its first call, getTransaction: a payment already void needs no call.
\* "skip" is where the caller continues, "catch" where it lands on an error.
VoidLookup(r, from, void, skip, catch) ==
  /\ \/ tx[r] # "void" /\ Succeeds(r, from, void)
     \/ tx[r] = "void" /\ Succeeds(r, from, skip)
     \/ Throws(r, from, catch, "void")
  /\ UNCHANGED <<input, serviceVars, record, marsVars, effectVars>>

\* Its second call, daveAndBustersTransactionVoid.
VoidSend(r, from, flag, to, catch) ==
  /\ LET voided == [tx EXCEPT ![r] = "void"]
     IN  \/ Succeeds(r, from, to) /\ tx' = voided
         \/ Throws(r, from, catch, "void") /\ tx' \in {tx, voided}
  /\ voidsSent' = [voidsSent EXCEPT ![r] = @ + 1]
  /\ saidTimedOut' = [saidTimedOut EXCEPT ![r] = @ \/ flag]
  /\ UNCHANGED <<input, record, marsVars, effectVars>>

(***************************************************************************)
(* The catch block of both handlers: write VOIDING_TRANSACTION, void the   *)
(* payment without the timedOut flag, delete the record, throw.  An error  *)
(* in any of the three leaves the block at once.                           *)
(***************************************************************************)
WriteVoiding(r) ==
  UpdateTransactionState(r, "voiding", "VOIDING_TRANSACTION", "lookup", "failed", "record")
OuterLookup(r) == VoidLookup(r, "lookup", "void", "cleanup", "failed")
OuterVoid(r)   == VoidSend(r, "void", FALSE, "cleanup", "failed")
CleanUp(r)     == DeleteTransactionState(r, "cleanup", "failed", "failed", "cleanup")

CatchBlock(r) == WriteVoiding(r) \/ OuterLookup(r) \/ OuterVoid(r) \/ CleanUp(r)

\* The process that serves the request dies; nothing resumes the handler.
Crash(r) ==
  /\ pc[r] \notin Terminal \cup {"idle"}
  /\ pc' = [pc EXCEPT ![r] = "crashed"]
  /\ UNCHANGED <<input, serviceVars, record, marsVars, effectVars, fault>>

-----------------------------------------------------------------------------
(* Properties of a purchase, whatever its kind *)

(***************************************************************************)
(* A purchase that returns a transaction is paid and delivered: the        *)
(* payment is authorized and was never offered for voiding, MARS applied   *)
(* the purchase, the offer is redeemed, the customer is no longer new, the *)
(* snapshot exists, no progress record is left, and nothing failed on the  *)
(* way except what the handler swallows on purpose.                        *)
(***************************************************************************)
SuccessIsComplete ==
  \A r \in Request : pc[r] = "returned" =>
    /\ tx[r] = "authorized" /\ voidsSent[r] = 0
    /\ mars[r] = "applied"
    /\ input[r].offer => r \in redeemed
    /\ input[r].isNew => r \in notNew
    /\ r \in snapshots
    /\ record[r] = NoRecord
    /\ fault[r] = {}

(***************************************************************************)
(* A purchase that fails after its payment was authorized leaves the       *)
(* payment voided, unless Redis failed at one of the two writes that guard *)
(* the void or the transaction service itself failed; and it leaves no     *)
(* record unless one of the calls of the catch block failed.               *)
(***************************************************************************)
VoidedUnlessCutShort ==
  \A r \in Request : pc[r] = "failed" =>
    /\ tx[r] = "void" \/ fault[r] \cap {"record", "void"} # {}
    /\ record[r] = NoRecord \/ fault[r] \cap {"record", "void", "cleanup"} # {}

(***************************************************************************)
(* The inner void (of marsRecharge or marsCardActivateDigital) and the     *)
(* void of the catch block never ask twice: no void call leaves for a      *)
(* payment that is already void, even when the answer to the first call    *)
(* was lost.                                                               *)
(***************************************************************************)
NoVoidOfVoided ==
  [][\A r \in Request : voidsSent'[r] > voidsSent[r] => tx[r] = "authorized"]_purchaseVars

\* The payment is only ever voided after something failed, and then the
\* handler never reports success: it heads for an error.
VoidOnlyAfterFailure ==
  \A r \in Request : tx[r] = "void" =>
    /\ fault[r] # {}
    /\ pc[r] \in {"voiding", "lookup", "cleanup", "failed", "crashed"}

(***************************************************************************)
(* The refinement mapping to the abstract specification PurchaseContract:  *)
(* its payment is the one of the transaction service, its credit what MARS *)
(* applied, its reply what the place of the handler says was answered.     *)
(***************************************************************************)
credited == {r \in Request : mars[r] = "applied"}
replies ==
  [r \in Request |->
    CASE pc[r] = "returned" -> "ok"
      [] pc[r] \in {"rejected", "failed", "crashed"} -> "error"
      [] OTHER -> "none"]

Contract == INSTANCE PurchaseContract
              WITH payment <- tx, credit <- credited, reply <- replies

\* Every purchase implements the contract: no credit without a payment, no
\* confirmation of a voided or uncredited purchase, no void after the answer.
KeepsContract == Contract!Spec

-----------------------------------------------------------------------------
(* What the steps of any purchase may rely on, for the inductive invariants *)

\* Neither MARS nor the customer has seen the request.
Unserved(r) ==
  /\ mars[r] = "none" /\ ~timedOut[r]
  /\ r \notin redeemed /\ r \notin notNew /\ r \notin snapshots

\* Paid, nothing has failed, nothing is being voided.
Sound(r) ==
  /\ tx[r] = "authorized" /\ voidsSent[r] = 0 /\ ~saidTimedOut[r]
  /\ fault[r] = {} /\ ~timedOut[r]

BeforePayment(r) ==
  /\ pc[r] \in {"idle", "start", "rejected"} =>
       /\ Unserved(r) /\ record[r] = NoRecord
       /\ voidsSent[r] = 0 /\ ~saidTimedOut[r] /\ fault[r] = {} /\ tx[r] # "void"
  /\ pc[r] \in {"idle", "start"} => tx[r] = "none"

Voiding(r) ==
  /\ pc[r] \in {"innerLookup", "innerVoid"} =>
       tx[r] = "authorized" /\ fault[r] # {}
  /\ pc[r] \in {"voiding", "lookup", "void", "cleanup"} => tx[r] # "none" /\ fault[r] # {}
  /\ pc[r] = "void" => tx[r] = "authorized"
  /\ pc[r] = "cleanup" => tx[r] = "void"
  /\ pc[r] \in {"lookup", "void", "cleanup"} => record[r] = "VOIDING_TRANSACTION"

Settled(r) ==
  /\ pc[r] = "returned" => record[r] = NoRecord
  /\ mars[r] # "none" => tx[r] # "none"
=============================================================================
