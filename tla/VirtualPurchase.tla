---------------------------- MODULE VirtualPurchase ----------------------------
(***************************************************************************)
(* powercardVirtualPurchaseCreate: buy a digital powercard.  MARS          *)
(* activates the card during the purchase, so the handler has no row to    *)
(* load; it checks at the start that the customer has no digital card yet  *)
(* and saves the new row towards the end.                                  *)
(***************************************************************************)
EXTENDS PurchaseTransaction

CONSTANTS
  Customer,    \* customers who buy digital cards
  CustomerOf   \* the customer of each request

ASSUME VirtualPurchaseAssumption == CustomerOf \in [Request -> Customer]

VARIABLES
  cards,  \* requests whose digital card has a row (isPhysical = false)
  raced   \* history: customers with two purchases past the check at a time

cardVars == <<cards, raced>>
vars == <<purchaseVars, cardVars>>

Labels == Terminal \cup
  {"idle", "start", "authorized", "activating", "activate", "marsReply",
   "innerLookup", "innerVoid", "redeeming", "redeem", "findImagePack", "customer",
   "creatingCard", "refreshBalances", "saveCard", "creatingSnapshot", "snapshot",
   "deleteState", "voiding", "lookup", "void", "cleanup"}

TypeOK ==
  /\ PurchaseTypeOK(Labels)
  /\ cards \subseteq Request
  /\ raced \subseteq Customer

Init ==
  /\ PurchaseInit
  /\ cards = {}
  /\ raced = {}

-----------------------------------------------------------------------------
HasVirtualPowercard(c) == \E r \in cards : CustomerOf[r] = c

\* Past the check, its row not saved: no other request can know of it.
Undecided(r) == pc[r] \notin Terminal \cup {"idle"} /\ r \notin cards

\* The other undecided purchases of the customer of r.
Rivals(r) == {s \in Request \ {r} : CustomerOf[s] = CustomerOf[r] /\ Undecided(s)}

\* Mutant: the check for a digital card the customer has is dropped.
BeginUnchecked(r) ==
  /\ \/ /\ Succeeds(r, "idle", "start")
        /\ raced' = raced \cup {CustomerOf[s] : s \in Rivals(r)}
     \/ Succeeds(r, "idle", "rejected") /\ UNCHANGED raced
  /\ UNCHANGED <<input, serviceVars, record, marsVars, effectVars, cards>>

(***************************************************************************)
(* customerAlreadyHasVirtualPowercard; then reads (offers, rate card, the  *)
(* check of dollarsPaid) of which any may reject the request.              *)
(***************************************************************************)
Begin(r) ==
  /\ \/ /\ ~HasVirtualPowercard(CustomerOf[r]) /\ Succeeds(r, "idle", "start")
        /\ raced' = raced \cup {CustomerOf[s] : s \in Rivals(r)}
     \/ Succeeds(r, "idle", "rejected") /\ UNCHANGED raced
  /\ UNCHANGED <<input, serviceVars, record, marsVars, effectVars, cards>>

Start(r) == TransactionStart(r) /\ UNCHANGED cardVars

\* Outside the try block: a failure leaves the handler at once.
WriteAuthorized(r) ==
  /\ UpdateTransactionState(r, "authorized", "AUTHORIZED", "activating", "failed", "record")
  /\ UNCHANGED cardVars

WriteActivating(r) ==
  /\ UpdateTransactionState(r, "activating", "ACTIVATING_VIRTUAL_POWERCARD",
       "activate", "voiding", "step")
  /\ UNCHANGED cardVars

-----------------------------------------------------------------------------
(* marsCardActivateDigital *)

Activate(r)       == MarsSend(r, "activate", "marsReply") /\ UNCHANGED cardVars
ActivateDone(r)   == MarsAnswers(r, "marsReply", "redeeming") /\ UNCHANGED cardVars
ActivateFailed(r) == MarsFails(r, "marsReply", "innerLookup") /\ UNCHANGED cardVars

\* Its own void never says whether the activation timed out.
InnerLookup(r) ==
  VoidLookup(r, "innerLookup", "innerVoid", "voiding", "voiding") /\ UNCHANGED cardVars
InnerVoid(r) ==
  VoidSend(r, "innerVoid", FALSE, "voiding", "voiding") /\ UNCHANGED cardVars

-----------------------------------------------------------------------------
(* After the activation *)

WriteRedeeming(r) ==
  /\ UpdateTransactionState(r, "redeeming", "REDEEMING_OFFER", "redeem", "voiding", "step")
  /\ UNCHANGED cardVars

Redeem(r) == RedeemOffer(r, "redeem", "findImagePack") /\ UNCHANGED cardVars

\* Mutant: the card is created before the customer is updated.
FindImagePackSkips(r) ==
  /\ \/ Succeeds(r, "findImagePack", "creatingCard")
     \/ Throws(r, "findImagePack", "voiding", "step")
  /\ UNCHANGED <<input, serviceVars, record, marsVars, effectVars, cardVars>>

FindImagePack(r) ==
  /\ \/ Succeeds(r, "findImagePack", "customer")
     \/ Throws(r, "findImagePack", "voiding", "step")
  /\ UNCHANGED <<input, serviceVars, record, marsVars, effectVars, cardVars>>

UpdateCustomer(r) == MakeCustomerNotNew(r, "customer", "creatingCard") /\ UNCHANGED cardVars

WriteCreatingCard(r) ==
  /\ UpdateTransactionState(r, "creatingCard", "CREATING_VIRTUAL_POWERCARD",
       "refreshBalances", "voiding", "step")
  /\ UNCHANGED cardVars

\* buildVirtualPowercardAndSave: the balances of the new card, then its row.
RefreshBalances(r) ==
  /\ \/ Succeeds(r, "refreshBalances", "saveCard")
     \/ Throws(r, "refreshBalances", "voiding", "step")
  /\ UNCHANGED <<input, serviceVars, record, marsVars, effectVars, cardVars>>

SaveCard(r) ==
  /\ \/ Succeeds(r, "saveCard", "creatingSnapshot") /\ cards' = cards \cup {r}
     \/ /\ Throws(r, "saveCard", "voiding", "step")
        /\ cards' \in {cards, cards \cup {r}}
  /\ UNCHANGED <<input, serviceVars, record, marsVars, effectVars, raced>>

WriteCreatingSnapshot(r) ==
  /\ UpdateTransactionState(r, "creatingSnapshot", "CREATING_POWERCARD_SNAPSHOT",
       "snapshot", "voiding", "step")
  /\ UNCHANGED cardVars

Snapshot(r) ==
  CreatePowercardBalanceSnapshot(r, "snapshot", "deleteState") /\ UNCHANGED cardVars

DeleteState(r) ==
  /\ DeleteTransactionState(r, "deleteState", "returned", "voiding", "step")
  /\ UNCHANGED cardVars

Catch(r) == CatchBlock(r) /\ UNCHANGED cardVars

-----------------------------------------------------------------------------
Handler(r) ==
  \/ Begin(r) \/ Start(r) \/ WriteAuthorized(r) \/ WriteActivating(r)
  \/ Activate(r) \/ ActivateDone(r) \/ ActivateFailed(r)
  \/ InnerLookup(r) \/ InnerVoid(r)
  \/ WriteRedeeming(r) \/ Redeem(r) \/ FindImagePack(r) \/ UpdateCustomer(r)
  \/ WriteCreatingCard(r) \/ RefreshBalances(r) \/ SaveCard(r)
  \/ WriteCreatingSnapshot(r) \/ Snapshot(r) \/ DeleteState(r) \/ Catch(r)

Outside(r) == (MarsDecides(r) \/ Crash(r)) /\ UNCHANGED cardVars

Done == (\A r \in Request : pc[r] \in Terminal /\ mars[r] # "inflight") /\ UNCHANGED vars

Next == Done \/ \E r \in Request : Handler(r) \/ Outside(r)

Spec == Init /\ [][Next]_vars

-----------------------------------------------------------------------------
(***************************************************************************)
(* What the Redis record says of a digital purchase, also after a crash:   *)
(* AUTHORIZED means MARS was never asked and the payment stands; from      *)
(* REDEEMING_OFFER on the card is active and the payment stands; from      *)
(* CREATING_VIRTUAL_POWERCARD on the offer and the customer are done; at   *)
(* CREATING_POWERCARD_SNAPSHOT the card has its row.                       *)
(***************************************************************************)
RecordIsReliable ==
  \A r \in Request :
    /\ record[r] = "AUTHORIZED" =>
         tx[r] = "authorized" /\ mars[r] = "none" /\ r \notin redeemed
    /\ record[r] \in {"REDEEMING_OFFER", "CREATING_VIRTUAL_POWERCARD",
                      "CREATING_POWERCARD_SNAPSHOT"} =>
         tx[r] = "authorized" /\ mars[r] = "applied"
    /\ record[r] \in {"CREATING_VIRTUAL_POWERCARD", "CREATING_POWERCARD_SNAPSHOT"} =>
         (input[r].offer => r \in redeemed) /\ (input[r].isNew => r \in notNew)
    /\ record[r] = "CREATING_POWERCARD_SNAPSHOT" => r \in cards

(***************************************************************************)
(* A digital card gets its row only for a purchase that MARS activated and *)
(* whose offer and customer steps are done, and a purchase that returns    *)
(* has its row: no row for an activation that failed or timed out.         *)
(***************************************************************************)
CardIsBacked ==
  \A r \in Request :
    /\ r \in cards =>
         /\ mars[r] = "applied" /\ ~timedOut[r]
         /\ input[r].offer => r \in redeemed
         /\ input[r].isNew => r \in notNew
    /\ pc[r] = "returned" => r \in cards

\* "cannot create additional digital powercards": a customer has at most one.
OneVirtualPowercard ==
  \A r, s \in cards : CustomerOf[r] = CustomerOf[s] => r = s

(***************************************************************************)
(* What the check does give: a customer has two digital cards only when a  *)
(* purchase passed the check while another was between the check and the   *)
(* save of its row; purchases one after the other never make two, however  *)
(* the first one failed, timed out or crashed.                             *)
(***************************************************************************)
OneVirtualPowercardUnlessRaced ==
  \A r, s \in cards : CustomerOf[r] = CustomerOf[s] => r = s \/ CustomerOf[r] \in raced

-----------------------------------------------------------------------------
(* The inductive invariant: what each await of the handler may rely on. *)

BeforeMars(r) ==
  /\ pc[r] \in {"authorized", "activating", "activate"} => Sound(r) /\ Unserved(r)
  /\ pc[r] = "authorized" => record[r] = NoRecord
  /\ pc[r] = "activating" => record[r] = "AUTHORIZED"
  /\ pc[r] \in {"activate", "marsReply", "innerLookup", "innerVoid", "redeeming"} =>
       record[r] = "ACTIVATING_VIRTUAL_POWERCARD"
  /\ pc[r] = "marsReply" => Sound(r)
  /\ pc[r] \in {"idle", "start", "authorized", "activating", "activate", "marsReply"} =>
       r \notin cards

\* The stages of the handler once MARS has activated the card, innermost last.
WithSnapshot == {"deleteState", "returned"}
WithRow      == WithSnapshot \cup {"creatingSnapshot", "snapshot"}
WithCustomer == WithRow \cup {"creatingCard", "refreshBalances", "saveCard"}
WithOffer    == WithCustomer \cup {"findImagePack", "customer"}
WithCard     == WithOffer \cup {"redeeming", "redeem"}

AfterMars(r) ==
  /\ pc[r] \in {"redeem", "findImagePack", "customer", "creatingCard"} =>
       record[r] = "REDEEMING_OFFER"
  /\ pc[r] \in {"refreshBalances", "saveCard", "creatingSnapshot"} =>
       record[r] = "CREATING_VIRTUAL_POWERCARD"
  /\ pc[r] \in {"snapshot", "deleteState"} => record[r] = "CREATING_POWERCARD_SNAPSHOT"
  /\ pc[r] \in WithCard => Sound(r) /\ mars[r] = "applied"
  /\ pc[r] \in WithOffer => (input[r].offer => r \in redeemed)
  /\ pc[r] \in WithCustomer => (input[r].isNew => r \in notNew)
  /\ pc[r] \in WithRow => r \in cards
  /\ pc[r] \in WithSnapshot => r \in snapshots

\* A purchase that may yet save a row of its own, or has saved it.
Claims(r) == pc[r] \notin Terminal \cup {"idle"} \/ r \in cards

\* Unless requests raced, at most one purchase of a customer claims a card.
OneClaimUnlessRaced ==
  \A r, s \in Request :
    Claims(r) /\ Claims(s) /\ CustomerOf[r] = CustomerOf[s] =>
      r = s \/ CustomerOf[r] \in raced

IInv ==
  /\ TypeOK
  /\ VoidedUnlessCutShort
  /\ VoidOnlyAfterFailure
  /\ RecordIsReliable
  /\ CardIsBacked
  /\ OneClaimUnlessRaced
  /\ \A r \in Request :
       /\ BeforePayment(r) /\ BeforeMars(r) /\ AfterMars(r)
       /\ Voiding(r) /\ Settled(r)
=============================================================================
