-------------------------- MODULE VirtualPurchaseProofs --------------------------
(***************************************************************************)
(* Proofs about VirtualPurchase for every set of requests, customers and   *)
(* inputs.                                                                 *)
(***************************************************************************)
EXTENDS VirtualPurchase, PurchaseTransactionProofs

USE DEF cardVars

\* Nothing of request x changes, the row of its card included.
Alone(x) == Same(x) /\ (x \in cards' <=> x \in cards)

(***************************************************************************)
(* Every step of a digital purchase keeps the types and leaves everything  *)
(* that belongs to another request alone.                                  *)
(***************************************************************************)
LEMMA StepLocal ==
  ASSUME TypeOK, NEW r \in Request, Handler(r) \/ Outside(r)
  PROVE  TypeOK' /\ \A x \in Request \ {r} : Alone(x)
<1> DEFINE Row ==
             /\ cards' \subseteq Request /\ raced' \subseteq Customer
             /\ \A x \in Request \ {r} : x \in cards' <=> x \in cards
<1> SUFFICES Local(Labels, r) /\ Row
  BY DEF TypeOK, Local, Alone
<1>a. PurchaseTypeOK(Labels) /\ cards \subseteq Request /\ raced \subseteq Customer
  BY DEF TypeOK
<1>b. UNCHANGED cardVars => Row
  BY <1>a
<1>l. /\ Terminal \cup {"idle", "start", "authorized", "activating", "activate", "marsReply",
         "innerLookup", "innerVoid", "redeeming", "redeem", "findImagePack", "customer",
         "creatingCard", "refreshBalances", "saveCard", "creatingSnapshot", "snapshot",
         "deleteState", "voiding", "lookup", "void", "cleanup"} = Labels
      /\ {"returned", "rejected", "failed", "crashed"} = Terminal
  BY DEF Labels, Terminal
<1>s. TransactionStates \cup {NoRecord} =
        {"AUTHORIZED", "ACTIVATING_VIRTUAL_POWERCARD", "CREATING_VIRTUAL_POWERCARD",
         "UPDATING_CUSTOMER", "RECHARGING_POWERCARD", "REDEEMING_OFFER",
         "CREATING_POWERCARD_SNAPSHOT", "VOIDING_TRANSACTION", NoRecord}
  BY DEF TransactionStates
<1>f. FaultKind = {"step", "record", "void", "cleanup"}
  BY DEF FaultKind
<1>1. CASE Begin(r)
  <2>1. Local(Labels, r)
    BY <1>1, <1>a, <1>l, <1>f DEF Begin, Local, Same, PurchaseTypeOK, Succeeds, Throws,
       serviceVars, marsVars, effectVars
  <2>2. Row
    BY <1>1, <1>a, VirtualPurchaseAssumption DEF Begin, Rivals
  <2> QED BY <2>1, <2>2
<1>2. CASE Start(r)
  BY <1>2, <1>a, <1>b, <1>l, StartLocal DEF Start
<1>3. CASE WriteAuthorized(r)
  BY <1>3, <1>a, <1>b, <1>l, <1>s, <1>f, UpdateLocal DEF WriteAuthorized
<1>4. CASE WriteActivating(r)
  BY <1>4, <1>a, <1>b, <1>l, <1>s, <1>f, UpdateLocal DEF WriteActivating
<1>5. CASE Activate(r)
  BY <1>5, <1>a, <1>b, <1>l, MarsSendLocal DEF Activate
<1>6. CASE ActivateDone(r)
  BY <1>6, <1>a, <1>b, <1>l, MarsAnswersLocal DEF ActivateDone
<1>7. CASE ActivateFailed(r)
  BY <1>7, <1>a, <1>b, <1>l, MarsFailsLocal DEF ActivateFailed
<1>8. CASE InnerLookup(r)
  BY <1>8, <1>a, <1>b, <1>l, VoidLookupLocal DEF InnerLookup
<1>9. CASE InnerVoid(r)
  BY <1>9, <1>a, <1>b, <1>l, VoidSendLocal DEF InnerVoid
<1>10. CASE WriteRedeeming(r)
  BY <1>10, <1>a, <1>b, <1>l, <1>s, <1>f, UpdateLocal DEF WriteRedeeming
<1>11. CASE Redeem(r)
  BY <1>11, <1>a, <1>b, <1>l, RedeemLocal DEF Redeem
<1>12. CASE FindImagePack(r)
  <2>1. Local(Labels, r)
    BY <1>12, <1>a, <1>l, <1>f DEF FindImagePack, Local, Same, PurchaseTypeOK, Succeeds, Throws,
       serviceVars, marsVars, effectVars
  <2>2. Row
    BY <1>12, <1>a DEF FindImagePack
  <2> QED BY <2>1, <2>2
<1>13. CASE UpdateCustomer(r)
  BY <1>13, <1>a, <1>b, <1>l, CustomerLocal DEF UpdateCustomer
<1>14. CASE WriteCreatingCard(r)
  BY <1>14, <1>a, <1>b, <1>l, <1>s, <1>f, UpdateLocal DEF WriteCreatingCard
<1>15. CASE RefreshBalances(r)
  <2>1. Local(Labels, r)
    BY <1>15, <1>a, <1>l, <1>f DEF RefreshBalances, Local, Same, PurchaseTypeOK, Succeeds, Throws,
       serviceVars, marsVars, effectVars
  <2>2. Row
    BY <1>15, <1>a DEF RefreshBalances
  <2> QED BY <2>1, <2>2
<1>16. CASE SaveCard(r)
  <2>1. Local(Labels, r)
    BY <1>16, <1>a, <1>l, <1>f DEF SaveCard, Local, Same, PurchaseTypeOK, Succeeds, Throws,
       serviceVars, marsVars, effectVars
  <2>2. Row
    BY <1>16, <1>a DEF SaveCard
  <2> QED BY <2>1, <2>2
<1>17. CASE WriteCreatingSnapshot(r)
  BY <1>17, <1>a, <1>b, <1>l, <1>s, <1>f, UpdateLocal DEF WriteCreatingSnapshot
<1>18. CASE Snapshot(r)
  BY <1>18, <1>a, <1>b, <1>l, SnapshotLocal DEF Snapshot
<1>19. CASE DeleteState(r)
  BY <1>19, <1>a, <1>b, <1>l, <1>s, <1>f, UpdateLocal DEF DeleteState, DeleteTransactionState
<1>20. CASE Catch(r)
  BY <1>20, <1>a, <1>b, <1>l, CatchLocal DEF Catch
<1>21. CASE Outside(r)
  BY <1>21, <1>a, <1>b, <1>l, MarsDecidesLocal, CrashLocal DEF Outside
<1> QED
  BY <1>1, <1>2, <1>3, <1>4, <1>5, <1>6, <1>7, <1>8, <1>9, <1>10, <1>11, <1>12,
     <1>13, <1>14, <1>15, <1>16, <1>17, <1>18, <1>19, <1>20, <1>21 DEF Handler

\* The initial state has the types.
LEMMA TypeInit == Init => TypeOK
BY DEF Init, TypeOK, PurchaseInit, PurchaseTypeOK, Labels, Terminal, NoRecord

\* Every step, stuttering included, keeps the types.
LEMMA TypeNext == TypeOK /\ [Next]_vars => TypeOK'
<1> SUFFICES ASSUME TypeOK, [Next]_vars PROVE TypeOK'
  OBVIOUS
<1>1. CASE UNCHANGED vars
  BY <1>1 DEF TypeOK, PurchaseTypeOK, vars, purchaseVars, serviceVars, marsVars, effectVars
<1>2. ASSUME NEW r \in Request, Handler(r) \/ Outside(r) PROVE TypeOK'
  BY <1>2, StepLocal
<1> QED
  BY <1>1, <1>2 DEF Next, Done

\* The types of powercardVirtualPurchaseCreate's state hold throughout
\* (TypeOK of VirtualPurchase).
THEOREM TypeCorrect == Spec => []TypeOK
<1>1. Init => TypeOK
  BY TypeInit
<1>2. TypeOK /\ [Next]_vars => TypeOK'
  BY TypeNext
<1> QED
  BY <1>1, <1>2, PTL DEF Spec
-----------------------------------------------------------------------------
(* The inductive invariant, request by request *)

\* What the safety properties say of one request.
Fate(r) ==
  /\ pc[r] = "failed" =>
       /\ tx[r] = "void" \/ fault[r] \cap {"record", "void"} # {}
       /\ record[r] = NoRecord \/ fault[r] \cap {"record", "void", "cleanup"} # {}
  /\ tx[r] = "void" =>
       fault[r] # {} /\ pc[r] \in {"voiding", "lookup", "cleanup", "failed", "crashed"}
  /\ record[r] = "AUTHORIZED" =>
       tx[r] = "authorized" /\ mars[r] = "none" /\ r \notin redeemed
  /\ record[r] \in {"REDEEMING_OFFER", "CREATING_VIRTUAL_POWERCARD",
                    "CREATING_POWERCARD_SNAPSHOT"} =>
       tx[r] = "authorized" /\ mars[r] = "applied"
  /\ record[r] \in {"CREATING_VIRTUAL_POWERCARD", "CREATING_POWERCARD_SNAPSHOT"} =>
       (input[r].offer => r \in redeemed) /\ (input[r].isNew => r \in notNew)
  /\ record[r] = "CREATING_POWERCARD_SNAPSHOT" => r \in cards

\* What CardIsBacked says of one request.
Backed(r) ==
  /\ r \in cards =>
       /\ mars[r] = "applied" /\ ~timedOut[r]
       /\ input[r].offer => r \in redeemed
       /\ input[r].isNew => r \in notNew
  /\ pc[r] = "returned" => r \in cards

\* What the requests are by themselves.
Each(r) ==
  /\ Fate(r) /\ Backed(r) /\ BeforePayment(r) /\ BeforeMars(r)
  /\ AfterMars(r) /\ Voiding(r) /\ Settled(r)

\* IInv is a statement about each request by itself, and one about the claims.
LEMMA InvByRequest ==
  IInv <=> TypeOK /\ OneClaimUnlessRaced /\ \A r \in Request : Each(r)
BY DEF IInv, Each, Fate, Backed, VoidedUnlessCutShort, VoidOnlyAfterFailure,
   RecordIsReliable, CardIsBacked

\* A request that a step leaves alone keeps its part of the invariant.
LEMMA OthersKeep ==
  ASSUME NEW x \in Request, Each(x), Alone(x)
  PROVE  Each(x)'
BY DEF Each, Fate, Backed, BeforePayment, BeforeMars, AfterMars, WithCard, WithOffer,
   WithCustomer, WithRow, WithSnapshot, Voiding, Settled, Unserved, Sound, Same, Alone

\* A step of a request keeps that request's part of the invariant.
LEMMA OwnStepKeeps ==
  ASSUME TypeOK, NEW r \in Request, Each(r), Handler(r) \/ Outside(r)
  PROVE  Each(r)'
<1> USE DEF Each, Fate, Backed, BeforePayment, BeforeMars, AfterMars, WithCard, WithOffer,
    WithCustomer, WithRow, WithSnapshot, Voiding, Settled, Unserved, Sound, serviceVars,
    marsVars, effectVars, NoRecord
<1>t. PurchaseTypeOK(Labels) /\ cards \subseteq Request
  BY DEF TypeOK
<1>1. CASE Begin(r)
  BY <1>1, <1>t DEF Begin, PurchaseTypeOK, Succeeds, Throws
<1>2. CASE Start(r)
  BY <1>2, <1>t DEF Start, TransactionStart, PurchaseTypeOK, Succeeds, Throws
<1>3. CASE WriteAuthorized(r)
  BY <1>3, <1>t, UpdateEffect DEF WriteAuthorized
<1>4. CASE WriteActivating(r)
  BY <1>4, <1>t, UpdateEffect DEF WriteActivating
<1>5. CASE Activate(r)
  BY <1>5, <1>t DEF Activate, MarsSend, PurchaseTypeOK, Succeeds, Throws
<1>6. CASE ActivateDone(r)
  BY <1>6, <1>t DEF ActivateDone, MarsAnswers, PurchaseTypeOK, Succeeds, Throws
<1>7. CASE ActivateFailed(r)
  BY <1>7, <1>t, MarsFailsEffect DEF ActivateFailed, Passes, Faults
<1>8. CASE InnerLookup(r)
  BY <1>8, <1>t, VoidLookupEffect DEF InnerLookup, Passes, Faults
<1>9. CASE InnerVoid(r)
  <2>1. VoidSent(r, "innerVoid", FALSE, "voiding", "voiding")
    BY <1>9, <1>t, VoidSendEffect DEF InnerVoid
  <2> QED BY <1>9, <2>1 DEF InnerVoid, VoidSent, Passes, Faults
<1>10. CASE WriteRedeeming(r)
  BY <1>10, <1>t, UpdateEffect DEF WriteRedeeming
<1>11. CASE Redeem(r)
  BY <1>11, <1>t, RedeemEffect DEF Redeem, Passes, Faults
<1>12. CASE FindImagePack(r)
  <2>1. /\ UNCHANGED <<input, tx, voidsSent, saidTimedOut, record, mars, timedOut, redeemed, notNew,
                       snapshots, cards>>
        /\ \/ Passes(r, "findImagePack", "customer")
           \/ Faults(r, "findImagePack", "voiding", "step")
    BY <1>12, <1>t, SucceedsEffect, ThrowsEffect DEF FindImagePack
  <2>2. CASE Passes(r, "findImagePack", "customer")
    BY <2>1, <2>2 DEF Passes
  <2>3. CASE Faults(r, "findImagePack", "voiding", "step")
    BY <2>1, <2>3 DEF Faults
  <2> QED BY <2>1, <2>2, <2>3
<1>13. CASE UpdateCustomer(r)
  BY <1>13, <1>t, CustomerEffect DEF UpdateCustomer, Passes, Faults
<1>14. CASE WriteCreatingCard(r)
  BY <1>14, <1>t, UpdateEffect DEF WriteCreatingCard
<1>15. CASE RefreshBalances(r)
  <2>1. /\ UNCHANGED <<input, tx, voidsSent, saidTimedOut, record, mars, timedOut, redeemed, notNew,
                       snapshots, cards>>
        /\ \/ Passes(r, "refreshBalances", "saveCard")
           \/ Faults(r, "refreshBalances", "voiding", "step")
    BY <1>15, <1>t, SucceedsEffect, ThrowsEffect DEF RefreshBalances
  <2>2. CASE Passes(r, "refreshBalances", "saveCard")
    BY <2>1, <2>2 DEF Passes
  <2>3. CASE Faults(r, "refreshBalances", "voiding", "step")
    BY <2>1, <2>3 DEF Faults
  <2> QED BY <2>1, <2>2, <2>3
<1>16. CASE SaveCard(r)
  <2>1. /\ UNCHANGED <<input, tx, voidsSent, saidTimedOut, record, mars, timedOut, redeemed, notNew,
                       snapshots>>
        /\ \/ Passes(r, "saveCard", "creatingSnapshot") /\ cards' = cards \cup {r}
           \/ Faults(r, "saveCard", "voiding", "step") /\ cards' \in {cards, cards \cup {r}}
    BY <1>16, <1>t, SucceedsEffect, ThrowsEffect DEF SaveCard
  <2>2. CASE Passes(r, "saveCard", "creatingSnapshot") /\ cards' = cards \cup {r}
    BY <2>1, <2>2 DEF Passes
  <2>3. CASE Faults(r, "saveCard", "voiding", "step") /\ cards' \in {cards, cards \cup {r}}
    BY <2>1, <2>3 DEF Faults
  <2> QED BY <2>1, <2>2, <2>3
<1>17. CASE WriteCreatingSnapshot(r)
  BY <1>17, <1>t, UpdateEffect DEF WriteCreatingSnapshot
<1>18. CASE Snapshot(r)
  BY <1>18, <1>t, SnapshotEffect DEF Snapshot, Passes, Faults
<1>19. CASE DeleteState(r)
  BY <1>19, <1>t, UpdateEffect DEF DeleteState, DeleteTransactionState
<1>20. CASE Catch(r)
  <2>1. CASE WriteVoiding(r)
    BY <1>20, <2>1, <1>t, UpdateEffect DEF WriteVoiding, Catch
  <2>2. CASE OuterLookup(r)
    BY <1>20, <2>2, <1>t, VoidLookupEffect DEF OuterLookup, Catch, Passes, Faults
  <2>3. CASE OuterVoid(r)
    <3>1. VoidSent(r, "void", FALSE, "cleanup", "failed")
      BY <2>3, <1>t, VoidSendEffect DEF OuterVoid
    <3> QED BY <1>20, <3>1 DEF Catch, VoidSent, Passes, Faults
  <2>4. CASE CleanUp(r)
    BY <1>20, <2>4, <1>t, UpdateEffect DEF CleanUp, DeleteTransactionState, Catch
  <2> QED BY <1>20, <2>1, <2>2, <2>3, <2>4 DEF Catch, CatchBlock
<1>21. CASE Outside(r)
  <2>1. CASE MarsDecides(r)
    BY <1>21, <2>1, <1>t DEF MarsDecides, PurchaseTypeOK, Outside
  <2>2. CASE Crash(r)
    BY <1>21, <2>2, <1>t DEF Crash, Terminal, PurchaseTypeOK, Outside
  <2> QED BY <1>21, <2>1, <2>2 DEF Outside
<1> QED
  BY <1>1, <1>2, <1>3, <1>4, <1>5, <1>6, <1>7, <1>8, <1>9, <1>10, <1>11, <1>12,
     <1>13, <1>14, <1>15, <1>16, <1>17, <1>18, <1>19, <1>20, <1>21 DEF Handler
-----------------------------------------------------------------------------
(* The claims of digital cards *)

\* Only the check at the start makes a claim or a race.
LEMMA OnlyBeginClaims ==
  ASSUME TypeOK, NEW r \in Request, Handler(r) \/ Outside(r), ~Begin(r)
  PROVE  raced' = raced /\ (Claims(r)' => Claims(r))
<1>1. CASE MarsDecides(r) /\ UNCHANGED cardVars
  BY <1>1 DEF MarsDecides, Claims
<1>2. CASE Crash(r) /\ UNCHANGED cardVars
  BY <1>2 DEF Crash, Claims
<1>3. CASE Handler(r)
  <2>1. raced' = raced
    BY <1>3 DEF Handler, Start, WriteAuthorized, WriteActivating, Activate, ActivateDone,
       ActivateFailed, InnerLookup, InnerVoid, WriteRedeeming, Redeem, FindImagePack,
       UpdateCustomer, WriteCreatingCard, RefreshBalances, SaveCard, WriteCreatingSnapshot,
       Snapshot, DeleteState, Catch
  <2>2. pc[r] \notin Terminal \cup {"idle"}
    BY <1>3 DEF Handler, Start, TransactionStart, WriteAuthorized, WriteActivating, Activate,
       MarsSend, ActivateDone, MarsAnswers, ActivateFailed, MarsFails, InnerLookup, VoidLookup,
       InnerVoid, VoidSend, WriteRedeeming, Redeem, RedeemOffer, FindImagePack, UpdateCustomer,
       MakeCustomerNotNew, WriteCreatingCard, RefreshBalances, SaveCard,
       WriteCreatingSnapshot, Snapshot, CreatePowercardBalanceSnapshot, DeleteState,
       DeleteTransactionState, UpdateTransactionState, Catch, CatchBlock, WriteVoiding,
       OuterLookup, OuterVoid, CleanUp, Succeeds, Throws, Terminal
  <2> QED
    BY <2>1, <2>2 DEF Claims
<1> QED
  BY <1>1, <1>2, <1>3 DEF Outside

\* A claim beside another one is made only in a race, which the step records.
LEMMA BeginKeepsClaims ==
  ASSUME OneClaimUnlessRaced, NEW r \in Request, Begin(r),
         \A x \in Request \ {r} : Alone(x)
  PROVE  OneClaimUnlessRaced'
<1> SUFFICES ASSUME NEW x \in Request, NEW y \in Request, Claims(x)', Claims(y)',
                    CustomerOf[x] = CustomerOf[y], x # y
             PROVE  CustomerOf[x] \in raced'
  BY DEF OneClaimUnlessRaced
<1>1. raced \subseteq raced' /\ cards' = cards
  BY DEF Begin
<1>2. \A z \in Request \ {r} : Claims(z)' => Claims(z)
  BY DEF Alone, Same, Claims
<1>3. CASE x # r /\ y # r
  BY <1>1, <1>2, <1>3 DEF OneClaimUnlessRaced
<1>4. ASSUME NEW z \in Request \ {r}, Claims(z)', Claims(r)', CustomerOf[z] = CustomerOf[r]
      PROVE  CustomerOf[r] \in raced'
  <2>1. CASE r \in cards
    BY <1>1, <1>2, <1>4, <2>1 DEF OneClaimUnlessRaced, Claims
  <2>2. CASE r \notin cards /\ Succeeds(r, "idle", "start")
    BY <1>2, <1>4, <2>2 DEF Begin, HasVirtualPowercard, Rivals, Undecided, Claims, Succeeds
  <2>3. CASE r \notin cards /\ Succeeds(r, "idle", "rejected")
    BY <1>1, <1>4, <2>3 DEF Claims, Succeeds, Terminal
  <2> QED
    BY <2>1, <2>2, <2>3 DEF Begin
<1> QED
  BY <1>3, <1>4

\* Every step keeps one claim for a customer unless requests raced.
LEMMA ClaimsKept ==
  ASSUME TypeOK, OneClaimUnlessRaced, NEW r \in Request, Handler(r) \/ Outside(r)
  PROVE  OneClaimUnlessRaced'
<1>1. \A x \in Request \ {r} : Alone(x)
  BY StepLocal
<1>2. CASE Begin(r)
  BY <1>1, <1>2, BeginKeepsClaims
<1>3. CASE ~Begin(r)
  <2>1. raced' = raced /\ \A x \in Request : Claims(x)' => Claims(x)
    BY <1>1, <1>3, OnlyBeginClaims DEF Alone, Same, Claims
  <2> QED
    BY <2>1 DEF OneClaimUnlessRaced
<1> QED
  BY <1>2, <1>3
-----------------------------------------------------------------------------
(* The theorems *)

\* The initial state satisfies the inductive invariant.
LEMMA InvInit == Init => IInv
<1> SUFFICES ASSUME Init
             PROVE  TypeOK /\ OneClaimUnlessRaced /\ \A r \in Request : Each(r)
  BY InvByRequest
<1>3. OneClaimUnlessRaced
  BY DEF Init, PurchaseInit, OneClaimUnlessRaced, Claims
<1>1. TypeOK
  BY TypeInit
<1>2. ASSUME NEW r \in Request PROVE Each(r)
  BY DEF Init, PurchaseInit, Each, Fate, Backed, BeforePayment, BeforeMars, AfterMars,
     WithCard, WithOffer, WithCustomer, WithRow, WithSnapshot, Voiding, Settled, Unserved,
     Sound, NoRecord
<1> QED
  BY <1>1, <1>2, <1>3

\* Every step of the specification preserves the inductive invariant.
LEMMA InvNext == IInv /\ [Next]_vars => IInv'
<1> SUFFICES ASSUME TypeOK, OneClaimUnlessRaced, \A x \in Request : Each(x), [Next]_vars
             PROVE  TypeOK' /\ OneClaimUnlessRaced' /\ \A x \in Request : Each(x)'
  BY InvByRequest DEF IInv, Each, Fate, Backed, VoidedUnlessCutShort,
     VoidOnlyAfterFailure, RecordIsReliable, CardIsBacked
<1>1. CASE UNCHANGED vars
  <2>1. \A x \in Request : Alone(x)
    BY <1>1 DEF vars, purchaseVars, serviceVars, marsVars, effectVars, Same, Alone
  <2>2. OneClaimUnlessRaced'
    BY <1>1 DEF vars, purchaseVars, OneClaimUnlessRaced, Claims
  <2> QED
    BY <1>1, <2>1, <2>2, OthersKeep, TypeNext
<1>2. ASSUME NEW r \in Request, Handler(r) \/ Outside(r)
      PROVE  TypeOK' /\ OneClaimUnlessRaced' /\ \A x \in Request : Each(x)'
  <2>1. TypeOK' /\ \A x \in Request \ {r} : Alone(x)
    BY <1>2, StepLocal
  <2>2. Each(r)'
    BY <1>2, OwnStepKeeps
  <2>3. ASSUME NEW x \in Request \ {r} PROVE Each(x)'
    BY <2>1, OthersKeep
  <2>4. OneClaimUnlessRaced'
    BY <1>2, ClaimsKept
  <2> QED
    BY <2>1, <2>2, <2>3, <2>4
<1> QED
  BY <1>1, <1>2 DEF Next, Done

\* The inductive invariant of powercardVirtualPurchaseCreate holds throughout.
THEOREM Invariance == Spec => []IInv
<1>1. Init => IInv
  BY InvInit
<1>2. IInv /\ [Next]_vars => IInv'
  BY InvNext
<1> QED
  BY <1>1, <1>2, PTL DEF Spec

\* A digital purchase that returns is paid and delivered (SuccessIsComplete).
THEOREM Success == Spec => []SuccessIsComplete
<1>1. IInv => SuccessIsComplete
  BY DEF IInv, SuccessIsComplete, AfterMars, WithCard, WithOffer, WithCustomer, WithRow,
     WithSnapshot, Settled, Sound
<1> QED
  BY <1>1, Invariance, PTL

\* A digital purchase that fails is voided unless Redis or the transaction service
\* cut the catch block short (VoidedUnlessCutShort), and a payment is only
\* voided on the way to an error (VoidOnlyAfterFailure).
THEOREM Voids == Spec => [](VoidedUnlessCutShort /\ VoidOnlyAfterFailure)
<1>1. IInv => VoidedUnlessCutShort /\ VoidOnlyAfterFailure
  BY DEF IInv
<1> QED
  BY <1>1, Invariance, PTL

\* The progress record in Redis is never ahead of the work (RecordIsReliable).
THEOREM Record == Spec => []RecordIsReliable
<1>1. IInv => RecordIsReliable
  BY DEF IInv
<1> QED
  BY <1>1, Invariance, PTL

\* A digital card has a row only for an activation MARS applied, and every
\* purchase that returns has its row (CardIsBacked).
THEOREM Backing == Spec => []CardIsBacked
<1>1. IInv => CardIsBacked
  BY DEF IInv
<1> QED
  BY <1>1, Invariance, PTL

\* A customer has one digital card unless a purchase passed the check while
\* another had not saved its row (OneVirtualPowercardUnlessRaced).
THEOREM OneCard == Spec => []OneVirtualPowercardUnlessRaced
<1>1. IInv => OneVirtualPowercardUnlessRaced
  BY DEF IInv, TypeOK, OneClaimUnlessRaced, Claims, OneVirtualPowercardUnlessRaced
<1> QED
  BY <1>1, Invariance, PTL

\* Only the two void calls of a handler count voids.
LEMMA VoidsCounted ==
  ASSUME TypeOK, NEW r \in Request, Handler(r) \/ Outside(r)
  PROVE  voidsSent' = voidsSent \/ InnerVoid(r) \/ OuterVoid(r)
BY DEF Handler, Outside, Begin, Start, TransactionStart, WriteAuthorized, WriteActivating,
   Activate, MarsSend, ActivateDone, MarsAnswers, ActivateFailed, MarsFails, InnerLookup,
   VoidLookup, WriteRedeeming, Redeem, RedeemOffer, FindImagePack, UpdateCustomer,
   MakeCustomerNotNew, WriteCreatingCard, RefreshBalances, SaveCard, WriteCreatingSnapshot,
   Snapshot, CreatePowercardBalanceSnapshot, DeleteState, DeleteTransactionState,
   UpdateTransactionState, Catch, CatchBlock, WriteVoiding, OuterLookup, CleanUp,
   MarsDecides, Crash, serviceVars

\* No void call leaves for a payment that is already void (NoVoidOfVoided).
THEOREM VoidsOnce == Spec => NoVoidOfVoided
<1> DEFINE A == \A r \in Request : voidsSent'[r] > voidsSent[r] => tx[r] = "authorized"
<1>1. IInv /\ [Next]_vars => [A]_purchaseVars
  <2> SUFFICES ASSUME IInv, [Next]_vars, NEW x \in Request, voidsSent'[x] > voidsSent[x]
               PROVE  tx[x] = "authorized"
    OBVIOUS
  <2>1. voidsSent \in [Request -> Nat] /\ TypeOK
    BY DEF IInv, TypeOK, PurchaseTypeOK
  <2>2. PICK r \in Request : InnerVoid(r) \/ OuterVoid(r)
    BY <2>1, VoidsCounted DEF Next, Done, vars, purchaseVars, serviceVars
  <2>3. x = r
    BY <2>1, <2>2 DEF InnerVoid, OuterVoid, VoidSend
  <2> QED
    BY <2>2, <2>3 DEF IInv, Voiding, InnerVoid, OuterVoid, VoidSend, Succeeds, Throws
<1> QED
  BY <1>1, Invariance, PTL DEF Spec, NoVoidOfVoided

-----------------------------------------------------------------------------
(* The contract *)

\* A step that leaves the payment and MARS alone, and does not return.
Plain(r) ==
  /\ \E l \in Labels \ {"returned"} : pc' = [pc EXCEPT ![r] = l]
  /\ pc[r] \notin Terminal
  /\ UNCHANGED <<tx, mars>>

\* Such a step is a stutter of the contract, or a refusal.
LEMMA PlainKeeps ==
  ASSUME TypeOK, NEW r \in Request, Plain(r)
  PROVE  [Contract!Next]_(Contract!vars)
<1>1. pc \in [Request -> Labels] /\ UNCHANGED credited
  BY DEF TypeOK, PurchaseTypeOK, Plain, credited
<1>2. PICK l \in Labels \ {"returned"} : pc' = [pc EXCEPT ![r] = l]
  BY DEF Plain
<1> QED
  BY <1>1, <1>2, PlainStep DEF Plain, Answer, Terminal

\* Every step of powercardVirtualPurchaseCreate is a step or a stutter of PurchaseContract.
LEMMA StepKeepsContract ==
  ASSUME IInv, NEW r \in Request, Handler(r) \/ Outside(r)
  PROVE  [Contract!Next]_(Contract!vars)
<1>t. /\ TypeOK /\ pc \in [Request -> Labels]
      /\ mars \in [Request -> {"none", "inflight", "applied", "refused"}]
      /\ tx \in [Request -> {"none", "authorized", "void"}]
  BY DEF IInv, TypeOK, PurchaseTypeOK
<1>p. Plain(r) => [Contract!Next]_(Contract!vars)
  BY <1>t, PlainKeeps
<1>c. UNCHANGED mars => UNCHANGED credited
  BY DEF credited
<1>1. CASE Begin(r)
  BY <1>1, <1>p DEF Begin, Plain, Labels, Terminal,
     Succeeds, Throws, serviceVars, marsVars
<1>2. CASE WriteAuthorized(r)
  BY <1>2, <1>p DEF WriteAuthorized, UpdateTransactionState, Plain, Labels, Terminal,
     Succeeds, Throws, serviceVars, marsVars
<1>3. CASE WriteActivating(r)
  BY <1>3, <1>p DEF WriteActivating, UpdateTransactionState, Plain, Labels, Terminal,
     Succeeds, Throws, serviceVars, marsVars
<1>4. CASE ActivateDone(r)
  BY <1>4, <1>p DEF ActivateDone, MarsAnswers, Plain, Labels, Terminal,
     Succeeds, Throws, serviceVars, marsVars
<1>5. CASE ActivateFailed(r)
  BY <1>5, <1>p DEF ActivateFailed, MarsFails, Plain, Labels, Terminal,
     Succeeds, Throws, serviceVars, marsVars
<1>6. CASE InnerLookup(r)
  BY <1>6, <1>p DEF InnerLookup, VoidLookup, Plain, Labels, Terminal,
     Succeeds, Throws, serviceVars, marsVars
<1>7. CASE WriteRedeeming(r)
  BY <1>7, <1>p DEF WriteRedeeming, UpdateTransactionState, Plain, Labels, Terminal,
     Succeeds, Throws, serviceVars, marsVars
<1>8. CASE Redeem(r)
  BY <1>8, <1>p DEF Redeem, RedeemOffer, Plain, Labels, Terminal,
     Succeeds, Throws, serviceVars, marsVars
<1>9. CASE FindImagePack(r)
  BY <1>9, <1>p DEF FindImagePack, Plain, Labels, Terminal,
     Succeeds, Throws, serviceVars, marsVars
<1>10. CASE UpdateCustomer(r)
  BY <1>10, <1>p DEF UpdateCustomer, MakeCustomerNotNew, Plain, Labels, Terminal,
     Succeeds, Throws, serviceVars, marsVars
<1>11. CASE WriteCreatingCard(r)
  BY <1>11, <1>p DEF WriteCreatingCard, UpdateTransactionState, Plain, Labels, Terminal,
     Succeeds, Throws, serviceVars, marsVars
<1>12. CASE RefreshBalances(r)
  BY <1>12, <1>p DEF RefreshBalances, Plain, Labels, Terminal,
     Succeeds, Throws, serviceVars, marsVars
<1>13. CASE SaveCard(r)
  BY <1>13, <1>p DEF SaveCard, Plain, Labels, Terminal,
     Succeeds, Throws, serviceVars, marsVars
<1>14. CASE WriteCreatingSnapshot(r)
  BY <1>14, <1>p DEF WriteCreatingSnapshot, UpdateTransactionState, Plain, Labels, Terminal,
     Succeeds, Throws, serviceVars, marsVars
<1>15. CASE Snapshot(r)
  BY <1>15, <1>p DEF Snapshot, CreatePowercardBalanceSnapshot, Plain, Labels, Terminal,
     Succeeds, Throws, serviceVars, marsVars
<1>16. CASE Start(r)
  <2>1. UNCHANGED credited /\ tx[r] = "none" /\ pc[r] = "start"
    BY <1>16, <1>c DEF Start, TransactionStart, Succeeds, marsVars, IInv, BeforePayment
  <2>2. CASE tx' = tx
    BY <1>16, <2>2, <1>p DEF Start, TransactionStart, Plain, Labels, Terminal, Succeeds,
       marsVars
  <2>3. CASE tx' = [tx EXCEPT ![r] = "authorized"]
    BY <1>16, <2>1, <2>3, <1>t, AuthorizeStep DEF Start, TransactionStart, Succeeds, Answer
  <2> QED
    BY <1>16, <2>2, <2>3 DEF Start, TransactionStart
<1>17. CASE Activate(r)
  <2>1. mars[r] = "none"
    BY <1>17 DEF Activate, MarsSend, Succeeds, IInv, BeforeMars, Unserved
  <2>2. UNCHANGED credited
    BY <1>17, <2>1, <1>t, SendIsNoCredit DEF Activate, MarsSend
  <2> QED
    BY <1>17, <2>2, <1>t, PlainStep DEF Activate, MarsSend, Succeeds, serviceVars, Answer
<1>18. CASE InnerVoid(r) \/ OuterVoid(r)
  <2>1. /\ tx[r] = "authorized" /\ pc[r] \in {"innerVoid", "void"}
        /\ UNCHANGED <<mars, credited>>
        /\ tx' = tx \/ tx' = [tx EXCEPT ![r] = "void"]
        /\ \E l \in {"voiding", "cleanup", "failed"} : pc' = [pc EXCEPT ![r] = l]
    BY <1>18, <1>c DEF InnerVoid, OuterVoid, VoidSend, Succeeds, Throws, marsVars, IInv,
       Voiding
  <2>2. PICK l \in {"voiding", "cleanup", "failed"} : pc' = [pc EXCEPT ![r] = l]
    BY <2>1
  <2>3. CASE tx' = tx
    BY <2>1, <2>2, <2>3, <1>t, PlainStep DEF Answer
  <2>4. CASE tx' = [tx EXCEPT ![r] = "void"]
    BY <2>1, <2>2, <2>4, <1>t, VoidStep DEF Answer
  <2> QED
    BY <2>1, <2>3, <2>4
<1>19. CASE WriteVoiding(r) \/ OuterLookup(r) \/ CleanUp(r)
  BY <1>19, <1>p DEF WriteVoiding, OuterLookup, CleanUp, VoidLookup,
     DeleteTransactionState, UpdateTransactionState, Plain, Labels, Terminal, Succeeds,
     Throws, serviceVars, marsVars
<1>20. CASE DeleteState(r)
  <2>1. /\ pc[r] = "deleteState" /\ tx[r] = "authorized" /\ mars[r] = "applied"
        /\ UNCHANGED <<tx, mars, credited>>
    BY <1>20, <1>c DEF DeleteState, DeleteTransactionState, UpdateTransactionState,
       Succeeds, Throws, serviceVars, marsVars, IInv, AfterMars, WithCard,
       WithOffer, WithCustomer, WithRow, WithSnapshot, Sound
  <2>2. CASE pc' = [pc EXCEPT ![r] = "returned"]
    BY <2>1, <2>2, <1>t, ConfirmStep DEF Answer
  <2>3. CASE pc' = [pc EXCEPT ![r] = "voiding"]
    BY <2>1, <2>3, <1>t, PlainStep DEF Answer
  <2> QED
    BY <1>20, <2>2, <2>3 DEF DeleteState, DeleteTransactionState, UpdateTransactionState,
       Succeeds, Throws
<1>21. CASE MarsDecides(r)
  BY <1>21, <1>t, DecideStep DEF MarsDecides, IInv, Settled
<1>22. CASE Crash(r)
  BY <1>22, <1>p DEF Crash, Plain, Labels, Terminal, serviceVars, marsVars
<1> QED
  BY <1>1, <1>2, <1>3, <1>4, <1>5, <1>6, <1>7, <1>8, <1>9, <1>10, <1>11, <1>12, <1>13,
     <1>14, <1>15, <1>16, <1>17, <1>18, <1>19, <1>20, <1>21, <1>22
     DEF Handler, Outside, Catch, CatchBlock

(***************************************************************************)
(* powercardVirtualPurchaseCreate implements PurchaseContract              *)
(* (KeepsContract): whatever fails or crashes, no purchase is confirmed    *)
(* that is not paid and credited, none is credited without a payment, and  *)
(* no payment is voided once the customer has an answer.                   *)
(***************************************************************************)
THEOREM Implements == Spec => KeepsContract
<1>1. Init => Contract!Init
  BY DEF Init, PurchaseInit, Contract!Init, credited, replies
<1>2. IInv /\ [Next]_vars => [Contract!Next]_(Contract!vars)
  <2> SUFFICES ASSUME IInv, [Next]_vars PROVE [Contract!Next]_(Contract!vars)
    OBVIOUS
  <2>1. CASE UNCHANGED vars
    BY <2>1 DEF vars, purchaseVars, serviceVars, marsVars, Contract!vars, credited,
       replies
  <2>2. ASSUME NEW r \in Request, Handler(r) \/ Outside(r)
        PROVE  [Contract!Next]_(Contract!vars)
    BY <2>2, StepKeepsContract
  <2> QED
    BY <2>1, <2>2 DEF Next, Done
<1> QED
  BY <1>1, <1>2, Invariance, PTL DEF Spec, KeepsContract, Contract!Spec
=============================================================================
