---------------------------- MODULE FundsAddProofs ----------------------------
(***************************************************************************)
(* Proofs about FundsAdd for every set of requests, cards and inputs.      *)
(***************************************************************************)
EXTENDS FundsAdd, PurchaseTransactionProofs

(***************************************************************************)
(* Every step of a recharge keeps the types and leaves the payment, the    *)
(* record, the MARS call and the effects of every other request alone.     *)
(* Only the card's row is shared.                                          *)
(***************************************************************************)
LEMMA StepLocal ==
  ASSUME TypeOK, NEW r \in Request, Handler(r) \/ Outside(r)
  PROVE  Local(Labels, r) /\ easy' = easy /\ TypeOK'
<1> DEFINE Rows == rows' \in [Card -> Row] /\ entity' \in [Request -> Row] /\ easy' = easy
<1> SUFFICES Local(Labels, r) /\ Rows
  BY DEF TypeOK, Local
<1>a. PurchaseTypeOK(Labels) /\ rows \in [Card -> Row] /\ entity \in [Request -> Row]
  BY DEF TypeOK
<1>b. UNCHANGED rowVars => Rows
  BY <1>a DEF rowVars
<1>l. /\ Terminal \cup {"idle", "start", "authorized", "saveEasy", "recharging", "recharge",
         "marsReply", "innerLookup", "innerVoid", "resetFind", "resetSave", "redeem",
         "updating", "customer", "creatingSnapshot", "snapshot", "deleteState", "voiding",
         "lookup", "void", "cleanup"} = Labels
      /\ {"returned", "rejected", "failed", "crashed"} = Terminal
  BY DEF Labels, Terminal
<1>s. TransactionStates \cup {NoRecord} =
        {"AUTHORIZED", "ACTIVATING_VIRTUAL_POWERCARD", "CREATING_VIRTUAL_POWERCARD",
         "UPDATING_CUSTOMER", "RECHARGING_POWERCARD", "REDEEMING_OFFER",
         "CREATING_POWERCARD_SNAPSHOT", "VOIDING_TRANSACTION", NoRecord}
  BY DEF TransactionStates
<1>f. FaultKind = {"step", "record", "void", "cleanup"}
  BY DEF FaultKind
<1>1. CASE Begin(r)
  <2>1. Local(Labels, r)
    BY <1>1, <1>a, <1>l DEF Begin, Local, Same, PurchaseTypeOK, Succeeds,
       serviceVars, marsVars, effectVars
  <2>2. Rows
    BY <1>1, <1>a, FundsAddAssumption DEF Begin
  <2> QED BY <2>1, <2>2
<1>2. CASE Start(r)
  BY <1>2, <1>a, <1>b, <1>l, StartLocal DEF Start
<1>3. CASE WriteAuthorized(r)
  <2>1. CASE easy[r] = "absent"
    BY <1>3, <2>1, <1>a, <1>b, <1>l, <1>s, <1>f, UpdateLocal DEF WriteAuthorized
  <2>2. CASE easy[r] # "absent"
    BY <1>3, <2>2, <1>a, <1>b, <1>l, <1>s, <1>f, UpdateLocal DEF WriteAuthorized
  <2> QED BY <2>1, <2>2
<1>4. CASE SaveEasyRecharge(r)
  <2>1. Local(Labels, r)
    BY <1>4, <1>a, <1>l, <1>f DEF SaveEasyRecharge, Local, Same, PurchaseTypeOK, Succeeds,
       Throws, serviceVars, marsVars, effectVars
  <2>2. [entity[r] EXCEPT !.enabled = (easy[r] = "on")] \in Row
    BY <1>a DEF Row
  <2>3. Rows
    BY <1>4, <2>2, <1>a, FundsAddAssumption DEF SaveEasyRecharge
  <2> QED BY <2>1, <2>3
<1>5. CASE WriteRecharging(r)
  BY <1>5, <1>a, <1>b, <1>l, <1>s, <1>f, UpdateLocal DEF WriteRecharging
<1>6. CASE Recharge(r)
  BY <1>6, <1>a, <1>b, <1>l, MarsSendLocal DEF Recharge
<1>7. CASE RechargeDone(r)
  BY <1>7, <1>a, <1>b, <1>l, MarsAnswersLocal DEF RechargeDone
<1>8. CASE RechargeFailed(r)
  BY <1>8, <1>a, <1>b, <1>l, MarsFailsLocal DEF RechargeFailed
<1>9. CASE InnerLookup(r)
  BY <1>9, <1>a, <1>b, <1>l, VoidLookupLocal DEF InnerLookup
<1>10. CASE InnerVoid(r)
  <2>1. timedOut[r] \in BOOLEAN
    BY <1>a DEF PurchaseTypeOK
  <2> QED BY <1>10, <2>1, <1>a, <1>b, <1>l, VoidSendLocal DEF InnerVoid
<1>11. CASE ResetFind(r)
  <2>1. Local(Labels, r)
    BY <1>11, <1>a, <1>l DEF ResetFind, Local, Same, PurchaseTypeOK, Succeeds,
       serviceVars, marsVars, effectVars
  <2>2. [rows[CardOf[r]] EXCEPT !.sent = FALSE] \in Row
    BY <1>a, FundsAddAssumption DEF Row
  <2>3. Rows
    BY <1>11, <2>2, <1>a DEF ResetFind
  <2> QED BY <2>1, <2>3
<1>12. CASE ResetSave(r)
  <2>1. Local(Labels, r)
    BY <1>12, <1>a, <1>l DEF ResetSave, Local, Same, PurchaseTypeOK, Succeeds,
       serviceVars, marsVars, effectVars
  <2>2. Rows
    BY <1>12, <1>a, FundsAddAssumption DEF ResetSave
  <2> QED BY <2>1, <2>2
<1>13. CASE Redeem(r)
  BY <1>13, <1>a, <1>b, <1>l, RedeemLocal DEF Redeem
<1>14. CASE WriteUpdatingCustomer(r)
  BY <1>14, <1>a, <1>b, <1>l, <1>s, <1>f, UpdateLocal DEF WriteUpdatingCustomer
<1>15. CASE UpdateCustomer(r)
  BY <1>15, <1>a, <1>b, <1>l, CustomerLocal DEF UpdateCustomer
<1>16. CASE WriteCreatingSnapshot(r)
  BY <1>16, <1>a, <1>b, <1>l, <1>s, <1>f, UpdateLocal DEF WriteCreatingSnapshot
<1>17. CASE Snapshot(r)
  BY <1>17, <1>a, <1>b, <1>l, SnapshotLocal DEF Snapshot
<1>18. CASE DeleteState(r)
  BY <1>18, <1>a, <1>b, <1>l, <1>s, <1>f, UpdateLocal DEF DeleteState, DeleteTransactionState
<1>19. CASE Catch(r)
  BY <1>19, <1>a, <1>b, <1>l, CatchLocal DEF Catch
<1>20. CASE Outside(r)
  BY <1>20, <1>a, <1>b, <1>l, MarsDecidesLocal, CrashLocal DEF Outside
<1> QED
  BY <1>1, <1>2, <1>3, <1>4, <1>5, <1>6, <1>7, <1>8, <1>9, <1>10, <1>11, <1>12, <1>13,
     <1>14, <1>15, <1>16, <1>17, <1>18, <1>19, <1>20 DEF Handler

\* The initial state has the types.
LEMMA TypeInit == Init => TypeOK
BY DEF Init, TypeOK, PurchaseInit, PurchaseTypeOK, Labels, Terminal, NoRecord, Row, Blank

\* Every step, stuttering included, keeps the types.
LEMMA TypeNext == TypeOK /\ [Next]_vars => TypeOK'
<1> SUFFICES ASSUME TypeOK, [Next]_vars PROVE TypeOK'
  OBVIOUS
<1>1. CASE UNCHANGED vars
  BY <1>1 DEF TypeOK, PurchaseTypeOK, vars, purchaseVars, rowVars, serviceVars, marsVars,
     effectVars
<1>2. ASSUME NEW r \in Request, Handler(r) \/ Outside(r) PROVE TypeOK'
  BY <1>2, StepLocal
<1> QED
  BY <1>1, <1>2 DEF Next, Done

\* The types of powercardFundsAdd's state hold throughout (TypeOK of FundsAdd).
THEOREM TypeCorrect == Spec => []TypeOK
<1>1. Init => TypeOK
  BY TypeInit
<1>2. TypeOK /\ [Next]_vars => TypeOK'
  BY TypeNext
<1> QED
  BY <1>1, <1>2, PTL DEF Spec
-----------------------------------------------------------------------------
(* The inductive invariant, request by request *)

\* What the safety properties say of one request.
Fate(r) ==
  /\ pc[r] = "failed" =>
       /\ tx[r] = "void" \/ fault[r] \cap {"record", "void"} # {}
       /\ record[r] = NoRecord \/ fault[r] \cap {"record", "void", "cleanup"} # {}
  /\ tx[r] = "void" =>
       fault[r] # {} /\ pc[r] \in {"voiding", "lookup", "cleanup", "failed", "crashed"}
  /\ record[r] = "AUTHORIZED" =>
       tx[r] = "authorized" /\ mars[r] = "none" /\ r \notin redeemed
  /\ record[r] = "RECHARGING_POWERCARD" => r \notin notNew \cup snapshots
  /\ record[r] \in {"UPDATING_CUSTOMER", "CREATING_POWERCARD_SNAPSHOT"} =>
       /\ tx[r] = "authorized" /\ mars[r] = "applied"
       /\ input[r].offer => r \in redeemed
  /\ record[r] = "CREATING_POWERCARD_SNAPSHOT" => (input[r].isNew => r \in notNew)
  /\ (tx[r] = "void" /\ "void" \notin fault[r]) => (saidTimedOut[r] <=> timedOut[r])

Each(r) ==
  /\ Fate(r) /\ BeforePayment(r) /\ BeforeMars(r) /\ AfterMars(r)
  /\ Voiding(r) /\ Flagged(r) /\ Settled(r)

\* IInv is a statement about each request by itself.
LEMMA InvByRequest == IInv <=> TypeOK /\ \A r \in Request : Each(r)
BY DEF IInv, Each, Fate, VoidedUnlessCutShort, VoidOnlyAfterFailure, RecordIsReliable,
   TimeoutIsReported

\* A request that a step leaves alone keeps its part of the invariant.
LEMMA OthersKeep ==
  ASSUME NEW x \in Request, Each(x), Same(x)
  PROVE  Each(x)'
BY DEF Each, Fate, BeforePayment, BeforeMars, AfterMars, Voiding, Flagged, Settled, Unserved, Sound, Same

\* A step of a request keeps that request's part of the invariant.
LEMMA OwnStepKeeps ==
  ASSUME TypeOK, NEW r \in Request, Each(r), Handler(r) \/ Outside(r)
  PROVE  Each(r)'
<1> USE DEF Each, Fate, BeforePayment, BeforeMars, AfterMars, Voiding, Flagged, Settled, Unserved,
    Sound, serviceVars, marsVars, effectVars, NoRecord
<1>t. PurchaseTypeOK(Labels)
  BY DEF TypeOK
<1>1. CASE Begin(r)
  BY <1>1, <1>t DEF Begin, PurchaseTypeOK, Succeeds, Throws
<1>2. CASE Start(r)
  BY <1>2, <1>t DEF Start, TransactionStart, PurchaseTypeOK, Succeeds, Throws
<1>3. CASE WriteAuthorized(r)
  BY <1>3, <1>t, UpdateEffect DEF WriteAuthorized
<1>4. CASE SaveEasyRecharge(r)
  <2>1. \/ Succeeds(r, "saveEasy", "recharging")
        \/ Throws(r, "saveEasy", "voiding", "step")
    BY <1>4 DEF SaveEasyRecharge
  <2>2. /\ pc[r] = "saveEasy"
        /\ \/ pc'[r] = "recharging" /\ fault'[r] = fault[r]
           \/ pc'[r] = "voiding" /\ fault'[r] = fault[r] \cup {"step"}
    BY <2>1, <1>t DEF PurchaseTypeOK, Succeeds, Throws
  <2>3. UNCHANGED <<input, tx, voidsSent, saidTimedOut, record, mars, timedOut, redeemed,
                    notNew, snapshots>>
    BY <1>4 DEF SaveEasyRecharge
  <2> QED BY <2>2, <2>3
<1>5. CASE WriteRecharging(r)
  BY <1>5, <1>t, UpdateEffect DEF WriteRecharging
<1>6. CASE Recharge(r)
  BY <1>6, <1>t DEF Recharge, MarsSend, PurchaseTypeOK, Succeeds, Throws
<1>7. CASE RechargeDone(r)
  BY <1>7, <1>t DEF RechargeDone, MarsAnswers, PurchaseTypeOK, Succeeds, Throws
<1>8. CASE RechargeFailed(r)
  BY <1>8, <1>t, MarsFailsEffect DEF RechargeFailed, Passes, Faults
<1>9. CASE InnerLookup(r)
  BY <1>9, <1>t, VoidLookupEffect DEF InnerLookup, Passes, Faults
<1>10. CASE InnerVoid(r)
  <2>1. timedOut[r] \in BOOLEAN
    BY <1>t DEF PurchaseTypeOK
  <2>2. VoidSent(r, "innerVoid", timedOut[r], "voiding", "voiding")
    BY <1>10, <2>1, <1>t, VoidSendEffect DEF InnerVoid
  <2> QED BY <2>2 DEF VoidSent, Passes, Faults
<1>11. CASE ResetFind(r)
  BY <1>11, <1>t DEF ResetFind, PurchaseTypeOK, Succeeds, Throws
<1>12. CASE ResetSave(r)
  BY <1>12, <1>t DEF ResetSave, PurchaseTypeOK, Succeeds, Throws
<1>13. CASE Redeem(r)
  BY <1>13, <1>t, RedeemEffect DEF Redeem, Passes, Faults
<1>14. CASE WriteUpdatingCustomer(r)
  BY <1>14, <1>t, UpdateEffect DEF WriteUpdatingCustomer
<1>15. CASE UpdateCustomer(r)
  BY <1>15, <1>t, CustomerEffect DEF UpdateCustomer, Passes, Faults
<1>16. CASE WriteCreatingSnapshot(r)
  BY <1>16, <1>t, UpdateEffect DEF WriteCreatingSnapshot
<1>17. CASE Snapshot(r)
  BY <1>17, <1>t, SnapshotEffect DEF Snapshot, Passes, Faults
<1>18. CASE DeleteState(r)
  BY <1>18, <1>t, UpdateEffect DEF DeleteState, DeleteTransactionState
<1>19. CASE Catch(r)
  <2>1. CASE WriteVoiding(r)
    BY <2>1, <1>t, UpdateEffect DEF WriteVoiding
  <2>2. CASE OuterLookup(r)
    BY <2>2, <1>t, VoidLookupEffect DEF OuterLookup, Passes, Faults
  <2>3. CASE OuterVoid(r)
    <3>1. VoidSent(r, "void", FALSE, "cleanup", "failed")
      BY <2>3, <1>t, VoidSendEffect DEF OuterVoid
    <3> QED BY <3>1 DEF VoidSent, Passes, Faults
  <2>4. CASE CleanUp(r)
    BY <2>4, <1>t, UpdateEffect DEF CleanUp, DeleteTransactionState
  <2> QED BY <1>19, <2>1, <2>2, <2>3, <2>4 DEF Catch, CatchBlock
<1>20. CASE Outside(r)
  <2>1. CASE MarsDecides(r)
    BY <2>1, <1>t DEF MarsDecides, PurchaseTypeOK
  <2>2. CASE Crash(r)
    BY <2>2, <1>t DEF Crash, Terminal, PurchaseTypeOK
  <2> QED BY <1>20, <2>1, <2>2 DEF Outside
<1> QED
  BY <1>1, <1>2, <1>3, <1>4, <1>5, <1>6, <1>7, <1>8, <1>9, <1>10, <1>11, <1>12, <1>13,
     <1>14, <1>15, <1>16, <1>17, <1>18, <1>19, <1>20 DEF Handler

-----------------------------------------------------------------------------
(* The theorems *)

\* The initial state satisfies the inductive invariant.
LEMMA InvInit == Init => IInv
<1> SUFFICES ASSUME Init PROVE TypeOK /\ \A r \in Request : Each(r)
  BY InvByRequest
<1>1. TypeOK
  BY TypeInit
<1>2. ASSUME NEW r \in Request PROVE Each(r)
  BY DEF Init, PurchaseInit, Each, Fate, BeforePayment, BeforeMars, AfterMars, Voiding,
     Flagged, Settled, Unserved, Sound, NoRecord
<1> QED
  BY <1>1, <1>2

\* Every step of the specification preserves the inductive invariant.
LEMMA InvNext == IInv /\ [Next]_vars => IInv'
<1> SUFFICES ASSUME TypeOK, \A x \in Request : Each(x), [Next]_vars
             PROVE  TypeOK' /\ \A x \in Request : Each(x)'
  BY InvByRequest DEF IInv, Each, Fate, VoidedUnlessCutShort, VoidOnlyAfterFailure,
     RecordIsReliable, TimeoutIsReported
<1>1. CASE UNCHANGED vars
  <2>1. \A x \in Request : Same(x)
    BY <1>1 DEF vars, purchaseVars, serviceVars, marsVars, effectVars, Same
  <2> QED
    BY <1>1, <2>1, OthersKeep, TypeNext
<1>2. ASSUME NEW r \in Request, Handler(r) \/ Outside(r)
      PROVE  TypeOK' /\ \A x \in Request : Each(x)'
  <2>1. TypeOK' /\ \A x \in Request \ {r} : Same(x)
    BY <1>2, StepLocal DEF Local
  <2>2. Each(r)'
    BY <1>2, OwnStepKeeps
  <2>3. ASSUME NEW x \in Request \ {r} PROVE Each(x)'
    BY <2>1, OthersKeep
  <2> QED
    BY <2>1, <2>2, <2>3
<1> QED
  BY <1>1, <1>2 DEF Next, Done

\* The inductive invariant of powercardFundsAdd holds throughout.
THEOREM Invariance == Spec => []IInv
<1>1. Init => IInv
  BY InvInit
<1>2. IInv /\ [Next]_vars => IInv'
  BY InvNext
<1> QED
  BY <1>1, <1>2, PTL DEF Spec

\* A recharge that returns is paid and delivered (SuccessIsComplete).
THEOREM Success == Spec => []SuccessIsComplete
<1>1. IInv => SuccessIsComplete
  BY DEF IInv, SuccessIsComplete, AfterMars, Settled, Sound
<1> QED
  BY <1>1, Invariance, PTL

\* A recharge that fails is voided unless Redis or the transaction service
\* cut the catch block short (VoidedUnlessCutShort), and a payment is only
\* voided on the way to an error (VoidOnlyAfterFailure).
THEOREM Voids == Spec => [](VoidedUnlessCutShort /\ VoidOnlyAfterFailure)
<1>1. IInv => VoidedUnlessCutShort /\ VoidOnlyAfterFailure
  BY DEF IInv
<1> QED
  BY <1>1, Invariance, PTL

\* The progress record in Redis is never ahead of the work (RecordIsReliable).
THEOREM Record == Spec => []RecordIsReliable
<1>1. IInv => RecordIsReliable
  BY DEF IInv
<1> QED
  BY <1>1, Invariance, PTL

\* A timed out recharge is reported as such to the transaction service
\* (TimeoutIsReported).
THEOREM Timeout == Spec => []TimeoutIsReported
<1>1. IInv => TimeoutIsReported
  BY DEF IInv
<1> QED
  BY <1>1, Invariance, PTL

\* Only the two void calls of a handler count voids.
LEMMA VoidsCounted ==
  ASSUME TypeOK, NEW r \in Request, Handler(r) \/ Outside(r)
  PROVE  voidsSent' = voidsSent \/ InnerVoid(r) \/ OuterVoid(r)
BY DEF Handler, Outside, Begin, Start, TransactionStart, WriteAuthorized, SaveEasyRecharge,
   WriteRecharging, Recharge, MarsSend, RechargeDone, MarsAnswers, RechargeFailed, MarsFails,
   InnerLookup, VoidLookup, ResetFind, ResetSave, Redeem, RedeemOffer, WriteUpdatingCustomer,
   UpdateCustomer, MakeCustomerNotNew, WriteCreatingSnapshot, Snapshot,
   CreatePowercardBalanceSnapshot, DeleteState, DeleteTransactionState,
   UpdateTransactionState, Catch, CatchBlock, WriteVoiding, OuterLookup, CleanUp,
   MarsDecides, Crash, serviceVars

\* No void call leaves for a payment that is already void (NoVoidOfVoided).
THEOREM VoidsOnce == Spec => NoVoidOfVoided
<1> DEFINE A == \A r \in Request : voidsSent'[r] > voidsSent[r] => tx[r] = "authorized"
<1>1. IInv /\ [Next]_vars => [A]_purchaseVars
  <2> SUFFICES ASSUME IInv, [Next]_vars, NEW x \in Request, voidsSent'[x] > voidsSent[x]
               PROVE  tx[x] = "authorized"
    OBVIOUS
  <2>1. voidsSent \in [Request -> Nat] /\ TypeOK
    BY DEF IInv, TypeOK, PurchaseTypeOK
  <2>2. PICK r \in Request : InnerVoid(r) \/ OuterVoid(r)
    BY <2>1, VoidsCounted DEF Next, Done, vars, purchaseVars, serviceVars
  <2>3. x = r
    BY <2>1, <2>2 DEF InnerVoid, OuterVoid, VoidSend
  <2> QED
    BY <2>2, <2>3 DEF IInv, Voiding, InnerVoid, OuterVoid, VoidSend, Succeeds, Throws
<1> QED
  BY <1>1, Invariance, PTL DEF Spec, NoVoidOfVoided

-----------------------------------------------------------------------------
(* The contract *)

\* A step that leaves the payment and MARS alone, and does not return.
Plain(r) ==
  /\ \E l \in Labels \ {"returned"} : pc' = [pc EXCEPT ![r] = l]
  /\ pc[r] \notin Terminal
  /\ UNCHANGED <<tx, mars>>

\* Such a step is a stutter of the contract, or a refusal.
LEMMA PlainKeeps ==
  ASSUME TypeOK, NEW r \in Request, Plain(r)
  PROVE  [Contract!Next]_(Contract!vars)
<1>1. pc \in [Request -> Labels] /\ UNCHANGED credited
  BY DEF TypeOK, PurchaseTypeOK, Plain, credited
<1>2. PICK l \in Labels \ {"returned"} : pc' = [pc EXCEPT ![r] = l]
  BY DEF Plain
<1> QED
  BY <1>1, <1>2, PlainStep DEF Plain, Answer, Terminal

\* Every step of powercardFundsAdd is a step or a stutter of PurchaseContract.
LEMMA StepKeepsContract ==
  ASSUME IInv, NEW r \in Request, Handler(r) \/ Outside(r)
  PROVE  [Contract!Next]_(Contract!vars)
<1>t. /\ TypeOK /\ pc \in [Request -> Labels]
      /\ mars \in [Request -> {"none", "inflight", "applied", "refused"}]
      /\ tx \in [Request -> {"none", "authorized", "void"}]
  BY DEF IInv, TypeOK, PurchaseTypeOK
<1>p. Plain(r) => [Contract!Next]_(Contract!vars)
  BY <1>t, PlainKeeps
<1>c. UNCHANGED mars => UNCHANGED credited
  BY DEF credited
<1>1. CASE Begin(r)
  BY <1>1, <1>p DEF Begin, Plain, Labels, Terminal, Succeeds, Throws,
     serviceVars, marsVars
<1>2. CASE WriteAuthorized(r)
  BY <1>2, <1>p DEF WriteAuthorized, UpdateTransactionState, Plain, Labels, Terminal, Succeeds, Throws,
     serviceVars, marsVars
<1>3. CASE SaveEasyRecharge(r)
  BY <1>3, <1>p DEF SaveEasyRecharge, Plain, Labels, Terminal, Succeeds, Throws,
     serviceVars, marsVars
<1>4. CASE WriteRecharging(r)
  BY <1>4, <1>p DEF WriteRecharging, UpdateTransactionState, Plain, Labels, Terminal, Succeeds, Throws,
     serviceVars, marsVars
<1>5. CASE RechargeDone(r)
  BY <1>5, <1>p DEF RechargeDone, MarsAnswers, Plain, Labels, Terminal, Succeeds, Throws,
     serviceVars, marsVars
<1>6. CASE RechargeFailed(r)
  BY <1>6, <1>p DEF RechargeFailed, MarsFails, Plain, Labels, Terminal, Succeeds, Throws,
     serviceVars, marsVars
<1>7. CASE InnerLookup(r)
  BY <1>7, <1>p DEF InnerLookup, VoidLookup, Plain, Labels, Terminal, Succeeds, Throws,
     serviceVars, marsVars
<1>8. CASE ResetFind(r)
  BY <1>8, <1>p DEF ResetFind, Plain, Labels, Terminal, Succeeds, Throws,
     serviceVars, marsVars
<1>9. CASE ResetSave(r)
  BY <1>9, <1>p DEF ResetSave, Plain, Labels, Terminal, Succeeds, Throws,
     serviceVars, marsVars
<1>10. CASE Redeem(r)
  BY <1>10, <1>p DEF Redeem, RedeemOffer, Plain, Labels, Terminal, Succeeds, Throws,
     serviceVars, marsVars
<1>11. CASE WriteUpdatingCustomer(r)
  BY <1>11, <1>p DEF WriteUpdatingCustomer, UpdateTransactionState, Plain, Labels, Terminal, Succeeds, Throws,
     serviceVars, marsVars
<1>12. CASE UpdateCustomer(r)
  BY <1>12, <1>p DEF UpdateCustomer, MakeCustomerNotNew, Plain, Labels, Terminal, Succeeds, Throws,
     serviceVars, marsVars
<1>13. CASE WriteCreatingSnapshot(r)
  BY <1>13, <1>p DEF WriteCreatingSnapshot, UpdateTransactionState, Plain, Labels, Terminal, Succeeds, Throws,
     serviceVars, marsVars
<1>14. CASE Snapshot(r)
  BY <1>14, <1>p DEF Snapshot, CreatePowercardBalanceSnapshot, Plain, Labels, Terminal, Succeeds, Throws,
     serviceVars, marsVars
<1>15. CASE Start(r)
  <2>1. UNCHANGED credited /\ tx[r] = "none" /\ pc[r] = "start"
    BY <1>15, <1>c DEF Start, TransactionStart, Succeeds, marsVars, IInv, BeforePayment
  <2>2. CASE tx' = tx
    BY <1>15, <2>2, <1>p DEF Start, TransactionStart, Plain, Labels, Terminal, Succeeds,
       marsVars
  <2>3. CASE tx' = [tx EXCEPT ![r] = "authorized"]
    BY <1>15, <2>1, <2>3, <1>t, AuthorizeStep DEF Start, TransactionStart, Succeeds, Answer
  <2> QED
    BY <1>15, <2>2, <2>3 DEF Start, TransactionStart
<1>16. CASE Recharge(r)
  <2>1. mars[r] = "none"
    BY <1>16 DEF Recharge, MarsSend, Succeeds, IInv, BeforeMars, Unserved
  <2>2. UNCHANGED credited
    BY <1>16, <2>1, <1>t, SendIsNoCredit DEF Recharge, MarsSend
  <2> QED
    BY <1>16, <2>2, <1>t, PlainStep DEF Recharge, MarsSend, Succeeds, serviceVars, Answer
<1>17. CASE InnerVoid(r) \/ OuterVoid(r)
  <2>1. /\ tx[r] = "authorized" /\ pc[r] \in {"innerVoid", "void"}
        /\ UNCHANGED <<mars, credited>>
        /\ tx' = tx \/ tx' = [tx EXCEPT ![r] = "void"]
        /\ \E l \in {"voiding", "cleanup", "failed"} : pc' = [pc EXCEPT ![r] = l]
    BY <1>17, <1>c DEF InnerVoid, OuterVoid, VoidSend, Succeeds, Throws, marsVars, IInv,
       Voiding
  <2>2. PICK l \in {"voiding", "cleanup", "failed"} : pc' = [pc EXCEPT ![r] = l]
    BY <2>1
  <2>3. CASE tx' = tx
    BY <2>1, <2>2, <2>3, <1>t, PlainStep DEF Answer
  <2>4. CASE tx' = [tx EXCEPT ![r] = "void"]
    BY <2>1, <2>2, <2>4, <1>t, VoidStep DEF Answer
  <2> QED
    BY <2>1, <2>3, <2>4
<1>18. CASE WriteVoiding(r) \/ OuterLookup(r) \/ CleanUp(r)
  BY <1>18, <1>p DEF WriteVoiding, OuterLookup, CleanUp, VoidLookup,
     DeleteTransactionState, UpdateTransactionState, Plain, Labels, Terminal, Succeeds,
     Throws, serviceVars, marsVars
<1>19. CASE DeleteState(r)
  <2>1. /\ pc[r] = "deleteState" /\ tx[r] = "authorized" /\ mars[r] = "applied"
        /\ UNCHANGED <<tx, mars, credited>>
    BY <1>19, <1>c DEF DeleteState, DeleteTransactionState, UpdateTransactionState,
       Succeeds, Throws, serviceVars, marsVars, IInv, AfterMars, Sound
  <2>2. CASE pc' = [pc EXCEPT ![r] = "returned"]
    BY <2>1, <2>2, <1>t, ConfirmStep DEF Answer
  <2>3. CASE pc' = [pc EXCEPT ![r] = "voiding"]
    BY <2>1, <2>3, <1>t, PlainStep DEF Answer
  <2> QED
    BY <1>19, <2>2, <2>3 DEF DeleteState, DeleteTransactionState, UpdateTransactionState,
       Succeeds, Throws
<1>20. CASE MarsDecides(r)
  BY <1>20, <1>t, DecideStep DEF MarsDecides, IInv, Settled
<1>21. CASE Crash(r)
  BY <1>21, <1>p DEF Crash, Plain, Labels, Terminal, serviceVars, marsVars
<1> QED
  BY <1>1, <1>2, <1>3, <1>4, <1>5, <1>6, <1>7, <1>8, <1>9, <1>10, <1>11, <1>12, <1>13,
     <1>14, <1>15, <1>16, <1>17, <1>18, <1>19, <1>20, <1>21
     DEF Handler, Outside, Catch, CatchBlock

(***************************************************************************)
(* powercardFundsAdd implements PurchaseContract (KeepsContract): whatever *)
(* fails or crashes, no recharge is confirmed that is not paid and         *)
(* credited, none is credited without a payment, and no payment is voided  *)
(* once the customer has an answer.                                        *)
(***************************************************************************)
THEOREM Implements == Spec => KeepsContract
<1>1. Init => Contract!Init
  BY DEF Init, PurchaseInit, Contract!Init, credited, replies
<1>2. IInv /\ [Next]_vars => [Contract!Next]_(Contract!vars)
  <2> SUFFICES ASSUME IInv, [Next]_vars PROVE [Contract!Next]_(Contract!vars)
    OBVIOUS
  <2>1. CASE UNCHANGED vars
    BY <2>1 DEF vars, purchaseVars, serviceVars, marsVars, Contract!vars, credited,
       replies
  <2>2. ASSUME NEW r \in Request, Handler(r) \/ Outside(r)
        PROVE  [Contract!Next]_(Contract!vars)
    BY <2>2, StepKeepsContract
  <2> QED
    BY <2>1, <2>2 DEF Next, Done
<1> QED
  BY <1>1, <1>2, Invariance, PTL DEF Spec, KeepsContract, Contract!Spec
=============================================================================
