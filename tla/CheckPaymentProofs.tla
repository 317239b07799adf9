-------------------------- MODULE CheckPaymentProofs --------------------------
(***************************************************************************)
(* Proofs about CheckPayment for any number of payments of a check.        *)
(***************************************************************************)
EXTENDS CheckPayment, PurchaseTransactionProofs

\* The types of what the receipts add to a purchase.
ReceiptTypeOK ==
  /\ answer \in [Request -> SUBSET Request]
  /\ target \in [Request -> Request]
  /\ receipts \subseteq Request
  /\ shows \in [Request -> SUBSET Request]
  /\ raced \in BOOLEAN /\ overtaken \in BOOLEAN /\ cleared \in BOOLEAN

(***************************************************************************)
(* Every step of a payment keeps the types and leaves the payment, the     *)
(* MARS call and the effects of every other payment alone.                 *)
(***************************************************************************)
LEMMA StepLocal ==
  ASSUME TypeOK, NEW r \in Request, Handler(r) \/ Outside(r)
  PROVE  Local(Labels, r) /\ TypeOK'
<1> SUFFICES Local(Labels, r) /\ ReceiptTypeOK'
  BY DEF TypeOK, Local, ReceiptTypeOK
<1>a. PurchaseTypeOK(Labels) /\ ReceiptTypeOK
  BY DEF TypeOK, ReceiptTypeOK
<1>b. UNCHANGED receiptVars => ReceiptTypeOK'
  BY <1>a DEF receiptVars, rowVars, histories, ReceiptTypeOK
<1>l. {"idle", "start", "authorized", "marsReply", "customer", "findReceipt", "saveReceipt",
       "voiding", "send", "returned", "rejected", "failed", "crashed"} = Labels
  BY DEF Labels, Terminal
<1>1. CASE Begin(r)
  <2>1. Local(Labels, r)
    BY <1>1, <1>a, <1>l DEF Begin, Local, Same, PurchaseTypeOK, Succeeds,
       serviceVars, marsVars, effectVars
  <2> QED BY <1>1, <2>1, <1>b DEF Begin
<1>2. CASE Start(r)
  BY <1>2, <1>a, <1>b, <1>l, StartLocal DEF Start
<1>3. CASE ApplyPayment(r)
  BY <1>3, <1>a, <1>b, <1>l, MarsSendLocal DEF ApplyPayment
<1>4. CASE Applied(r)
  BY <1>4, <1>a, <1>b, <1>l, MarsAnswersLocal DEF Applied
<1>5. CASE ApplyFailed(r)
  BY <1>5, <1>a, <1>b, <1>l, MarsFailsLocal DEF ApplyFailed
<1>6. CASE UpdateCustomer(r)
  BY <1>6, <1>a, <1>b, <1>l, CustomerLocal DEF UpdateCustomer
<1>7. CASE FindReceipt(r)
  <2>1. Local(Labels, r)
    BY <1>7, <1>a, <1>l DEF FindReceipt, Local, Same, PurchaseTypeOK, Succeeds, Throws,
       FaultKind, serviceVars, marsVars, effectVars
  <2>2. target' \in [Request -> Request]
    BY <1>7, <1>a DEF FindReceipt, ReceiptTypeOK
  <2>3. raced' \in BOOLEAN
    BY <1>7, <1>a DEF FindReceipt, ReceiptTypeOK
  <2> QED
    BY <1>7, <1>a, <2>1, <2>2, <2>3 DEF FindReceipt, ReceiptTypeOK, rowVars
<1>8. CASE SaveReceipt(r)
  <2>1. Local(Labels, r)
    BY <1>8, <1>a, <1>l DEF SaveReceipt, Local, Same, PurchaseTypeOK, Succeeds, Throws,
       FaultKind, serviceVars, marsVars, effectVars
  <2>2. Saved(r) => receipts' \subseteq Request /\ shows' \in [Request -> SUBSET Request]
    BY <1>a DEF Saved, ReceiptTypeOK
  <2>3. overtaken' \in BOOLEAN
    BY <1>8, <1>a DEF SaveReceipt, Saved, ReceiptTypeOK
  <2> QED
    BY <1>8, <1>a, <2>1, <2>2, <2>3 DEF SaveReceipt, ReceiptTypeOK, rowVars
<1>9. CASE Lookup(r)
  BY <1>9, <1>a, <1>b, <1>l, VoidLookupLocal DEF Lookup
<1>10. CASE Send(r)
  BY <1>10, <1>a, <1>b, <1>l, VoidSendLocal DEF Send
<1>11. CASE MarsDecidesPayment(r)
  <2>1. Local(Labels, r)
    BY <1>11, <1>a, <1>l, MarsDecidesLocal DEF MarsDecidesPayment
  <2>2. {p \in credited' : mars'[r] = "applied"} \subseteq Request
    BY DEF credited
  <2>3. answer' \in [Request -> SUBSET Request]
    BY <1>11, <1>a, <2>2 DEF MarsDecidesPayment, ReceiptTypeOK
  <2> QED
    BY <1>11, <1>a, <2>1, <2>3 DEF MarsDecidesPayment, ReceiptTypeOK, rowVars, histories
<1>12. CASE Crash(r) /\ UNCHANGED receiptVars
  BY <1>12, <1>a, <1>b, <1>l, CrashLocal
<1> QED
  BY <1>1, <1>2, <1>3, <1>4, <1>5, <1>6, <1>7, <1>8, <1>9, <1>10, <1>11, <1>12
     DEF Handler, Outside

\* The initial state has the types.
LEMMA TypeInit == Init => TypeOK
<1> SUFFICES ASSUME Init PROVE PurchaseTypeOK(Labels) /\ ReceiptTypeOK
  BY DEF TypeOK, ReceiptTypeOK
<1>1. PurchaseTypeOK(Labels)
  BY DEF Init, PurchaseInit, PurchaseTypeOK, Labels, Terminal, NoRecord
<1>2. ReceiptTypeOK
  BY DEF Init, ReceiptTypeOK
<1> QED BY <1>1, <1>2

\* Clearing the receipts and doing nothing leave every payment alone.
LEMMA Still ==
  ASSUME ReceiptsClear \/ UNCHANGED vars
  PROVE  /\ UNCHANGED <<purchaseVars, answer, target, shows, raced, overtaken>>
         /\ receipts' = receipts \/ receipts' = {}
         /\ cleared' = cleared \/ cleared'
         /\ receipts' = receipts \/ cleared'
         /\ \A x \in Request : Same(x)
<1>1. UNCHANGED <<purchaseVars, answer, target, shows, raced, overtaken>>
  BY DEF ReceiptsClear, vars, receiptVars, rowVars, histories
<1>2. \A x \in Request : Same(x)
  BY <1>1 DEF purchaseVars, serviceVars, marsVars, effectVars, Same
<1>3. \/ receipts' = {} /\ cleared' = TRUE
      \/ receipts' = receipts /\ cleared' = cleared
  BY DEF ReceiptsClear, vars, receiptVars, rowVars, histories
<1> QED
  BY <1>1, <1>2, <1>3

\* Every step, stuttering included, keeps the types.
LEMMA TypeNext == TypeOK /\ [Next]_vars => TypeOK'
<1> SUFFICES ASSUME TypeOK, [Next]_vars PROVE TypeOK'
  OBVIOUS
<1>1. CASE UNCHANGED vars
  BY <1>1 DEF TypeOK, PurchaseTypeOK, vars, purchaseVars, receiptVars, rowVars, histories,
     serviceVars, marsVars, effectVars
<1>2. CASE ReceiptsClear
  BY <1>2 DEF TypeOK, PurchaseTypeOK, ReceiptsClear, purchaseVars, serviceVars, marsVars,
     effectVars
<1>3. ASSUME NEW r \in Request, Handler(r) \/ Outside(r) PROVE TypeOK'
  BY <1>3, StepLocal
<1> QED
  BY <1>1, <1>2, <1>3 DEF Next

\* The types of checkPaymentApply's state hold throughout (TypeOK of CheckPayment).
THEOREM TypeCorrect == Spec => []TypeOK
<1>1. Init => TypeOK
  BY TypeInit
<1>2. TypeOK /\ [Next]_vars => TypeOK'
  BY TypeNext
<1> QED
  BY <1>1, <1>2, PTL DEF Spec

-----------------------------------------------------------------------------
(* The payments, one by one *)

\* What the safety properties say of one payment.
Fate(r) ==
  /\ pc[r] = "failed" =>
       /\ tx[r] = "void" \/ fault[r] \cap {"record", "void"} # {}
       /\ record[r] = NoRecord \/ fault[r] \cap {"record", "void", "cleanup"} # {}
  /\ tx[r] = "void" =>
       fault[r] # {} /\ pc[r] \in {"voiding", "lookup", "cleanup", "failed", "crashed"}

Each(r) == Fate(r) /\ Steps(r)

\* The part of IInv about each payment by itself.
LEMMA ByRequest ==
  VoidedUnlessCutShort /\ VoidOnlyAfterFailure /\ (\A r \in Request : Steps(r))
    <=> \A r \in Request : Each(r)
BY DEF Each, Fate, VoidedUnlessCutShort, VoidOnlyAfterFailure

\* A payment that a step leaves alone keeps its part of the invariant.
LEMMA OthersKeep ==
  ASSUME NEW x \in Request, Each(x), Same(x)
  PROVE  Each(x)'
BY DEF Each, Fate, Steps, Sound, Same

\* A step of a payment keeps that payment's part of the invariant.
LEMMA OwnStepKeeps ==
  ASSUME TypeOK, NEW r \in Request, Each(r), Handler(r) \/ Outside(r)
  PROVE  Each(r)'
<1> USE DEF Each, Fate, Steps, Sound, serviceVars, marsVars, effectVars, NoRecord
<1>t. PurchaseTypeOK(Labels)
  BY DEF TypeOK
<1>1. CASE Begin(r)
  BY <1>1, <1>t DEF Begin, PurchaseTypeOK, Succeeds
<1>2. CASE Start(r)
  BY <1>2, <1>t DEF Start, TransactionStart, PurchaseTypeOK, Succeeds
<1>3. CASE ApplyPayment(r)
  BY <1>3, <1>t DEF ApplyPayment, MarsSend, PurchaseTypeOK, Succeeds
<1>4. CASE Applied(r)
  BY <1>4, <1>t DEF Applied, MarsAnswers, PurchaseTypeOK, Succeeds
<1>5. CASE ApplyFailed(r)
  BY <1>5, <1>t, MarsFailsEffect DEF ApplyFailed, Passes, Faults
<1>6. CASE UpdateCustomer(r)
  BY <1>6, <1>t, CustomerEffect DEF UpdateCustomer, Passes, Faults
<1>7. CASE FindReceipt(r)
  <2>1. /\ UNCHANGED <<input, serviceVars, record, marsVars, effectVars>>
        /\ \/ Passes(r, "findReceipt", "saveReceipt")
           \/ Faults(r, "findReceipt", "voiding", "step")
    BY <1>7, <1>t, SucceedsEffect, ThrowsEffect DEF FindReceipt
  <2> QED BY <2>1 DEF Passes, Faults
<1>8. CASE SaveReceipt(r)
  <2>1. /\ UNCHANGED <<input, serviceVars, record, marsVars, effectVars>>
        /\ \/ Passes(r, "saveReceipt", "returned")
           \/ Faults(r, "saveReceipt", "voiding", "step")
    BY <1>8, <1>t, SucceedsEffect, ThrowsEffect DEF SaveReceipt
  <2> QED BY <2>1 DEF Passes, Faults
<1>9. CASE Lookup(r)
  BY <1>9, <1>t, VoidLookupEffect DEF Lookup, Passes, Faults
<1>10. CASE Send(r)
  <2>1. VoidSent(r, "send", FALSE, "failed", "failed")
    BY <1>10, <1>t, VoidSendEffect DEF Send
  <2> QED BY <2>1 DEF VoidSent, Passes, Faults
<1>11. CASE MarsDecidesPayment(r)
  BY <1>11, <1>t DEF MarsDecidesPayment, MarsDecides, PurchaseTypeOK
<1>12. CASE Crash(r)
  BY <1>12, <1>t DEF Crash, Terminal, PurchaseTypeOK
<1> QED
  BY <1>1, <1>2, <1>3, <1>4, <1>5, <1>6, <1>7, <1>8, <1>9, <1>10, <1>11, <1>12
     DEF Handler, Outside

-----------------------------------------------------------------------------
(* The receipt they share *)

\* The part of IInv about the receipt.
Shared == AnswerShowsItself /\ OneClaim /\ PaidIsShown

\* Nobody looks for, saves or confirms a receipt in the step, and MARS
\* applies no payment.
Quiet(r) ==
  /\ UNCHANGED <<receiptVars, credited>>
  /\ \E l \in Labels \ {"saveReceipt", "returned"} :
       /\ pc' = [pc EXCEPT ![r] = l]
       /\ l \in {"customer", "findReceipt"} => pc[r] \in {"marsReply", "customer"}
       /\ l = "marsReply" => r \notin credited

\* The steps that are not about the receipt are quiet.
LEMMA MostAreQuiet ==
  ASSUME TypeOK, NEW r \in Request, Steps(r),
         \/ Begin(r) \/ Start(r) \/ ApplyPayment(r) \/ Applied(r) \/ ApplyFailed(r)
         \/ UpdateCustomer(r) \/ Lookup(r) \/ Send(r)
         \/ Crash(r) /\ UNCHANGED receiptVars
  PROVE  Quiet(r)
<1>t. mars \in [Request -> {"none", "inflight", "applied", "refused"}]
  BY DEF TypeOK, PurchaseTypeOK
<1>l. {"idle", "start", "authorized", "marsReply", "customer", "findReceipt", "saveReceipt",
       "voiding", "send", "returned", "rejected", "failed", "crashed"} = Labels
  BY DEF Labels, Terminal
<1>c. mars' = mars => credited' = credited
  BY DEF credited
<1>q. ASSUME NEW l \in {"customer", "voiding", "crashed"}, pc' = [pc EXCEPT ![r] = l],
             l = "customer" => pc[r] = "marsReply", UNCHANGED <<receiptVars, credited>>
      PROVE  Quiet(r)
  <2>1. l \in Labels \ {"saveReceipt", "returned"} /\ l \notin {"findReceipt", "marsReply"}
    BY <1>q, <1>l
  <2> QED
    BY <1>q, <2>1 DEF Quiet
<1>1. CASE Begin(r)
  BY <1>1, <1>l, <1>c DEF Begin, Quiet, Succeeds, marsVars
<1>2. CASE Start(r)
  BY <1>2, <1>l, <1>c DEF Start, TransactionStart, Quiet, Succeeds, marsVars
<1>3. CASE ApplyPayment(r)
  <2>1. pc[r] = "authorized" /\ mars[r] = "none"
    BY <1>3 DEF ApplyPayment, MarsSend, Succeeds, Steps
  <2>2. UNCHANGED credited /\ r \notin credited
    BY <1>3, <1>t, <2>1, SendIsNoCredit DEF ApplyPayment, MarsSend, credited
  <2> QED
    BY <1>3, <1>l, <2>2 DEF ApplyPayment, MarsSend, Quiet, Succeeds
<1>4. CASE Applied(r)
  <2>1. /\ UNCHANGED <<receiptVars, credited>>
        /\ pc[r] = "marsReply" /\ pc' = [pc EXCEPT ![r] = "customer"]
    BY <1>4, <1>c DEF Applied, MarsAnswers, Succeeds, marsVars
  <2> QED BY <1>q, <2>1
<1>5. CASE ApplyFailed(r)
  <2>1. /\ UNCHANGED <<receiptVars, credited>>
        /\ pc' = [pc EXCEPT ![r] = "voiding"]
    BY <1>5, <1>c DEF ApplyFailed, MarsFails, Throws
  <2> QED BY <1>q, <2>1
<1>6. CASE UpdateCustomer(r)
  BY <1>6, <1>l, <1>c DEF UpdateCustomer, MakeCustomerNotNew, Quiet, Succeeds, Throws, marsVars
<1>7. CASE Lookup(r)
  BY <1>7, <1>l, <1>c DEF Lookup, VoidLookup, Quiet, Succeeds, Throws, marsVars
<1>8. CASE Send(r)
  BY <1>8, <1>l, <1>c DEF Send, VoidSend, Quiet, Succeeds, Throws, marsVars
<1>9. CASE Crash(r) /\ UNCHANGED receiptVars
  <2>1. /\ UNCHANGED <<receiptVars, credited>>
        /\ pc' = [pc EXCEPT ![r] = "crashed"]
    BY <1>9, <1>c DEF Crash, marsVars
  <2> QED BY <1>q, <2>1
<1> QED
  BY <1>1, <1>2, <1>3, <1>4, <1>5, <1>6, <1>7, <1>8, <1>9

\* Claims that do not grow stay one.
LEMMA ClaimsShrink ==
  ASSUME OneClaim, UNCHANGED raced, receipts' \subseteq Claims,
         \A x \in Request : pc'[x] = "saveReceipt" => pc[x] = "saveReceipt",
         UNCHANGED target
  PROVE  OneClaim'
<1>1. Claims' \subseteq Claims
  BY DEF Claims
<1> QED
  BY <1>1 DEF OneClaim

\* A quiet step leaves the receipt as it should be.
LEMMA QuietKeeps ==
  ASSUME TypeOK, Shared, NEW r \in Request, Quiet(r)
  PROVE  Shared'
<1>1. PICK l \in Labels \ {"saveReceipt", "returned"} :
        /\ pc' = [pc EXCEPT ![r] = l]
        /\ l \in {"customer", "findReceipt"} => pc[r] \in {"marsReply", "customer"}
        /\ l = "marsReply" => r \notin credited
  BY DEF Quiet
<1>2. UNCHANGED <<answer, target, receipts, shows, raced, overtaken, cleared, credited>>
  BY DEF Quiet, receiptVars, rowVars, histories
<1>3. \A x \in Request : pc'[x] = IF x = r THEN l ELSE pc[x]
  BY <1>1 DEF TypeOK, PurchaseTypeOK
<1>4. Pending' \subseteq Pending
  <2>1. credited \subseteq Request
    BY DEF credited
  <2> QED
    BY <1>1, <1>2, <1>3, <2>1 DEF Pending
<1>5. AnswerShowsItself'
  BY <1>2 DEF Shared, AnswerShowsItself
<1>6. OneClaim'
  <2>1. receipts' \subseteq Claims
    BY <1>2 DEF Claims
  <2> QED
    BY <1>2, <1>3, <2>1, ClaimsShrink DEF Shared
<1>7. PaidIsShown'
  BY <1>2, <1>3, <1>4 DEF Shared, PaidIsShown
<1> QED
  BY <1>5, <1>6, <1>7 DEF Shared

\* Looking for the receipt: who finds none while nobody saves claims alone.
LEMMA FindKeeps ==
  ASSUME TypeOK, Shared, NEW r \in Request, FindReceipt(r)
  PROVE  Shared'
<1>1. /\ UNCHANGED <<answer, receipts, shows, overtaken, cleared, mars>>
      /\ pc[r] = "findReceipt"
      /\ \/ /\ pc' = [pc EXCEPT ![r] = "saveReceipt"]
            /\ \E q \in Request :
                 /\ target' = [target EXCEPT ![r] = q]
                 /\ receipts = {} \/ q \in receipts
            /\ raced' = (raced \/ (receipts = {} /\ \E p \in Request : pc[p] = "saveReceipt"))
         \/ pc' = [pc EXCEPT ![r] = "voiding"] /\ UNCHANGED <<target, raced>>
  BY DEF FindReceipt, Succeeds, Throws, rowVars, marsVars, TypeOK
<1>2. UNCHANGED credited /\ credited \subseteq Request
  BY <1>1 DEF credited
<1>3. \A x \in Request \ {r} : pc'[x] = pc[x]
  BY <1>1 DEF TypeOK, PurchaseTypeOK
<1>4. pc'[r] \in {"saveReceipt", "voiding"}
  BY <1>1 DEF TypeOK, PurchaseTypeOK
<1>5. AnswerShowsItself'
  BY <1>1, <1>2 DEF Shared, AnswerShowsItself
<1>6. OneClaim'
  <2>1. CASE pc' = [pc EXCEPT ![r] = "voiding"] /\ UNCHANGED <<target, raced>>
    <3>1. receipts' \subseteq Claims
      BY <1>1 DEF Claims
    <3>2. \A x \in Request : pc'[x] = "saveReceipt" => pc[x] = "saveReceipt"
      BY <2>1, <1>3 DEF TypeOK, PurchaseTypeOK
    <3> QED
      BY <2>1, <3>1, <3>2, ClaimsShrink DEF Shared
  <2>2. CASE /\ pc' = [pc EXCEPT ![r] = "saveReceipt"]
             /\ \E q \in Request :
                  /\ target' = [target EXCEPT ![r] = q]
                  /\ receipts = {} \/ q \in receipts
             /\ raced' = (raced \/ (receipts = {} /\ \E p \in Request : pc[p] = "saveReceipt"))
    <3> SUFFICES ASSUME ~raced' PROVE \A p, q \in Claims' : p = q
      BY DEF OneClaim
    <3>1. PICK q \in Request : /\ target' = [target EXCEPT ![r] = q]
                               /\ receipts = {} \/ q \in receipts
      BY <2>2
    <3>2. /\ ~raced
          /\ receipts = {} => \A p \in Request : pc[p] # "saveReceipt"
      BY <2>2
    <3>3. /\ \A x \in Request \ {r} : target'[x] = target[x]
          /\ target'[r] = q
      BY <3>1 DEF TypeOK
    <3>4. CASE receipts = {}
      <4>1. Claims' \subseteq {q}
        BY <3>2, <3>3, <3>4, <1>1, <1>3 DEF Claims
      <4> QED BY <4>1
    <3>5. CASE q \in receipts
      <4>1. Claims' \subseteq Claims
        BY <3>3, <3>5, <1>1, <1>3 DEF Claims
      <4> QED BY <3>2, <4>1 DEF Shared, OneClaim
    <3> QED BY <3>1, <3>4, <3>5
  <2> QED BY <1>1, <2>1, <2>2
<1>7. PaidIsShown'
  <2>1. Pending' \subseteq Pending
    BY <1>1, <1>2, <1>3 DEF Pending
  <2>2. raced => raced'
    BY <1>1
  <2> QED
    BY <1>1, <1>3, <1>4, <2>1, <2>2 DEF Shared, PaidIsShown
<1> QED
  BY <1>5, <1>6, <1>7 DEF Shared

\* Saving the receipt: unless raced, the row saved is the only one, and it
\* shows what the answer shows.
LEMMA SaveKeeps ==
  ASSUME TypeOK, Shared, NEW r \in Request, Steps(r), SaveReceipt(r)
  PROVE  Shared'
<1>1. /\ UNCHANGED <<answer, target, raced, cleared, mars>>
      /\ pc[r] = "saveReceipt" /\ mars[r] = "applied"
      /\ \/ pc' = [pc EXCEPT ![r] = "returned"] /\ Saved(r)
         \/ pc' = [pc EXCEPT ![r] = "voiding"] /\ Saved(r)
         \/ pc' = [pc EXCEPT ![r] = "voiding"] /\ UNCHANGED <<receipts, shows, overtaken>>
  BY DEF SaveReceipt, Succeeds, Throws, rowVars, marsVars, Steps
<1>2. UNCHANGED credited /\ credited \subseteq Request /\ r \in credited
  BY <1>1 DEF credited
<1>3. \A x \in Request \ {r} : pc'[x] = pc[x]
  BY <1>1 DEF TypeOK, PurchaseTypeOK
<1>4. pc'[r] \in {"returned", "voiding"}
  BY <1>1 DEF TypeOK, PurchaseTypeOK
<1>5. AnswerShowsItself'
  BY <1>1, <1>2 DEF Shared, AnswerShowsItself
<1>6. OneClaim'
  <2>1. receipts' \subseteq Claims
    BY <1>1 DEF Claims, Saved
  <2> QED
    BY <1>1, <1>3, <1>4, <2>1, ClaimsShrink DEF Shared
<1>7. PaidIsShown'
  <2>1. Pending' \subseteq Pending
    BY <1>2, <1>3, <1>4 DEF Pending
  <2>2. overtaken => overtaken'
    BY <1>1 DEF Saved
  <2> SUFFICES ASSUME ~raced, ~overtaken, ~overtaken', NEW x \in Request, pc'[x] = "returned"
               PROVE  /\ cleared \/ receipts' # {}
                      /\ \A q \in receipts' : x \in shows'[q]
                      /\ \A p \in Pending' : x \in answer[p]
    BY <1>1, <2>2 DEF PaidIsShown
  <2>3. CASE Saved(r)
    <3>1. receipts' = {target[r]}
      <4>1. receipts \cup {target[r]} \subseteq Claims
        BY <1>1 DEF Claims
      <4> QED
        BY <2>3, <4>1 DEF Saved, Shared, OneClaim
    <3>2. shows'[target[r]] = answer[r]
      BY <2>3 DEF Saved, TypeOK
    <3>3. \A p \in Pending : r \in answer[p]
      BY <2>3 DEF Saved
    <3>4. r \in Pending
      BY <1>1, <1>2 DEF Pending
    <3>5. CASE x = r
      BY <2>1, <3>1, <3>2, <3>3, <3>4, <3>5
    <3>6. CASE x # r
      <4>1. \A p \in Pending : x \in answer[p]
        BY <1>3, <3>6 DEF Shared, PaidIsShown
      <4> QED
        BY <2>1, <3>1, <3>2, <3>4, <4>1
    <3> QED BY <3>5, <3>6
  <2>4. CASE pc' = [pc EXCEPT ![r] = "voiding"] /\ UNCHANGED <<receipts, shows, overtaken>>
    <3>1. pc[x] = "returned"
      BY <1>3, <2>4 DEF TypeOK, PurchaseTypeOK
    <3> QED
      BY <2>1, <2>4, <3>1 DEF Shared, PaidIsShown
  <2> QED BY <1>1, <2>3, <2>4
<1> QED
  BY <1>5, <1>6, <1>7 DEF Shared

\* MARS applies a payment and answers with every payment it applied so far.
LEMMA DecidesKeeps ==
  ASSUME TypeOK, Shared, \A x \in Request : Steps(x), NEW r \in Request, MarsDecidesPayment(r)
  PROVE  Shared'
<1>1. /\ UNCHANGED <<pc, target, receipts, shows, raced, overtaken, cleared>>
      /\ answer' = [answer EXCEPT ![r] = {p \in credited' : mars'[r] = "applied"}]
      /\ mars[r] = "inflight"
      /\ \A x \in Request \ {r} : mars'[x] = mars[x]
  BY DEF MarsDecidesPayment, MarsDecides, rowVars, histories, TypeOK, PurchaseTypeOK
<1>2. \A x \in Request \ {r} : x \in credited' <=> x \in credited
  BY <1>1 DEF credited
<1>3. credited \subseteq credited' /\ credited' \subseteq credited \cup {r} /\ credited \subseteq Request
  BY <1>1, <1>2 DEF credited
<1>4. \A x \in Request \ {r} : answer'[x] = answer[x]
  BY <1>1 DEF TypeOK
<1>5. r \in credited' => answer'[r] = credited'
  <2>1. r \in credited' => mars'[r] = "applied"
    BY DEF credited
  <2> QED
    BY <1>1, <2>1 DEF TypeOK
<1>6. AnswerShowsItself'
  BY <1>2, <1>3, <1>4, <1>5 DEF Shared, AnswerShowsItself
<1>7. OneClaim'
  <2>1. receipts' \subseteq Claims
    BY <1>1 DEF Claims
  <2> QED
    BY <1>1, <2>1, ClaimsShrink DEF Shared
<1>8. PaidIsShown'
  <2>1. Pending' \subseteq Pending \cup {r}
    BY <1>1, <1>3 DEF Pending
  <2>2. \A x \in Request : pc[x] = "returned" => x \in credited
    BY DEF Steps, credited
  <2>3. \A p \in Pending' : p \in credited' /\ p \in Request
    BY <1>3 DEF Pending
  <2> SUFFICES ASSUME ~raced, ~overtaken, NEW x \in Request, pc[x] = "returned",
                      NEW p \in Pending'
               PROVE  x \in answer'[p]
    BY <1>1 DEF Shared, PaidIsShown
  <2>4. CASE p = r
    BY <1>3, <1>5, <2>2, <2>3, <2>4
  <2>5. CASE p # r
    BY <1>4, <2>1, <2>3, <2>5 DEF Shared, PaidIsShown
  <2> QED BY <2>4, <2>5
<1> QED
  BY <1>6, <1>7, <1>8 DEF Shared

\* Clearing the receipts, or doing nothing, keeps them as they should be.
LEMMA StillKeeps ==
  ASSUME TypeOK, Shared, ReceiptsClear \/ UNCHANGED vars
  PROVE  Shared'
<1>1. /\ UNCHANGED <<pc, mars, answer, target, shows, raced, overtaken>>
      /\ receipts' = receipts \/ receipts' = {}
      /\ cleared' = cleared \/ cleared'
      /\ receipts' = receipts \/ cleared'
  BY Still DEF purchaseVars, marsVars
<1>2. credited' = credited /\ Pending' = Pending
  BY <1>1 DEF credited, Pending
<1>3. AnswerShowsItself'
  BY <1>1, <1>2 DEF Shared, AnswerShowsItself
<1>4. OneClaim'
  <2>1. receipts' \subseteq Claims
    BY <1>1 DEF Claims
  <2> QED
    BY <1>1, <2>1, ClaimsShrink DEF Shared
<1>5. PaidIsShown'
  BY <1>1, <1>2 DEF Shared, PaidIsShown
<1> QED
  BY <1>3, <1>4, <1>5 DEF Shared

-----------------------------------------------------------------------------
(* The theorems *)

\* IInv, regrouped: the types, each payment by itself, the receipt.
Whole == TypeOK /\ (\A r \in Request : Each(r)) /\ Shared

LEMMA InvIsWhole == IInv <=> Whole
BY ByRequest DEF IInv, Whole, Shared

\* The initial state satisfies the inductive invariant.
LEMMA InvInit == Init => IInv
<1> SUFFICES ASSUME Init PROVE Whole
  BY InvIsWhole
<1>1. ASSUME NEW r \in Request PROVE Each(r)
  BY DEF Init, PurchaseInit, Each, Fate, Steps, Sound, NoRecord
<1>2. credited = {} /\ Claims = {} /\ \A r \in Request : pc[r] # "returned"
  BY DEF Init, PurchaseInit, credited, Claims
<1>3. Shared
  BY <1>2 DEF Shared, AnswerShowsItself, OneClaim, PaidIsShown
<1> QED
  BY <1>1, <1>3, TypeInit DEF Whole

\* A step of a payment preserves the inductive invariant.
LEMMA StepKeeps ==
  ASSUME Whole, NEW r \in Request, Handler(r) \/ Outside(r)
  PROVE  Whole'
<1>1. TypeOK' /\ \A x \in Request \ {r} : Same(x)
  BY StepLocal DEF Whole, Local
<1>2. Each(r)'
  BY OwnStepKeeps DEF Whole
<1>3. ASSUME NEW x \in Request \ {r} PROVE Each(x)'
  BY <1>1, OthersKeep DEF Whole
<1>4. TypeOK /\ Shared /\ \A x \in Request : Steps(x)
  BY DEF Whole, Each
<1>5. Shared'
  <2>1. CASE FindReceipt(r)
    BY <2>1, <1>4, FindKeeps
  <2>2. CASE SaveReceipt(r)
    BY <2>2, <1>4, SaveKeeps
  <2>3. CASE MarsDecidesPayment(r)
    BY <2>3, <1>4, DecidesKeeps
  <2>4. CASE \/ Begin(r) \/ Start(r) \/ ApplyPayment(r) \/ Applied(r) \/ ApplyFailed(r)
             \/ UpdateCustomer(r) \/ Lookup(r) \/ Send(r)
             \/ (Crash(r) /\ UNCHANGED receiptVars)
    <3>1. Quiet(r)
      BY <2>4, <1>4, MostAreQuiet
    <3> QED
      BY <3>1, <1>4, QuietKeeps
  <2> QED
    BY <2>1, <2>2, <2>3, <2>4 DEF Handler, Outside
<1> QED
  BY <1>1, <1>2, <1>3, <1>5 DEF Whole

\* Every step of the specification preserves the inductive invariant.
LEMMA InvNext == IInv /\ [Next]_vars => IInv'
<1> SUFFICES ASSUME Whole, [Next]_vars PROVE Whole'
  <2>1. IInv' <=> Whole'
    BY ByRequest, PTL DEF IInv, Whole, Shared
  <2> QED BY <2>1, InvIsWhole
<1>1. CASE ReceiptsClear \/ UNCHANGED vars
  <2>1. \A x \in Request : Each(x)'
    BY <1>1, Still, OthersKeep DEF Whole
  <2>2. Shared'
    BY <1>1, StillKeeps DEF Whole
  <2> QED
    BY <2>1, <2>2, TypeNext DEF Whole
<1>2. ASSUME NEW r \in Request, Handler(r) \/ Outside(r) PROVE Whole'
  BY <1>2, StepKeeps
<1> QED
  BY <1>1, <1>2 DEF Next

\* The inductive invariant of checkPaymentApply holds throughout.
THEOREM Invariance == Spec => []IInv
<1>1. Init => IInv
  BY InvInit
<1>2. IInv /\ [Next]_vars => IInv'
  BY InvNext
<1> QED
  BY <1>1, <1>2, PTL DEF Spec

\* A payment that returns its receipt is paid, applied and unbroken
\* (PaymentIsComplete).
THEOREM Complete == Spec => []PaymentIsComplete
<1>1. IInv => PaymentIsComplete
  BY DEF IInv, PaymentIsComplete, Steps, Sound
<1> QED
  BY <1>1, Invariance, PTL

\* A payment that fails is voided unless the transaction service failed
\* (VoidedUnlessCutShort), and only a failed one is (VoidOnlyAfterFailure).
THEOREM Voids == Spec => [](VoidedUnlessCutShort /\ VoidOnlyAfterFailure)
<1>1. IInv => VoidedUnlessCutShort /\ VoidOnlyAfterFailure
  BY DEF IInv
<1> QED
  BY <1>1, Invariance, PTL

\* The payments of a check share one receipt unless they raced for it
\* (OneReceiptUnlessRaced).
THEOREM OneReceipt == Spec => []OneReceiptUnlessRaced
<1>1. IInv => OneReceiptUnlessRaced
  BY DEF IInv, OneReceiptUnlessRaced, OneClaim, Claims
<1> QED
  BY <1>1, Invariance, PTL

\* The receipt shows every confirmed payment unless receipts raced or a save
\* passed an older answer (ReceiptShowsPaid).
THEOREM Shown == Spec => []ReceiptShowsPaid
<1>1. IInv => ReceiptShowsPaid
  BY DEF IInv, ReceiptShowsPaid, PaidIsShown
<1> QED
  BY <1>1, Invariance, PTL

\* Only the void call of a handler counts voids.
LEMMA VoidsCounted ==
  ASSUME NEW r \in Request, Handler(r) \/ Outside(r)
  PROVE  voidsSent' = voidsSent \/ Send(r)
BY DEF Handler, Outside, Begin, Start, TransactionStart, ApplyPayment, MarsSend, Applied,
   MarsAnswers, ApplyFailed, MarsFails, UpdateCustomer, MakeCustomerNotNew, FindReceipt,
   SaveReceipt, Lookup, VoidLookup, MarsDecidesPayment, MarsDecides, Crash, serviceVars

\* No void call leaves for a payment that is already void (NoVoidOfVoided).
THEOREM VoidsOnce == Spec => NoVoidOfVoided
<1> DEFINE A == \A r \in Request : voidsSent'[r] > voidsSent[r] => tx[r] = "authorized"
<1>1. IInv /\ [Next]_vars => [A]_purchaseVars
  <2> SUFFICES ASSUME IInv, [Next]_vars, NEW x \in Request, voidsSent'[x] > voidsSent[x]
               PROVE  tx[x] = "authorized"
    OBVIOUS
  <2>1. voidsSent \in [Request -> Nat] /\ TypeOK
    BY DEF IInv, TypeOK, PurchaseTypeOK
  <2>2. PICK r \in Request : Send(r)
    BY <2>1, VoidsCounted DEF Next, ReceiptsClear, vars, purchaseVars, serviceVars
  <2>3. x = r
    BY <2>1, <2>2 DEF Send, VoidSend
  <2> QED
    BY <2>2, <2>3 DEF IInv, Steps, Send, VoidSend, Succeeds, Throws
<1> QED
  BY <1>1, Invariance, PTL DEF Spec, NoVoidOfVoided

-----------------------------------------------------------------------------
(* The contract *)

\* A step that leaves the payment and MARS alone, and does not return.
Plain(r) ==
  /\ \E l \in Labels \ {"returned"} : pc' = [pc EXCEPT ![r] = l]
  /\ pc[r] \notin Terminal
  /\ UNCHANGED <<tx, mars>>

\* Such a step is a stutter of the contract, or a refusal.
LEMMA PlainKeeps ==
  ASSUME TypeOK, NEW r \in Request, Plain(r)
  PROVE  [Contract!Next]_(Contract!vars)
<1>1. pc \in [Request -> Labels] /\ UNCHANGED credited
  BY DEF TypeOK, PurchaseTypeOK, Plain, credited
<1>2. PICK l \in Labels \ {"returned"} : pc' = [pc EXCEPT ![r] = l]
  BY DEF Plain
<1> QED
  BY <1>1, <1>2, PlainStep DEF Plain, Answer, Terminal

\* Every step of checkPaymentApply is a step or a stutter of PurchaseContract.
LEMMA StepKeepsContract ==
  ASSUME IInv, NEW r \in Request, Handler(r) \/ Outside(r)
  PROVE  [Contract!Next]_(Contract!vars)
<1>t. /\ TypeOK /\ pc \in [Request -> Labels] /\ Steps(r)
      /\ mars \in [Request -> {"none", "inflight", "applied", "refused"}]
      /\ tx \in [Request -> {"none", "authorized", "void"}]
  BY DEF IInv, TypeOK, PurchaseTypeOK
<1>p. Plain(r) => [Contract!Next]_(Contract!vars)
  BY <1>t, PlainKeeps
<1>c. UNCHANGED mars => UNCHANGED credited
  BY DEF credited
<1>1. CASE Begin(r)
  BY <1>1, <1>p DEF Begin, Plain, Labels, Terminal, Succeeds, serviceVars, marsVars
<1>2. CASE Applied(r)
  BY <1>2, <1>p DEF Applied, MarsAnswers, Plain, Labels, Terminal, Succeeds, serviceVars,
     marsVars
<1>3. CASE ApplyFailed(r)
  BY <1>3, <1>p DEF ApplyFailed, MarsFails, Plain, Labels, Terminal, Throws, serviceVars
<1>4. CASE UpdateCustomer(r)
  BY <1>4, <1>p DEF UpdateCustomer, MakeCustomerNotNew, Plain, Labels, Terminal, Succeeds,
     Throws, serviceVars, marsVars
<1>5. CASE FindReceipt(r)
  BY <1>5, <1>p DEF FindReceipt, Plain, Labels, Terminal, Succeeds, Throws, serviceVars,
     marsVars
<1>6. CASE Lookup(r)
  BY <1>6, <1>p DEF Lookup, VoidLookup, Plain, Labels, Terminal, Succeeds, Throws,
     serviceVars, marsVars
<1>7. CASE Crash(r)
  BY <1>7, <1>p DEF Crash, Plain, Labels, Terminal, serviceVars, marsVars
<1>8. CASE Start(r)
  <2>1. UNCHANGED credited /\ tx[r] = "none" /\ pc[r] = "start"
    BY <1>8, <1>c, <1>t DEF Start, TransactionStart, Succeeds, marsVars, Steps
  <2>2. CASE tx' = tx
    BY <1>8, <2>2, <1>p DEF Start, TransactionStart, Plain, Labels, Terminal, Succeeds,
       marsVars
  <2>3. CASE tx' = [tx EXCEPT ![r] = "authorized"]
    BY <1>8, <2>1, <2>3, <1>t, AuthorizeStep DEF Start, TransactionStart, Succeeds, Answer
  <2> QED
    BY <1>8, <2>2, <2>3 DEF Start, TransactionStart
<1>9. CASE ApplyPayment(r)
  <2>1. mars[r] = "none"
    BY <1>9, <1>t DEF ApplyPayment, MarsSend, Succeeds, Steps
  <2>2. UNCHANGED credited
    BY <1>9, <2>1, <1>t, SendIsNoCredit DEF ApplyPayment, MarsSend
  <2> QED
    BY <1>9, <2>2, <1>t, PlainStep DEF ApplyPayment, MarsSend, Succeeds, serviceVars, Answer
<1>10. CASE SaveReceipt(r)
  <2>1. /\ pc[r] = "saveReceipt" /\ tx[r] = "authorized" /\ mars[r] = "applied"
        /\ UNCHANGED <<tx, mars, credited>>
    BY <1>10, <1>c, <1>t DEF SaveReceipt, Succeeds, Throws, serviceVars, marsVars, Steps, Sound
  <2>2. CASE pc' = [pc EXCEPT ![r] = "returned"]
    BY <2>1, <2>2, <1>t, ConfirmStep DEF Answer
  <2>3. CASE pc' = [pc EXCEPT ![r] = "voiding"]
    BY <2>1, <2>3, <1>t, PlainStep DEF Answer
  <2> QED
    BY <1>10, <2>2, <2>3 DEF SaveReceipt, Succeeds, Throws
<1>11. CASE Send(r)
  <2>1. /\ tx[r] = "authorized" /\ pc[r] = "send" /\ UNCHANGED credited
        /\ tx' = tx \/ tx' = [tx EXCEPT ![r] = "void"]
        /\ pc' = [pc EXCEPT ![r] = "failed"]
    BY <1>11, <1>c, <1>t DEF Send, VoidSend, Succeeds, Throws, marsVars, Steps
  <2>2. CASE tx' = tx
    BY <2>1, <2>2, <1>t, PlainStep DEF Answer
  <2>3. CASE tx' = [tx EXCEPT ![r] = "void"]
    BY <2>1, <2>3, <1>t, VoidStep DEF Answer
  <2> QED
    BY <2>1, <2>2, <2>3
<1>12. CASE MarsDecidesPayment(r)
  BY <1>12, <1>t, DecideStep DEF MarsDecidesPayment, MarsDecides, Steps
<1> QED
  BY <1>1, <1>2, <1>3, <1>4, <1>5, <1>6, <1>7, <1>8, <1>9, <1>10, <1>11, <1>12
     DEF Handler, Outside

(***************************************************************************)
(* checkPaymentApply implements PurchaseContract (KeepsContract): no       *)
(* payment of a check is confirmed that is not paid and applied, and none  *)
(* is voided once the customer has an answer.                              *)
(***************************************************************************)
THEOREM Implements == Spec => KeepsContract
<1>1. Init => Contract!Init
  BY DEF Init, PurchaseInit, Contract!Init, credited, replies
<1>2. IInv /\ [Next]_vars => [Contract!Next]_(Contract!vars)
  <2> SUFFICES ASSUME IInv, [Next]_vars PROVE [Contract!Next]_(Contract!vars)
    OBVIOUS
  <2>1. CASE ReceiptsClear \/ UNCHANGED vars
    <3>1. UNCHANGED <<pc, tx, mars>>
      BY <2>1, Still DEF purchaseVars, serviceVars, marsVars
    <3> QED
      BY <3>1 DEF Contract!vars, credited, replies
  <2>2. ASSUME NEW r \in Request, Handler(r) \/ Outside(r)
        PROVE  [Contract!Next]_(Contract!vars)
    BY <2>2, StepKeepsContract
  <2> QED
    BY <2>1, <2>2 DEF Next
<1> QED
  BY <1>1, <1>2, Invariance, PTL DEF Spec, KeepsContract, Contract!Spec
=============================================================================
