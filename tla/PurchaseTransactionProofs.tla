----------------------- MODULE PurchaseTransactionProofs -----------------------
(***************************************************************************)
(* Lemmas about the steps every purchase is made of: each keeps the types, *)
(* for any set of labels its pc moves within, and leaves every other       *)
(* request alone.                                                          *)
(***************************************************************************)
EXTENDS PurchaseTransaction, TLAPS

\* Nothing of request x changes in the step.
Same(x) ==
  /\ pc'[x] = pc[x] /\ input'[x] = input[x] /\ tx'[x] = tx[x]
  /\ voidsSent'[x] = voidsSent[x] /\ saidTimedOut'[x] = saidTimedOut[x]
  /\ record'[x] = record[x] /\ mars'[x] = mars[x] /\ timedOut'[x] = timedOut[x]
  /\ (x \in redeemed' <=> x \in redeemed)
  /\ (x \in notNew' <=> x \in notNew)
  /\ (x \in snapshots' <=> x \in snapshots)
  /\ fault'[x] = fault[x]

\* A step of r keeps the types and touches no other request.
Local(Labels, r) ==
  PurchaseTypeOK(Labels)' /\ \A x \in Request \ {r} : Same(x)

\* The state writes to Redis are local to their request.
LEMMA UpdateLocal ==
  ASSUME NEW Labels, PurchaseTypeOK(Labels), NEW r \in Request, NEW from,
         NEW state \in TransactionStates \cup {NoRecord}, NEW to \in Labels,
         NEW catch \in Labels, NEW kind \in FaultKind,
         UpdateTransactionState(r, from, state, to, catch, kind)
  PROVE  Local(Labels, r)
BY DEF UpdateTransactionState, Local, Same, PurchaseTypeOK, Succeeds, Throws,
   serviceVars, marsVars, effectVars

\* The authorization of the payment is local to its request.
LEMMA StartLocal ==
  ASSUME NEW Labels, PurchaseTypeOK(Labels), NEW r \in Request,
         {"authorized", "rejected"} \subseteq Labels, TransactionStart(r)
  PROVE  Local(Labels, r)
BY DEF TransactionStart, Local, Same, PurchaseTypeOK, Succeeds, serviceVars, marsVars, effectVars

\* Redeeming the offer is local.
LEMMA RedeemLocal ==
  ASSUME NEW Labels, PurchaseTypeOK(Labels), NEW r \in Request,
         NEW from, NEW to \in Labels, "voiding" \in Labels,
         RedeemOffer(r, from, to)
  PROVE  Local(Labels, r)
BY DEF RedeemOffer, FaultKind, Local, Same, PurchaseTypeOK, Succeeds, Throws,
   serviceVars, marsVars, effectVars

\* Updating the customer is local.
LEMMA CustomerLocal ==
  ASSUME NEW Labels, PurchaseTypeOK(Labels), NEW r \in Request,
         NEW from, NEW to \in Labels, "voiding" \in Labels,
         MakeCustomerNotNew(r, from, to)
  PROVE  Local(Labels, r)
BY DEF MakeCustomerNotNew, FaultKind, Local, Same, PurchaseTypeOK, Succeeds, Throws,
   serviceVars, marsVars, effectVars

\* Saving the snapshot is local.
LEMMA SnapshotLocal ==
  ASSUME NEW Labels, PurchaseTypeOK(Labels), NEW r \in Request,
         NEW from, NEW to \in Labels, "voiding" \in Labels,
         CreatePowercardBalanceSnapshot(r, from, to)
  PROVE  Local(Labels, r)
BY DEF CreatePowercardBalanceSnapshot, FaultKind, Local, Same, PurchaseTypeOK, Succeeds, Throws,
   serviceVars, marsVars, effectVars

\* Sending the request to MARS is local.
LEMMA MarsSendLocal ==
  ASSUME NEW Labels, PurchaseTypeOK(Labels), NEW r \in Request,
         NEW from, NEW to \in Labels,
         MarsSend(r, from, to)
  PROVE  Local(Labels, r)
BY DEF MarsSend, Local, Same, PurchaseTypeOK, Succeeds, Throws,
   serviceVars, marsVars, effectVars

\* MARS decides on one request at a time.
LEMMA MarsDecidesLocal ==
  ASSUME NEW Labels, PurchaseTypeOK(Labels), NEW r \in Request,
         MarsDecides(r)
  PROVE  Local(Labels, r)
BY DEF MarsDecides, Local, Same, PurchaseTypeOK, Succeeds, Throws,
   serviceVars, marsVars, effectVars

\* The answer of MARS concerns one request.
LEMMA MarsAnswersLocal ==
  ASSUME NEW Labels, PurchaseTypeOK(Labels), NEW r \in Request,
         NEW from, NEW to \in Labels,
         MarsAnswers(r, from, to)
  PROVE  Local(Labels, r)
BY DEF MarsAnswers, Local, Same, PurchaseTypeOK, Succeeds, Throws,
   serviceVars, marsVars, effectVars

\* A failed call to MARS concerns one request.
LEMMA MarsFailsLocal ==
  ASSUME NEW Labels, PurchaseTypeOK(Labels), NEW r \in Request,
         NEW from, NEW to \in Labels,
         MarsFails(r, from, to)
  PROVE  Local(Labels, r)
BY DEF MarsFails, FaultKind, Local, Same, PurchaseTypeOK, Succeeds, Throws,
   serviceVars, marsVars, effectVars

\* Looking the payment up before a void is local.
LEMMA VoidLookupLocal ==
  ASSUME NEW Labels, PurchaseTypeOK(Labels), NEW r \in Request,
         NEW from, NEW void \in Labels, NEW skip \in Labels, NEW catch \in Labels,
         VoidLookup(r, from, void, skip, catch)
  PROVE  Local(Labels, r)
BY DEF VoidLookup, FaultKind, Local, Same, PurchaseTypeOK, Succeeds, Throws,
   serviceVars, marsVars, effectVars

\* The void call is local.
LEMMA VoidSendLocal ==
  ASSUME NEW Labels, PurchaseTypeOK(Labels), NEW r \in Request,
         NEW from, NEW flag \in BOOLEAN, NEW to \in Labels, NEW catch \in Labels,
         VoidSend(r, from, flag, to, catch)
  PROVE  Local(Labels, r)
BY DEF VoidSend, FaultKind, Local, Same, PurchaseTypeOK, Succeeds, Throws,
   serviceVars, marsVars, effectVars

\* A crash concerns the request it interrupts.
LEMMA CrashLocal ==
  ASSUME NEW Labels, PurchaseTypeOK(Labels), NEW r \in Request,
         "crashed" \in Labels, Crash(r)
  PROVE  Local(Labels, r)
BY DEF Crash, Local, Same, PurchaseTypeOK, Succeeds, Throws,
   serviceVars, marsVars, effectVars

\* The catch block of a handler is local.
LEMMA CatchLocal ==
  ASSUME NEW Labels, PurchaseTypeOK(Labels), NEW r \in Request,
         {"failed", "lookup", "void", "cleanup"} \subseteq Labels, CatchBlock(r)
  PROVE  Local(Labels, r)
<1>1. CASE WriteVoiding(r)
  BY <1>1, UpdateLocal DEF WriteVoiding, TransactionStates, FaultKind
<1>2. CASE OuterLookup(r)
  BY <1>2, VoidLookupLocal DEF OuterLookup
<1>3. CASE OuterVoid(r)
  BY <1>3, VoidSendLocal DEF OuterVoid
<1>4. CASE CleanUp(r)
  BY <1>4, UpdateLocal DEF CleanUp, DeleteTransactionState, FaultKind
<1> QED
  BY <1>1, <1>2, <1>3, <1>4 DEF CatchBlock

\* What a state write does to its own request.
LEMMA UpdateEffect ==
  ASSUME NEW Labels, PurchaseTypeOK(Labels), NEW r \in Request, NEW from, NEW state,
         NEW to, NEW catch, NEW kind,
         UpdateTransactionState(r, from, state, to, catch, kind)
  PROVE  /\ pc[r] = from
         /\ \/ pc'[r] = to /\ record'[r] = state /\ fault'[r] = fault[r]
            \/ /\ pc'[r] = catch /\ fault'[r] = fault[r] \cup {kind}
               /\ record'[r] = record[r] \/ record'[r] = state
         /\ UNCHANGED <<input, tx, voidsSent, saidTimedOut, mars, timedOut, redeemed,
                        notNew, snapshots>>
BY DEF UpdateTransactionState, PurchaseTypeOK, Succeeds, Throws, serviceVars, marsVars,
   effectVars

\* The step goes on to l with no new fault, or to l with one of the given kind.
Passes(r, from, l) == pc[r] = from /\ pc'[r] = l /\ fault'[r] = fault[r]
Faults(r, from, l, kind) == pc[r] = from /\ pc'[r] = l /\ fault'[r] = fault[r] \cup {kind}

\* An await that resolves, seen from its own request.
LEMMA SucceedsEffect ==
  ASSUME NEW Labels, PurchaseTypeOK(Labels), NEW r \in Request, NEW from, NEW to,
         Succeeds(r, from, to)
  PROVE  Passes(r, from, to)
BY DEF PurchaseTypeOK, Succeeds, Passes

\* An await that rejects, seen from its own request.
LEMMA ThrowsEffect ==
  ASSUME NEW Labels, PurchaseTypeOK(Labels), NEW r \in Request, NEW from, NEW catch, NEW kind,
         Throws(r, from, catch, kind)
  PROVE  Faults(r, from, catch, kind)
BY DEF PurchaseTypeOK, Throws, Faults

\* What redeeming the offer does to its own request.
LEMMA RedeemEffect ==
  ASSUME NEW Labels, PurchaseTypeOK(Labels), NEW r \in Request, NEW from, NEW to,
         RedeemOffer(r, from, to)
  PROVE  /\ \/ Passes(r, from, to) /\ (input[r].offer => r \in redeemed')
            \/ Faults(r, from, "voiding", "step")
         /\ r \in redeemed => r \in redeemed'
         /\ UNCHANGED <<input, tx, voidsSent, saidTimedOut, record, mars, timedOut, notNew,
                        snapshots>>
BY SucceedsEffect, ThrowsEffect DEF RedeemOffer, serviceVars, marsVars

\* What updating the customer does to its own request.
LEMMA CustomerEffect ==
  ASSUME NEW Labels, PurchaseTypeOK(Labels), NEW r \in Request, NEW from, NEW to,
         MakeCustomerNotNew(r, from, to)
  PROVE  /\ \/ Passes(r, from, to) /\ (input[r].isNew => r \in notNew')
            \/ Faults(r, from, "voiding", "step")
         /\ r \in notNew => r \in notNew'
         /\ UNCHANGED <<input, tx, voidsSent, saidTimedOut, record, mars, timedOut, redeemed,
                        snapshots>>
BY SucceedsEffect, ThrowsEffect DEF MakeCustomerNotNew, serviceVars, marsVars

\* What saving the snapshot does to its own request.
LEMMA SnapshotEffect ==
  ASSUME NEW Labels, PurchaseTypeOK(Labels), NEW r \in Request, NEW from, NEW to,
         CreatePowercardBalanceSnapshot(r, from, to)
  PROVE  /\ \/ Passes(r, from, to) /\ r \in snapshots'
            \/ Faults(r, from, "voiding", "step")
         /\ UNCHANGED <<input, tx, voidsSent, saidTimedOut, record, mars, timedOut, redeemed,
                        notNew>>
BY SucceedsEffect, ThrowsEffect DEF CreatePowercardBalanceSnapshot, serviceVars, marsVars

\* What a failed call to MARS does to its own request.
LEMMA MarsFailsEffect ==
  ASSUME NEW Labels, PurchaseTypeOK(Labels), NEW r \in Request, NEW from, NEW to,
         MarsFails(r, from, to)
  PROVE  /\ Faults(r, from, to, "step")
         /\ UNCHANGED <<input, tx, voidsSent, saidTimedOut, record, mars, redeemed, notNew,
                        snapshots>>
BY SucceedsEffect, ThrowsEffect DEF MarsFails, serviceVars, effectVars

\* What looking the payment up does to its own request.
LEMMA VoidLookupEffect ==
  ASSUME NEW Labels, PurchaseTypeOK(Labels), NEW r \in Request, NEW from, NEW void, NEW skip,
         NEW catch, VoidLookup(r, from, void, skip, catch)
  PROVE  /\ \/ Passes(r, from, void) /\ tx[r] \in {"none", "authorized"}
            \/ Passes(r, from, skip) /\ tx[r] = "void"
            \/ Faults(r, from, catch, "void")
         /\ UNCHANGED <<input, tx, voidsSent, saidTimedOut, record, mars, timedOut, redeemed,
                        notNew, snapshots>>
<1>1. tx[r] \in {"none", "authorized", "void"}
  BY DEF PurchaseTypeOK
<1> QED
  BY <1>1, SucceedsEffect, ThrowsEffect DEF VoidLookup, serviceVars, marsVars, effectVars

\* What the void call does to its own request.
VoidSent(r, from, flag, to, catch) ==
  /\ \/ Passes(r, from, to) /\ tx'[r] = "void"
     \/ Faults(r, from, catch, "void") /\ tx'[r] \in {tx[r], "void"}
  /\ saidTimedOut'[r] <=> saidTimedOut[r] \/ flag
  /\ UNCHANGED <<input, record, mars, timedOut, redeemed, notNew, snapshots>>

LEMMA VoidSendEffect ==
  ASSUME NEW Labels, PurchaseTypeOK(Labels), NEW r \in Request, NEW from,
         NEW flag \in BOOLEAN, NEW to, NEW catch, VoidSend(r, from, flag, to, catch)
  PROVE  VoidSent(r, from, flag, to, catch)
BY SucceedsEffect, ThrowsEffect DEF VoidSend, VoidSent, PurchaseTypeOK, marsVars, effectVars

-----------------------------------------------------------------------------
(* How the steps of a handler look in PurchaseContract *)

\* The answer a label stands for.
Answer(l) ==
  IF l = "returned" THEN "ok"
  ELSE IF l \in {"rejected", "failed", "crashed"} THEN "error" ELSE "none"

\* The answer follows the handler's label.
LEMMA ReplyMoves ==
  ASSUME NEW Labels, pc \in [Request -> Labels], NEW r \in Request, NEW l,
         pc' = [pc EXCEPT ![r] = l]
  PROVE  /\ replies' = [replies EXCEPT ![r] = Answer(l)]
         /\ replies[r] = Answer(pc[r])
         /\ Answer(l) = Answer(pc[r]) => replies' = replies
<1>1. replies = [x \in Request |-> Answer(pc[x])]
  BY DEF replies, Answer
<1>2. replies' = [x \in Request |-> Answer(pc'[x])]
  BY DEF replies, Answer
<1>3. \A x \in Request : pc'[x] = IF x = r THEN l ELSE pc[x]
  OBVIOUS
<1> HIDE DEF Answer
<1>4. replies' = [x \in Request |-> IF x = r THEN Answer(l) ELSE Answer(pc[x])]
  BY <1>2, <1>3
<1> QED
  BY <1>1, <1>4

\* A step that touches neither the payment nor MARS and does not report
\* success stutters in the contract or refuses the request.
LEMMA PlainStep ==
  ASSUME NEW Labels, pc \in [Request -> Labels], NEW r \in Request, NEW l,
         pc' = [pc EXCEPT ![r] = l], UNCHANGED <<tx, credited>>,
         Answer(pc[r]) = "none", Answer(l) # "ok"
  PROVE  [Contract!Next]_(Contract!vars)
<1>1. CASE Answer(l) = "none"
  BY <1>1, ReplyMoves DEF Contract!vars
<1>2. CASE Answer(l) = "error"
  BY <1>2, ReplyMoves DEF Contract!Next, Contract!Refuse
<1> QED
  BY <1>1, <1>2 DEF Answer

\* Authorizing the payment, with the answer still open or an error.
LEMMA AuthorizeStep ==
  ASSUME NEW Labels, pc \in [Request -> Labels], NEW r \in Request, NEW l,
         pc' = [pc EXCEPT ![r] = l], tx[r] = "none",
         tx' = [tx EXCEPT ![r] = "authorized"], UNCHANGED credited,
         Answer(pc[r]) = "none", Answer(l) # "ok"
  PROVE  [Contract!Next]_(Contract!vars)
<1>1. Contract!Authorize(r)
  BY ReplyMoves DEF Contract!Authorize, Answer
<1> QED
  BY <1>1 DEF Contract!Next

\* Voiding the payment, with the answer still open or an error.
LEMMA VoidStep ==
  ASSUME NEW Labels, pc \in [Request -> Labels], NEW r \in Request, NEW l,
         pc' = [pc EXCEPT ![r] = l], tx[r] = "authorized",
         tx' = [tx EXCEPT ![r] = "void"], UNCHANGED credited,
         Answer(pc[r]) = "none", Answer(l) # "ok"
  PROVE  [Contract!Next]_(Contract!vars)
<1>1. Contract!Void(r)
  BY ReplyMoves DEF Contract!Void, Answer
<1> QED
  BY <1>1 DEF Contract!Next

\* Reporting success for a payment that stands and a purchase MARS applied.
LEMMA ConfirmStep ==
  ASSUME NEW Labels, pc \in [Request -> Labels], NEW r \in Request,
         pc' = [pc EXCEPT ![r] = "returned"], UNCHANGED <<tx, credited>>,
         Answer(pc[r]) = "none", tx[r] = "authorized", mars[r] = "applied"
  PROVE  [Contract!Next]_(Contract!vars)
<1>1. Contract!Confirm(r)
  BY ReplyMoves DEF Contract!Confirm, credited, Answer
<1> QED
  BY <1>1 DEF Contract!Next

\* MARS deciding: a credit if it applies the request, else nothing.
LEMMA DecideStep ==
  ASSUME NEW r \in Request, mars \in [Request -> {"none", "inflight", "applied", "refused"}],
         MarsDecides(r), tx[r] # "none"
  PROVE  [Contract!Next]_(Contract!vars)
<1>1. UNCHANGED <<tx, replies>>
  BY DEF MarsDecides, replies, serviceVars
<1>2. CASE mars' = [mars EXCEPT ![r] = "applied"]
  <2>1. credited' = credited \cup {r}
    BY <1>2 DEF credited
  <2> QED
    BY <1>1, <2>1 DEF Contract!Next, Contract!Credit
<1>3. CASE mars' = [mars EXCEPT ![r] = "refused"]
  <2>1. credited' = credited
    BY <1>3 DEF credited, MarsDecides
  <2> QED
    BY <1>1, <2>1 DEF Contract!vars
<1> QED
  BY <1>2, <1>3 DEF MarsDecides

\* Sending the request to MARS is no credit yet.
LEMMA SendIsNoCredit ==
  ASSUME NEW r \in Request, mars \in [Request -> {"none", "inflight", "applied", "refused"}],
         mars[r] = "none", mars' = [mars EXCEPT ![r] = "inflight"]
  PROVE  UNCHANGED credited
BY DEF credited
=============================================================================
