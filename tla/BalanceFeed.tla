------------------------------- MODULE BalanceFeed -------------------------------
(***************************************************************************)
(* PowercardBalancesService: the messages MARS sends about one powercard.  *)
(*                                                                         *)
(* Each message gets a handler of its own.  It looks whether the card is   *)
(* in the app, stores the balances in Redis and, for a balance message,    *)
(* updates the wallet pass.  A ticket message comes in a flood: it starts  *)
(* a ticket session unless one is marked in Redis, and a timer of the      *)
(* process that started it ends the session by sending the balances stored *)
(* by then.  The queue is read without acknowledgement, so a message whose *)
(* handler fails or dies is gone.                                          *)
(*                                                                         *)
(* stage[m] names the handler's next await. Redis calls that fail may have *)
(* taken effect or not.  The card has one row, of one customer.            *)
(***************************************************************************)
EXTENDS Naturals, FiniteSets

CONSTANTS
  Message,   \* messages about the card
  Ticket,    \* those that are ticket updates (five attributes)
  Low,       \* those below the recharge threshold, the card's easy recharge being on
  Dropping,  \* those whose chips are fewer than the balances in Redis say
  Process,   \* processes that read the queue
  Home,      \* the process each message is delivered to
  MaxHandled \* bound: the messages that get a handler

ASSUME FeedAssumption ==
  /\ Ticket \subseteq Message /\ Low \subseteq Message /\ Dropping \subseteq Message
  /\ Home \in [Message -> Process]

VARIABLES
  stage,     \* the next await of the message's handler
  sawSent,   \* easyRechargeSent in the row the handler loaded
  inApp,     \* the card has a row
  sent,      \* easyRechargeSent in the row
  valid,     \* the card's __POWERCARD_VALID key in Redis
  cached,    \* the card has balances in Redis
  old,       \* the handler found balances in Redis before it stored its own
  stored,    \* messages whose balances were merged into Redis
  tapped,    \* customer.tappedNfc
  key,       \* __TICKET_SESSION_IN_PROGRESS in Redis
  timer,     \* the session a message started, by that message
  carry,     \* messages stored when the end of the session read the balances
  shown,     \* messages that reached the pass
  orphan,    \* history: the key may be left by a session that cannot end
  excused    \* history: messages whose session was cut short

cardVars == <<inApp, sent, valid, tapped>>
handlerVars == <<stage, sawSent, old>>
storeVars == <<cached, stored>>
sessionVars == <<key, timer, carry, shown, orphan, excused>>
feedVars == <<handlerVars, cardVars, storeVars, sessionVars>>

\* "ignored": not a card of the app; "failed": an error before the pass or
\* the session; "unalerted": an error after it.
Terminal == {"ignored", "failed", "unalerted", "crashed", "done"}
Managed == {"alertCustomer", "notify", "markSent", "unalerted", "done"}
Stage == Terminal \cup Managed \cup
  {"queued", "query", "markInvalid", "markValid", "oldBalance", "customer",
   "popup", "store", "pass", "session", "markSession"}

FeedTypeOK ==
  /\ stage \in [Message -> Stage]
  /\ sawSent \in [Message -> BOOLEAN]
  /\ inApp \in BOOLEAN /\ sent \in BOOLEAN /\ cached \in BOOLEAN
  /\ tapped \in BOOLEAN /\ key \in BOOLEAN /\ orphan \in BOOLEAN
  /\ valid \in {"unknown", "valid", "invalid"}
  /\ old \in [Message -> BOOLEAN]
  /\ stored \subseteq Message
  /\ timer \in [Message -> {"off", "armed", "read", "send"}]
  /\ carry \in [Message -> SUBSET Message]
  /\ shown \subseteq Message
  /\ excused \subseteq Message

FeedInit ==
  /\ stage = [m \in Message |-> "queued"]
  /\ sawSent = [m \in Message |-> FALSE]
  /\ inApp \in BOOLEAN
  /\ sent = FALSE
  /\ valid = "unknown"
  /\ cached = FALSE
  /\ old = [m \in Message |-> FALSE]
  /\ stored = {}
  /\ tapped \in BOOLEAN
  /\ key = FALSE
  /\ timer = [m \in Message |-> "off"]
  /\ carry = [m \in Message |-> {}]
  /\ shown = {}
  /\ orphan = FALSE
  /\ excused = {}

-----------------------------------------------------------------------------
(* handleInboundBalanceMessage, up to the balances *)

Moves(m, from, to) == stage[m] = from /\ stage' = [stage EXCEPT ![m] = to]

\* A card marked invalid is ignored without a look at its rows.
CheckValid(m) ==
  /\ Cardinality({n \in Message : stage[n] # "queued"}) < MaxHandled
  /\ \/ valid # "invalid" /\ Moves(m, "queued", "query")
     \/ valid = "invalid" /\ Moves(m, "queued", "ignored")
     \/ Moves(m, "queued", "failed")
  /\ UNCHANGED <<sawSent, old, cardVars, storeVars, sessionVars>>

\* The rows of the card, with its balances: from Redis, else from MARS, and
\* then they are put into Redis when MARS knows the card.
Query(m) ==
  /\ \/ inApp /\ Moves(m, "query", "markValid") /\ cached' \in {cached, TRUE}
     \/ ~inApp /\ Moves(m, "query", "markInvalid") /\ UNCHANGED cached
     \/ Moves(m, "query", "failed") /\ cached' \in {cached, cached \/ inApp}
  /\ sawSent' = [sawSent EXCEPT ![m] = sent]
  /\ UNCHANGED <<old, cardVars, stored, sessionVars>>

MarkInvalid(m) ==
  /\ \/ Moves(m, "markInvalid", "ignored") /\ valid' = "invalid"
     \/ Moves(m, "markInvalid", "failed") /\ valid' \in {valid, "invalid"}
  /\ UNCHANGED <<sawSent, old, inApp, sent, tapped, storeVars, sessionVars>>

MarkValid(m) ==
  /\ \/ Moves(m, "markValid", "oldBalance") /\ valid' = "valid"
     \/ Moves(m, "markValid", "failed") /\ valid' \in {valid, "valid"}
  /\ UNCHANGED <<sawSent, old, inApp, sent, tapped, storeVars, sessionVars>>

-----------------------------------------------------------------------------
(* detectNfcOperationAndUpdateCustomerIfNecessary *)

OldBalance(m) ==
  /\ \/ Moves(m, "oldBalance", "customer") /\ old' = [old EXCEPT ![m] = cached]
     \/ Moves(m, "oldBalance", "failed") /\ UNCHANGED old
  /\ UNCHANGED <<sawSent, cardVars, storeVars, sessionVars>>

(***************************************************************************)
(* No customer in the answer: go on with the message.  An error of the     *)
(* customer service is logged, and the missing customer, like missing old  *)
(* balances, is then dereferenced: the message is dropped.                 *)
(***************************************************************************)
FindCustomer(m) ==
  /\ \/ Moves(m, "customer", "store")
     \/ old[m] /\ m \in Dropping /\ ~tapped /\ Moves(m, "customer", "popup")
     \/ Moves(m, "customer", "failed")
  /\ UNCHANGED <<sawSent, old, cardVars, storeVars, sessionVars>>

\* customerUpdate; its errors are swallowed.
Popup(m) ==
  /\ Moves(m, "popup", "store")
  /\ tapped' \in {tapped, TRUE}
  /\ UNCHANGED <<sawSent, old, inApp, sent, valid, storeVars, sessionVars>>

-----------------------------------------------------------------------------
(* Balances, pass and ticket session *)

\* storePowercardBalancesInCache, then the branch on the kind of message.
Store(m) ==
  /\ LET next == IF m \in Ticket THEN "session" ELSE "pass"
     IN  \/ Moves(m, "store", next) /\ cached' = TRUE /\ stored' = stored \cup {m}
         \/ /\ Moves(m, "store", "failed")
            /\ \/ UNCHANGED storeVars
               \/ cached' = TRUE /\ stored' = stored \cup {m}
  /\ UNCHANGED <<sawSent, old, cardVars, sessionVars>>

\* What comes after the pass: the easy recharge alert, if it is due.
AfterPass(m) == IF m \in Low /\ ~sawSent[m] THEN "alertCustomer" ELSE "done"

\* updateWalletPass with the balances of the message itself.
UpdatePass(m) ==
  /\ \/ Moves(m, "pass", AfterPass(m)) /\ shown' = shown \cup {m}
     \/ Moves(m, "pass", "failed") /\ shown' \in {shown, shown \cup {m}}
  /\ UNCHANGED <<sawSent, old, cardVars, storeVars, key, timer, carry, orphan, excused>>

\* manageTicketSession: is a session in progress?
ManageSession(m) ==
  /\ \/ /\ key /\ Moves(m, "session", AfterPass(m))
        /\ excused' = IF orphan THEN excused \cup {m} ELSE excused
     \/ ~key /\ Moves(m, "session", "markSession") /\ UNCHANGED excused
     \/ Moves(m, "session", "failed") /\ UNCHANGED excused
  /\ UNCHANGED <<sawSent, old, cardVars, storeVars, key, timer, carry, shown, orphan>>

\* startTicketSession: mark the session in Redis, then set its timer.
StartSession(m) ==
  /\ \/ /\ Moves(m, "markSession", AfterPass(m))
        /\ key' = TRUE /\ orphan' = FALSE
        /\ timer' = [timer EXCEPT ![m] = "armed"]
     \/ /\ Moves(m, "markSession", "failed")
        /\ key' \in {key, TRUE} /\ orphan' = TRUE
        /\ UNCHANGED timer
  /\ UNCHANGED <<sawSent, old, cardVars, storeVars, carry, shown, excused>>

\* The end of a session that fails on the way is not tried again.
CutShort == excused' = excused \cup (stored \ shown)

\* Mutant: the key is left to its expiration.
FinishSessionKeyed(m) ==
  /\ timer[m] = "armed"
  /\ timer' = [timer EXCEPT ![m] = "read"]
  /\ UNCHANGED <<handlerVars, cardVars, storeVars, key, carry, shown, orphan, excused>>

\* The timer fires: finishTicketSession deletes the key first.
FinishSession(m) ==
  /\ timer[m] = "armed"
  /\ \/ /\ timer' = [timer EXCEPT ![m] = "read"]
        /\ key' = FALSE /\ orphan' = FALSE
        /\ UNCHANGED excused
     \/ /\ timer' = [timer EXCEPT ![m] = "off"]
        /\ key' \in {key, FALSE} /\ orphan' = TRUE
        /\ CutShort
  /\ UNCHANGED <<handlerVars, cardVars, storeVars, carry, shown>>

\* It reads the balances; without any, the mapping to a pass throws.
ReadBalances(m) ==
  /\ timer[m] = "read"
  /\ \/ /\ cached
        /\ timer' = [timer EXCEPT ![m] = "send"]
        /\ carry' = [carry EXCEPT ![m] = stored]
        /\ UNCHANGED excused
     \/ /\ timer' = [timer EXCEPT ![m] = "off"]
        /\ CutShort
        /\ UNCHANGED carry
  /\ UNCHANGED <<handlerVars, cardVars, storeVars, key, shown, orphan>>

\* And sends them to the pass.
SendBalances(m) ==
  /\ timer[m] = "send"
  /\ timer' = [timer EXCEPT ![m] = "off"]
  /\ \/ shown' = shown \cup carry[m] /\ UNCHANGED excused
     \/ excused' = excused \cup carry[m] /\ UNCHANGED shown
  /\ UNCHANGED <<handlerVars, cardVars, storeVars, key, carry, orphan>>

-----------------------------------------------------------------------------
(* The easy recharge alert *)

\* Does the customer want alerts?
AlertCustomer(m) ==
  /\ \/ Moves(m, "alertCustomer", "notify")
     \/ Moves(m, "alertCustomer", "done")
     \/ Moves(m, "alertCustomer", "unalerted")
  /\ UNCHANGED <<sawSent, old, cardVars, storeVars, sessionVars>>

\* Look for the last purchase (its balances may be fetched again), and notify.
Notify(m) ==
  /\ Moves(m, "notify", "markSent") \/ Moves(m, "notify", "unalerted")
  /\ cached' \in {cached, TRUE}
  /\ UNCHANGED <<sawSent, old, cardVars, stored, sessionVars>>

\* powercardMarkEasyRechargeNotificationSent, if the card still has its row.
MarkSent(m) ==
  /\ \/ inApp /\ Moves(m, "markSent", "done") /\ sent' = TRUE
     \/ Moves(m, "markSent", "unalerted") /\ sent' \in {sent, sent \/ inApp}
  /\ UNCHANGED <<sawSent, old, inApp, valid, tapped, storeVars, sessionVars>>

-----------------------------------------------------------------------------
(* Around the handlers *)

\* A customer adds the card to the app or removes it.
ChangeCard ==
  /\ inApp' = ~inApp
  /\ sent' = FALSE
  /\ UNCHANGED <<handlerVars, valid, tapped, storeVars, sessionVars>>

\* A recharge resets the flag and drops the balances from Redis.
RechargeCard ==
  /\ sent' = FALSE /\ cached' = FALSE
  /\ UNCHANGED <<handlerVars, inApp, valid, tapped, stored, sessionVars>>

ExpireBalances ==
  /\ cached' = FALSE
  /\ UNCHANGED <<handlerVars, cardVars, stored, sessionVars>>

\* Mutant: only positive marks are stored with an expiration.
ExpireValidOnly ==
  /\ valid = "valid"
  /\ valid' = "unknown"
  /\ UNCHANGED <<handlerVars, inApp, sent, tapped, storeVars, sessionVars>>

ExpireValid ==
  /\ valid # "unknown"
  /\ valid' = "unknown"
  /\ UNCHANGED <<handlerVars, inApp, sent, tapped, storeVars, sessionVars>>

\* Mutant: the key expires only while its session is known to run.
ExpireSessionUnlessOrphan ==
  /\ key /\ ~orphan
  /\ key' = FALSE
  /\ UNCHANGED <<handlerVars, cardVars, storeVars, timer, carry, shown, orphan, excused>>

\* The key expires, in practice half a session after the timer was to fire.
ExpireSession ==
  /\ key
  /\ key' = FALSE /\ orphan' = FALSE
  /\ UNCHANGED <<handlerVars, cardVars, storeVars, timer, carry, shown, excused>>

\* A process dies: its handlers and timers are gone, Redis is not.
Crash(p) ==
  LET mine == {m \in Message : Home[m] = p}
  IN  /\ stage' = [m \in Message |->
                  IF m \in mine /\ stage[m] \notin Terminal \cup {"queued"}
                  THEN "crashed" ELSE stage[m]]
      /\ timer' = [m \in Message |-> IF m \in mine THEN "off" ELSE timer[m]]
      /\ orphan' = TRUE
      /\ CutShort
      /\ UNCHANGED <<sawSent, old, cardVars, storeVars, key, carry, shown>>

-----------------------------------------------------------------------------
Handler(m) ==
  \/ CheckValid(m) \/ Query(m) \/ MarkInvalid(m) \/ MarkValid(m)
  \/ OldBalance(m) \/ FindCustomer(m) \/ Popup(m) \/ Store(m)
  \/ UpdatePass(m) \/ ManageSession(m) \/ StartSession(m)
  \/ AlertCustomer(m) \/ Notify(m) \/ MarkSent(m)

Session(m) == FinishSession(m) \/ ReadBalances(m) \/ SendBalances(m)

Around ==
  \/ ChangeCard \/ RechargeCard \/ ExpireBalances \/ ExpireValid \/ ExpireSession
  \/ \E p \in Process : Crash(p)

FeedNext == Around \/ \E m \in Message : Handler(m) \/ Session(m)

FeedSpec == FeedInit /\ [][FeedNext]_feedVars

(***************************************************************************)
(* Node goes on with every handler it has started and fires every timer,   *)
(* and Redis expires its keys.  A message need not be sent.                *)
(***************************************************************************)
FeedFairness ==
  /\ \A m \in Message : WF_feedVars(stage[m] # "queued" /\ Handler(m)) /\ WF_feedVars(Session(m))
  /\ WF_feedVars(ExpireValid) /\ WF_feedVars(ExpireSession)

FairFeedSpec == FeedSpec /\ FeedFairness

-----------------------------------------------------------------------------
Armed == {m \in Message : timer[m] = "armed"}

\* Ticket updates that were stored, and whose handler found or started a
\* session, and that have not reached the pass.
Waiting == {m \in Ticket : stage[m] \in Managed} \ (shown \cup excused)

(***************************************************************************)
(* No ticket update of a flood is forgotten: one that has not reached the  *)
(* pass is in the hands of a session that will still read the balances, or *)
(* has read them with the update in them.  It holds although sessions are  *)
(* started without a lock, keys expire at any time and ends of sessions    *)
(* overlap with new updates, for every session not cut short by an error   *)
(* or a crash.                                                             *)
(***************************************************************************)
NoUpdateForgotten ==
  \A m \in Waiting :
    \E t \in Message :
      timer[t] \in {"armed", "read"} \/ (timer[t] = "send" /\ m \in carry[t])

\* Every such update reaches the pass unless its session is cut short.
UpdatesReachPass ==
  \A m \in Ticket : m \in Waiting ~> m \in shown \cup excused

\* A session that died with its process does not block later sessions.
SessionsEnd == key ~> ~key

\* A card that stays in the app is not ignored for good, even when a handler
\* that looked for its row too early marks it invalid after it was added.
InvalidMarksPass == <>[]inApp => <>[](valid # "invalid")

-----------------------------------------------------------------------------
(* The inductive invariant *)

\* A session marked in Redis has a timer that is yet to read the balances.
KeyBacked == key /\ ~orphan => Armed # {}

\* Only balance messages update the pass themselves, and a ticket update is
\* in Redis before its handler asks for a session.
StoredFirst ==
  \A m \in Message :
    /\ stage[m] = "pass" => m \notin Ticket
    /\ (m \in Ticket /\ stage[m] \in {"session", "markSession"} \cup Managed) => m \in stored

FeedIInv == FeedTypeOK /\ KeyBacked /\ StoredFirst /\ NoUpdateForgotten
=============================================================================
