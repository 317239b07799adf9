------------------------------ MODULE EasyRecharge ------------------------------
(***************************************************************************)
(* PowercardBalancesService and PowercardService: the alert that asks a    *)
(* customer to recharge a card that runs out of chips.                     *)
(*                                                                         *)
(* The handler of a balance message sends it for each row of the card that *)
(* wants it, once for a customer, and marks the row; a recharge takes the  *)
(* mark away.  The mark, its reset, the setting of the customer, the       *)
(* setting that comes with a recharge, and an update, an enabling or a     *)
(* disabling of the card, which mean neither, are all saved with the       *)
(* entity that was loaded, the whole row of it, and nothing orders them.   *)
(*                                                                         *)
(* The alert offers the item of the rate card that sells as many chips as  *)
(* the customer bought last, or no item.                                   *)
(***************************************************************************)
EXTENDS Naturals, Sequences, Functions

CONSTANTS
  Row,         \* the rows of the card
  Order,       \* the order they are found in
  Customer,
  CustomerOf,  \* the customer of each row
  Inbound,     \* messages that say the chips are below the threshold
  Admin,       \* callers who may trigger an alert with a query
  Setter,      \* callers who may set the easy recharge of a row
  Editor,      \* callers who may update, enable or disable a card
  Buyer,       \* recharges
  Buys,        \* the chips each recharge buys
  Menu         \* the chips of each item of the rate card, in its order

Actor == Inbound \cup Admin \cup Buyer \cup Setter \cup Editor
Item == 0..Len(Menu)   \* the position of an item; 0 is no item
Chips == {0} \cup Range(Buys)

ASSUME EasyRechargeAssumption ==
  /\ Row # {} /\ Order \in [Row -> Nat] /\ IsInjective(Order)
  /\ CustomerOf \in [Row -> Customer]
  /\ Buys \in [Buyer -> Nat \ {0}] /\ Menu \in Seq(Nat \ {0})
  /\ Inbound \cap (Admin \cup Buyer \cup Setter \cup Editor) = {}
  /\ Buyer \cap (Admin \cup Setter \cup Editor) = {}

Entity == [enabled : BOOLEAN, sent : BOOLEAN]
Blank == [enabled |-> FALSE, sent |-> FALSE]

VARIABLES
  table,    \* the rows: easyRechargeEnabled and easyRechargeSent
  lastQty,  \* the chips bought last for each row; 0 when nothing was
  pc,       \* the next await of each actor
  due,      \* the rows a handler found in want of an alert, but those it is done with
  at,       \* the row an actor is at
  entity,   \* that row as an actor has loaded it and will save it
  item,     \* the item an alert is to offer
  wish,     \* history: the setting each row was given last
  alerts,   \* history: alerts by messages about each row since its last reset, up to 2
  alerted,  \* history: rows with any alert since their last reset
  stale,    \* history: actors, and their rows that were saved since they loaded them
  late,     \* history: actors that chose an item before the last purchase
  crossed,  \* history: rows whose mark was passed by another step, or failed
  outdated  \* history: rows saved with a setting from before the last one

rows == <<table, lastQty>>
locals == <<pc, due, at, entity, item>>
told == <<alerts, alerted>>
vars == <<rows, locals, told, wish, stale, late, crossed, outdated>>

Labels ==
  {"idle", "customer", "choose", "send", "markFind", "markSave",
   "setSave", "editSave", "pay", "settingSave", "recharge", "resetFind", "resetSave",
   "snapshot", "done"}

TypeOK ==
  /\ table \in [Row -> Entity] /\ lastQty \in [Row -> Chips]
  /\ pc \in [Actor -> Labels]
  /\ due \in [Actor -> SUBSET Row]
  /\ at \in [Actor -> Row] /\ entity \in [Actor -> Entity] /\ item \in [Actor -> Item]
  /\ wish \in [Row -> BOOLEAN]
  /\ alerts \in [Row -> 0..2] /\ alerted \subseteq Row
  /\ stale \subseteq Actor \X Row /\ late \subseteq Actor
  /\ crossed \subseteq Row /\ outdated \subseteq Row

\* Where an actor that is at no row is said to be.
NoRow == CHOOSE r \in Row : TRUE

\* Cards that were added with the alert or without it, never alerted yet.
Init ==
  /\ table \in [Row -> {e \in Entity : ~e.sent}]
  /\ lastQty \in [Row -> Chips]
  /\ pc = [p \in Actor |-> "idle"] /\ due = [p \in Actor |-> {}]
  /\ at = [p \in Actor |-> NoRow]
  /\ entity = [p \in Actor |-> Blank]
  /\ item = [p \in Actor |-> 0]
  /\ wish = [r \in Row |-> table[r].enabled]
  /\ alerts = [r \in Row |-> 0] /\ alerted = {}
  /\ stale = {} /\ late = {} /\ crossed = {} /\ outdated = {}

-----------------------------------------------------------------------------
(* Loading and saving a row *)

Goes(p, to) == pc' = [pc EXCEPT ![p] = to]

\* Between the load and the save of an entity.
Holds(p, r) ==
  /\ at[p] = r
  /\ pc[p] \in {"markSave", "setSave", "editSave", "pay", "settingSave", "resetSave"}

\* An alert was sent and its mark is not saved.
Unmarked(p, r) == at[p] = r /\ pc[p] \in {"markFind", "markSave"}

Loads(p, r, to) ==
  /\ Goes(p, to)
  /\ at' = [at EXCEPT ![p] = r] /\ entity' = [entity EXCEPT ![p] = table[r]]
  /\ stale' = stale \ {<<p, r>>}

\* Every column of the loaded entity is written.  Who has loaded the row
\* before is now behind, and so is who found it in want of an alert it had.
Writes(p, e) ==
  LET r == at[p]
      behind == {q \in Actor \ {p} : Holds(q, r)}
      misled == {m \in Inbound \ {p} : e.sent /\ r \in due[m]}
  IN  /\ table' = [table EXCEPT ![r] = e]
      /\ stale' = (stale \cup ((behind \cup misled) \X {r})) \ {<<p, r>>}

\* The row of an actor, if it is behind.
Behind(p) == IF <<p, at[p]>> \in stale THEN {at[p]} ELSE {}

\* An actor ends, its locals with it.
Leaves(p) ==
  /\ Goes(p, "done")
  /\ due' = [due EXCEPT ![p] = {}] /\ at' = [at EXCEPT ![p] = NoRow]
  /\ entity' = [entity EXCEPT ![p] = Blank]
  /\ item' = [item EXCEPT ![p] = 0]

-----------------------------------------------------------------------------
(* handleInboundBalanceMessage *)

Before(o, r) == Order[o] < Order[r] /\ CustomerOf[o] = CustomerOf[r]

\* Mutant: the mark of a row is not looked at.
DueEnabled ==
  {r \in Row : table[r].enabled /\ \A o \in Row : table[o].enabled => ~Before(o, r)}

\* The rows that want an alert as they are found, not as they are when their
\* turn comes; of the rows of a customer, the first of them only.
Due ==
  LET Wants(r) == table[r].enabled /\ ~table[r].sent
  IN  {r \in Row : Wants(r) /\ \A o \in Row : Wants(o) => ~Before(o, r)}

\* To the first of the rows that are left, or out of the handler without one.
Turns(m, left) ==
  \/ left = {} /\ Leaves(m)
  \/ \E r \in left :
       /\ \A o \in left : Order[r] <= Order[o]
       /\ Goes(m, "customer")
       /\ due' = [due EXCEPT ![m] = left] /\ at' = [at EXCEPT ![m] = r]
       /\ entity' = [entity EXCEPT ![m] = Blank] /\ item' = [item EXCEPT ![m] = 0]

Receive(m) ==
  /\ m \in Inbound /\ pc[m] = "idle"
  /\ Turns(m, Due)
  /\ UNCHANGED <<rows, told, wish, stale, late, crossed, outdated>>

\* getBasicCustomerDetailsByUuid and cardBalance: the customer may want no
\* alerts at all, and without the store the card is at there is no item.
Ask(m) ==
  /\ pc[m] = "customer"
  /\ \/ Turns(m, due[m] \ {at[m]})
     \/ \E l \in {"choose", "send"} : Goes(m, l) /\ UNCHANGED <<due, at, entity, item>>
     \/ Leaves(m)
  /\ UNCHANGED <<rows, told, wish, stale, late, crossed, outdated>>

\* Mutant: an item that sells at least as many chips will do.
BestAtLeast(q) ==
  LET fit == {i \in DOMAIN Menu : q # 0 /\ Menu[i] >= q}
  IN  {i \in fit : \A j \in fit : j <= i}

\* The last item of the menu that sells so many chips, if any; none sells 0.
Best(q) ==
  LET fit == {i \in DOMAIN Menu : Menu[i] = q}
  IN  {i \in fit : \A j \in fit : j <= i}

\* determineBestRateCardItemIdForCustomerBasedOnLastPurchase; an alert that is
\* triggered throws when there is no item.
Choose(p) ==
  /\ pc[p] = "choose" /\ late' = late \ {p}
  /\ \/ /\ \E i \in Best(lastQty[at[p]]) : item' = [item EXCEPT ![p] = i]
        /\ Goes(p, "send") /\ UNCHANGED <<due, at, entity>>
     \/ /\ p \in Inbound /\ Best(lastQty[at[p]]) = {}
        /\ item' = [item EXCEPT ![p] = 0]
        /\ Goes(p, "send") /\ UNCHANGED <<due, at, entity>>
     \/ Leaves(p)
  /\ UNCHANGED <<rows, told, wish, stale, crossed, outdated>>

\* triggerEasyRecharge- and triggerFastEasyRechargeNotificationForPowercard,
\* the latter with an item that is given or still to be chosen.
Trigger(a) ==
  /\ a \in Admin /\ pc[a] = "idle"
  /\ \E r \in Row, l \in {"send", "choose"} :
       Goes(a, l) /\ at' = [at EXCEPT ![a] = r]
  /\ UNCHANGED <<rows, due, entity, item, told, wish, stale, late, crossed, outdated>>

\* The customer is told.
Tells(p) ==
  /\ alerted' = alerted \cup {at[p]}
  /\ alerts' = IF p \in Inbound /\ alerts[at[p]] < 2
               THEN [alerts EXCEPT ![at[p]] = @ + 1] ELSE alerts

\* The alert crosses another one: since the row was found it has been marked,
\* or is about to be.
Crosses(p) ==
  IF p \in Inbound /\ \E m \in Inbound \ {p} : Unmarked(m, at[p])
  THEN {at[p]} ELSE Behind(p)

\* The row stays without a mark although a message alerted the customer.
Unsaid(p) == IF p \in Inbound THEN {at[p]} ELSE {}

\* Mutant: an error of the notification is caught, and the row is marked.
AlertSwallowed(p) ==
  /\ pc[p] = "send"
  /\ Goes(p, "markFind")
  /\ item' = [item EXCEPT ![p] = 0] /\ UNCHANGED <<due, at, entity>>
  /\ \/ Tells(p) /\ crossed' = crossed \cup Crosses(p)
     \/ UNCHANGED <<told, crossed>>
  /\ late' = late \ {p} /\ UNCHANGED <<rows, wish, stale, outdated>>

\* notificationCustomerDevicesSend; an error leaves the alert without a mark,
\* whether or not it was sent.
Alert(p) ==
  /\ pc[p] = "send"
  /\ \/ /\ Tells(p) /\ crossed' = crossed \cup Crosses(p)
        /\ Goes(p, "markFind")
        /\ item' = [item EXCEPT ![p] = 0] /\ UNCHANGED <<due, at, entity>>
     \/ Tells(p) /\ Leaves(p) /\ crossed' = crossed \cup Unsaid(p)
     \/ Leaves(p) /\ UNCHANGED <<told, crossed>>
  /\ late' = late \ {p} /\ UNCHANGED <<rows, wish, stale, outdated>>

\* powercardMarkEasyRechargeNotificationSent: find, then save.
MarkFind(p) ==
  /\ pc[p] = "markFind"
  /\ \/ Loads(p, at[p], "markSave") /\ UNCHANGED <<due, item, crossed>>
     \/ Leaves(p) /\ crossed' = crossed \cup Unsaid(p) /\ UNCHANGED stale
  /\ UNCHANGED <<rows, told, wish, late, outdated>>

MarkSave(p) ==
  /\ pc[p] = "markSave"
  /\ \/ /\ Writes(p, [entity[p] EXCEPT !.sent = TRUE])
        /\ crossed' = crossed \cup Behind(p) /\ outdated' = outdated \cup Behind(p)
        /\ (p \in Inbound /\ Turns(p, due[p] \ {at[p]})) \/ Leaves(p)
     \/ /\ Leaves(p) /\ crossed' = crossed \cup Unsaid(p)
        /\ UNCHANGED <<table, stale, outdated>>
  /\ UNCHANGED <<lastQty, told, wish, late>>

-----------------------------------------------------------------------------
(* powercardConfigSet: find, then save *)

SetFind(s) ==
  /\ s \in Setter /\ pc[s] = "idle"
  /\ \E r \in Row, e \in BOOLEAN :
       /\ Goes(s, "setSave") /\ at' = [at EXCEPT ![s] = r]
       /\ entity' = [entity EXCEPT ![s] = [table[r] EXCEPT !.enabled = e]]
       /\ stale' = stale \ {<<s, r>>}
  /\ UNCHANGED <<rows, due, item, told, wish, late, crossed, outdated>>

\* The entity is written with the setting it was given.
WritesSetting(p) ==
  /\ Writes(p, entity[p])
  /\ wish' = [wish EXCEPT ![at[p]] = entity[p].enabled]
  /\ crossed' = crossed \cup Behind(p) /\ outdated' = outdated \ {at[p]}

SetSave(s) ==
  /\ pc[s] = "setSave" /\ Leaves(s)
  /\ WritesSetting(s) \/ UNCHANGED <<table, wish, stale, crossed, outdated>>
  /\ UNCHANGED <<lastQty, told, late>>

-----------------------------------------------------------------------------
(* powercardUpdate, powercardEnable and powercardDisable: find, then MARS and  *)
(* the other columns, then save                                                *)

EditFind(c) ==
  /\ c \in Editor /\ pc[c] = "idle"
  /\ \E r \in Row : Loads(c, r, "editSave")
  /\ UNCHANGED <<rows, due, item, told, wish, late, crossed, outdated>>

\* The entity is written with the setting and the mark it had when it was
\* loaded; or MARS, an image pack or the save fails.
EditSave(c) ==
  /\ pc[c] = "editSave" /\ Leaves(c)
  /\ \/ /\ Writes(c, entity[c])
        /\ crossed' = crossed \cup Behind(c) /\ outdated' = outdated \cup Behind(c)
     \/ UNCHANGED <<table, stale, crossed, outdated>>
  /\ UNCHANGED <<lastQty, told, wish, late>>

-----------------------------------------------------------------------------
(* powercardFundsAdd, as far as the row and the last purchase go *)

FindPowercard(b) ==
  /\ b \in Buyer /\ pc[b] = "idle"
  /\ \E r \in Row : Loads(b, r, "pay")
  /\ UNCHANGED <<rows, due, item, told, wish, late, crossed, outdated>>

\* All the awaits up to the authorized payment; a setting may come with it.
Pay(b) ==
  /\ pc[b] = "pay"
  /\ \/ Goes(b, "recharge") /\ entity' = [entity EXCEPT ![b] = Blank] /\ UNCHANGED <<due, at, item>>
     \/ \E e \in BOOLEAN : Goes(b, "settingSave")
          /\ entity' = [entity EXCEPT ![b].enabled = e] /\ UNCHANGED <<due, at, item>>
     \/ Leaves(b)
  /\ UNCHANGED <<rows, told, wish, stale, late, crossed, outdated>>

SettingSave(b) ==
  /\ pc[b] = "settingSave"
  /\ \/ WritesSetting(b) /\ Goes(b, "recharge")
        /\ entity' = [entity EXCEPT ![b] = Blank] /\ UNCHANGED <<due, at, item>>
     \/ Leaves(b) /\ (WritesSetting(b) \/ UNCHANGED <<table, wish, stale, crossed, outdated>>)
  /\ UNCHANGED <<lastQty, told, late>>

Recharge(b) ==
  /\ pc[b] = "recharge"
  /\ \/ Goes(b, "resetFind") /\ UNCHANGED <<due, at, entity, item>>
     \/ Leaves(b)
  /\ UNCHANGED <<rows, told, wish, stale, late, crossed, outdated>>

\* powercardResetEasyRechargeNotificationSent; its errors are swallowed.
ResetFind(b) ==
  /\ pc[b] = "resetFind"
  /\ \/ Loads(b, at[b], "resetSave")
     \/ Goes(b, "snapshot") /\ UNCHANGED <<at, entity, stale>>
  /\ UNCHANGED <<rows, due, item, told, wish, late, crossed, outdated>>

\* A reset that passes no mark, and that none is to pass, makes the row new.
CrossedByReset(b) ==
  LET r == at[b]
  IN  IF <<b, r>> \in stale \/ \E p \in Actor : Unmarked(p, r) THEN crossed \cup {r}
      ELSE IF \E p \in Actor \ {b} : Holds(p, r) THEN crossed
      ELSE crossed \ {r}

\* Mutant: the reset drops the setting of the customer with the mark.
ResetsAll(b) ==
  /\ Writes(b, Blank)
  /\ alerts' = [alerts EXCEPT ![at[b]] = 0] /\ alerted' = alerted \ {at[b]}
  /\ outdated' = outdated \cup Behind(b) /\ crossed' = CrossedByReset(b)

Resets(b) ==
  /\ Writes(b, [entity[b] EXCEPT !.sent = FALSE])
  /\ alerts' = [alerts EXCEPT ![at[b]] = 0] /\ alerted' = alerted \ {at[b]}
  /\ outdated' = outdated \cup Behind(b) /\ crossed' = CrossedByReset(b)

ResetSave(b) ==
  /\ pc[b] = "resetSave"
  /\ Goes(b, "snapshot") /\ entity' = [entity EXCEPT ![b] = Blank]
  /\ Resets(b) \/ UNCHANGED <<table, told, stale, crossed, outdated>>
  /\ UNCHANGED <<lastQty, due, at, item, wish, late>>

\* From the snapshot on, the purchase is the last one of the row.
Snapshot(b) ==
  /\ pc[b] = "snapshot" /\ Leaves(b)
  /\ \/ /\ lastQty' = [lastQty EXCEPT ![at[b]] = Buys[b]]
        /\ late' = late \cup {p \in Inbound : pc[p] = "send" /\ at[p] = at[b]}
     \/ UNCHANGED <<lastQty, late>>
  /\ UNCHANGED <<table, told, wish, stale, crossed, outdated>>

-----------------------------------------------------------------------------
HandleMessage(m) == Receive(m) \/ Ask(m)
SendAlert(p) == Choose(p) \/ Alert(p) \/ MarkFind(p) \/ MarkSave(p)
FundsAdd(b) ==
  \/ FindPowercard(b) \/ Pay(b) \/ SettingSave(b) \/ Recharge(b)
  \/ ResetFind(b) \/ ResetSave(b) \/ Snapshot(b)

Next ==
  \E p \in Actor :
    \/ HandleMessage(p) \/ Trigger(p) \/ SendAlert(p) \/ SetFind(p) \/ SetSave(p)
    \/ EditFind(p) \/ EditSave(p) \/ FundsAdd(p)

Spec == Init /\ [][Next]_vars

-----------------------------------------------------------------------------
(***************************************************************************)
(* Messages alert a customer about a row at most once from one recharge to *)
(* the next, unless two alerts crossed, a mark failed, or another save of  *)
(* the row or a recharge passed a mark.                                    *)
(***************************************************************************)
OneAlertUnlessCrossed == \A r \in Row \ crossed : alerts[r] <= 1

(***************************************************************************)
(* A row that is marked has had its alert since the last recharge: no      *)
(* customer goes without because of a mark nobody takes away, but for the  *)
(* same races.                                                             *)
(***************************************************************************)
MarkedOnlyIfAlerted == \A r \in Row \ crossed : table[r].sent => r \in alerted

(***************************************************************************)
(* The setting of a row is the one it was given last, by its customer or   *)
(* with a recharge, unless a mark, a reset, or an update, an enabling or a *)
(* disabling of the card saved a row it had loaded before that.            *)
(***************************************************************************)
SettingUnlessOutdated == \A r \in Row \ outdated : table[r].enabled = wish[r]

(***************************************************************************)
(* An alert that is about to offer an item offers one with as many chips   *)
(* as the customer bought last, unless a purchase came after the choice.   *)
(***************************************************************************)
OffersLastPurchase ==
  \A m \in Inbound \ late :
    (pc[m] = "send" /\ item[m] # 0) => Menu[item[m]] = lastQty[at[m]]

=============================================================================
