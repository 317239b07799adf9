---------------------------- MODULE MessageProofs -----------------------------
(***************************************************************************)
(* Proofs about EasyRecharge and BalanceFeed, the two sides of an inbound  *)
(* balance message: the alerts, marks and settings of any rows of a card,  *)
(* and the ticket sessions of any messages delivered to any processes.     *)
(***************************************************************************)
EXTENDS EasyRecharge, BalanceFeed, TLAPS

AtWork == {"customer", "choose", "send", "markFind", "markSave"}

Recharging == {"pay", "settingSave", "recharge", "resetFind", "resetSave", "snapshot"}

\* The handler of a message is at a row it has found due.
Handling ==
  /\ \A m \in Inbound :
       /\ pc[m] \in AtWork \cup {"idle", "done"}
       /\ pc[m] \in AtWork => at[m] \in due[m]
       /\ pc[m] = "customer" => item[m] = 0
  /\ \A p \in Actor :
       /\ pc[p] = "customer" => p \in Inbound
       /\ pc[p] \in Recharging => p \in Buyer

\* A loaded entity is the row, but for what its actor changes in it, until the row is saved.
Fresh ==
  \A p \in Actor : <<p, at[p]>> \notin stale =>
    /\ pc[p] \in {"markSave", "resetSave", "editSave", "pay"} => entity[p] = table[at[p]]
    /\ pc[p] \in {"setSave", "settingSave"} => entity[p].sent = table[at[p]].sent

\* A row that is due is without a mark, until it is saved with one.
DueUnmarked ==
  \A m \in Inbound : \A r \in due[m] :
    <<m, r>> \in stale \/ Unmarked(m, r) \/ ~table[r].sent

\* Who is to mark a row has alerted the customer; a row a message alerted
\* about, once, has its mark or is about to get it; a mark is of an alert.
Told(r) ==
  /\ \A p \in Actor : Unmarked(p, r) => r \in alerted
  /\ alerts[r] > 0 => table[r].sent \/ \E m \in Inbound : Unmarked(m, r)
  /\ alerts[r] <= 1
  /\ table[r].sent => r \in alerted

Marks == \A r \in Row \ crossed : Told(r)

IInv ==
  /\ TypeOK /\ Handling /\ Fresh /\ DueUnmarked
  /\ Marks /\ SettingUnlessOutdated /\ OffersLastPurchase

-----------------------------------------------------------------------------
(* What a step does to the locals *)

LocalsOK ==
  /\ pc \in [Actor -> Labels] /\ due \in [Actor -> SUBSET Row]
  /\ at \in [Actor -> Row] /\ entity \in [Actor -> Entity] /\ item \in [Actor -> Item]

\* What a step leaves to an actor it is not about.
Others(p) ==
  \A q \in Actor \ {p} :
    /\ pc'[q] = pc[q] /\ due'[q] = due[q] /\ at'[q] = at[q]
    /\ entity'[q] = entity[q] /\ item'[q] = item[q]

\* The items of the menu, no row and the empty entity are of their types.
LEMMA ItemType == Len(Menu) \in Nat /\ 0 \in Item /\ NoRow \in Row /\ Blank \in Entity
<1>1. Len(Menu) \in Nat
  BY EasyRechargeAssumption
<1>2. NoRow \in Row
  BY EasyRechargeAssumption DEF NoRow
<1> QED
  BY <1>1, <1>2 DEF Item, Blank, Entity

\* An actor that ends lets go of the rows it found.
LEMMA LeavesEffect ==
  ASSUME TypeOK, NEW p \in Actor, Leaves(p)
  PROVE  LocalsOK' /\ Others(p) /\ pc'[p] = "done" /\ due'[p] = {}
BY ItemType DEF TypeOK, Leaves, Goes, LocalsOK, Others, Labels

\* A handler turns to one of the rows that are left, or ends.
LEMMA TurnsEffect ==
  ASSUME TypeOK, NEW m \in Actor, NEW left \in SUBSET Row, Turns(m, left)
  PROVE  /\ LocalsOK' /\ Others(m)
         /\ \/ pc'[m] = "done" /\ due'[m] = {}
            \/ pc'[m] = "customer" /\ due'[m] = left /\ at'[m] \in left /\ item'[m] = 0
<1>1. CASE Leaves(m)
  BY <1>1, LeavesEffect
<1>2. ASSUME NEW r \in left, Goes(m, "customer"), due' = [due EXCEPT ![m] = left],
             at' = [at EXCEPT ![m] = r], entity' = [entity EXCEPT ![m] = Blank],
             item' = [item EXCEPT ![m] = 0]
      PROVE  /\ LocalsOK' /\ Others(m)
             /\ pc'[m] = "customer" /\ due'[m] = left /\ at'[m] \in left /\ item'[m] = 0
  BY <1>2, ItemType DEF TypeOK, Goes, LocalsOK, Others, Labels
<1> QED
  BY <1>1, <1>2 DEF Turns

-----------------------------------------------------------------------------
(* Steps that save nothing and tell nobody *)

\* A choice stays right while nobody buys.
LEMMA OffersKeep ==
  ASSUME OffersLastPurchase, NEW p \in Actor, Others(p), lastQty' = lastQty, late \ {p} \subseteq late',
         (p \in Inbound /\ p \notin late' /\ pc'[p] = "send" /\ item'[p] # 0)
           => Menu[item'[p]] = lastQty[at'[p]],
         Inbound \subseteq Actor
  PROVE  OffersLastPurchase'
BY DEF OffersLastPurchase, Others

\* The handlers of messages are actors.
LEMMA InboundActs == Inbound \subseteq Actor
BY DEF Actor

\* What an actor holds stays fresh and due while nothing is saved, when the
\* actor itself keeps to the order of its handler.
LEMMA LocalsKeep ==
  ASSUME IInv, NEW p \in Actor, Others(p), LocalsOK',
         UNCHANGED <<table, wish, outdated>>,
         stale' = stale \/ stale' = stale \ {<<p, at'[p]>>},
         pc'[p] = "customer" => p \in Inbound,
         pc'[p] \in Recharging => p \in Buyer,
         p \in Inbound =>
           /\ pc'[p] \in AtWork \cup {"idle", "done"}
           /\ pc'[p] \in AtWork => at'[p] \in due'[p]
           /\ pc'[p] = "customer" => item'[p] = 0
           /\ \A r \in due'[p] : <<p, r>> \in stale' \/ Unmarked(p, r)' \/ ~table[r].sent,
         <<p, at'[p]>> \notin stale' =>
           /\ pc'[p] \in {"markSave", "resetSave", "editSave", "pay"} => entity'[p] = table[at'[p]]
           /\ pc'[p] \in {"setSave", "settingSave"} => entity'[p].sent = table[at'[p]].sent
  PROVE  Handling' /\ Fresh' /\ DueUnmarked' /\ SettingUnlessOutdated'
<1> USE InboundActs DEF IInv
<1>1. Handling'
  BY DEF Handling, Others
<1>2. \A q \in Actor \ {p}, r \in Row : Unmarked(q, r)' <=> Unmarked(q, r)
  BY DEF Others, Unmarked
<1>3. Fresh'
  BY DEF Fresh, Others
<1>4. DueUnmarked'
  <2>1. \A m \in Actor \ {p}, r \in Row : <<m, r>> \in stale' <=> <<m, r>> \in stale
    OBVIOUS
  <2>2. \A m \in Inbound : due'[m] \subseteq Row
    BY DEF LocalsOK
  <2> QED
    BY <1>2, <2>1, <2>2 DEF DueUnmarked, Others
<1>5. SettingUnlessOutdated'
  BY DEF SettingUnlessOutdated
<1> QED
  BY <1>1, <1>3, <1>4, <1>5

\* The alerts and the mark of a row agree while its marks and their owners
\* stay.
LEMMA ToldKeeps ==
  ASSUME NEW r \in Row, Told(r), NEW p \in Actor, Others(p),
         table'[r].sent <=> table[r].sent, alerts'[r] = alerts[r], r \in alerted => r \in alerted',
         Unmarked(p, r)' => Unmarked(p, r) \/ r \in alerted',
         p \in Inbound /\ Unmarked(p, r) => Unmarked(p, r)'
  PROVE  Told(r)'
<1>1. \A q \in Actor \ {p} : Unmarked(q, r)' <=> Unmarked(q, r)
  BY DEF Others, Unmarked
<1> QED
  BY <1>1, InboundActs DEF Told

\* The same for all rows, when no alert is sent and no row is saved.
LEMMA MarksKeep ==
  ASSUME Marks, NEW p \in Actor, Others(p), UNCHANGED <<table, told>>, crossed \subseteq crossed',
         \A r \in Row \ crossed' : Unmarked(p, r)' <=> Unmarked(p, r)
  PROVE  Marks'
<1>1. ASSUME NEW r \in Row \ crossed'
      PROVE  Told(r)'
  BY <1>1, ToldKeeps DEF Marks, told
<1> QED
  BY <1>1 DEF Marks

\* A step that sends nothing and saves nothing keeps all but the types and the
\* choice.
LEMMA QuietKeeps ==
  ASSUME IInv, NEW p \in Actor, Others(p), LocalsOK',
         UNCHANGED <<table, told, wish, crossed, outdated>>,
         stale' = stale \/ stale' = stale \ {<<p, at'[p]>>},
         pc'[p] = "customer" => p \in Inbound,
         pc'[p] \in Recharging => p \in Buyer,
         p \in Inbound =>
           /\ pc'[p] \in AtWork \cup {"idle", "done"}
           /\ pc'[p] \in AtWork => at'[p] \in due'[p]
           /\ pc'[p] = "customer" => item'[p] = 0
           /\ \A r \in due'[p] : <<p, r>> \in stale' \/ Unmarked(p, r)' \/ ~table[r].sent,
         <<p, at'[p]>> \notin stale' =>
           /\ pc'[p] \in {"markSave", "resetSave", "editSave", "pay"} => entity'[p] = table[at'[p]]
           /\ pc'[p] \in {"setSave", "settingSave"} => entity'[p].sent = table[at'[p]].sent,
         \A r \in Row \ crossed : Unmarked(p, r)' <=> Unmarked(p, r)
  PROVE  Handling' /\ Fresh' /\ DueUnmarked' /\ Marks' /\ SettingUnlessOutdated'
<1>1. Handling' /\ Fresh' /\ DueUnmarked' /\ SettingUnlessOutdated'
  BY LocalsKeep
<1>2. Marks'
  BY MarksKeep DEF IInv
<1> QED
  BY <1>1, <1>2

\* A handler finds the rows that are due: enabled, low and without a mark.
LEMMA ReceiveKeeps ==
  ASSUME IInv, NEW p \in Actor, Receive(p)
  PROVE  IInv'
<1> USE DEF IInv
<1>1. /\ p \in Inbound /\ pc[p] = "idle" /\ Turns(p, Due)
      /\ UNCHANGED <<rows, told, wish, stale, late, crossed, outdated>>
  BY DEF Receive
<1>2. Due \in SUBSET Row /\ \A r \in Due : ~table[r].sent
  BY DEF Due
<1>3. /\ LocalsOK' /\ Others(p)
      /\ \/ pc'[p] = "done" /\ due'[p] = {}
         \/ pc'[p] = "customer" /\ due'[p] = Due /\ at'[p] \in Due /\ item'[p] = 0
  BY <1>1, <1>2, TurnsEffect
<1>4. TypeOK'
  BY <1>1, <1>3 DEF TypeOK, LocalsOK, rows, told
<1>5. Handling' /\ Fresh' /\ DueUnmarked' /\ Marks' /\ SettingUnlessOutdated'
  <2>1. \A r \in Row : ~Unmarked(p, r) /\ ~Unmarked(p, r)'
    BY <1>1, <1>3 DEF Unmarked
  <2> QED
    BY <1>1, <1>2, <1>3, <2>1, QuietKeeps DEF AtWork, Recharging, rows
<1>6. OffersLastPurchase'
  BY <1>1, <1>3, OffersKeep, InboundActs DEF rows
<1> QED
  BY <1>4, <1>5, <1>6

\* A customer who changes a setting, or buys, is at the row they name.
LEMMA AskKeeps ==
  ASSUME IInv, NEW p \in Actor, Ask(p)
  PROVE  IInv'
<1> USE InboundActs DEF IInv
<1> DEFINE left == due[p] \ {at[p]}
<1>1. /\ p \in Inbound /\ pc[p] = "customer" /\ at[p] \in due[p] /\ item[p] = 0 /\ left \in SUBSET Row
      /\ UNCHANGED <<rows, told, wish, stale, late, crossed, outdated>>
  BY DEF Ask, Handling, AtWork, TypeOK
<1>2. /\ LocalsOK' /\ Others(p)
      /\ \/ pc'[p] = "done" /\ due'[p] = {}
         \/ pc'[p] = "customer" /\ due'[p] = left /\ at'[p] \in left /\ item'[p] = 0
         \/ /\ pc'[p] \in {"choose", "send"} /\ due'[p] = due[p] /\ at'[p] = at[p] /\ item'[p] = 0
  <2>1. CASE Turns(p, left) \/ Leaves(p)
    BY <1>1, <2>1, TurnsEffect, LeavesEffect
  <2>2. ASSUME NEW l \in {"choose", "send"}, Goes(p, l), UNCHANGED <<due, at, entity, item>>
        PROVE  LocalsOK' /\ Others(p) /\ pc'[p] = l
    BY <2>2 DEF Goes, TypeOK, LocalsOK, Labels, Others
  <2> QED
    BY <1>1, <2>1, <2>2 DEF Ask
<1> HIDE DEF left
<1>3. left \subseteq due[p]
  BY DEF left
<1>4. TypeOK'
  BY <1>1, <1>2 DEF TypeOK, LocalsOK, rows, told
<1>5. Handling' /\ Fresh' /\ DueUnmarked' /\ Marks' /\ SettingUnlessOutdated'
  <2>1. \A r \in Row : ~Unmarked(p, r) /\ ~Unmarked(p, r)'
    BY <1>1, <1>2 DEF Unmarked
  <2>2. \A r \in due[p] : r \in Row /\ (<<p, r>> \in stale \/ ~table[r].sent)
    BY <1>1, <2>1 DEF DueUnmarked, TypeOK
  <2>3. \A r \in due'[p] : <<p, r>> \in stale' \/ ~table[r].sent
    BY <1>1, <1>2, <1>3, <2>2
  <2> QED
    BY <1>1, <1>2, <2>1, <2>3, QuietKeeps DEF AtWork, Recharging, rows
<1>6. OffersLastPurchase'
  BY <1>1, <1>2, OffersKeep DEF rows
<1> QED
  BY <1>4, <1>5, <1>6

\* The handler that finds the customer of its row goes on to choose an item.
LEMMA TriggerKeeps ==
  ASSUME IInv, NEW p \in Actor, Trigger(p)
  PROVE  IInv'
<1> USE DEF IInv
<1>1. /\ p \in Admin /\ p \notin Inbound /\ pc[p] = "idle"
      /\ UNCHANGED <<rows, due, entity, item, told, wish, stale, late, crossed, outdated>>
  BY EasyRechargeAssumption DEF Trigger
<1>2. PICK r \in Row, l \in {"send", "choose"} :
        pc' = [pc EXCEPT ![p] = l] /\ at' = [at EXCEPT ![p] = r]
  BY DEF Trigger, Goes
<1>3. LocalsOK' /\ Others(p) /\ pc'[p] = l /\ at'[p] = r
  BY <1>1, <1>2 DEF TypeOK, LocalsOK, Labels, Others
<1>4. TypeOK'
  BY <1>1, <1>3 DEF TypeOK, LocalsOK, rows, told
<1>5. Handling' /\ Fresh' /\ DueUnmarked' /\ Marks' /\ SettingUnlessOutdated'
  <2>1. \A x \in Row : ~Unmarked(p, x) /\ ~Unmarked(p, x)'
    BY <1>1, <1>3 DEF Unmarked
  <2> QED
    BY <1>1, <1>3, <2>1, QuietKeeps DEF Recharging, rows
<1>6. OffersLastPurchase'
  BY <1>1, <1>3, OffersKeep, InboundActs DEF rows
<1> QED
  BY <1>4, <1>5, <1>6

\* The item it chooses is that of the last purchase of the row, as it is then.
LEMMA ChooseKeeps ==
  ASSUME IInv, NEW p \in Actor, Choose(p)
  PROVE  IInv'
<1> USE InboundActs DEF IInv
<1>1. pc[p] = "choose" /\ late' = late \ {p} /\ UNCHANGED <<rows, told, wish, stale, crossed, outdated>>
  BY DEF Choose
<1>2. /\ LocalsOK' /\ Others(p)
      /\ \/ pc'[p] = "done" /\ due'[p] = {}
         \/ /\ pc'[p] = "send" /\ due'[p] = due[p] /\ at'[p] = at[p]
            /\ item'[p] = 0 \/ item'[p] \in Best(lastQty[at[p]])
  <2>1. CASE Leaves(p)
    BY <2>1, LeavesEffect
  <2>2. ASSUME NEW i, i = 0 \/ i \in Best(lastQty[at[p]]), item' = [item EXCEPT ![p] = i],
               Goes(p, "send"), UNCHANGED <<due, at, entity>>
        PROVE  /\ LocalsOK' /\ Others(p)
               /\ pc'[p] = "send" /\ due'[p] = due[p] /\ at'[p] = at[p] /\ item'[p] = i
    <3>1. i \in Item
      BY <2>2, ItemType, EasyRechargeAssumption DEF Best, Item
    <3> QED
      BY <2>2, <3>1 DEF Goes, TypeOK, LocalsOK, Labels, Others
  <2> QED
    BY <2>1, <2>2 DEF Choose
<1>3. TypeOK'
  BY <1>1, <1>2 DEF TypeOK, LocalsOK, rows, told
<1>4. Handling' /\ Fresh' /\ DueUnmarked' /\ Marks' /\ SettingUnlessOutdated'
  <2>1. \A r \in Row : ~Unmarked(p, r) /\ ~Unmarked(p, r)'
    BY <1>1, <1>2 DEF Unmarked
  <2>2. p \in Inbound => \A r \in due'[p] : <<p, r>> \in stale' \/ ~table[r].sent
    BY <1>1, <1>2, <2>1 DEF DueUnmarked, TypeOK
  <2>3. p \in Inbound /\ pc'[p] \in AtWork => at'[p] \in due'[p]
    BY <1>1, <1>2 DEF Handling, AtWork
  <2> QED
    BY <1>1, <1>2, <2>1, <2>2, <2>3, QuietKeeps DEF AtWork, Recharging, rows
<1>5. OffersLastPurchase'
  <2>1. pc'[p] = "send" /\ item'[p] # 0 => Menu[item'[p]] = lastQty[at'[p]]
    BY <1>2 DEF Best
  <2> QED
    BY <1>1, <1>2, <2>1, OffersKeep DEF rows
<1> QED
  BY <1>3, <1>4, <1>5

\* The steps of callers and recharges that save nothing.
LEMMA CallerKeeps ==
  ASSUME IInv, NEW p \in Actor,
         SetFind(p) \/ EditFind(p) \/ FindPowercard(p) \/ Pay(p) \/ Recharge(p) \/ ResetFind(p)
  PROVE  IInv'
<1> USE InboundActs DEF IInv
<1>1. /\ UNCHANGED <<rows, told, wish, late, crossed, outdated>>
      /\ p \notin Inbound /\ pc[p] \in {"idle", "pay", "recharge", "resetFind"}
      /\ p \in Buyer \/ SetFind(p) \/ EditFind(p)
  BY EasyRechargeAssumption DEF SetFind, EditFind, FindPowercard, Pay, Recharge, ResetFind, Handling,
     AtWork, Recharging
<1>b. p \in Buyer \/ pc'[p] \in {"setSave", "editSave"}
  BY <1>1 DEF SetFind, EditFind, Loads, Goes, TypeOK
<1>2. /\ LocalsOK' /\ Others(p)
      /\ pc'[p] \in {"setSave", "editSave", "pay", "recharge", "settingSave", "done", "resetFind",
                     "resetSave", "snapshot"}
      /\ stale' = stale \/ stale' = stale \ {<<p, at'[p]>>}
      /\ <<p, at'[p]>> \notin stale' =>
           /\ pc'[p] \in {"markSave", "resetSave", "editSave", "pay"} => entity'[p] = table[at'[p]]
           /\ pc'[p] \in {"setSave", "settingSave"} => entity'[p].sent = table[at'[p]].sent
  <2>1. ASSUME NEW r \in Row, NEW l \in {"pay", "editSave", "resetSave"}, Loads(p, r, l), UNCHANGED <<due, item>>
        PROVE  /\ LocalsOK' /\ Others(p) /\ stale' = stale \ {<<p, r>>}
               /\ pc'[p] = l /\ at'[p] = r /\ entity'[p] = table[r]
    BY <2>1 DEF Loads, Goes, TypeOK, LocalsOK, Labels, Others
  <2>2. CASE SetFind(p)
    <3>1. PICK r \in Row, e \in BOOLEAN :
            /\ pc' = [pc EXCEPT ![p] = "setSave"] /\ at' = [at EXCEPT ![p] = r]
            /\ entity' = [entity EXCEPT ![p] = [table[r] EXCEPT !.enabled = e]]
            /\ stale' = stale \ {<<p, r>>} /\ UNCHANGED <<due, item>>
      BY <2>2 DEF SetFind, Goes
    <3>2. [table[r] EXCEPT !.enabled = e] \in Entity
            /\ [table[r] EXCEPT !.enabled = e].sent = table[r].sent
      BY DEF TypeOK, Entity
    <3> QED
      BY <2>2, <3>1, <3>2 DEF TypeOK, LocalsOK, Labels, Others
  <2>3. CASE FindPowercard(p)
    BY <2>1, <2>3 DEF FindPowercard
  <2>7. CASE EditFind(p)
    BY <2>1, <2>7 DEF EditFind
  <2>4. CASE Pay(p)
    <3>1. CASE Leaves(p)
      BY <2>4, <3>1, LeavesEffect DEF Pay
    <3>2. CASE Goes(p, "recharge") /\ entity' = [entity EXCEPT ![p] = Blank]
            /\ UNCHANGED <<due, at, item>>
      BY <2>4, <3>2, ItemType DEF Pay, Goes, TypeOK, LocalsOK, Labels, Others
    <3>3. ASSUME NEW e \in BOOLEAN, Goes(p, "settingSave"), entity' = [entity EXCEPT ![p].enabled = e],
                 UNCHANGED <<due, at, item>>
          PROVE  /\ LocalsOK' /\ Others(p) /\ pc'[p] = "settingSave" /\ at'[p] = at[p]
                 /\ entity'[p].sent = entity[p].sent
      <4>1. [entity[p] EXCEPT !.enabled = e] \in Entity
              /\ [entity[p] EXCEPT !.enabled = e].sent = entity[p].sent
        BY DEF TypeOK, Entity
      <4> QED
        BY <3>3, <4>1 DEF Goes, TypeOK, LocalsOK, Labels, Others
    <3>4. <<p, at[p]>> \notin stale => entity[p] = table[at[p]]
      BY <2>4 DEF Pay, Fresh
    <3> QED
      BY <2>4, <3>1, <3>2, <3>3, <3>4 DEF Pay
  <2>5. CASE Recharge(p)
    <3>1. CASE Leaves(p)
      BY <2>5, <3>1, LeavesEffect DEF Recharge
    <3>2. CASE Goes(p, "resetFind") /\ UNCHANGED <<due, at, entity, item>>
      BY <2>5, <3>2 DEF Recharge, Goes, TypeOK, LocalsOK, Labels, Others
    <3> QED
      BY <2>5, <3>1, <3>2 DEF Recharge
  <2>6. CASE ResetFind(p)
    <3>1. CASE Loads(p, at[p], "resetSave")
      <4>1. at[p] \in Row
        BY DEF TypeOK
      <4> QED
        BY <2>1, <2>6, <3>1, <4>1 DEF ResetFind
    <3>2. CASE Goes(p, "snapshot") /\ UNCHANGED <<at, entity, stale>>
      BY <2>6, <3>2 DEF ResetFind, Goes, TypeOK, LocalsOK, Labels, Others
    <3> QED
      BY <2>6, <3>1, <3>2 DEF ResetFind
  <2> QED
    BY <2>2, <2>3, <2>4, <2>5, <2>6, <2>7
<1>3. TypeOK'
  BY <1>1, <1>2 DEF TypeOK, LocalsOK, rows, told
<1>4. Handling' /\ Fresh' /\ DueUnmarked' /\ Marks' /\ SettingUnlessOutdated'
  <2>1. \A r \in Row : ~Unmarked(p, r) /\ ~Unmarked(p, r)'
    BY <1>1, <1>2 DEF Unmarked
  <2> QED
    BY <1>1, <1>2, <1>b, <2>1, QuietKeeps DEF AtWork, Recharging, rows
<1>5. OffersLastPurchase'
  BY <1>1, <1>2, OffersKeep DEF rows
<1> QED
  BY <1>3, <1>4, <1>5

\* What is bought is the last purchase; a choice made before that is late.
LEMMA SnapshotKeeps ==
  ASSUME IInv, NEW p \in Actor, Snapshot(p)
  PROVE  IInv'
<1> USE InboundActs DEF IInv
<1>1. /\ UNCHANGED <<table, told, wish, stale, crossed, outdated>>
      /\ p \notin Inbound /\ pc[p] = "snapshot" /\ Leaves(p)
  BY DEF Snapshot, Handling, AtWork
<1>2. LocalsOK' /\ Others(p) /\ pc'[p] = "done" /\ due'[p] = {}
  BY <1>1, LeavesEffect
<1>3. Handling' /\ Fresh' /\ DueUnmarked' /\ Marks' /\ SettingUnlessOutdated'
  <2>1. \A r \in Row : ~Unmarked(p, r) /\ ~Unmarked(p, r)'
    BY <1>1, <1>2 DEF Unmarked
  <2> QED
    BY <1>1, <1>2, <2>1, QuietKeeps DEF AtWork, Recharging
<1>4. lastQty' \in [Row -> Chips] /\ late' \subseteq Actor
  <2>1. p \in Buyer
    BY <1>1 DEF Handling, Recharging
  <2>2. lastQty' \in [Row -> Chips] /\ late' \subseteq Actor
    <3>1. Buys[p] \in Chips
      BY <2>1, EasyRechargeAssumption DEF Chips, Range
    <3> QED
      BY <3>1 DEF Snapshot, TypeOK
  <2> QED
    BY <2>2
<1>5. TypeOK'
  BY <1>1, <1>2, <1>4 DEF TypeOK, LocalsOK, told
<1>6. OffersLastPurchase'
  <2>1. CASE UNCHANGED <<lastQty, late>>
    BY <1>1, <1>2, <2>1, OffersKeep
  <2>2. CASE /\ lastQty' = [lastQty EXCEPT ![at[p]] = Buys[p]]
             /\ late' = late \cup {m \in Inbound : pc[m] = "send" /\ at[m] = at[p]}
    BY <1>1, <1>2, <2>2 DEF OffersLastPurchase, Others, TypeOK
  <2> QED
    BY <2>1, <2>2 DEF Snapshot
<1> QED
  BY <1>3, <1>5, <1>6

-----------------------------------------------------------------------------
(* The alert and its mark *)

\* An actor that gives its mark up.
LEMMA LeavesKeeps ==
  ASSUME IInv, NEW p \in Actor, Leaves(p), pc[p] \in {"send", "markFind", "markSave"},
         UNCHANGED <<table, lastQty, wish, stale, outdated>>, late \ {p} \subseteq late', late' \subseteq late,
         \/ crossed' = crossed \cup Unsaid(p) /\ (UNCHANGED told \/ Tells(p))
         \/ pc[p] = "send" /\ UNCHANGED <<told, crossed>>
  PROVE  IInv'
<1> USE InboundActs DEF IInv
<1>1. LocalsOK' /\ Others(p) /\ pc'[p] = "done" /\ due'[p] = {}
  BY LeavesEffect
<1>2. Handling' /\ Fresh' /\ DueUnmarked' /\ SettingUnlessOutdated'
  BY <1>1, LocalsKeep DEF AtWork, Recharging
<1>3. OffersLastPurchase'
  BY <1>1, OffersKeep
<1>4. at[p] \in Row
  BY DEF TypeOK
<1>5. TypeOK'
  <2>1. alerts' \in [Row -> 0..2] /\ alerted' \subseteq Row
    BY <1>4 DEF Tells, TypeOK, told
  <2>2. crossed' \subseteq Row
    BY <1>4 DEF Unsaid, TypeOK
  <2> QED
    BY <1>1, <2>1, <2>2 DEF TypeOK, LocalsOK
<1>6. ASSUME NEW r \in Row \ crossed'
      PROVE  Told(r)'
  <2>1. Told(r) /\ alerts \in [Row -> 0..2]
    BY <1>6 DEF Marks, Unsaid, TypeOK
  <2>2. p \in Inbound => ~Unmarked(p, r)
    BY <1>6 DEF Unsaid, Unmarked
  <2>3. ~Unmarked(p, r)'
    BY <1>1 DEF Unmarked
  <2>4. alerts'[r] = alerts[r] /\ (r \in alerted => r \in alerted')
    BY <1>6, <2>1 DEF Tells, Unsaid, told
  <2> QED
    BY <1>1, <2>1, <2>2, <2>3, <2>4, ToldKeeps
<1> QED
  BY <1>2, <1>3, <1>5, <1>6 DEF Marks

\* A row has one alert between two recharges: a second is sent only by a
\* handler that crossed the first.
LEMMA AlertKeeps ==
  ASSUME IInv, NEW p \in Actor, Alert(p)
  PROVE  IInv'
<1> USE InboundActs DEF IInv
<1>1. pc[p] = "send" /\ late' = late \ {p} /\ UNCHANGED <<rows, wish, stale, outdated>>
  BY DEF Alert
<1>2. CASE Leaves(p)
  <2>1. pc'[p] = "done"
    BY <1>2, LeavesEffect
  <2>2. ~Goes(p, "markFind")
    BY <2>1 DEF Goes, TypeOK
  <2>3. \/ crossed' = crossed \cup Unsaid(p) /\ Tells(p)
        \/ UNCHANGED <<told, crossed>>
    BY <2>2 DEF Alert
  <2>4. UNCHANGED <<table, lastQty, wish, stale, outdated>> /\ late \ {p} \subseteq late'
          /\ late' \subseteq late
    BY <1>1 DEF rows
  <2> QED
    BY <1>1, <1>2, <2>3, <2>4, LeavesKeeps
<1>3. CASE /\ Tells(p) /\ crossed' = crossed \cup Crosses(p)
           /\ Goes(p, "markFind")
           /\ item' = [item EXCEPT ![p] = 0] /\ UNCHANGED <<due, at, entity>>
  <2>1. at[p] \in Row
    BY DEF TypeOK
  <2>2. /\ LocalsOK' /\ Others(p)
        /\ pc'[p] = "markFind" /\ due'[p] = due[p] /\ at'[p] = at[p] /\ item'[p] = 0
    BY <1>3, ItemType DEF Goes, TypeOK, LocalsOK, Labels, Others
  <2>3. TypeOK'
    <3>1. alerts' \in [Row -> 0..2] /\ alerted' \subseteq Row
      BY <1>3, <2>1 DEF Tells, TypeOK
    <3>2. crossed' \subseteq Row
      BY <1>3, <2>1 DEF Crosses, Behind, TypeOK
    <3> QED
      BY <1>1, <2>2, <3>1, <3>2 DEF TypeOK, LocalsOK, rows
  <2>4. Handling' /\ Fresh' /\ DueUnmarked' /\ SettingUnlessOutdated'
    <3>1. p \in Inbound => at[p] \in due[p]
      BY <1>1 DEF Handling, AtWork
    <3>2. Unmarked(p, at[p])' /\ \A r \in Row : ~Unmarked(p, r)
      BY <1>1, <2>2 DEF Unmarked
    <3>3. p \in Inbound => \A r \in due'[p] : <<p, r>> \in stale' \/ Unmarked(p, r)' \/ ~table[r].sent
      BY <1>1, <2>2, <3>2 DEF DueUnmarked, TypeOK
    <3> QED
      BY <1>1, <2>2, <3>1, <3>3, LocalsKeep DEF AtWork, Recharging, rows
  <2>5. OffersLastPurchase'
    BY <1>1, <2>2, OffersKeep DEF rows
  <2>6. ASSUME NEW r \in Row \ crossed'
        PROVE  Told(r)'
    <3>1. Told(r)
      BY <1>3, <2>6 DEF Marks
    <3>2. CASE r # at[p]
      <4>1. Unmarked(p, r)' <=> Unmarked(p, r)
        BY <2>2, <3>2 DEF Unmarked, TypeOK
      <4>2. alerts'[r] = alerts[r] /\ (r \in alerted' <=> r \in alerted)
        BY <1>3, <3>2 DEF Tells, TypeOK
      <4> QED
        BY <1>1, <2>2, <3>1, <4>1, <4>2, ToldKeeps DEF rows
    <3>3. CASE r = at[p] /\ p \notin Inbound
      BY <1>1, <1>3, <2>2, <3>1, <3>3, ToldKeeps DEF Tells, rows
    <3>4. CASE r = at[p] /\ p \in Inbound
      <4>1. (\A m \in Inbound \ {p} : ~Unmarked(m, r)) /\ <<p, r>> \notin stale
        BY <1>3, <2>6, <3>4 DEF Crosses, Behind
      <4>2. ~table[r].sent /\ ~Unmarked(p, r)
        BY <1>1, <3>4, <4>1 DEF Handling, AtWork, DueUnmarked, Unmarked
      <4>3. alerts[r] = 0
        <5>1. ~(alerts[r] > 0)
          BY <3>1, <4>1, <4>2 DEF Told
        <5>2. alerts[r] \in 0..2
          BY DEF TypeOK
        <5> QED
          BY <5>1, <5>2
      <4>4. alerts'[r] = 1 /\ r \in alerted'
        BY <1>3, <3>4, <4>3 DEF Tells, TypeOK
      <4>5. Unmarked(p, r)'
        BY <2>2, <3>4 DEF Unmarked
      <4>6. ~table'[r].sent
        BY <1>1, <4>2 DEF rows
      <4> QED
        BY <3>4, <4>4, <4>5, <4>6 DEF Told
    <3> QED
      BY <3>2, <3>3, <3>4
  <2> QED
    BY <2>3, <2>4, <2>5, <2>6 DEF Marks
<1> QED
  BY <1>2, <1>3 DEF Alert

\* The row that is loaded to be marked is the one that was alerted about.
LEMMA MarkFindKeeps ==
  ASSUME IInv, NEW p \in Actor, MarkFind(p)
  PROVE  IInv'
<1> USE InboundActs DEF IInv
<1>1. pc[p] = "markFind" /\ UNCHANGED <<rows, told, wish, late, outdated>>
  BY DEF MarkFind
<1>2. CASE Leaves(p) /\ crossed' = crossed \cup Unsaid(p) /\ UNCHANGED stale
  <2>1. UNCHANGED <<table, lastQty, wish, stale, outdated>> /\ late' = late /\ UNCHANGED told
    BY <1>1, <1>2 DEF rows
  <2> QED
    BY <1>1, <1>2, <2>1, LeavesKeeps
<1>3. CASE Loads(p, at[p], "markSave") /\ UNCHANGED <<due, item, crossed>>
  <2>1. /\ LocalsOK' /\ Others(p) /\ stale' = stale \ {<<p, at[p]>>}
        /\ pc'[p] = "markSave" /\ at'[p] = at[p] /\ due'[p] = due[p] /\ entity'[p] = table[at[p]]
    BY <1>3 DEF Loads, Goes, TypeOK, LocalsOK, Labels, Others
  <2>2. TypeOK'
    BY <1>1, <1>3, <2>1 DEF TypeOK, LocalsOK, rows, told
  <2>3. \A r \in Row : Unmarked(p, r)' <=> Unmarked(p, r)
    BY <1>1, <2>1 DEF Unmarked
  <2>4. p \in Inbound => at[p] \in due[p]
    BY <1>1 DEF Handling, AtWork
  <2>5. p \in Inbound => \A r \in due'[p] : <<p, r>> \in stale' \/ Unmarked(p, r)' \/ ~table[r].sent
    <3>1. Unmarked(p, at[p])'
      BY <2>1 DEF Unmarked
    <3> QED
      BY <1>1, <2>1, <2>3, <3>1 DEF DueUnmarked, TypeOK
  <2>6. Handling' /\ Fresh' /\ DueUnmarked' /\ Marks' /\ SettingUnlessOutdated'
    BY <1>1, <1>3, <2>1, <2>3, <2>4, <2>5, QuietKeeps DEF AtWork, Recharging, rows
  <2>7. OffersLastPurchase'
    BY <1>1, <2>1, OffersKeep DEF rows
  <2> QED
    BY <2>2, <2>6, <2>7
<1> QED
  BY <1>2, <1>3 DEF MarkFind

-----------------------------------------------------------------------------
(* The saves of a row *)

Saving == {"markSave", "setSave", "editSave", "settingSave", "resetSave"}

\* What a save does to the table and to the loads it makes stale.
LEMMA WritesEffect ==
  ASSUME TypeOK, NEW p \in Actor, NEW e \in Entity, Writes(p, e)
  PROVE  /\ table' \in [Row -> Entity] /\ table'[at[p]] = e
         /\ \A r \in Row : r # at[p] => table'[r] = table[r]
         /\ stale' \subseteq Actor \X Row
         /\ \A q \in Actor, r \in Row : r # at[p] => (<<q, r>> \in stale' <=> <<q, r>> \in stale)
         /\ \A q \in Actor \ {p} : <<q, at[p]>> \in stale => <<q, at[p]>> \in stale'
         /\ \A q \in Actor \ {p} : Holds(q, at[p]) => <<q, at[p]>> \in stale'
         /\ \A m \in Inbound \ {p} : e.sent /\ at[p] \in due[m] => <<m, at[p]>> \in stale'
<1> USE InboundActs
<1>1. at[p] \in Row /\ table \in [Row -> Entity] /\ stale \subseteq Actor \X Row
  BY DEF TypeOK
<1> DEFINE behind == {q \in Actor \ {p} : Holds(q, at[p])}
           misled == {m \in Inbound \ {p} : e.sent /\ at[p] \in due[m]}
<1>2. /\ table' = [table EXCEPT ![at[p]] = e]
      /\ stale' = (stale \cup ((behind \cup misled) \X {at[p]})) \ {<<p, at[p]>>}
  BY DEF Writes
<1>3. behind \subseteq Actor /\ misled \subseteq Actor /\ p \notin behind /\ p \notin misled
  OBVIOUS
<1>4. /\ \A q \in Actor \ {p} : Holds(q, at[p]) => q \in behind
      /\ \A m \in Inbound \ {p} : e.sent /\ at[p] \in due[m] => m \in misled
  OBVIOUS
<1> HIDE DEF behind, misled
<1> QED
  BY <1>1, <1>2, <1>3, <1>4

\* A save leaves every other actor that holds the row, or that found it in
\* want of an alert, behind; its own actor lets the row go.
LEMMA SavesKeep ==
  ASSUME IInv, NEW p \in Actor, NEW e \in Entity, Writes(p, e), pc[p] \in Saving,
         Others(p), LocalsOK',
         pc'[p] \in {"done", "customer", "recharge", "snapshot"},
         pc'[p] \in {"recharge", "snapshot"} => p \in Buyer /\ p \notin Inbound,
         pc'[p] = "customer" => p \in Inbound,
         p \in Inbound =>
           /\ pc'[p] = "customer" => at'[p] \in due'[p] /\ item'[p] = 0
           /\ due'[p] \subseteq due[p] \ {at[p]}
  PROVE  Handling' /\ Fresh' /\ DueUnmarked'
<1> USE InboundActs DEF IInv
<1>1. Handling'
  BY DEF Handling, Others, AtWork, Recharging
<1>2. /\ at[p] \in Row /\ table'[at[p]] = e
      /\ \A r \in Row : r # at[p] => table'[r] = table[r]
      /\ \A q \in Actor, r \in Row : r # at[p] => (<<q, r>> \in stale' <=> <<q, r>> \in stale)
      /\ \A q \in Actor \ {p} : <<q, at[p]>> \in stale => <<q, at[p]>> \in stale'
      /\ \A q \in Actor \ {p} : Holds(q, at[p]) => <<q, at[p]>> \in stale'
      /\ \A m \in Inbound \ {p} : e.sent /\ at[p] \in due[m] => <<m, at[p]>> \in stale'
  BY WritesEffect DEF TypeOK
<1>3. Fresh'
  <2>1. ASSUME NEW q \in Actor \ {p}, <<q, at[q]>> \notin stale', at[q] = at[p]
        PROVE  pc[q] \notin {"markSave", "setSave", "editSave", "pay", "settingSave", "resetSave"}
    BY <1>2, <2>1 DEF Holds
  <2>2. ASSUME NEW q \in Actor \ {p}, <<q, at[q]>> \notin stale', at[q] # at[p]
        PROVE  <<q, at[q]>> \notin stale /\ table'[at[q]] = table[at[q]]
    BY <1>2, <2>2 DEF TypeOK
  <2> QED
    BY <2>1, <2>2 DEF Fresh, Others
<1>4. DueUnmarked'
  <2>1. ASSUME NEW m \in Inbound, NEW r \in due'[m]
        PROVE  <<m, r>> \in stale' \/ Unmarked(m, r)' \/ ~table'[r].sent
    <3>1. r \in Row /\ r \in due[m]
      BY <2>1 DEF Others, TypeOK
    <3>2. <<m, r>> \in stale \/ Unmarked(m, r) \/ ~table[r].sent
      BY <3>1 DEF DueUnmarked
    <3>3. CASE m = p
      BY <1>2, <3>1, <3>2, <3>3 DEF Unmarked
    <3>4. CASE m # p
      <4>1. Unmarked(m, r)' <=> Unmarked(m, r)
        BY <3>4 DEF Others, Unmarked
      <4> QED
        BY <1>2, <3>1, <3>2, <3>4, <4>1
    <3> QED
      BY <3>3, <3>4
  <2> QED
    BY <2>1 DEF DueUnmarked
<1> QED
  BY <1>1, <1>3, <1>4

\* The marks of the other rows are as they were.
LEMMA OtherRowsKeep ==
  ASSUME IInv, NEW p \in Actor, NEW e \in Entity, Writes(p, e), pc[p] \in Saving, Others(p),
         pc'[p] \in {"done", "customer", "recharge", "snapshot"},
         \A r \in Row : r # at[p] => alerts'[r] = alerts[r] /\ (r \in alerted' <=> r \in alerted),
         NEW r \in Row, r # at[p], r \notin crossed
  PROVE  Told(r)'
<1> USE DEF IInv
<1>1. Told(r) /\ table'[r] = table[r]
  BY WritesEffect DEF Marks
<1>2. ~Unmarked(p, r) /\ ~Unmarked(p, r)'
  BY DEF Unmarked, Saving
<1> QED
  BY <1>1, <1>2, ToldKeeps

\* A mark is saved for an alert; another save of the row since the load counts
\* as a race.
LEMMA MarkSaveKeeps ==
  ASSUME IInv, NEW p \in Actor, MarkSave(p)
  PROVE  IInv'
<1> USE InboundActs DEF IInv
<1>1. pc[p] = "markSave" /\ UNCHANGED <<lastQty, told, wish, late>>
  BY DEF MarkSave
<1>2. CASE Leaves(p) /\ crossed' = crossed \cup Unsaid(p) /\ UNCHANGED <<table, stale, outdated>>
  <2>1. UNCHANGED <<table, lastQty, wish, stale, outdated>> /\ late' = late /\ UNCHANGED told
    BY <1>1, <1>2
  <2> QED
    BY <1>1, <1>2, <2>1, LeavesKeeps
<1>3. ASSUME Writes(p, [entity[p] EXCEPT !.sent = TRUE]),
             crossed' = crossed \cup Behind(p), outdated' = outdated \cup Behind(p),
             (p \in Inbound /\ Turns(p, due[p] \ {at[p]})) \/ Leaves(p)
      PROVE  IInv'
  <2> DEFINE e == [entity[p] EXCEPT !.sent = TRUE]
             left == due[p] \ {at[p]}
  <2>1. at[p] \in Row /\ left \in SUBSET Row /\ e \in Entity /\ e.sent /\ e.enabled = entity[p].enabled
    BY DEF TypeOK, Entity
  <2>2. Writes(p, e)
    BY <1>3
  <2> HIDE DEF e
  <2>3. /\ LocalsOK' /\ Others(p)
        /\ \/ pc'[p] = "done" /\ due'[p] = {}
           \/ /\ p \in Inbound /\ pc'[p] = "customer"
              /\ due'[p] = left /\ at'[p] \in left /\ item'[p] = 0
    <3>1. CASE Leaves(p)
      BY <3>1, LeavesEffect
    <3>2. CASE p \in Inbound /\ Turns(p, left)
      BY <2>1, <3>2, TurnsEffect
    <3> QED
      BY <1>3, <3>1, <3>2
  <2>4. Handling' /\ Fresh' /\ DueUnmarked'
    BY <1>1, <2>1, <2>2, <2>3, SavesKeep DEF Saving
  <2>5. OffersLastPurchase'
    BY <1>1, <2>3, OffersKeep
  <2>6. /\ table' \in [Row -> Entity] /\ table'[at[p]] = e /\ stale' \subseteq Actor \X Row
        /\ \A r \in Row : r # at[p] => table'[r] = table[r]
    BY <2>1, <2>2, WritesEffect
  <2>7. TypeOK'
    <3>1. crossed' \subseteq Row /\ outdated' \subseteq Row
      BY <1>3, <2>1 DEF Behind, TypeOK
    <3> QED
      BY <1>1, <2>3, <2>6, <3>1 DEF TypeOK, LocalsOK, told
  <2>8. SettingUnlessOutdated'
    <3>1. <<p, at[p]>> \notin stale => entity[p] = table[at[p]]
      BY <1>1 DEF Fresh
    <3> QED
      BY <1>1, <1>3, <2>1, <2>6, <3>1 DEF SettingUnlessOutdated, Behind
  <2>9. ASSUME NEW r \in Row \ crossed'
        PROVE  Told(r)'
    <3>1. Told(r)
      BY <1>3, <2>9 DEF Marks
    <3>2. CASE r # at[p]
      BY <1>1, <1>3, <2>1, <2>2, <2>3, <2>9, <3>2, OtherRowsKeep DEF Saving, told
    <3>3. CASE r = at[p]
      <4>1. Unmarked(p, r) /\ table'[r].sent
        BY <1>1, <2>1, <2>6, <3>3 DEF Unmarked
      <4>2. r \in alerted /\ alerts[r] <= 1
        BY <3>1, <4>1 DEF Told
      <4> QED
        BY <1>1, <4>1, <4>2 DEF Told, told
    <3> QED
      BY <3>2, <3>3
  <2> QED
    BY <2>4, <2>5, <2>7, <2>8, <2>9 DEF Marks
<1> QED
  BY <1>2, <1>3 DEF MarkSave

-----------------------------------------------------------------------------
(* The setting and the reset *)

\* A save that fails changes nothing but the locals of its actor.
LEMMA FailedSaveKeeps ==
  ASSUME IInv, NEW p \in Actor, pc[p] \in {"setSave", "editSave", "settingSave", "resetSave"},
         Others(p), LocalsOK',
         UNCHANGED <<table, lastQty, told, wish, stale, late, crossed, outdated>>,
         pc'[p] \in {"done", "snapshot"}, pc'[p] = "snapshot" => p \in Buyer
  PROVE  IInv'
<1> USE InboundActs DEF IInv
<1>1. p \notin Inbound
  BY DEF Handling, AtWork
<1>2. \A r \in Row : ~Unmarked(p, r) /\ ~Unmarked(p, r)'
  BY DEF Unmarked
<1>3. Handling' /\ Fresh' /\ DueUnmarked' /\ Marks' /\ SettingUnlessOutdated'
  BY <1>1, <1>2, QuietKeeps DEF AtWork, Recharging
<1>4. OffersLastPurchase'
  BY <1>1, OffersKeep
<1>5. TypeOK'
  BY DEF TypeOK, LocalsOK, told
<1> QED
  BY <1>3, <1>4, <1>5

\* A setting is saved with the mark its row had, or that mark is stale.
LEMMA SettingKeeps ==
  ASSUME IInv, NEW p \in Actor, pc[p] \in {"setSave", "settingSave"}, WritesSetting(p),
         UNCHANGED <<lastQty, told, late>>, Others(p), LocalsOK',
         pc'[p] \in {"done", "recharge"}, pc'[p] = "recharge" => p \in Buyer
  PROVE  IInv'
<1> USE InboundActs DEF IInv
<1>1. p \notin Inbound /\ at[p] \in Row /\ entity[p] \in Entity /\ Writes(p, entity[p])
  BY DEF Handling, AtWork, WritesSetting, TypeOK
<1>2. Handling' /\ Fresh' /\ DueUnmarked'
  BY <1>1, SavesKeep DEF Saving
<1>3. OffersLastPurchase'
  BY <1>1, OffersKeep
<1>4. /\ table' \in [Row -> Entity] /\ table'[at[p]] = entity[p] /\ stale' \subseteq Actor \X Row
      /\ \A r \in Row : r # at[p] => table'[r] = table[r]
  BY <1>1, WritesEffect
<1>5. /\ wish' = [wish EXCEPT ![at[p]] = entity[p].enabled]
      /\ crossed' = crossed \cup Behind(p) /\ outdated' = outdated \ {at[p]}
  BY DEF WritesSetting
<1>6. TypeOK'
  <2>1. wish' \in [Row -> BOOLEAN] /\ outdated' \subseteq Row /\ crossed' \subseteq Row
    BY <1>1, <1>5 DEF TypeOK, Entity, Behind
  <2> QED
    BY <1>4, <2>1 DEF TypeOK, LocalsOK, told
<1>7. SettingUnlessOutdated'
  <2>1. wish'[at[p]] = entity[p].enabled /\ \A r \in Row : r # at[p] => wish'[r] = wish[r]
    BY <1>1, <1>5 DEF TypeOK
  <2> QED
    BY <1>4, <1>5, <2>1 DEF SettingUnlessOutdated
<1>8. ASSUME NEW r \in Row \ crossed'
      PROVE  Told(r)'
  <2>1. Told(r) /\ r \notin crossed
    BY <1>5, <1>8 DEF Marks
  <2>2. CASE r # at[p]
    BY <1>1, <2>1, <2>2, OtherRowsKeep DEF Saving, told
  <2>3. CASE r = at[p]
    <3>1. table'[r].sent = table[r].sent
      BY <1>4, <1>5, <1>8, <2>3 DEF Fresh, Behind
    <3>2. ~Unmarked(p, r) /\ ~Unmarked(p, r)'
      BY DEF Unmarked
    <3> QED
      BY <2>1, <3>1, <3>2, ToldKeeps DEF told
  <2> QED
    BY <2>2, <2>3
<1> QED
  BY <1>2, <1>3, <1>6, <1>7, <1>8 DEF Marks

\* The setting a customer gives is saved, or fails.
LEMMA SetSaveKeeps ==
  ASSUME IInv, NEW p \in Actor, SetSave(p)
  PROVE  IInv'
<1>1. LocalsOK' /\ Others(p) /\ pc'[p] = "done"
  BY LeavesEffect DEF SetSave, IInv
<1>2. pc[p] = "setSave" /\ UNCHANGED <<lastQty, told, late>>
  BY DEF SetSave
<1>3. CASE WritesSetting(p)
  BY <1>1, <1>2, <1>3, SettingKeeps
<1>4. CASE UNCHANGED <<table, wish, stale, crossed, outdated>>
  BY <1>1, <1>2, <1>4, FailedSaveKeeps
<1> QED
  BY <1>3, <1>4 DEF SetSave

\* An update, an enabling or a disabling writes back the row as it was loaded,
\* or counts as a race.
LEMMA EditSaveKeeps ==
  ASSUME IInv, NEW p \in Actor, EditSave(p)
  PROVE  IInv'
<1> USE InboundActs DEF IInv
<1>1. LocalsOK' /\ Others(p) /\ pc'[p] = "done"
  BY LeavesEffect DEF EditSave
<1>2. pc[p] = "editSave" /\ UNCHANGED <<lastQty, told, wish, late>>
  BY DEF EditSave
<1>3. CASE UNCHANGED <<table, stale, crossed, outdated>>
  BY <1>1, <1>2, <1>3, FailedSaveKeeps
<1>4. CASE /\ Writes(p, entity[p])
           /\ crossed' = crossed \cup Behind(p) /\ outdated' = outdated \cup Behind(p)
  <2>1. p \notin Inbound /\ at[p] \in Row /\ entity[p] \in Entity
    BY <1>2 DEF Handling, AtWork, TypeOK
  <2>2. Handling' /\ Fresh' /\ DueUnmarked'
    BY <1>1, <1>2, <1>4, <2>1, SavesKeep DEF Saving
  <2>3. OffersLastPurchase'
    BY <1>1, <1>2, <2>1, OffersKeep
  <2>4. /\ table' \in [Row -> Entity] /\ table'[at[p]] = entity[p] /\ stale' \subseteq Actor \X Row
        /\ \A r \in Row : r # at[p] => table'[r] = table[r]
    BY <1>4, <2>1, WritesEffect
  <2>5. TypeOK'
    <3>1. crossed' \subseteq Row /\ outdated' \subseteq Row
      BY <1>4, <2>1 DEF Behind, TypeOK
    <3> QED
      BY <1>1, <1>2, <2>4, <3>1 DEF TypeOK, LocalsOK, told
  <2>6. <<p, at[p]>> \notin stale => entity[p] = table[at[p]]
    BY <1>2 DEF Fresh
  <2>7. SettingUnlessOutdated'
    BY <1>2, <1>4, <2>1, <2>4, <2>6 DEF SettingUnlessOutdated, Behind
  <2>8. ASSUME NEW r \in Row \ crossed'
        PROVE  Told(r)'
    <3>1. Told(r) /\ r \notin crossed
      BY <1>4, <2>8 DEF Marks
    <3>2. CASE r # at[p]
      BY <1>1, <1>2, <1>4, <2>1, <3>1, <3>2, OtherRowsKeep DEF Saving, told
    <3>3. CASE r = at[p]
      <4>1. table'[r].sent = table[r].sent
        BY <1>4, <2>4, <2>6, <2>8, <3>3 DEF Behind
      <4>2. ~Unmarked(p, r) /\ ~Unmarked(p, r)'
        BY <1>1, <1>2 DEF Unmarked
      <4> QED
        BY <1>1, <1>2, <3>1, <4>1, <4>2, ToldKeeps DEF told
    <3> QED
      BY <3>2, <3>3
  <2> QED
    BY <2>2, <2>3, <2>5, <2>7, <2>8 DEF Marks
<1> QED
  BY <1>3, <1>4 DEF EditSave

\* The setting that comes with a recharge is saved before the recharge.
LEMMA SettingSaveKeeps ==
  ASSUME IInv, NEW p \in Actor, SettingSave(p)
  PROVE  IInv'
<1> USE DEF IInv
<1>1. pc[p] = "settingSave" /\ p \in Buyer /\ UNCHANGED <<lastQty, told, late>>
  BY DEF SettingSave, Handling, Recharging
<1>2. LocalsOK' /\ Others(p) /\ (pc'[p] = "done" \/ (pc'[p] = "recharge" /\ WritesSetting(p)))
  <2>1. CASE Leaves(p)
    BY <2>1, LeavesEffect
  <2>2. CASE Goes(p, "recharge") /\ entity' = [entity EXCEPT ![p] = Blank]
          /\ UNCHANGED <<due, at, item>>
             /\ WritesSetting(p)
    BY <2>2, ItemType DEF Goes, TypeOK, LocalsOK, Labels, Others
  <2> QED
    BY <2>1, <2>2 DEF SettingSave
<1>3. CASE WritesSetting(p)
  BY <1>1, <1>2, <1>3, SettingKeeps
<1>4. CASE ~WritesSetting(p)
  <2>1. UNCHANGED <<table, wish, stale, crossed, outdated>> /\ pc'[p] = "done"
    <3>1. Leaves(p) /\ UNCHANGED <<table, wish, stale, crossed, outdated>>
      BY <1>4 DEF SettingSave
    <3> QED
      BY <3>1, LeavesEffect
  <2> QED
    BY <1>1, <1>2, <2>1, FailedSaveKeeps
<1> QED
  BY <1>3, <1>4

\* The reset takes the mark and the alerts of a row away; a handler that holds
\* a mark for it then counts as a race.
LEMMA ResetSaveKeeps ==
  ASSUME IInv, NEW p \in Actor, ResetSave(p)
  PROVE  IInv'
<1> USE InboundActs DEF IInv
<1>1. /\ pc[p] = "resetSave" /\ p \in Buyer /\ p \notin Inbound /\ at[p] \in Row
      /\ UNCHANGED <<lastQty, due, at, item, wish, late>>
  BY EasyRechargeAssumption DEF ResetSave, Handling, Recharging, TypeOK
<1>2. LocalsOK' /\ Others(p) /\ pc'[p] = "snapshot"
  BY ItemType DEF ResetSave, Goes, TypeOK, LocalsOK, Labels, Others
<1>3. CASE UNCHANGED <<table, told, stale, crossed, outdated>>
  BY <1>1, <1>2, <1>3, FailedSaveKeeps
<1>4. CASE Resets(p)
  <2> DEFINE e == [entity[p] EXCEPT !.sent = FALSE]
  <2>1. e \in Entity /\ ~e.sent /\ e.enabled = entity[p].enabled
    BY DEF TypeOK, Entity
  <2>2. /\ Writes(p, e) /\ alerts' = [alerts EXCEPT ![at[p]] = 0] /\ alerted' = alerted \ {at[p]}
        /\ outdated' = outdated \cup Behind(p) /\ crossed' = CrossedByReset(p)
    BY <1>4 DEF Resets
  <2> HIDE DEF e
  <2>3. Handling' /\ Fresh' /\ DueUnmarked'
    BY <1>1, <1>2, <2>1, <2>2, SavesKeep DEF Saving
  <2>4. OffersLastPurchase'
    BY <1>1, <1>2, OffersKeep
  <2>5. /\ table' \in [Row -> Entity] /\ table'[at[p]] = e /\ stale' \subseteq Actor \X Row
        /\ \A r \in Row : r # at[p] => table'[r] = table[r]
    BY <2>1, <2>2, WritesEffect
  <2>6. TypeOK'
    <3>1. alerts' \in [Row -> 0..2] /\ alerted' \subseteq Row
      BY <1>1, <2>2 DEF TypeOK
    <3>2. crossed' \subseteq Row /\ outdated' \subseteq Row
      BY <1>1, <2>2 DEF Behind, CrossedByReset, TypeOK
    <3> QED
      BY <1>1, <1>2, <2>5, <3>1, <3>2 DEF TypeOK, LocalsOK
  <2>7. SettingUnlessOutdated'
    <3>1. <<p, at[p]>> \notin stale => entity[p] = table[at[p]]
      BY <1>1 DEF Fresh
    <3> QED
      BY <1>1, <2>1, <2>2, <2>5, <3>1 DEF SettingUnlessOutdated, Behind
  <2>8. ASSUME NEW r \in Row \ crossed'
        PROVE  Told(r)'
    <3>1. CASE r # at[p]
      <4>1. r \notin crossed
        BY <2>2, <2>8, <3>1 DEF CrossedByReset
      <4>2. \A x \in Row : x # at[p] => alerts'[x] = alerts[x] /\ (x \in alerted' <=> x \in alerted)
        BY <1>1, <2>2 DEF TypeOK
      <4> QED
        BY <1>1, <1>2, <2>1, <2>2, <3>1, <4>1, <4>2, OtherRowsKeep DEF Saving
    <3>2. CASE r = at[p]
      <4>1. \A q \in Actor : ~Unmarked(q, r)
        BY <2>2, <2>8, <3>2 DEF CrossedByReset
      <4>2. \A q \in Actor : ~Unmarked(q, r)'
        BY <1>2, <4>1 DEF Others, Unmarked
      <4>3. alerts'[r] = 0 /\ ~table'[r].sent
        BY <1>1, <2>1, <2>2, <2>5, <3>2 DEF TypeOK
      <4> QED
        BY <4>2, <4>3 DEF Told
    <3> QED
      BY <3>1, <3>2
  <2> QED
    BY <2>3, <2>4, <2>6, <2>7, <2>8 DEF Marks
<1> QED
  BY <1>3, <1>4 DEF ResetSave

-----------------------------------------------------------------------------
(* The invariant *)

\* A step that changes nothing keeps the invariant.
LEMMA IdleKeeps ==
  ASSUME IInv, UNCHANGED vars
  PROVE  IInv'
BY DEF IInv, vars, rows, locals, told, TypeOK, Handling, Fresh, DueUnmarked, Marks, Told, Unmarked,
       SettingUnlessOutdated, OffersLastPurchase

\* No row is marked and nobody has been told anything when the process starts.
LEMMA Initially ==
  ASSUME Init
  PROVE  IInv
<1> USE ItemType
<1>1. TypeOK
  <2>1. table \in [Row -> Entity] /\ wish \in [Row -> BOOLEAN]
    BY DEF Init, Entity
  <2>2. alerts \in [Row -> 0..2] /\ lastQty \in [Row -> Chips]
    BY DEF Init
  <2> QED
    BY <2>1, <2>2 DEF Init, TypeOK, Labels
<1>2. \A p \in Actor : pc[p] = "idle" /\ due[p] = {}
  BY DEF Init
<1>3. Handling /\ Fresh /\ DueUnmarked
  BY <1>2, InboundActs DEF Handling, Fresh, DueUnmarked, AtWork, Recharging
<1>4. Marks
  <2>1. \A r \in Row : alerts[r] = 0 /\ ~table[r].sent
    BY DEF Init
  <2> QED
    BY <1>2, <2>1 DEF Marks, Told, Unmarked
<1>5. SettingUnlessOutdated /\ OffersLastPurchase
  BY <1>2, InboundActs DEF Init, SettingUnlessOutdated, OffersLastPurchase
<1> QED
  BY <1>1, <1>3, <1>4, <1>5 DEF IInv

\* The inductive invariant holds in every state, for any messages, callers and
\* rows.
THEOREM Invariance == Spec => []IInv
<1>1. Init => IInv
  BY Initially
<1>2. IInv /\ [Next]_vars => IInv'
  <2> SUFFICES ASSUME IInv, [Next]_vars
               PROVE  IInv'
    OBVIOUS
  <2>1. CASE UNCHANGED vars
    BY <2>1, IdleKeeps
  <2>2. ASSUME NEW p \in Actor, HandleMessage(p)
        PROVE  IInv'
    BY <2>2, ReceiveKeeps, AskKeeps DEF HandleMessage
  <2>3. ASSUME NEW p \in Actor, Trigger(p)
        PROVE  IInv'
    BY <2>3, TriggerKeeps
  <2>4. ASSUME NEW p \in Actor, SendAlert(p)
        PROVE  IInv'
    BY <2>4, ChooseKeeps, AlertKeeps, MarkFindKeeps, MarkSaveKeeps DEF SendAlert
  <2>5. ASSUME NEW p \in Actor, SetFind(p) \/ SetSave(p) \/ EditFind(p) \/ EditSave(p)
        PROVE  IInv'
    BY <2>5, CallerKeeps, SetSaveKeeps, EditSaveKeeps
  <2>6. ASSUME NEW p \in Actor, FundsAdd(p)
        PROVE  IInv'
    BY <2>6, CallerKeeps, SettingSaveKeeps, ResetSaveKeeps, SnapshotKeeps DEF FundsAdd
  <2> QED
    BY <2>1, <2>2, <2>3, <2>4, <2>5, <2>6 DEF Next
<1> QED
  BY <1>1, <1>2, PTL DEF Spec

\* Every variable has its type.
THEOREM TypeCorrect == Spec => []TypeOK
<1>1. IInv => TypeOK
  BY DEF IInv
<1> QED
  BY <1>1, Invariance, PTL

(***************************************************************************)
(* Balance messages alert a customer about a row (sendEasyRechargeAlert)   *)
(* at most once from one recharge to the next, unless two alerts crossed,  *)
(* a mark failed, or another save of the row or a recharge passed a mark.  *)
(***************************************************************************)
THEOREM OneAlert == Spec => []OneAlertUnlessCrossed
<1>1. IInv => OneAlertUnlessCrossed
  BY DEF IInv, Marks, Told, OneAlertUnlessCrossed
<1> QED
  BY <1>1, Invariance, PTL

(***************************************************************************)
(* A row that is marked as sent has had its alert since the last recharge, *)
(* but for the same races: no customer goes without an alert because of a  *)
(* mark that nobody takes away.                                            *)
(***************************************************************************)
THEOREM Marked == Spec => []MarkedOnlyIfAlerted
<1>1. IInv => MarkedOnlyIfAlerted
  BY DEF IInv, Marks, Told, MarkedOnlyIfAlerted
<1> QED
  BY <1>1, Invariance, PTL

(***************************************************************************)
(* The setting of a row is the one its customer, or a recharge, gave it    *)
(* last, unless a mark, a reset, or an update, an enabling or a disabling  *)
(* of the card saved a row it had loaded before that: the only lost        *)
(* updates of the setting are those.                                       *)
(***************************************************************************)
THEOREM Setting == Spec => []SettingUnlessOutdated
<1>1. IInv => SettingUnlessOutdated
  BY DEF IInv
<1> QED
  BY <1>1, Invariance, PTL

(***************************************************************************)
(* An alert that is about to offer an item offers one with as many chips   *)
(* as the customer bought last for the row, unless a purchase came after   *)
(* the choice.                                                             *)
(***************************************************************************)
THEOREM Offers == Spec => []OffersLastPurchase
<1>1. IInv => OffersLastPurchase
  BY DEF IInv
<1> QED
  BY <1>1, Invariance, PTL

-----------------------------------------------------------------------------
(***************************************************************************)
(* The feed of balance messages, for any messages delivered to any         *)
(* processes.                                                              *)
(***************************************************************************)
-----------------------------------------------------------------------------
(* What the parts of a step leave alone *)

\* A handler's move changes its own place only.
LEMMA MovesEffect ==
  ASSUME NEW m \in Message, NEW from, NEW to \in Stage, FeedTypeOK, Moves(m, from, to)
  PROVE  /\ stage' \in [Message -> Stage] /\ stage[m] = from /\ stage'[m] = to
         /\ \A n \in Message \ {m} : stage'[n] = stage[n]
BY DEF Moves, FeedTypeOK

\* A handler that neither stores nor asks for a session keeps the invariant
\* when it moves from before the store, to before the store or to an end, or
\* within the alert.
LEMMA FeedQuiet ==
  ASSUME FeedIInv, NEW m \in Message, UNCHANGED <<sessionVars, stored>>, FeedTypeOK',
         \A n \in Message \ {m} : stage'[n] = stage[n],
         \/ stage'[m] \notin Managed \cup {"pass", "session", "markSession"}
         \/ stage[m] \in Managed /\ stage'[m] \in Managed
  PROVE  FeedIInv'
<1>1. KeyBacked'
  BY DEF FeedIInv, KeyBacked, Armed, sessionVars
<1>2. StoredFirst'
  BY DEF FeedIInv, StoredFirst, Managed
<1>3. Waiting' \subseteq Waiting
  BY FeedAssumption DEF Waiting, sessionVars
<1>4. NoUpdateForgotten'
  BY <1>3 DEF FeedIInv, NoUpdateForgotten, sessionVars
<1> QED
  BY <1>1, <1>2, <1>4 DEF FeedIInv

\* When everything that was stored is shown or excused, nothing waits.
LEMMA AllExcused ==
  ASSUME FeedIInv, shown' = shown, excused' = excused \cup (stored \ shown),
         \A n \in Message : stage'[n] \in Managed => stage[n] \in Managed
  PROVE  Waiting' = {}
BY FeedAssumption DEF FeedIInv, Waiting, StoredFirst

\* A timer that moves on leaves the handlers' part of the invariant alone.
LEMMA Timed ==
  ASSUME FeedIInv, UNCHANGED <<stage, stored>>
  PROVE  StoredFirst'
BY DEF FeedIInv, StoredFirst

-----------------------------------------------------------------------------
(* Every step preserves the invariant *)

\* Up to the store of its balances a message touches no session.
LEMMA BeforeStore ==
  ASSUME FeedIInv, NEW m \in Message,
         \/ CheckValid(m) \/ Query(m) \/ MarkInvalid(m) \/ MarkValid(m)
         \/ OldBalance(m) \/ FindCustomer(m) \/ Popup(m)
  PROVE  FeedIInv'
<1> DEFINE Ends == {"ignored", "failed", "query", "markInvalid", "markValid",
                    "oldBalance", "customer", "popup", "store"}
<1>1. PICK to \in Ends : \E from \in Stage : Moves(m, from, to)
  BY DEF CheckValid, Query, MarkInvalid, MarkValid, OldBalance, FindCustomer, Popup,
         Moves, Stage, Terminal, Managed
<1>2. to \in Stage /\ to \notin Managed \cup {"pass", "session", "markSession"}
  BY DEF Stage, Terminal, Managed
<1>3. stage' \in [Message -> Stage] /\ stage'[m] = to /\ \A n \in Message \ {m} : stage'[n] = stage[n]
  BY <1>1, <1>2, MovesEffect DEF FeedIInv
<1>4. UNCHANGED <<sessionVars, stored>>
  BY DEF CheckValid, Query, MarkInvalid, MarkValid, OldBalance, FindCustomer, Popup, storeVars
<1>5. FeedTypeOK'
  <2>1. sent' \in BOOLEAN /\ inApp' \in BOOLEAN /\ tapped' \in BOOLEAN /\ cached' \in BOOLEAN
    BY DEF CheckValid, Query, MarkInvalid, MarkValid, OldBalance, FindCustomer, Popup,
           storeVars, cardVars, FeedIInv, FeedTypeOK
  <2>2. valid' \in {"unknown", "valid", "invalid"}
    BY DEF CheckValid, Query, MarkInvalid, MarkValid, OldBalance, FindCustomer, Popup,
           storeVars, cardVars, FeedIInv, FeedTypeOK
  <2>3. sawSent' \in [Message -> BOOLEAN] /\ old' \in [Message -> BOOLEAN]
    BY DEF CheckValid, Query, MarkInvalid, MarkValid, OldBalance, FindCustomer, Popup,
           FeedIInv, FeedTypeOK
  <2> QED
    BY <1>3, <1>4, <2>1, <2>2, <2>3 DEF FeedIInv, FeedTypeOK, sessionVars
<1> QED
  BY <1>2, <1>3, <1>4, <1>5, FeedQuiet

\* Nor does it while it alerts the customer.
LEMMA DuringAlert ==
  ASSUME FeedIInv, NEW m \in Message, AlertCustomer(m) \/ Notify(m) \/ MarkSent(m)
  PROVE  FeedIInv'
<1>1. PICK to \in Managed : \E from \in Managed : Moves(m, from, to)
  BY DEF AlertCustomer, Notify, MarkSent, Moves, Managed
<1>2. to \in Stage
  BY DEF Stage
<1>3. /\ stage' \in [Message -> Stage] /\ stage'[m] = to /\ stage[m] \in Managed
      /\ \A n \in Message \ {m} : stage'[n] = stage[n]
  BY <1>1, <1>2, MovesEffect DEF FeedIInv
<1>4. UNCHANGED <<sessionVars, stored>>
  BY DEF AlertCustomer, Notify, MarkSent, storeVars
<1>5. FeedTypeOK'
  <2>1. /\ sent' \in BOOLEAN /\ cached' \in BOOLEAN
        /\ UNCHANGED <<sawSent, old, inApp, valid, tapped>>
    BY DEF AlertCustomer, Notify, MarkSent, storeVars, cardVars, FeedIInv, FeedTypeOK
  <2> QED
    BY <1>3, <1>4, <2>1 DEF FeedIInv, FeedTypeOK, sessionVars
<1> QED
  BY <1>3, <1>4, <1>5, FeedQuiet

\* The balances a message stores are those its session update will show.
LEMMA Storing ==
  ASSUME FeedIInv, NEW m \in Message, Store(m)
  PROVE  FeedIInv'
<1> DEFINE to == stage'[m]
<1>1. PICK t \in {"session", "pass", "failed"} :
        /\ Moves(m, "store", t)
        /\ t = "session" => m \in Ticket /\ m \in stored'
        /\ t = "pass" => m \notin Ticket
  BY DEF Store, Moves
<1>2. t \in Stage /\ t \notin Managed
  BY DEF Stage, Terminal, Managed
<1>3. /\ stage' \in [Message -> Stage] /\ stage'[m] = t
      /\ \A n \in Message \ {m} : stage'[n] = stage[n]
  BY <1>1, <1>2, MovesEffect DEF FeedIInv
<1>4. /\ UNCHANGED <<sessionVars, sawSent, old, cardVars>>
      /\ cached' \in BOOLEAN /\ stored \subseteq stored' /\ stored' \subseteq Message
  BY DEF Store, storeVars, FeedIInv, FeedTypeOK
<1>5. FeedTypeOK'
  BY <1>3, <1>4 DEF FeedIInv, FeedTypeOK, sessionVars, cardVars
<1>6. StoredFirst'
  BY <1>1, <1>2, <1>3, <1>4 DEF FeedIInv, StoredFirst
<1>7. KeyBacked'
  BY <1>4 DEF FeedIInv, KeyBacked, Armed, sessionVars
<1>8. Waiting' \subseteq Waiting
  BY <1>2, <1>3, <1>4, FeedAssumption DEF Waiting, sessionVars
<1>9. NoUpdateForgotten'
  BY <1>4, <1>8 DEF FeedIInv, NoUpdateForgotten, sessionVars
<1> QED
  BY <1>5, <1>6, <1>7, <1>9 DEF FeedIInv

\* The update of a pass is about its own message.
LEMMA Passing ==
  ASSUME FeedIInv, NEW m \in Message, UpdatePass(m)
  PROVE  FeedIInv'
<1>1. PICK t \in {"alertCustomer", "done", "failed"} : Moves(m, "pass", t)
  BY DEF UpdatePass, AfterPass
<1>2. t \in Stage
  BY DEF Stage, Terminal, Managed
<1>3. /\ stage' \in [Message -> Stage] /\ stage'[m] = t /\ stage[m] = "pass"
      /\ \A n \in Message \ {m} : stage'[n] = stage[n]
  BY <1>1, <1>2, MovesEffect DEF FeedIInv
<1>4. /\ UNCHANGED <<sawSent, old, cardVars, storeVars, key, timer, carry, orphan, excused>>
      /\ shown \subseteq shown' /\ shown' \subseteq Message
  BY DEF UpdatePass, FeedIInv, FeedTypeOK
<1>5. m \notin Ticket
  BY <1>3 DEF FeedIInv, StoredFirst
<1>6. FeedTypeOK'
  BY <1>3, <1>4 DEF FeedIInv, FeedTypeOK, cardVars, storeVars
<1>7. StoredFirst'
  BY <1>1, <1>3, <1>4, <1>5 DEF FeedIInv, StoredFirst, storeVars
<1>8. KeyBacked'
  BY <1>4 DEF FeedIInv, KeyBacked, Armed
<1>9. Waiting' \subseteq Waiting
  BY <1>3, <1>4, <1>5, FeedAssumption DEF Waiting
<1>10. NoUpdateForgotten'
  BY <1>4, <1>9 DEF FeedIInv, NoUpdateForgotten
<1> QED
  BY <1>6, <1>7, <1>8, <1>10 DEF FeedIInv

\* A message that finds a session hands its update to it.
LEMMA Managing ==
  ASSUME FeedIInv, NEW m \in Message, ManageSession(m)
  PROVE  FeedIInv'
<1>1. PICK t \in {"alertCustomer", "done", "failed", "markSession"} :
        /\ Moves(m, "session", t)
        /\ t \in {"alertCustomer", "done"} => key /\ (orphan => m \in excused')
  BY DEF ManageSession, AfterPass
<1>2. t \in Stage
  BY DEF Stage, Terminal, Managed
<1>3. /\ stage' \in [Message -> Stage] /\ stage'[m] = t /\ stage[m] = "session"
      /\ \A n \in Message \ {m} : stage'[n] = stage[n]
  BY <1>1, <1>2, MovesEffect DEF FeedIInv
<1>4. /\ UNCHANGED <<sawSent, old, cardVars, storeVars, key, timer, carry, shown, orphan>>
      /\ excused \subseteq excused' /\ excused' \subseteq Message
  BY DEF ManageSession, FeedIInv, FeedTypeOK
<1>5. FeedTypeOK'
  BY <1>3, <1>4 DEF FeedIInv, FeedTypeOK, cardVars, storeVars
<1>6. StoredFirst'
  BY <1>1, <1>3, <1>4 DEF FeedIInv, StoredFirst, storeVars, Managed
<1>7. KeyBacked'
  BY <1>4 DEF FeedIInv, KeyBacked, Armed
<1>8. ASSUME NEW n \in Waiting' PROVE n \in Waiting \/ Armed # {}
  <2>1. CASE n = m
    <3>1. t \in {"alertCustomer", "done"}
      BY <1>1, <1>3, <2>1 DEF Waiting, Managed
    <3>2. key /\ ~orphan
      BY <1>1, <2>1, <3>1 DEF Waiting
    <3> QED
      BY <3>2 DEF FeedIInv, KeyBacked
  <2>2. CASE n # m
    BY <1>3, <1>4, <2>2, FeedAssumption DEF Waiting
  <2> QED
    BY <2>1, <2>2
<1>9. NoUpdateForgotten'
  BY <1>4, <1>8 DEF FeedIInv, NoUpdateForgotten, Armed
<1> QED
  BY <1>5, <1>6, <1>7, <1>9 DEF FeedIInv

\* A message that finds none starts one that shows what is stored.
LEMMA StartingSession ==
  ASSUME FeedIInv, NEW m \in Message, StartSession(m)
  PROVE  FeedIInv'
<1>1. PICK t \in {"alertCustomer", "done", "failed"} :
        /\ Moves(m, "markSession", t)
        /\ \/ timer' = [timer EXCEPT ![m] = "armed"] /\ key' = TRUE /\ orphan' = FALSE
           \/ t = "failed" /\ timer' = timer /\ key' \in BOOLEAN /\ orphan' = TRUE
  BY DEF StartSession, AfterPass, FeedIInv, FeedTypeOK
<1>2. t \in Stage
  BY DEF Stage, Terminal, Managed
<1>3. /\ stage' \in [Message -> Stage] /\ stage'[m] = t /\ stage[m] = "markSession"
      /\ \A n \in Message \ {m} : stage'[n] = stage[n]
  BY <1>1, <1>2, MovesEffect DEF FeedIInv
<1>4. UNCHANGED <<sawSent, old, cardVars, storeVars, carry, shown, excused>>
  BY DEF StartSession
<1>5. timer' \in [Message -> {"off", "armed", "read", "send"}]
  BY <1>1 DEF FeedIInv, FeedTypeOK
<1>6. FeedTypeOK'
  BY <1>1, <1>3, <1>4, <1>5 DEF FeedIInv, FeedTypeOK, cardVars, storeVars
<1>7. StoredFirst'
  BY <1>1, <1>3, <1>4 DEF FeedIInv, StoredFirst, storeVars, Managed
<1>8. CASE timer' = timer /\ t = "failed" /\ orphan' = TRUE
  <2>1. Waiting' \subseteq Waiting
    BY <1>3, <1>4, <1>8, FeedAssumption DEF Waiting, Managed
  <2> QED
    BY <1>4, <1>6, <1>7, <1>8, <2>1 DEF FeedIInv, NoUpdateForgotten, KeyBacked
<1>9. CASE timer' = [timer EXCEPT ![m] = "armed"]
  <2>1. timer'[m] = "armed"
    BY <1>9 DEF FeedIInv, FeedTypeOK
  <2> QED
    BY <1>6, <1>7, <2>1 DEF FeedIInv, NoUpdateForgotten, KeyBacked, Armed
<1> QED
  BY <1>1, <1>8, <1>9

\* What is stored when a session passes its update on is shown or excused.
LEMMA Ending ==
  ASSUME FeedIInv, NEW m \in Message, Session(m)
  PROVE  FeedIInv'
<1>1. UNCHANGED <<handlerVars, cardVars, storeVars>>
  BY DEF Session, FinishSession, ReadBalances, SendBalances
<1>2. /\ timer' \in [Message -> {"off", "armed", "read", "send"}]
      /\ carry' \in [Message -> SUBSET Message]
      /\ key' \in BOOLEAN /\ orphan' \in BOOLEAN
      /\ shown' \subseteq Message /\ excused' \subseteq Message
  BY DEF Session, FinishSession, ReadBalances, SendBalances, CutShort, FeedIInv, FeedTypeOK
<1>3. FeedTypeOK'
  BY <1>1, <1>2 DEF FeedIInv, FeedTypeOK, handlerVars, cardVars, storeVars
<1>4. StoredFirst'
  BY <1>1, Timed DEF handlerVars, storeVars
<1>5. KeyBacked'
  <2>1. CASE FinishSession(m)
    BY <2>1 DEF FinishSession, KeyBacked
  <2>2. CASE ReadBalances(m) \/ SendBalances(m)
    <3>1. \A n \in Message : timer[n] = "armed" => timer'[n] = "armed"
      BY <2>2 DEF ReadBalances, SendBalances, FeedIInv, FeedTypeOK
    <3> QED
      BY <2>2, <3>1 DEF ReadBalances, SendBalances, FeedIInv, KeyBacked, Armed
  <2> QED
    BY <2>1, <2>2 DEF Session
<1>6. NoUpdateForgotten'
  <2>1. CASE CutShort /\ shown' = shown
    BY <1>1, <2>1, AllExcused DEF CutShort, NoUpdateForgotten, handlerVars
  <2>2. CASE FinishSession(m) /\ timer' = [timer EXCEPT ![m] = "read"] /\ excused' = excused
    <3>1. Waiting' = Waiting /\ timer'[m] = "read"
      BY <1>1, <2>2 DEF FinishSession, Waiting, handlerVars, FeedIInv, FeedTypeOK
    <3> QED
      BY <3>1 DEF NoUpdateForgotten
  <2>3. CASE ReadBalances(m) /\ carry' = [carry EXCEPT ![m] = stored] /\ excused' = excused
    <3>1. Waiting' = Waiting /\ Waiting \subseteq stored
      BY <1>1, <2>3, FeedAssumption
         DEF ReadBalances, Waiting, handlerVars, FeedIInv, StoredFirst
    <3>2. (timer'[m] = "send" /\ carry'[m] = stored) \/ (CutShort /\ shown' = shown)
      BY <2>3 DEF ReadBalances, FeedIInv, FeedTypeOK
    <3> QED
      BY <2>1, <3>1, <3>2 DEF NoUpdateForgotten
  <2>4. CASE SendBalances(m)
    <3>1. carry' = carry /\ \A n \in Message \ {m} : timer'[n] = timer[n]
      BY <2>4 DEF SendBalances, FeedIInv, FeedTypeOK
    <3>2. shown' \cup excused' = shown \cup excused \cup carry[m]
      BY <2>4 DEF SendBalances
    <3>3. Waiting' = Waiting \ carry[m]
      BY <1>1, <3>2 DEF Waiting, handlerVars
    <3>4. timer[m] = "send"
      BY <2>4 DEF SendBalances
    <3>5. ASSUME NEW n \in Waiting'
          PROVE  \E t \in Message :
                   timer'[t] \in {"armed", "read"} \/ (timer'[t] = "send" /\ n \in carry'[t])
      <4>1. PICK t \in Message :
              timer[t] \in {"armed", "read"} \/ (timer[t] = "send" /\ n \in carry[t])
        BY <3>3, <3>5 DEF FeedIInv, NoUpdateForgotten
      <4>2. t # m
        BY <3>3, <3>4, <3>5, <4>1
      <4> QED
        BY <3>1, <4>1, <4>2
    <3> QED
      BY <3>5 DEF NoUpdateForgotten
  <2> QED
    BY <2>1, <2>2, <2>3, <2>4 DEF Session, FinishSession, ReadBalances
<1> QED
  BY <1>3, <1>4, <1>5, <1>6 DEF FeedIInv

\* Taps, timers, messages that come in and processes that crash.
LEMMA AroundIt ==
  ASSUME FeedIInv, Around
  PROVE  FeedIInv'
<1>1. CASE ChangeCard \/ RechargeCard \/ ExpireBalances \/ ExpireValid
  <2>1. UNCHANGED <<handlerVars, stored, sessionVars>>
    BY <1>1 DEF ChangeCard, RechargeCard, ExpireBalances, ExpireValid, storeVars
  <2>2. /\ sent' \in BOOLEAN /\ tapped' \in BOOLEAN /\ cached' \in BOOLEAN
        /\ valid' \in {"unknown", "valid", "invalid"}
    BY <1>1 DEF ChangeCard, RechargeCard, ExpireBalances, ExpireValid, storeVars, cardVars,
                FeedIInv, FeedTypeOK
  <2>3. inApp' \in BOOLEAN
    <3>1. inApp' = ~inApp \/ inApp' = inApp
      BY <1>1, Zenon DEF ChangeCard, RechargeCard, ExpireBalances, ExpireValid, cardVars
    <3> QED
      BY <3>1, Zenon DEF FeedIInv, FeedTypeOK
  <2>4. FeedTypeOK'
    BY <2>1, <2>2, <2>3 DEF FeedIInv, FeedTypeOK, handlerVars, sessionVars
  <2> QED
    BY <2>1, <2>4 DEF FeedIInv, KeyBacked, Armed, StoredFirst, NoUpdateForgotten, Waiting,
                      handlerVars, sessionVars
<1>2. CASE ExpireSession
  <2>1. FeedTypeOK'
    BY <1>2 DEF ExpireSession, FeedIInv, FeedTypeOK, handlerVars, cardVars, storeVars
  <2> QED
    BY <1>2, <2>1 DEF ExpireSession, FeedIInv, KeyBacked, StoredFirst, NoUpdateForgotten, Waiting,
                      handlerVars, storeVars
<1>3. ASSUME NEW p \in Process, Crash(p) PROVE FeedIInv'
  <2>1. /\ stage' \in [Message -> Stage]
        /\ \A n \in Message : stage'[n] = stage[n] \/ stage'[n] = "crashed"
    BY <1>3 DEF Crash, FeedIInv, FeedTypeOK, Stage, Terminal
  <2>2. timer' \in [Message -> {"off", "armed", "read", "send"}]
    BY <1>3 DEF Crash, FeedIInv, FeedTypeOK
  <2>3. /\ UNCHANGED <<sawSent, old, cardVars, storeVars, key, carry, shown>>
        /\ orphan' = TRUE /\ excused' = excused \cup (stored \ shown)
    BY <1>3 DEF Crash, CutShort
  <2>4. FeedTypeOK'
    BY <2>1, <2>2, <2>3 DEF FeedIInv, FeedTypeOK, cardVars, storeVars
  <2>5. StoredFirst'
    BY <2>1, <2>3 DEF FeedIInv, StoredFirst, storeVars, Managed
  <2>6. Waiting' = {}
    BY <2>1, <2>3, AllExcused DEF Managed
  <2> QED
    BY <2>3, <2>4, <2>5, <2>6 DEF FeedIInv, KeyBacked, NoUpdateForgotten
<1> QED
  BY <1>1, <1>2, <1>3 DEF Around

-----------------------------------------------------------------------------
(* The theorems *)

\* Every step of the feed keeps its inductive invariant.
LEMMA FeedStep == FeedIInv /\ [FeedNext]_feedVars => FeedIInv'
<1> SUFFICES ASSUME FeedIInv, [FeedNext]_feedVars PROVE FeedIInv'
  OBVIOUS
<1>1. CASE UNCHANGED feedVars
  BY <1>1 DEF feedVars, handlerVars, cardVars, storeVars, sessionVars, FeedIInv, FeedTypeOK,
     KeyBacked,
              Armed, StoredFirst, NoUpdateForgotten, Waiting
<1>2. CASE Around
  BY <1>2, AroundIt
<1>3. ASSUME NEW m \in Message, Handler(m) PROVE FeedIInv'
  BY <1>3, BeforeStore, Storing, Passing, Managing, StartingSession, DuringAlert DEF Handler
<1>4. ASSUME NEW m \in Message, Session(m) PROVE FeedIInv'
  BY <1>4, Ending
<1> QED
  BY <1>1, <1>2, <1>3, <1>4 DEF FeedNext

\* The inductive invariant of the feed: a session marked in Redis has a timer
\* yet to read the balances, and whatever waits is in some session's hands.
THEOREM FeedInvariance == FeedSpec => []FeedIInv
<1>1. FeedInit => FeedIInv
  <2> SUFFICES ASSUME FeedInit PROVE FeedIInv
    OBVIOUS
  <2>1. stage \in [Message -> Stage] /\ \A m \in Message : stage[m] = "queued"
    BY DEF FeedInit, Stage
  <2>2. FeedTypeOK
    BY <2>1 DEF FeedInit, FeedTypeOK
  <2>3. KeyBacked
    BY DEF FeedInit, KeyBacked
  <2>4. StoredFirst /\ Waiting = {}
    BY <2>1, FeedAssumption DEF StoredFirst, Waiting, Managed
  <2> QED
    BY <2>2, <2>3, <2>4 DEF FeedIInv, NoUpdateForgotten
<1> QED
  BY <1>1, FeedStep, PTL DEF FeedSpec

\* The types of the feed's state hold throughout (TypeOK).
THEOREM FeedTypeCorrect == FeedSpec => []FeedTypeOK
BY FeedInvariance, PTL DEF FeedIInv

\* No ticket update of a flood is forgotten (NoUpdateForgotten), for any
\* number of messages and processes.
THEOREM NotForgotten == FeedSpec => []NoUpdateForgotten
BY FeedInvariance, PTL DEF FeedIInv
===============================================================================
