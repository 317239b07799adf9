--------------------------------- MODULE Wallet ---------------------------------
(***************************************************************************)
(* PowercardService: the rows of one customer's powercards under the       *)
(* operations that add, change and remove them.                            *)
(*                                                                         *)
(* Every operation but the removal loads an entity, awaits other calls and *)
(* saves the entity: all of its columns are written back as they are in    *)
(* hand, and a row that was removed meanwhile is inserted again.  The      *)
(* reward card is the exception: one UPDATE clears the flag of every card  *)
(* of the customer before the new reward card is saved.                    *)
(*                                                                         *)
(* An entity is three facts: its row, whether it is flagged as the reward  *)
(* card, and whether its status is OPEN.  Reads and calls that change      *)
(* nothing kept here (image packs, balances, the default alias) are part   *)
(* of the step they precede, which may fail.                               *)
(***************************************************************************)
EXTENDS Naturals, FiniteSets

CONSTANTS
  Existing,  \* rows the customer has at first
  Op,        \* operations; the one that creates a card adds the row of its name
  CardOf     \* the card number of each row

Row == Existing \cup Op
Cards == {CardOf[r] : r \in Row}

ASSUME WalletAssumption ==
  /\ Existing \cap Op = {}
  /\ CardOf \in [Row -> Cards]
  /\ \A q, r \in Existing : CardOf[q] = CardOf[r] => q = r

VARIABLES
  db,        \* rows in the table
  reward,    \* rows flagged as reward card
  open,      \* rows whose status is OPEN
  active,    \* cards that MARS has active
  stage,     \* the next await of the operation
  kind,      \* what the operation does
  row,       \* the row of its entity
  asReward,  \* operations whose entity is flagged as reward card
  asOpen,    \* operations whose entity is OPEN
  crossed,   \* history: flags were cleared under an entity about to set one
  raced,     \* history: cards added or put back while they were being added
  unsettled  \* history: cards whose status was lost or overwritten

tableVars == <<db, reward, open>>
entityVars == <<kind, row, asReward, asOpen>>
histories == <<crossed, raced, unsettled>>
walletVars == <<tableVars, active, stage, entityVars, histories>>

Kinds == {"create", "update", "delete", "enable", "disable", "configure"}
Labels == {"idle", "validate", "register", "clear", "mars", "save", "remove",
           "done", "failed"}

WalletTypeOK ==
  /\ db \subseteq Row /\ reward \subseteq db /\ open \subseteq db
  /\ active \subseteq Cards
  /\ stage \in [Op -> Labels]
  /\ kind \in [Op -> Kinds]
  /\ row \in [Op -> Row]
  /\ asReward \subseteq Op /\ asOpen \subseteq Op
  /\ crossed \in BOOLEAN
  /\ raced \subseteq Cards /\ unsettled \subseteq Cards

WalletInit ==
  /\ db = Existing
  /\ reward \in {{}} \cup {{r} : r \in Existing}
  /\ open \in SUBSET Existing
  /\ active = {CardOf[r] : r \in open} \cup (Cards \ {CardOf[r] : r \in Existing})
  /\ stage = [o \in Op |-> "idle"]
  /\ kind = [o \in Op |-> "configure"]
  /\ row = [o \in Op |-> o]
  /\ asReward = {} /\ asOpen = {}
  /\ crossed = FALSE /\ raced = {} /\ unsettled = {}

-----------------------------------------------------------------------------
Goes(o, from, to) == stage[o] = from /\ stage' = [stage EXCEPT ![o] = to]

\* The operation ends, and its entity is garbage.
Finishes(o, from, to) ==
  /\ Goes(o, from, to)
  /\ asReward' = asReward \ {o} /\ asOpen' = asOpen \ {o}
  /\ UNCHANGED <<kind, row>>

\* Operations that hold an entity they may still save.
Holding == {o \in Op : stage[o] \in {"register", "clear", "mars", "save"}}

\* Operations that add a card whose number they have not found in the table.
Creating == {o \in Op : kind[o] = "create" /\ stage[o] \in {"validate", "clear", "save"}}

\* MARS has changed the status of the card and its row is yet to be saved.
Settling == {o \in Op : kind[o] \in {"enable", "disable"} /\ stage[o] = "save"}

-----------------------------------------------------------------------------
(* powercardCreate *)

RowsOf(c) == {r \in db : CardOf[r] = c}

\* Mutant: a card is only looked for among the customer's open cards.
FindByCardNumberAmongOpen(o) ==
  /\ RowsOf(CardOf[o]) \cap open = {} /\ Goes(o, "idle", "validate")
  /\ kind' = [kind EXCEPT ![o] = "create"] /\ row' = [row EXCEPT ![o] = o]
  /\ raced' = IF \E p \in Creating : CardOf[p] = CardOf[o]
              THEN raced \cup {CardOf[o]} ELSE raced
  /\ UNCHANGED <<tableVars, active, asReward, asOpen, crossed, unsettled>>

\* Does the customer have the card already?  If so, a duplicate error.
FindByCardNumber(o) ==
  /\ IF RowsOf(CardOf[o]) = {} THEN Goes(o, "idle", "validate") ELSE Goes(o, "idle", "failed")
  /\ kind' = [kind EXCEPT ![o] = "create"] /\ row' = [row EXCEPT ![o] = o]
  /\ raced' = IF \E p \in Creating : CardOf[p] = CardOf[o]
              THEN raced \cup {CardOf[o]} ELSE raced
  /\ UNCHANGED <<tableVars, active, asReward, asOpen, crossed, unsettled>>

\* cardValidate: MARS knows the card, has it active, and says whether it is
\* registered as a reward card.
Validate(o) ==
  /\ \/ /\ CardOf[o] \in active
        /\ Goes(o, "validate", "clear") \/ Goes(o, "validate", "save")
        /\ asOpen' = asOpen \cup {o}
        /\ UNCHANGED <<kind, row, asReward>>
     \/ Finishes(o, "validate", "failed")
  /\ UNCHANGED <<tableVars, active, histories>>

-----------------------------------------------------------------------------
(* The other operations begin with findByUuid *)

Finds(o, r, what) ==
  /\ r \in db
  /\ kind' = [kind EXCEPT ![o] = what]
  /\ row' = [row EXCEPT ![o] = r]
  /\ asOpen' = IF r \in open THEN asOpen \cup {o} ELSE asOpen
  /\ UNCHANGED <<tableVars, active, histories>>

Loads(o, r) == asReward' = IF r \in reward THEN asReward \cup {o} ELSE asReward

\* powercardUpdate; the attributes may make the card the reward card, say it
\* is none, or leave that as it is.
BeginUpdate(o, r) ==
  /\ Finds(o, r, "update")
  /\ \/ r \notin reward /\ Goes(o, "idle", "register") /\ UNCHANGED asReward
     \/ Goes(o, "idle", "save") /\ Loads(o, r)
     \/ Goes(o, "idle", "save") /\ UNCHANGED asReward

\* powercardConfigSet, powercardMarkEasyRechargeNotificationSent and
\* powercardResetEasyRechargeNotificationSent change another column.
BeginConfigure(o, r) ==
  Finds(o, r, "configure") /\ Loads(o, r) /\ Goes(o, "idle", "save")

BeginDelete(o, r) ==
  Finds(o, r, "delete") /\ Loads(o, r) /\ Goes(o, "idle", "remove")

BeginStatus(o, r) ==
  /\ Finds(o, r, "enable") \/ Finds(o, r, "disable")
  /\ Loads(o, r) /\ Goes(o, "idle", "mars")

-----------------------------------------------------------------------------
(* The reward card *)

\* rewardsSetCardNumber; a card that is registered already is as good.
RewardsSetCardNumber(o) ==
  /\ \/ Goes(o, "register", "clear") /\ UNCHANGED entityVars
     \/ Finishes(o, "register", "failed")
  /\ UNCHANGED <<tableVars, active, histories>>

\* Another operation is about to save another card as the reward card.
Crosses(o) == \E p \in asReward \cap Holding : row[p] # row[o]

\* Mutant: the statement names the card, not the customer.
MakeThisPowercardNotTheRewardCard(o) ==
  /\ Goes(o, "clear", "save")
  /\ reward' = reward \ {row[o]}
  /\ asReward' = asReward \cup {o}
  /\ crossed' = (crossed \/ Crosses(o))
  /\ UNCHANGED <<db, open, active, kind, row, asOpen, raced, unsettled>>

\* makeAllOtherPowercardsNotTheRewardCardFor: one statement, every card.
MakeAllOtherPowercardsNotTheRewardCard(o) ==
  /\ \/ /\ Goes(o, "clear", "save")
        /\ asReward' = asReward \cup {o}
        /\ reward' = {} /\ crossed' = (crossed \/ Crosses(o))
        /\ UNCHANGED <<kind, row, asOpen>>
     \/ /\ Finishes(o, "clear", "failed")
        /\ UNCHANGED crossed
        /\ reward' \in {reward, {}}
  /\ UNCHANGED <<db, open, active, raced, unsettled>>

-----------------------------------------------------------------------------
(* The status of the card *)

\* Mutant: the status in hand is not changed.
ChangeStatusAtMarsOnly(o) ==
  /\ Goes(o, "mars", "save")
  /\ active' = IF kind[o] = "enable" THEN active \cup {CardOf[row[o]]}
                                    ELSE active \ {CardOf[row[o]]}
  /\ UNCHANGED <<tableVars, entityVars, histories>>

\* cardReActivate and cardDeActivate.  A call that fails may have taken effect.
ChangeStatus(o) ==
  LET c == CardOf[row[o]]
      on == kind[o] = "enable"
      now == IF on THEN active \cup {c} ELSE active \ {c}
  IN  /\ \/ /\ Goes(o, "mars", "save")
            /\ active' = now
            /\ asOpen' = IF on THEN asOpen \cup {o} ELSE asOpen \ {o}
            /\ UNCHANGED <<kind, row, asReward, unsettled>>
         \/ /\ Finishes(o, "mars", "failed")
            /\ active' \in {active, now}
            /\ unsettled' = IF active' = active THEN unsettled ELSE unsettled \cup {c}
      /\ UNCHANGED <<tableVars, crossed, raced>>

-----------------------------------------------------------------------------
(* Saving and removing *)

\* The row is inserted again although the card is there or being added anew.
PutsBack(o) ==
  /\ kind[o] # "create"
  /\ \E q \in Creating \cup db : q # row[o] /\ CardOf[q] = CardOf[row[o]]
  /\ row[o] \notin db

\* The status is written while another operation holds the card with the
\* status it had, or beside another row of the card.
LeavesOther(o) ==
  /\ o \in Settling
  /\ \/ \E p \in Holding \ {o} : CardOf[row[p]] = CardOf[row[o]]
     \/ \E q \in db : q # row[o] /\ CardOf[q] = CardOf[row[o]]

Written(o) ==
  LET r == row[o]
  IN  /\ db' = db \cup {r}
      /\ reward' = IF o \in asReward THEN reward \cup {r} ELSE reward \ {r}
      /\ open' = IF o \in asOpen THEN open \cup {r} ELSE open \ {r}
      /\ raced' = IF PutsBack(o) THEN raced \cup {CardOf[r]} ELSE raced

\* The entity is saved.  The balances an update asks for next may fail it.
Save(o) ==
  /\ \/ /\ Finishes(o, "save", "done") \/ Finishes(o, "save", "failed")
        /\ Written(o)
        /\ unsettled' = IF LeavesOther(o) THEN unsettled \cup {CardOf[row[o]]} ELSE unsettled
     \/ /\ Finishes(o, "save", "failed")
        /\ unsettled' = IF o \in Settling THEN unsettled \cup {CardOf[row[o]]} ELSE unsettled
        /\ UNCHANGED <<tableVars, raced>>
  /\ UNCHANGED <<active, crossed>>

Remove(o) ==
  /\ \/ /\ Finishes(o, "remove", "done") \/ Finishes(o, "remove", "failed")
        /\ db' = db \ {row[o]} /\ reward' = reward \ {row[o]} /\ open' = open \ {row[o]}
     \/ Finishes(o, "remove", "failed") /\ UNCHANGED tableVars
  /\ UNCHANGED <<active, histories>>

\* The process dies.
Crash ==
  /\ \E o \in Op : stage[o] \notin {"idle", "done", "failed"}
  /\ stage' = [o \in Op |-> IF stage[o] \in {"idle", "done"} THEN stage[o] ELSE "failed"]
  /\ asReward' = {} /\ asOpen' = {}
  /\ unsettled' = unsettled \cup {CardOf[row[o]] : o \in Settling}
  /\ UNCHANGED <<tableVars, active, kind, row, crossed, raced>>

-----------------------------------------------------------------------------
Begin(o) ==
  \/ FindByCardNumber(o)
  \/ \E r \in Row :
       BeginUpdate(o, r) \/ BeginConfigure(o, r) \/ BeginDelete(o, r) \/ BeginStatus(o, r)

Operation(o) ==
  \/ Begin(o) \/ Validate(o) \/ RewardsSetCardNumber(o)
  \/ MakeAllOtherPowercardsNotTheRewardCard(o) \/ ChangeStatus(o) \/ Save(o) \/ Remove(o)

WalletNext == Crash \/ \E o \in Op : Operation(o)

WalletSpec == WalletInit /\ [][WalletNext]_walletVars

-----------------------------------------------------------------------------
(***************************************************************************)
(* Clearing every flag and then saving one card keeps the reward card      *)
(* unique, through failures, removals, stale entities and rows that are    *)
(* put back, unless an operation clears the flags while another one holds  *)
(* another card as the reward card: its save flags a second one.           *)
(***************************************************************************)
OneRewardUnlessCrossed == ~crossed => \A q, r \in reward : q = r

(***************************************************************************)
(* A customer has a card once, unless two requests added it at the same    *)
(* time, or the save of an entity put a removed row back after the card    *)
(* was added anew.                                                         *)
(***************************************************************************)
OneRowUnlessRaced ==
  \A q, r \in db : CardOf[q] = CardOf[r] /\ CardOf[q] \notin raced => q = r

(***************************************************************************)
(* A row says OPEN exactly when MARS has the card active, while no enable  *)
(* or disable is about to save, unless one of them failed after MARS had   *)
(* answered, or another operation held the card with its former status.    *)
(***************************************************************************)
StatusUnlessUnsettled ==
  \A r \in db :
    \/ CardOf[r] \in unsettled
    \/ \E o \in Settling : CardOf[row[o]] = CardOf[r]
    \/ r \in open <=> CardOf[r] \in active

-----------------------------------------------------------------------------
(* The inductive invariant *)

\* An operation without an entity has none of its facts, one that adds a card
\* adds its own row, and each await belongs to its operation.
Shape ==
  \A o \in Op :
    /\ stage[o] \in {"idle", "validate"} => o \notin asReward \cup asOpen
    /\ stage[o] = "validate" => kind[o] = "create"
    /\ stage[o] = "register" => kind[o] = "update"
    /\ stage[o] = "clear" => kind[o] \in {"create", "update"}
    /\ stage[o] = "mars" => kind[o] \in {"enable", "disable"}
    /\ kind[o] = "create" => row[o] = o

\* Rows that are flagged, or will be when an entity in hand is saved.
Flagged == reward \cup {row[o] : o \in asReward \cap Holding}

FlaggedOnce == ~crossed => \A q, r \in Flagged : q = r

\* Rows that are in the table, or will be when their operation goes on.
Claimed == db \cup Creating

ClaimedOnce ==
  \A q, r \in Claimed : CardOf[q] = CardOf[r] /\ CardOf[q] \notin raced => q = r

\* The rows and the entities of a settled card have the status it has at
\* MARS; while it is settling, one of the settling entities has.
StatusKnown ==
  \A c \in Cards \ unsettled :
    IF \E o \in Settling : CardOf[row[o]] = c
    THEN \E o \in Settling : CardOf[row[o]] = c /\ (o \in asOpen <=> c \in active)
    ELSE /\ \A r \in db : CardOf[r] = c => (r \in open <=> c \in active)
         /\ \A o \in Holding : CardOf[row[o]] = c => (o \in asOpen <=> c \in active)

WalletIInv == WalletTypeOK /\ Shape /\ FlaggedOnce /\ ClaimedOnce /\ StatusKnown

=============================================================================
