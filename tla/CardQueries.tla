------------------------------ MODULE CardQueries ------------------------------
(***************************************************************************)
(* PowercardService and MarsService: the queries that show a customer the  *)
(* powercards of a wallet, or one of them, with their balances.            *)
(*                                                                         *)
(* The balances are looked up card by card in Redis and the missing ones   *)
(* in one call of MARS; what was found in Redis comes first in the answer, *)
(* so its order is not the one of the cards.  A wallet query makes two     *)
(* such lookups: the first gives the balances to the cards by position,    *)
(* the second by card number.  A query for one card makes the second only. *)
(*                                                                         *)
(* Balances are their card, the number of the change at MARS they reflect, *)
(* and whether the reward points are with them: Redis keeps those of no    *)
(* card.  Redis is also written by whoever gets the balances of a card in  *)
(* a message.                                                              *)
(***************************************************************************)
EXTENDS Naturals, Sequences, FiniteSets, FiniteSetsExt, Functions

CONSTANTS
  Wallet,    \* the cards of the customer, in the order of their rows
  Reader,    \* who asks for them: devices of the customer, the update of a pass
  NotFound,  \* cards for which MARS answers with a status other than 200
  MayLack,   \* cards an answer of MARS may lack
  Changes    \* bound: the changes of each card's balances at MARS

Card == Range(Wallet)

ASSUME CardQueriesAssumption ==
  /\ Wallet \in Seq(Card) /\ Wallet # <<>> /\ IsInjective(Wallet)
  /\ NotFound \subseteq Card /\ MayLack \subseteq Card
  /\ Changes \in [Card -> Nat]
  /\ \A c \in NotFound : Changes[c] = 0   \* MARS has no balances of them to change

Version == Nat \ {0}
Balances == [card : Card, version : Version, points : BOOLEAN]
Nothing == [version |-> 0]

VARIABLES
  mars,       \* how often the balances of a card have changed at MARS, plus 1
  messages,   \* balances that messages have brought and that are not stored yet
  cache,      \* the balances in Redis; Nothing when the key is absent
  pc,         \* the next await of a query, or what came of the last one
  rows,       \* the cards it asks for
  lookup,     \* the lookup it is in: "position" or "number"
  place,      \* the place in the rows of the card that is next to be read from Redis
  toPull,     \* the cards Redis did not have
  balances,   \* the balances the lookup has collected
  toStore,    \* the places in them of those MARS answered that are still to be stored
  shown,      \* the balances given to each card
  newest,     \* history: the newest balances of each card that were stored
  seen,       \* history: the newest balances of each card a reader was shown
  overtaken,  \* history: cards of which older balances were stored after newer ones
  lacked,     \* history: cards MARS left out of the lookup by number
  gone,       \* history: cards whose key went away while the query ran
  broken      \* history: why the query has no answer

query == <<rows, lookup, place, toPull, balances, toStore, shown, broken>>
redis == <<cache, newest, overtaken>>
history == <<gone, lacked, seen>>
vars == <<mars, messages, redis, pc, query, history>>

Rest == {"idle", "answered", "failed"}

TypeOK ==
  /\ mars \in [Card -> Version]
  /\ messages \subseteq Balances
  /\ cache \in [Card -> Balances \cup {Nothing}]
  /\ pc \in [Reader -> Rest \cup {"read", "pull", "store"}]
  /\ rows \in [Reader -> {Wallet} \cup {<<c>> : c \in Card}]
  /\ lookup \in [Reader -> {"position", "number"}]
  /\ place \in [Reader -> Nat] /\ toPull \in [Reader -> SUBSET Card]
  /\ balances \in [Reader -> Seq(Balances)] /\ toStore \in [Reader -> SUBSET Nat]
  /\ shown \in [Reader -> [Card -> Balances \cup {Nothing}]]
  /\ lacked \in [Reader -> SUBSET Card] /\ gone \in [Reader -> SUBSET Card]
  /\ broken \in [Reader -> {"no", "call", "short"}]
  /\ seen \in [Reader -> [Card -> Nat]] /\ newest \in [Card -> Nat]
  /\ overtaken \subseteq Card

Init ==
  /\ mars = [c \in Card |-> 1] /\ messages = {}
  /\ cache = [c \in Card |-> Nothing]
  /\ pc = [q \in Reader |-> "idle"] /\ rows = [q \in Reader |-> Wallet]
  /\ lookup = [q \in Reader |-> "position"]
  /\ place = [q \in Reader |-> 0] /\ toPull = [q \in Reader |-> {}]
  /\ balances = [q \in Reader |-> <<>>] /\ toStore = [q \in Reader |-> {}]
  /\ shown = [q \in Reader |-> [c \in Card |-> Nothing]]
  /\ seen = [q \in Reader |-> [c \in Card |-> 0]] /\ newest = [c \in Card |-> 0]
  /\ overtaken = {}
  /\ lacked = [q \in Reader |-> {}] /\ gone = [q \in Reader |-> {}]
  /\ broken = [q \in Reader |-> "no"]

-----------------------------------------------------------------------------
(* Redis and MARS *)

\* What becomes of the histories when balances are stored.
Stored(b) ==
  /\ newest' = [newest EXCEPT ![b.card] = Max({@, b.version})]
  /\ overtaken' = IF b.version < newest[b.card] THEN overtaken \cup {b.card} ELSE overtaken

\* Mutant: the merge prefers the attributes that are cached.
StoresAbsent(b) ==
  /\ cache' = [cache EXCEPT ![b.card] = IF @ = Nothing THEN [b EXCEPT !.points = FALSE] ELSE @]
  /\ Stored(b)

\* Mutant: the answer of MARS is cached as it is.
StoresAll(b) == cache' = [cache EXCEPT ![b.card] = b] /\ Stored(b)

\* storePowercardBalancesInCache merges by attribute; what MARS answers has
\* every attribute of the cache, so nothing is left of the former balances.
Stores(b) == cache' = [cache EXCEPT ![b.card] = [b EXCEPT !.points = FALSE]] /\ Stored(b)

\* The balances of a card change, and a message says so.
Change(c) ==
  /\ mars[c] <= Changes[c]
  /\ mars' = [mars EXCEPT ![c] = @ + 1]
  /\ messages' = messages \cup {[card |-> c, version |-> mars[c] + 1, points |-> FALSE]}
  /\ UNCHANGED <<redis, pc, query, history>>

\* The handlers of messages store what they got, in any order.
StoreMessage(b) ==
  /\ b \in messages /\ messages' = messages \ {b}
  /\ Stores(b)
  /\ UNCHANGED <<mars, pc, query, history>>

\* The key expires, or a recharge drops it.
Expire(c) ==
  /\ cache[c] # Nothing
  /\ cache' = [cache EXCEPT ![c] = Nothing]
  /\ gone' = [q \in Reader |-> IF pc[q] \in Rest THEN gone[q] ELSE gone[q] \cup {c}]
  /\ UNCHANGED <<mars, messages, newest, overtaken, pc, query, lacked, seen>>

-----------------------------------------------------------------------------
(* The queries *)

\* A lookup starts at the first card of the rows.
Looks(q, how, cards) ==
  /\ lookup' = [lookup EXCEPT ![q] = how] /\ rows' = [rows EXCEPT ![q] = cards]
  /\ pc' = [pc EXCEPT ![q] = "read"]
  /\ place' = [place EXCEPT ![q] = 1] /\ toPull' = [toPull EXCEPT ![q] = {}]
  /\ balances' = [balances EXCEPT ![q] = <<>>] /\ toStore' = [toStore EXCEPT ![q] = {}]

Asks(q, how, cards) ==
  /\ pc[q] \in Rest
  /\ Looks(q, how, cards)
  /\ shown' = [shown EXCEPT ![q] = [c \in Card |-> Nothing]]
  /\ broken' = [broken EXCEPT ![q] = "no"]
  /\ gone' = [gone EXCEPT ![q] = {}] /\ lacked' = [lacked EXCEPT ![q] = {}]
  /\ UNCHANGED <<mars, messages, redis, seen>>

\* powercards: the rows of the customer, then findByCustomerUuid's lookup.
AskWallet(q) == Asks(q, "position", Wallet)

\* powercard, and queryPowercardsByPowercardNumber: the rows of one card.
AskCard(q, c) == Asks(q, "number", <<c>>)

\* Where a query ends, what it collected is dropped.
Ends(q, how) ==
  /\ pc' = [pc EXCEPT ![q] = how]
  /\ place' = [place EXCEPT ![q] = 0] /\ toPull' = [toPull EXCEPT ![q] = {}]
  /\ balances' = [balances EXCEPT ![q] = <<>>] /\ toStore' = [toStore EXCEPT ![q] = {}]
  /\ UNCHANGED <<rows, lookup>>

\* An error of a call, or of an entry that is not there.
Rejects(q, why) ==
  /\ Ends(q, "failed")
  /\ broken' = [broken EXCEPT ![q] = why]
  /\ shown' = [shown EXCEPT ![q] = [c \in Card |-> Nothing]]
  /\ UNCHANGED seen

\* The balances of the card of a number are the first that have it.
OfNumber(entries, c) ==
  LET own == {i \in DOMAIN entries : entries[i].card = c}
  IN  entries[CHOOSE i \in own : \A j \in own : i <= j]

\* The entry at the place of each card.
ByPosition(q, entries) ==
  [c \in Card |-> IF c \in Range(rows[q])
                  THEN entries[CHOOSE i \in DOMAIN rows[q] : rows[q][i] = c]
                  ELSE shown[q][c]]

\* findByCustomerUuid throws when there are fewer entries than cards; the
\* second lookup follows.
CopyByPosition(q, entries) ==
  IF Len(entries) < Len(rows[q]) THEN Rejects(q, "short")
  ELSE /\ shown' = [shown EXCEPT ![q] = ByPosition(q, entries)]
       /\ Looks(q, "number", rows[q]) /\ UNCHANGED <<broken, seen>>

\* fetchCardBalances: a card without an entry keeps what it has.
CopyByNumber(q, entries) ==
  LET found == {b.card : b \in Range(entries)} \cap Range(rows[q])
  IN  /\ Ends(q, "answered")
      /\ shown' = [shown EXCEPT ![q] =
                    [c \in Card |-> IF c \in found THEN OfNumber(entries, c) ELSE @[c]]]
      /\ seen' = [seen EXCEPT ![q] =
                   [c \in Card |-> IF c \in found
                                   THEN Max({@[c], OfNumber(entries, c).version}) ELSE @[c]]]
      /\ UNCHANGED broken

\* Mutant: the first lookup is the answer.
CollectsOnce(q, entries) ==
  IF lookup[q] = "number" THEN CopyByNumber(q, entries)
  ELSE IF Len(entries) < Len(rows[q]) THEN Rejects(q, "short")
  ELSE /\ Ends(q, "answered")
       /\ shown' = [shown EXCEPT ![q] = ByPosition(q, entries)] /\ UNCHANGED <<broken, seen>>

Collects(q, entries) ==
  IF lookup[q] = "position" THEN CopyByPosition(q, entries) ELSE CopyByNumber(q, entries)

\* getBalancesInCacheForPowercard, for one card after the other.
Read(q) ==
  LET c == rows[q][place[q]]
      hit == cache[c] # Nothing
      entries == IF hit THEN Append(balances[q], cache[c]) ELSE balances[q]
      missing == IF hit THEN toPull[q] ELSE toPull[q] \cup {c}
      last == place[q] = Len(rows[q])
  IN  /\ pc[q] = "read"
      /\ \/ Rejects(q, "call")
         \/ last /\ missing = {} /\ Collects(q, entries)
         \/ /\ ~last \/ missing # {}
            /\ pc' = [pc EXCEPT ![q] = IF last THEN "pull" ELSE "read"]
            /\ place' = [place EXCEPT ![q] = @ + 1]
            /\ toPull' = [toPull EXCEPT ![q] = missing]
            /\ balances' = [balances EXCEPT ![q] = entries]
            /\ UNCHANGED <<rows, lookup, toStore, shown, broken, seen>>
      /\ UNCHANGED <<mars, messages, redis, gone, lacked>>

\* What MARS answers about the cards, in its order.
Answer(order) ==
  [i \in DOMAIN order |-> [card |-> order[i], version |-> mars[order[i]], points |-> TRUE]]

\* Mutant: only the balances of cards MARS knows are added to the answer.
PushesFound(q, order) ==
  balances[q] \o SelectSeq(Answer(order), LAMBDA b : b.card \notin NotFound)

Pushes(q, order) == balances[q] \o Answer(order)

\* CardBalancesMultiple for the cards that are missing, in any order, some
\* perhaps left out; the answer is stored entry by entry.
Pull(q) ==
  /\ pc[q] = "pull"
  /\ \/ Rejects(q, "call") /\ UNCHANGED lacked
     \/ \E left \in SUBSET (MayLack \cap toPull[q]) :
          \E order \in [1..Cardinality(toPull[q] \ left) -> toPull[q] \ left] :
            LET entries == Pushes(q, order)
                storable == {i \in DOMAIN entries :
                              i > Len(balances[q]) /\ entries[i].card \notin NotFound}
            IN  /\ Range(order) = toPull[q] \ left
                /\ lacked' = [lacked EXCEPT ![q] = left]
                /\ IF storable = {}
                   THEN Collects(q, entries)
                   ELSE /\ pc' = [pc EXCEPT ![q] = "store"]
                        /\ toPull' = [toPull EXCEPT ![q] = {}]
                        /\ balances' = [balances EXCEPT ![q] = entries]
                        /\ toStore' = [toStore EXCEPT ![q] = storable]
                        /\ UNCHANGED <<rows, lookup, place, shown, broken, seen>>
  /\ UNCHANGED <<mars, messages, redis, gone>>

Store(q) ==
  /\ pc[q] = "store"
  /\ \E i \in toStore[q] :
       /\ \A j \in toStore[q] : i <= j
       /\ \/ /\ Rejects(q, "call")
             /\ Stores(balances[q][i]) \/ UNCHANGED redis
          \/ /\ Stores(balances[q][i])
             /\ IF toStore[q] = {i}
                THEN Collects(q, balances[q])
                ELSE /\ toStore' = [toStore EXCEPT ![q] = @ \ {i}]
                     /\ UNCHANGED <<pc, rows, lookup, place, toPull, balances, shown, broken, seen>>
  /\ UNCHANGED <<mars, messages, gone, lacked>>

-----------------------------------------------------------------------------
Ask(q) == AskWallet(q) \/ \E c \in Card : AskCard(q, c)

Next ==
  \/ \E c \in Card : Change(c) \/ Expire(c)
  \/ \E b \in messages : StoreMessage(b)
  \/ \E q \in Reader : Ask(q) \/ Read(q) \/ Pull(q) \/ Store(q)

Spec == Init /\ [][Next]_vars

-----------------------------------------------------------------------------
Answered == {q \in Reader : pc[q] = "answered"}

(***************************************************************************)
(* Each card of an answer shows its own balances, whatever the order they  *)
(* were collected in and whatever the first lookup gave it, unless MARS    *)
(* left the card out of the lookup by number.                              *)
(***************************************************************************)
OwnBalancesUnlessLacked ==
  \A q \in Answered : \A c \in Range(rows[q]) \ lacked[q] :
    shown[q][c] # Nothing /\ shown[q][c].card = c

(***************************************************************************)
(* Nobody sees the balances of a card go back to what they were before an  *)
(* earlier answer, through keys that expire and queries that fail, unless  *)
(* a late write put older balances over newer ones.                        *)
(***************************************************************************)
NeverBackUnlessOvertaken ==
  \A q \in Answered : \A c \in Range(rows[q]) \ overtaken :
    (shown[q][c] # Nothing /\ shown[q][c].card = c) => shown[q][c].version >= seen[q][c]

(***************************************************************************)
(* A query has no answer only when a call failed or MARS left a card out:  *)
(* the order of the balances never runs the copy out of them, and a card   *)
(* MARS does not know spoils the wallet no more than the others do.        *)
(***************************************************************************)
FailsOnlyIfShort ==
  \A q \in Reader : broken[q] = "short" => lacked[q] # {}

(***************************************************************************)
(* The first lookup of a wallet query leaves the balances in Redis for the *)
(* second, and Redis keeps no reward points: a card MARS knows shows its   *)
(* points only when its key went away while the query ran.                 *)
(***************************************************************************)
PointsOnlyIfGone ==
  \A q \in Answered : Len(rows[q]) > 1 =>
    \A c \in Range(rows[q]) \ (NotFound \cup gone[q]) :
      shown[q][c].card = c => ~shown[q][c].points

=============================================================================
