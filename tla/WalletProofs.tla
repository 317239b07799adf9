----------------------------- MODULE WalletProofs -----------------------------
(***************************************************************************)
(* Proofs about CardQueries and Wallet: what the queries show for any      *)
(* cards, readers and changes at MARS, and what the operations leave in    *)
(* the rows of a customer for any number of cards and operations.          *)
(***************************************************************************)
EXTENDS CardQueries, Wallet, FiniteSetTheorems, SequenceTheorems, WellFoundedInduction, TLAPS

Busy == {"read", "pull", "store"}

\* Versions come from MARS, and what is stored from messages and its answers.
Sound ==
  /\ \A c \in Card : mars[c] <= Changes[c] + 1 /\ newest[c] <= mars[c]
  /\ \A b \in messages : b.version <= mars[b.card]

\* The balances in Redis are those of their card that were stored last.
Kept ==
  \A c \in Card : cache[c] # Nothing =>
    /\ cache[c].card = c /\ ~cache[c].points /\ cache[c].version <= newest[c]
    /\ c \notin overtaken => cache[c].version = newest[c]

\* What a reader was shown was stored, but for cards MARS does not know.
Seen(q) ==
  \A c \in Card : seen[q][c] <= mars[c] /\ (c \notin NotFound => seen[q][c] <= newest[c])

\* Balances are not older than what their reader was shown.
NotBefore(q, b) == b.version >= seen[q][b.card] \/ b.card \in overtaken

Collected(q) ==
  /\ toStore[q] \subseteq DOMAIN balances[q]
  /\ toStore[q] # {} <=> pc[q] = "store"
  /\ \A i \in DOMAIN balances[q] :
       LET b == balances[q][i]
       IN  /\ b.version <= mars[b.card] /\ NotBefore(q, b)
           /\ i \in toStore[q] \/ b.card \in NotFound \/ b.version <= newest[b.card]

Shown(q) ==
  \A c \in Card : (shown[q][c] # Nothing /\ shown[q][c].card = c) => NotBefore(q, shown[q][c])

\* The cards a lookup has passed are collected, or missing, as many as they are.
Counted(q) ==
  /\ pc[q] = "read" =>
       /\ place[q] \in 1..Len(rows[q])
       /\ toPull[q] \subseteq {rows[q][i] : i \in 1..(place[q] - 1)}
       /\ Len(balances[q]) + Cardinality(toPull[q]) = place[q] - 1
  /\ pc[q] = "pull" =>
       /\ toPull[q] \subseteq Range(rows[q])
       /\ Len(balances[q]) + Cardinality(toPull[q]) = Len(rows[q])
  /\ pc[q] = "store" =>
       /\ toPull[q] = {} /\ lacked[q] \subseteq Range(rows[q])
       /\ Len(balances[q]) + Cardinality(lacked[q]) = Len(rows[q])
  /\ pc[q] \in {"read", "pull"} => lacked[q] = {}

\* The cards still to be read from Redis.
Ahead(q) == {rows[q][i] : i \in {j \in DOMAIN rows[q] : pc[q] = "read" /\ j >= place[q]}}

Found(q) == {balances[q][i].card : i \in DOMAIN balances[q]}

Covered(q) ==
  pc[q] \in Busy =>
    Range(rows[q]) \subseteq Ahead(q) \cup toPull[q] \cup lacked[q] \cup Found(q)

Unstored(q) == {balances[q][i].card : i \in toStore[q]}

\* In the first lookup of a wallet Redis gets what it did not have; the second
\* finds it there.
Warm(q) ==
  \A c \in Range(rows[q]) \ (NotFound \cup gone[q]) :
    (pc[q] \in Busy /\ Len(rows[q]) > 1) =>
      IF lookup[q] = "position"
      THEN cache[c] # Nothing \/ c \in Ahead(q) \cup toPull[q] \cup lacked[q] \cup Unstored(q)
      ELSE /\ cache[c] # Nothing /\ c \notin toPull[q] \cup lacked[q]
           /\ \A i \in DOMAIN balances[q] : balances[q][i].card = c => ~balances[q][i].points

Answers(q) ==
  /\ broken[q] # "no" => pc[q] = "failed"
  /\ broken[q] = "short" => lacked[q] # {}
  /\ pc[q] = "answered" =>
       \A c \in Range(rows[q]) \ lacked[q] : shown[q][c] # Nothing /\ shown[q][c].card = c
  /\ pc[q] = "answered" /\ Len(rows[q]) > 1 =>
       \A c \in Range(rows[q]) \ (NotFound \cup gone[q]) :
         shown[q][c].card = c => ~shown[q][c].points

Query(q) ==
  /\ Seen(q) /\ Collected(q) /\ Shown(q)
  /\ Counted(q) /\ Covered(q) /\ Warm(q) /\ Answers(q)

IInv == TypeOK /\ Sound /\ Kept /\ \A q \in Reader : Query(q)

-----------------------------------------------------------------------------
(* Numbers, sequences and rows *)

\* A set of numbers that is not empty has a least one.
LEMMA Least ==
  ASSUME NEW S, S \subseteq Nat, S # {}
  PROVE  \E i \in S : \A j \in S : i <= j
<1>1. PICK i \in S : \A j \in S : <<j, i>> \notin OpToRel(<, Nat)
  BY NatLessThanWellFounded, WFMin
<1>2. ASSUME NEW j \in S
      PROVE  i <= j
  <2>1. ~(j < i)
    BY <1>1, <1>2 DEF OpToRel
  <2> QED
    BY <2>1
<1> QED
  BY <1>2

\* A card without balances is told from one that has some.
LEMMA NothingIsNoBalances == \A b \in Balances : b # Nothing /\ b.card \in Card
                               /\ b.version \in Nat /\ b.version > 0 /\ b.points \in BOOLEAN
<1>1. \A b \in Balances : b.version \in Nat \ {0} /\ b.card \in Card /\ b.points \in BOOLEAN
  BY DEF Balances, Version
<1>2. \A b \in Balances : b # Nothing
  BY <1>1 DEF Nothing
<1> QED
  BY <1>1, <1>2

\* The greater of two numbers is one of them.
LEMMA MaxOfTwo ==
  ASSUME NEW a \in Nat, NEW b \in Nat
  PROVE  Max({a, b}) \in Nat /\ Max({a, b}) \in {a, b} /\ Max({a, b}) >= a /\ Max({a, b}) >= b
<1>1. \E x \in {a, b} : \A y \in {a, b} : x >= y
  <2>1. CASE a >= b
    BY <2>1
  <2>2. CASE b >= a
    BY <2>2
  <2> QED
    BY <2>1, <2>2
<1>2. Max({a, b}) \in {a, b} /\ \A y \in {a, b} : Max({a, b}) >= y
  BY <1>1 DEF Max
<1> QED
  BY <1>2

\* What a sequence is with one more entry.
LEMMA Appended ==
  ASSUME NEW s \in Seq(Balances), NEW b \in Balances
  PROVE  /\ Append(s, b) \in Seq(Balances) /\ Len(Append(s, b)) = Len(s) + 1
         /\ Append(s,b)[Len(s)+1] = b
         /\ \A i \in DOMAIN s : Append(s,b)[i] = s[i]
         /\ DOMAIN Append(s, b) = 1..Len(s)+1 /\ DOMAIN s = 1..Len(s) /\ Len(s) \in Nat
OBVIOUS

\* The rows of a query are cards, each of them once.
LEMMA RowsAre ==
  ASSUME NEW cards \in {Wallet} \cup {<<c>> : c \in Card}
  PROVE  /\ cards \in Seq(Card) /\ Len(cards) \in Nat \ {0} /\ DOMAIN cards = 1..Len(cards)
         /\ \A i, j \in DOMAIN cards : cards[i] = cards[j] => i = j
         /\ Range(cards) \subseteq Card
<1>1. ASSUME NEW c \in Card
      PROVE  /\ <<c>> \in Seq(Card) /\ Len(<<c>>) = 1 /\ DOMAIN <<c>> = 1..1
  OBVIOUS
<1>2. /\ Wallet \in Seq(Card) /\ Len(Wallet) \in Nat \ {0} /\ DOMAIN Wallet = 1..Len(Wallet)
      /\ \A i, j \in DOMAIN Wallet : Wallet[i] = Wallet[j] => i = j
  BY CardQueriesAssumption DEF IsInjective
<1>3. /\ cards \in Seq(Card) /\ Len(cards) \in Nat \ {0} /\ DOMAIN cards = 1..Len(cards)
      /\ \A i, j \in DOMAIN cards : cards[i] = cards[j] => i = j
  <2>1. CASE cards = Wallet
    BY <1>2, <2>1
  <2>2. ASSUME NEW c \in Card, cards = <<c>>
        PROVE  /\ cards \in Seq(Card) /\ Len(cards) \in Nat \ {0} /\ DOMAIN cards = 1..Len(cards)
               /\ \A i, j \in DOMAIN cards : cards[i] = cards[j] => i = j
    <3>1. \A i, j \in 1..1 : i = j
      OBVIOUS
    <3> QED
      BY <1>1, <2>2, <3>1
  <2> QED
    BY <2>1, <2>2
<1> QED
  BY <1>3 DEF Range

\* A lookup by number finds an entry of that number, if there is one.
LEMMA FirstOfNumber ==
  ASSUME NEW entries \in Seq(Balances), NEW c, NEW k \in DOMAIN entries, entries[k].card = c
  PROVE  \E i \in DOMAIN entries : OfNumber(entries, c) = entries[i] /\ entries[i].card = c
<1> DEFINE own == {i \in DOMAIN entries : entries[i].card = c}
<1>1. own \subseteq Nat /\ own # {}
  OBVIOUS
<1>2. \E i \in own : \A j \in own : i <= j
  <2> HIDE DEF own
  <2> QED
    BY <1>1, Least
<1> DEFINE i == CHOOSE i \in own : \A j \in own : i <= j
<1>3. i \in own
  BY <1>2
<1>4. OfNumber(entries, c) = entries[i]
  BY DEF OfNumber
<1> QED
  BY <1>3, <1>4

\* By position a card gets what it had or the entry of some place.
LEMMA AtPosition ==
  ASSUME TypeOK, NEW q \in Reader, NEW entries \in Seq(Balances), Len(entries) >= Len(rows[q]),
         NEW c \in Card
  PROVE  /\ ByPosition(q, entries) \in [Card -> Balances \cup {Nothing}]
         /\ \/ ByPosition(q, entries)[c] = shown[q][c]
            \/ \E i \in DOMAIN entries : ByPosition(q, entries)[c] = entries[i]
<1>1. ASSUME NEW d \in Range(rows[q])
      PROVE  (CHOOSE i \in DOMAIN rows[q] : rows[q][i] = d) \in DOMAIN entries
  <2>1. \E i \in DOMAIN rows[q] : rows[q][i] = d
    BY <1>1 DEF Range
  <2>2. (CHOOSE i \in DOMAIN rows[q] : rows[q][i] = d) \in DOMAIN rows[q]
    BY <2>1
  <2>3. DOMAIN rows[q] \subseteq DOMAIN entries
    BY RowsAre DEF TypeOK
  <2> QED
    BY <2>2, <2>3
<1>2. \A i \in DOMAIN entries : entries[i] \in Balances
  OBVIOUS
<1>3. shown[q] \in [Card -> Balances \cup {Nothing}]
  BY DEF TypeOK
<1> QED
  BY <1>1, <1>2, <1>3 DEF ByPosition

-----------------------------------------------------------------------------
(* Storing *)

\* What a write to Redis leaves: the newest stored never goes back, and neither
\* does what is in Redis but for cards that were overtaken.
LEMMA StoresEffect ==
  ASSUME TypeOK, Sound, Kept, NEW b \in Balances, b.version <= mars[b.card], Stores(b), mars' = mars
  PROVE  /\ cache' \in [Card -> Balances \cup {Nothing}] /\ newest' \in [Card -> Nat]
         /\ overtaken \subseteq overtaken' /\ overtaken' \subseteq Card
         /\ \A c \in Card : newest[c] <= newest'[c] /\ newest'[c] <= mars[c]
         /\ \A c \in Card : cache[c] # Nothing => cache'[c] # Nothing
         /\ cache'[b.card] # Nothing /\ b.version <= newest'[b.card]
         /\ Kept'
<1> DEFINE e == [b EXCEPT !.points = FALSE]
<1>1. b.card \in Card /\ b.version \in Nat /\ e \in Balances /\ e # Nothing
      /\ e.card = b.card /\ e.version = b.version /\ ~e.points
  <2>1. e \in Balances /\ e.card = b.card /\ e.version = b.version /\ ~e.points
    BY DEF Balances
  <2> QED
    BY <2>1, NothingIsNoBalances
<1> HIDE DEF e
<1>2. /\ cache' = [cache EXCEPT ![b.card] = e]
      /\ newest' = [newest EXCEPT ![b.card] = Max({newest[b.card], b.version})]
      /\ overtaken' = IF b.version < newest[b.card] THEN overtaken \cup {b.card} ELSE overtaken
  BY DEF Stores, Stored, e
<1>3. newest[b.card] \in Nat /\ newest[b.card] <= mars[b.card] /\ mars[b.card] \in Nat
  BY <1>1 DEF TypeOK, Sound, Version
<1> DEFINE n == Max({newest[b.card], b.version})
<1>4. n \in Nat /\ n >= newest[b.card] /\ n >= b.version /\ n <= mars[b.card]
      /\ (b.version >= newest[b.card] => n = b.version)
  BY <1>1, <1>3, MaxOfTwo
<1> HIDE DEF n
<1>5. cache' \in [Card -> Balances \cup {Nothing}] /\ newest' \in [Card -> Nat]
        /\ overtaken' \subseteq Card
  BY <1>1, <1>2, <1>4 DEF TypeOK, n
<1>6. /\ cache'[b.card] = e /\ newest'[b.card] = n
      /\ \A c \in Card : c # b.card => cache'[c] = cache[c] /\ newest'[c] = newest[c]
  BY <1>1, <1>2 DEF TypeOK, n
<1>7. \A c \in Card : newest[c] \in Nat /\ newest[c] <= mars[c] /\ newest[c] <= newest[c]
  BY DEF TypeOK, Sound
<1>8. Kept'
  <2>1. ASSUME NEW c \in Card, cache'[c] # Nothing
        PROVE  /\ cache'[c].card = c /\ ~cache'[c].points /\ cache'[c].version <= newest'[c]
               /\ c \notin overtaken' => cache'[c].version = newest'[c]
    <3>1. CASE c = b.card
      BY <1>1, <1>2, <1>3, <1>4, <1>6, <3>1
    <3>2. CASE c # b.card
      BY <1>2, <1>6, <2>1, <3>2 DEF Kept
    <3> QED
      BY <3>1, <3>2
  <2> QED
    BY <2>1 DEF Kept
<1> QED
  BY <1>1, <1>2, <1>4, <1>5, <1>6, <1>7, <1>8

-----------------------------------------------------------------------------
(* What a query keeps while others act *)

\* Time passes at MARS and in Redis, for a reader: a key that goes away while
\* the query runs is noted.
Later(r) ==
  /\ mars' \in [Card -> Version] /\ newest' \in [Card -> Nat]
  /\ cache' \in [Card -> Balances \cup {Nothing}]
  /\ overtaken \subseteq overtaken'
  /\ \A c \in Card : mars[c] <= mars'[c] /\ newest[c] <= newest'[c]
  /\ gone[r] \subseteq gone'[r]
  /\ \A c \in Card : cache[c] # Nothing => cache'[c] # Nothing \/ pc[r] \in Rest \/ c \in gone'[r]

\* The query of a reader does not move.
Still(r) ==
  /\ pc'[r] = pc[r] /\ rows'[r] = rows[r] /\ lookup'[r] = lookup[r] /\ place'[r] = place[r]
  /\ toPull'[r] = toPull[r] /\ balances'[r] = balances[r] /\ toStore'[r] = toStore[r]
  /\ shown'[r] = shown[r] /\ broken'[r] = broken[r] /\ lacked'[r] = lacked[r] /\ seen'[r] = seen[r]

\* What a reader was shown stays stored as time passes.
LEMMA LaterSeen ==
  ASSUME TypeOK, NEW r \in Reader, Later(r), seen'[r] = seen[r], Seen(r)
  PROVE  Seen(r)'
<1>1. ASSUME NEW c \in Card
      PROVE  seen[r][c] <= mars'[c] /\ (c \notin NotFound => seen[r][c] <= newest'[c])
  BY DEF TypeOK, Later, Seen, Version
<1> QED
  BY <1>1 DEF Seen

\* Balances that were not too old for a reader are not later, either.
LEMMA LaterNotBefore ==
  ASSUME TypeOK, NEW r \in Reader, Later(r), seen'[r] = seen[r], NEW b, NotBefore(r, b)
  PROVE  b.version >= seen'[r][b.card] \/ b.card \in overtaken'
BY DEF NotBefore, Later

\* A query that does not move keeps its part of the invariant as time passes.
LEMMA StillKeeps ==
  ASSUME TypeOK, NEW r \in Reader, Query(r), Still(r), Later(r)
  PROVE  Query(r)'
<1> USE DEF Query
<1>1. Seen(r)'
  BY LaterSeen DEF Still
<1>2. Collected(r)'
  <2>1. ASSUME NEW i \in DOMAIN balances[r]
        PROVE  LET b == balances[r][i]
               IN  /\ b.version <= mars'[b.card]
                   /\ b.version >= seen'[r][b.card] \/ b.card \in overtaken'
                   /\ i \in toStore[r] \/ b.card \in NotFound \/ b.version <= newest'[b.card]
    <3> DEFINE b == balances[r][i]
    <3>1. b \in Balances
      BY <2>1 DEF TypeOK
    <3>2. /\ b.card \in Card /\ b.version \in Nat
          /\ mars[b.card] \in Nat /\ mars'[b.card] \in Nat /\ newest[b.card] \in Nat
               /\ newest'[b.card] \in Nat
          /\ mars[b.card] <= mars'[b.card] /\ newest[b.card] <= newest'[b.card]
      BY <3>1, NothingIsNoBalances DEF TypeOK, Later, Version
    <3>3. /\ b.version <= mars[b.card] /\ NotBefore(r, b)
          /\ i \in toStore[r] \/ b.card \in NotFound \/ b.version <= newest[b.card]
      BY DEF Collected
    <3>4. b.version >= seen'[r][b.card] \/ b.card \in overtaken'
      BY <3>3, LaterNotBefore DEF Still
    <3> HIDE DEF b
    <3>5. b.version <= mars'[b.card] /\ (b.version <= newest[b.card] => b.version <= newest'[b.card])
      BY <3>2, <3>3
    <3> QED
      BY <3>3, <3>4, <3>5 DEF b
  <2>2. toStore[r] \subseteq DOMAIN balances[r] /\ (toStore[r] # {} <=> pc[r] = "store")
    BY DEF Collected
  <2> QED
    BY <2>1, <2>2 DEF Collected, NotBefore, Still
<1>3. Shown(r)'
  <2>1. ASSUME NEW c \in Card, shown[r][c] # Nothing, shown[r][c].card = c
        PROVE  shown[r][c].version >= seen'[r][shown[r][c].card] \/ shown[r][c].card \in overtaken'
    BY <2>1, LaterNotBefore DEF Shown, Still
  <2> QED
    BY <2>1 DEF Shown, NotBefore, Still
<1>4. Counted(r)' /\ Covered(r)'
  BY DEF Counted, Covered, Ahead, Found, Still
<1>5. Warm(r)'
  <2>1. ASSUME NEW c \in Range(rows[r]) \ (NotFound \cup gone'[r]), pc[r] \in Busy, Len(rows[r]) > 1
        PROVE  IF lookup[r] = "position"
               THEN cache'[c] # Nothing \/ c \in Ahead(r) \cup toPull[r] \cup lacked[r] \cup Unstored(r)
               ELSE /\ cache'[c] # Nothing /\ c \notin toPull[r] \cup lacked[r]
                    /\ \A i \in DOMAIN balances[r] : balances[r][i].card = c => ~balances[r][i].points
    <3>1. c \in Range(rows[r]) \ (NotFound \cup gone[r]) /\ c \in Card
      BY <2>1, RowsAre DEF Later, TypeOK
    <3>2. cache[c] # Nothing => cache'[c] # Nothing
      BY <2>1, <3>1 DEF Later, Rest, Busy
    <3> QED
      BY <2>1, <3>1, <3>2 DEF Warm
  <2>2. Ahead(r)' = Ahead(r) /\ Unstored(r)' = Unstored(r)
    BY DEF Ahead, Unstored, Still
  <2> QED
    BY <2>1, <2>2 DEF Warm, Still
<1>6. Answers(r)'
  BY DEF Answers, Still, Later
<1> QED
  BY <1>1, <1>2, <1>3, <1>4, <1>5, <1>6

-----------------------------------------------------------------------------
(* How a lookup ends *)

SharedOK ==
  /\ mars \in [Card -> Version] /\ messages \subseteq Balances
  /\ cache \in [Card -> Balances \cup {Nothing}]
  /\ newest \in [Card -> Nat] /\ overtaken \subseteq Card
  /\ lacked \in [Reader -> SUBSET Card] /\ gone \in [Reader -> SUBSET Card]

LocalsOK ==
  /\ pc \in [Reader -> Rest \cup {"read", "pull", "store"}]
  /\ rows \in [Reader -> {Wallet} \cup {<<c>> : c \in Card}]
  /\ lookup \in [Reader -> {"position", "number"}]
  /\ place \in [Reader -> Nat] /\ toPull \in [Reader -> SUBSET Card]
  /\ balances \in [Reader -> Seq(Balances)] /\ toStore \in [Reader -> SUBSET Nat]
  /\ shown \in [Reader -> [Card -> Balances \cup {Nothing}]]
  /\ broken \in [Reader -> {"no", "call", "short"}]
  /\ seen \in [Reader -> [Card -> Nat]]

\* The other readers' queries do not move.
Others(q) ==
  \A r \in Reader \ {q} :
    /\ pc'[r] = pc[r] /\ rows'[r] = rows[r] /\ lookup'[r] = lookup[r] /\ place'[r] = place[r]
    /\ toPull'[r] = toPull[r] /\ balances'[r] = balances[r] /\ toStore'[r] = toStore[r]
    /\ shown'[r] = shown[r] /\ broken'[r] = broken[r] /\ seen'[r] = seen[r]

\* A query that runs no more.
Over(q, how) ==
  /\ pc[q] = how /\ toPull[q] = {} /\ balances[q] = <<>> /\ toStore[q] = {}

\* What a query that ends leaves.
LEMMA EndsEffect ==
  ASSUME TypeOK, NEW q \in Reader, NEW how \in {"answered", "failed"}, Ends(q, how),
         shown' \in [Reader -> [Card -> Balances \cup {Nothing}]],
         broken' \in [Reader -> {"no", "call", "short"}], seen' \in [Reader -> [Card -> Nat]],
         \A r \in Reader \ {q} : shown'[r] = shown[r] /\ broken'[r] = broken[r] /\ seen'[r] = seen[r]
  PROVE  LocalsOK' /\ Others(q) /\ Over(q, how)' /\ rows' = rows /\ lookup' = lookup
<1>1. /\ pc' \in [Reader -> Rest \cup {"read", "pull", "store"}] /\ pc'[q] = how
      /\ place' \in [Reader -> Nat] /\ toPull' \in [Reader -> SUBSET Card] /\ toPull'[q] = {}
      /\ toStore' \in [Reader -> SUBSET Nat] /\ toStore'[q] = {}
  BY DEF Ends, TypeOK, Rest
<1>2. balances' \in [Reader -> Seq(Balances)] /\ balances'[q] = <<>>
  <2>1. <<>> \in Seq(Balances)
    OBVIOUS
  <2> QED
    BY <2>1 DEF Ends, TypeOK
<1>3. rows' = rows /\ lookup' = lookup
  BY DEF Ends
<1>4. rows' \in [Reader -> {Wallet} \cup {<<c>> : c \in Card}]
        /\ lookup' \in [Reader -> {"position", "number"}]
  BY <1>3 DEF TypeOK
<1>5. Others(q)
  BY DEF Ends, TypeOK, Others
<1> QED
  BY <1>1, <1>2, <1>3, <1>4, <1>5 DEF LocalsOK, Over

\* What a lookup that starts leaves.
LEMMA LooksEffect ==
  ASSUME TypeOK, NEW q \in Reader, NEW how \in {"position", "number"},
         NEW cards \in {Wallet} \cup {<<c>> : c \in Card}, Looks(q, how, cards),
         shown' \in [Reader -> [Card -> Balances \cup {Nothing}]],
         broken' \in [Reader -> {"no", "call", "short"}], seen' \in [Reader -> [Card -> Nat]],
         \A r \in Reader \ {q} : shown'[r] = shown[r] /\ broken'[r] = broken[r] /\ seen'[r] = seen[r]
  PROVE  /\ LocalsOK' /\ Others(q) /\ Over(q, "read")' /\ place'[q] = 1
         /\ rows'[q] = cards /\ lookup'[q] = how
<1>1. /\ pc' \in [Reader -> Rest \cup {"read", "pull", "store"}] /\ pc'[q] = "read"
      /\ place' \in [Reader -> Nat] /\ place'[q] = 1
      /\ toPull' \in [Reader -> SUBSET Card] /\ toPull'[q] = {}
      /\ toStore' \in [Reader -> SUBSET Nat] /\ toStore'[q] = {}
      /\ lookup' \in [Reader -> {"position", "number"}] /\ lookup'[q] = how
  BY DEF Looks, TypeOK, Rest
<1>2. balances' \in [Reader -> Seq(Balances)] /\ balances'[q] = <<>>
  <2>1. <<>> \in Seq(Balances)
    OBVIOUS
  <2> QED
    BY <2>1 DEF Looks, TypeOK
<1>3. rows' \in [Reader -> {Wallet} \cup {<<c>> : c \in Card}] /\ rows'[q] = cards
  BY DEF Looks, TypeOK
<1>4. Others(q)
  BY DEF Looks, TypeOK, Others
<1> QED
  BY <1>1, <1>2, <1>3, <1>4 DEF LocalsOK, Over

\* A lookup that starts has everything before it.
LEMMA StartKeeps ==
  ASSUME TypeOK, TypeOK', NEW q \in Reader, Over(q, "read")', place'[q] = 1,
         lacked'[q] = {}, broken'[q] = "no", Seen(q)', Shown(q)',
         lookup'[q] = "number" /\ Len(rows'[q]) > 1 =>
           \A c \in Range(rows'[q]) \ (NotFound \cup gone'[q]) : cache'[c] # Nothing
  PROVE  Query(q)'
<1>1. Len(rows'[q]) \in Nat \ {0} /\ DOMAIN rows'[q] = 1..Len(rows'[q])
  BY RowsAre DEF TypeOK
<1>2. Collected(q)'
  BY DEF Over, Collected
<1>3. Counted(q)'
  <2>1. Cardinality(toPull'[q]) = 0 /\ Len(balances'[q]) = 0
    <3>1. Cardinality({}) = 0
      BY FS_EmptySet
    <3> QED
      BY <3>1 DEF Over
  <2> QED
    BY <1>1, <2>1 DEF Over, Counted
<1>4. Range(rows'[q]) \subseteq Ahead(q)'
  BY <1>1 DEF Ahead, Over, Range
<1>5. Covered(q)'
  BY <1>4 DEF Covered
<1>6. Warm(q)'
  <2>1. CASE lookup'[q] = "position"
    BY <1>4, <2>1 DEF Warm
  <2>2. CASE lookup'[q] = "number"
    <3>1. toPull'[q] \cup lacked'[q] = {} /\ DOMAIN balances'[q] = {}
      BY DEF Over
    <3> QED
      BY <2>2, <3>1 DEF Warm
  <2> QED
    BY <2>1, <2>2 DEF TypeOK
<1>7. Answers(q)'
  BY DEF Answers, Over
<1> QED
  BY <1>2, <1>3, <1>5, <1>6, <1>7 DEF Query

\* A query that fails shows nothing; it is short only if a card was left out.
LEMMA RejectsKeeps ==
  ASSUME TypeOK, NEW q \in Reader, Query(q), NEW why \in {"call", "short"}, Rejects(q, why),
         why = "short" => lacked'[q] # {}, Later(q)
  PROVE  LocalsOK' /\ Others(q) /\ Query(q)'
<1>1. /\ Ends(q, "failed") /\ seen' = seen
      /\ broken' \in [Reader -> {"no", "call", "short"}] /\ broken'[q] = why
      /\ shown' \in [Reader -> [Card -> Balances \cup {Nothing}]]
      /\ shown'[q] = [c \in Card |-> Nothing]
      /\ \A r \in Reader \ {q} : shown'[r] = shown[r] /\ broken'[r] = broken[r]
  BY DEF Rejects, TypeOK
<1>2. LocalsOK' /\ Others(q) /\ Over(q, "failed")'
  BY <1>1, EndsEffect DEF TypeOK
<1>3. Seen(q)'
  BY <1>1, LaterSeen DEF Query
<1>4. Collected(q)' /\ Counted(q)' /\ Covered(q)' /\ Warm(q)' /\ Answers(q)'
  BY <1>1, <1>2 DEF Over, Collected, Counted, Covered, Warm, Answers, Busy
<1>5. Shown(q)'
  BY <1>1 DEF Shown
<1> QED
  BY <1>2, <1>3, <1>4, <1>5 DEF Query

\* What a lookup has collected when it ends: balances of every card MARS did
\* not leave out, as many as the cards are, that are stored.
Ready(q, entries) ==
  /\ entries \in Seq(Balances)
  /\ \A i \in DOMAIN entries :
       /\ entries[i].version <= mars'[entries[i].card]
       /\ entries[i].version >= seen[q][entries[i].card] \/ entries[i].card \in overtaken'
       /\ entries[i].card \in NotFound \/ entries[i].version <= newest'[entries[i].card]
  /\ lacked'[q] \subseteq Range(rows[q]) /\ Len(entries) + Cardinality(lacked'[q]) = Len(rows[q])
  /\ \A c \in Range(rows[q]) \ lacked'[q] : \E i \in DOMAIN entries : entries[i].card = c
  /\ \A c \in Range(rows[q]) \ (NotFound \cup gone'[q]) :
       Len(rows[q]) > 1 =>
         IF lookup[q] = "position" THEN cache'[c] # Nothing \/ c \in lacked'[q]
         ELSE /\ cache'[c] # Nothing /\ c \notin lacked'[q]
              /\ \A i \in DOMAIN entries : entries[i].card = c => ~entries[i].points

\* Of finitely many cards, as many as are left out are missing.
LEMMA LackCounts ==
  ASSUME TypeOK, NEW q \in Reader, NEW S, S \subseteq Range(rows[q])
  PROVE  IsFiniteSet(S) /\ Cardinality(S) \in Nat /\ (Cardinality(S) = 0 <=> S = {})
<1>1. IsFiniteSet(1..Len(rows[q])) /\ rows[q] \in Surjection(1..Len(rows[q]), Range(rows[q]))
  <2>1. Len(rows[q]) \in Nat /\ rows[q] \in [1..Len(rows[q]) -> Range(rows[q])]
        /\ \A c \in Range(rows[q]) : \E i \in 1..Len(rows[q]) : rows[q][i] = c
    <3>1. rows[q] \in {Wallet} \cup {<<c>> : c \in Card}
      BY DEF TypeOK
    <3>2. rows[q] \in Seq(Card) /\ Len(rows[q]) \in Nat /\ DOMAIN rows[q] = 1..Len(rows[q])
      BY <3>1, RowsAre
    <3>3. Range(rows[q]) = {rows[q][i] : i \in 1..Len(rows[q])}
      BY <3>2 DEF Range
    <3>4. rows[q] = [i \in 1..Len(rows[q]) |-> rows[q][i]]
      BY <3>2
    <3> QED
      BY <3>2, <3>3, <3>4
  <2>2. IsFiniteSet(1..Len(rows[q]))
    <3>1. 1 \in Int /\ Len(rows[q]) \in Int
      BY <2>1
    <3> QED
      BY <3>1, FS_Interval
  <2> QED
    BY <2>1, <2>2 DEF Surjection
<1>2. IsFiniteSet(Range(rows[q]))
  BY <1>1, FS_Surjection
<1> QED
  BY <1>2, FS_Subset, FS_CardinalityType, FS_EmptySet

\* What a lookup has collected makes the answer, or what the second lookup
\* starts from: the proof of the copy by position and of the one by number.
LEMMA CollectsKeeps ==
  ASSUME TypeOK, SharedOK', NEW q \in Reader, Query(q), broken[q] = "no", Later(q), mars' = mars,
         NEW entries, Ready(q, entries), Collects(q, entries)
  PROVE  LocalsOK' /\ Others(q) /\ Query(q)'
<1> USE DEF Query
<1>1. /\ entries \in Seq(Balances) /\ lacked'[q] \subseteq Range(rows[q])
      /\ Len(entries) + Cardinality(lacked'[q]) = Len(rows[q])
  BY DEF Ready
<1>2. /\ Len(entries) \in Nat /\ Len(rows[q]) \in Nat /\ Cardinality(lacked'[q]) \in Nat
      /\ Cardinality(lacked'[q]) = 0 <=> lacked'[q] = {}
  BY <1>1, LackCounts, RowsAre DEF TypeOK
<1>3. Len(entries) < Len(rows[q]) <=> lacked'[q] # {}
  BY <1>1, <1>2
<1>4. CASE lookup[q] = "position" /\ Len(entries) < Len(rows[q])
  BY <1>3, <1>4, RejectsKeeps DEF Collects, CopyByPosition
<1>5. CASE lookup[q] = "position" /\ ~(Len(entries) < Len(rows[q]))
  <2>1. /\ shown' = [shown EXCEPT ![q] = ByPosition(q, entries)]
        /\ Looks(q, "number", rows[q]) /\ UNCHANGED <<broken, seen>>
    BY <1>5 DEF Collects, CopyByPosition
  <2>2. ByPosition(q, entries) \in [Card -> Balances \cup {Nothing}]
    BY <1>1, <1>2, <1>5, AtPosition, CardQueriesAssumption
  <2>3. shown' \in [Reader -> [Card -> Balances \cup {Nothing}]] /\ shown'[q] = ByPosition(q, entries)
        /\ \A r \in Reader \ {q} : shown'[r] = shown[r]
    BY <2>1, <2>2 DEF TypeOK
  <2>4. /\ LocalsOK' /\ Others(q) /\ Over(q, "read")' /\ place'[q] = 1
        /\ rows'[q] = rows[q] /\ lookup'[q] = "number"
    BY <2>1, <2>3, LooksEffect DEF TypeOK
  <2>5. Seen(q)'
    BY <2>1, LaterSeen
  <2>6. Shown(q)'
    <3>1. ASSUME NEW c \in Card, shown'[q][c] # Nothing, shown'[q][c].card = c
          PROVE  shown'[q][c].version >= seen[q][c] \/ c \in overtaken'
      <4>1. CASE shown'[q][c] = shown[q][c]
        BY <3>1, <4>1, LaterNotBefore, <2>1 DEF Shown
      <4>2. ASSUME NEW i \in DOMAIN entries, shown'[q][c] = entries[i]
            PROVE  shown'[q][c].version >= seen[q][c] \/ c \in overtaken'
        BY <3>1, <4>2 DEF Ready
      <4> QED
        BY <1>1, <1>2, <1>5, <2>3, <4>1, <4>2, AtPosition
    <3> QED
      BY <2>1, <3>1 DEF Shown, NotBefore
  <2>7. \A c \in Range(rows'[q]) \ (NotFound \cup gone'[q]) : Len(rows'[q]) > 1 => cache'[c] # Nothing
    BY <1>3, <1>5, <2>4 DEF Ready
  <2>8. TypeOK'
    BY <2>4 DEF TypeOK, LocalsOK, SharedOK
  <2>9. lacked'[q] = {} /\ broken'[q] = "no"
    BY <1>3, <1>5, <2>1
  <2> QED
    BY <2>4, <2>5, <2>6, <2>7, <2>8, <2>9, StartKeeps
<1>6. CASE lookup[q] = "number"
  <2> DEFINE found == {b.card : b \in Range(entries)} \cap Range(rows[q])
  <2>1. /\ Ends(q, "answered") /\ broken' = broken
        /\ shown' = [shown EXCEPT ![q] =
                       [c \in Card |-> IF c \in found THEN OfNumber(entries, c) ELSE shown[q][c]]]
        /\ seen' = [seen EXCEPT ![q] =
                      [c \in Card |-> IF c \in found
                                      THEN Max({seen[q][c], OfNumber(entries, c).version}) ELSE seen[q][c]]]
    BY <1>6 DEF Collects, CopyByNumber, TypeOK
  <2>2. \A c \in found : \E i \in DOMAIN entries : OfNumber(entries, c) = entries[i]
          /\ entries[i].card = c
    BY <1>1, FirstOfNumber DEF Range
  <2>3. \A c \in Range(rows[q]) \ lacked'[q] : c \in found
    BY DEF Ready, Range
  <2> HIDE DEF found
  <2>4. ASSUME NEW c \in Card
        PROVE  seen[q][c] \in Nat /\ mars[c] \in Nat /\ newest'[c] \in Nat /\ newest[c] \in Nat
                 /\ newest[c] <= newest'[c]
    BY DEF TypeOK, Later, Version
  <2>5. ASSUME NEW c \in Card, c \in found
        PROVE  LET b == OfNumber(entries, c)
               IN  /\ b \in Balances /\ b # Nothing /\ b.card = c /\ b.version \in Nat
                        /\ b.version <= mars[c]
                   /\ b.version >= seen[q][c] \/ c \in overtaken'
                   /\ c \in NotFound \/ b.version <= newest'[c]
    <3>1. PICK i \in DOMAIN entries : OfNumber(entries, c) = entries[i] /\ entries[i].card = c
      BY <2>2, <2>5
    <3>2. entries[i] \in Balances
      BY <1>1
    <3> QED
      BY <3>1, <3>2, NothingIsNoBalances DEF Ready
  <2>6. ASSUME NEW c \in Card, c \in found
        PROVE  LET n == Max({seen[q][c], OfNumber(entries, c).version})
               IN  /\ n \in Nat /\ n <= mars[c]
                   /\ OfNumber(entries, c).version >= n \/ c \in overtaken'
                   /\ c \in NotFound \/ n <= newest'[c]
    <3> DEFINE v == OfNumber(entries, c).version
               n == Max({seen[q][c], v})
    <3>1. v \in Nat /\ v <= mars[c] /\ (v >= seen[q][c] \/ c \in overtaken')
            /\ (c \in NotFound \/ v <= newest'[c])
      BY <2>5, <2>6
    <3>2. seen[q][c] <= mars[c] /\ (c \notin NotFound => seen[q][c] <= newest[c])
      BY DEF Seen
    <3> HIDE DEF v
    <3>3. n \in Nat /\ n \in {seen[q][c], v} /\ n >= seen[q][c] /\ n >= v
      BY <2>4, <3>1, MaxOfTwo
    <3> HIDE DEF n
    <3>4. n \in Nat /\ n <= mars[c] /\ (v >= n \/ c \in overtaken')
            /\ (c \in NotFound \/ n <= newest'[c])
      BY <2>4, <3>1, <3>2, <3>3
    <3> QED
      BY <3>4 DEF n, v
  <2>7. /\ shown' \in [Reader -> [Card -> Balances \cup {Nothing}]]
        /\ \A r \in Reader \ {q} : shown'[r] = shown[r]
        /\ \A c \in Card : shown'[q][c] = IF c \in found THEN OfNumber(entries, c) ELSE shown[q][c]
    BY <2>1, <2>5 DEF TypeOK
  <2>8. /\ seen' \in [Reader -> [Card -> Nat]]
        /\ \A r \in Reader \ {q} : seen'[r] = seen[r]
        /\ \A c \in Card : seen'[q][c] =
             IF c \in found THEN Max({seen[q][c], OfNumber(entries, c).version}) ELSE seen[q][c]
    BY <2>1, <2>6 DEF TypeOK
  <2>9. LocalsOK' /\ Others(q) /\ Over(q, "answered")' /\ rows' = rows
    BY <2>1, <2>7, <2>8, EndsEffect DEF TypeOK
  <2>10. Seen(q)'
    <3>1. ASSUME NEW c \in Card
          PROVE  seen'[q][c] <= mars'[c] /\ (c \notin NotFound => seen'[q][c] <= newest'[c])
      <4>1. seen[q][c] <= mars[c] /\ (c \notin NotFound => seen[q][c] <= newest[c])
        BY DEF Seen
      <4>2. CASE c \in found
        BY <2>6, <2>8, <4>2
      <4>3. CASE c \notin found
        <5>1. seen'[q][c] = seen[q][c]
          BY <2>8, <4>3
        <5> QED
          BY <2>4, <4>1, <5>1
      <4> QED
        BY <4>2, <4>3
    <3> QED
      BY <3>1 DEF Seen
  <2>11. Shown(q)'
    <3>1. ASSUME NEW c \in Card, shown'[q][c] # Nothing, shown'[q][c].card = c
          PROVE  shown'[q][c].version >= seen'[q][c] \/ c \in overtaken'
      <4>1. CASE c \in found
        BY <2>6, <2>7, <2>8, <4>1
      <4>2. CASE c \notin found
        <5>1. seen'[q][c] = seen[q][c] /\ shown'[q][c] = shown[q][c]
          BY <2>7, <2>8, <4>2
        <5>2. shown[q][c].version >= seen[q][c] \/ c \in overtaken
          BY <3>1, <5>1 DEF Shown, NotBefore
        <5> QED
          BY <5>1, <5>2 DEF Later
      <4> QED
        BY <4>1, <4>2
    <3> QED
      BY <3>1 DEF Shown, NotBefore
  <2>12. Collected(q)' /\ Counted(q)' /\ Covered(q)' /\ Warm(q)'
    BY <2>9 DEF Over, Collected, Counted, Covered, Warm, Busy
  <2>13. Answers(q)'
    <3>1. Range(rows[q]) \subseteq Card
      BY RowsAre DEF TypeOK
    <3>2. \A c \in Range(rows[q]) \ lacked'[q] : shown'[q][c] # Nothing /\ shown'[q][c].card = c
      BY <2>3, <2>5, <2>7, <3>1
    <3>3. ASSUME NEW c \in Range(rows[q]) \ (NotFound \cup gone'[q]), Len(rows[q]) > 1
          PROVE  ~shown'[q][c].points
      <4>1. c \in found /\ \A i \in DOMAIN entries : entries[i].card = c => ~entries[i].points
        BY <1>6, <2>3, <3>3 DEF Ready
      <4> QED
        BY <2>2, <2>7, <3>1, <4>1
    <3> QED
      BY <2>1, <2>9, <3>2, <3>3 DEF Answers, Over
  <2> QED
    BY <2>9, <2>10, <2>11, <2>12, <2>13
<1> QED
  BY <1>4, <1>5, <1>6 DEF TypeOK

-----------------------------------------------------------------------------
(* The steps of a query *)

\* Where neither MARS nor Redis changes no time passes.
LEMMA NoTimePasses ==
  ASSUME TypeOK, NEW r \in Reader, UNCHANGED <<mars, redis, gone>>
  PROVE  Later(r)
<1>1. \A c \in Card : mars[c] \in Nat /\ newest[c] \in Nat
  BY DEF TypeOK, Version
<1>2. \A c \in Card : mars[c] <= mars[c] /\ newest[c] <= newest[c]
  BY <1>1
<1> QED
  BY <1>2 DEF Later, redis, TypeOK

\* A step of one reader keeps the invariant if it keeps the part of that reader
\* and moves no other.
LEMMA StepKeeps ==
  ASSUME IInv, NEW q \in Reader, LocalsOK', SharedOK', Others(q), Query(q)', Sound', Kept',
         \A r \in Reader : Later(r), \A r \in Reader \ {q} : lacked'[r] = lacked[r]
  PROVE  IInv'
<1>1. TypeOK'
  BY DEF TypeOK, LocalsOK, SharedOK
<1>2. ASSUME NEW r \in Reader \ {q}
      PROVE  Query(r)'
  BY StillKeeps DEF IInv, Still, Others
<1> QED
  BY <1>1, <1>2 DEF IInv

\* What is in Redis is newer than what any reader was shown, unless it was
\* overtaken.
LEMMA CachedIsGood ==
  ASSUME IInv, NEW q \in Reader, NEW c \in Card, cache[c] # Nothing
  PROVE  /\ cache[c] \in Balances /\ cache[c].card = c /\ ~cache[c].points
         /\ cache[c].version <= mars[c] /\ cache[c].version <= newest[c] /\ NotBefore(q, cache[c])
<1> USE DEF IInv
<1>1. /\ cache[c] \in Balances /\ cache[c].card = c /\ ~cache[c].points /\ cache[c].version <= newest[c]
      /\ c \notin overtaken => cache[c].version = newest[c]
  BY DEF TypeOK, Kept
<1>2. cache[c].version \in Nat /\ cache[c].version > 0
  BY <1>1, NothingIsNoBalances
<1>3. /\ newest[c] \in Nat /\ mars[c] \in Nat /\ seen[q][c] \in Nat
      /\ newest[c] <= mars[c] /\ mars[c] <= Changes[c] + 1
      /\ seen[q][c] <= mars[c] /\ (c \notin NotFound => seen[q][c] <= newest[c])
  BY DEF TypeOK, Sound, Query, Seen, Version
<1>4. c \in NotFound => mars[c] <= 1
  BY <1>3, CardQueriesAssumption
<1>5. c \notin overtaken => cache[c].version >= seen[q][c]
  BY <1>1, <1>2, <1>3, <1>4
<1> QED
  BY <1>1, <1>2, <1>3, <1>5 DEF NotBefore

\* A query for one card, or for the wallet, starts with nothing collected.
LEMMA AskKeeps ==
  ASSUME IInv, NEW q \in Reader, Ask(q)
  PROVE  IInv'
<1> USE DEF IInv
<1>1. PICK how \in {"position", "number"}, cards \in {Wallet} \cup {<<c>> : c \in Card} :
        Asks(q, how, cards) /\ (how = "number" => Len(cards) = 1)
  <2>1. ASSUME NEW c \in Card, AskCard(q, c)
        PROVE  <<c>> \in {Wallet} \cup {<<d>> : d \in Card} /\ Len(<<c>>) = 1
                 /\ Asks(q, "number", <<c>>)
    BY <2>1 DEF AskCard
  <2>2. CASE AskWallet(q)
    BY <2>2 DEF AskWallet
  <2> QED
    BY <2>1, <2>2 DEF Ask
<1>a. cards \in {Wallet} \cup {<<c>> : c \in Card} /\ how \in {"position", "number"}
  OBVIOUS
<1>2. /\ Looks(q, how, cards)
      /\ shown' = [shown EXCEPT ![q] = [c \in Card |-> Nothing]]
      /\ broken' = [broken EXCEPT ![q] = "no"]
      /\ gone' = [gone EXCEPT ![q] = {}] /\ lacked' = [lacked EXCEPT ![q] = {}]
      /\ UNCHANGED <<mars, messages, redis, seen>> /\ pc[q] \in Rest
  BY <1>1 DEF Asks
<1>3. /\ shown' \in [Reader -> [Card -> Balances \cup {Nothing}]]
           /\ shown'[q] = [c \in Card |-> Nothing]
      /\ broken' \in [Reader -> {"no", "call", "short"}] /\ broken'[q] = "no"
      /\ gone' \in [Reader -> SUBSET Card] /\ lacked' \in [Reader -> SUBSET Card] /\ lacked'[q] = {}
      /\ \A r \in Reader \ {q} :
           shown'[r] = shown[r] /\ broken'[r] = broken[r] /\ gone'[r] = gone[r]
             /\ lacked'[r] = lacked[r]
  BY <1>2 DEF TypeOK
<1>4. /\ LocalsOK' /\ Others(q) /\ Over(q, "read")' /\ place'[q] = 1
      /\ rows'[q] = cards /\ lookup'[q] = how
  <2>1. seen' \in [Reader -> [Card -> Nat]] /\ \A r \in Reader \ {q} : seen'[r] = seen[r]
    BY <1>2 DEF TypeOK
  <2>2. TypeOK /\ Looks(q, how, cards)
    BY <1>2
  <2> HIDE DEF IInv
  <2> QED
    BY <1>a, <1>3, <2>1, <2>2, LooksEffect
<1>5. SharedOK'
  BY <1>2, <1>3 DEF TypeOK, SharedOK, redis
<1>6. Sound' /\ Kept' /\ Seen(q)'
  BY <1>2 DEF Sound, Kept, Query, Seen, redis
<1>7. Shown(q)'
  BY <1>3 DEF Shown
<1>8. TypeOK'
  BY <1>4, <1>5 DEF TypeOK, LocalsOK, SharedOK
<1>9. Query(q)'
  <2>1. ~(lookup'[q] = "number" /\ Len(rows'[q]) > 1)
    <3>1. how = "number" => ~(Len(cards) > 1)
      BY <1>1
    <3> QED
      BY <1>4, <3>1
  <2> QED
    BY <1>3, <1>4, <1>6, <1>7, <1>8, <2>1, StartKeeps
<1>11. ASSUME NEW r \in Reader \ {q}
       PROVE  Query(r)'
  <2>1. Still(r)
    BY <1>2, <1>3, <1>4 DEF Still, Others
  <2>2. Later(r)
    <3>1. \A c \in Card : mars[c] \in Nat /\ newest[c] \in Nat
      BY DEF TypeOK, Version
    <3>2. \A c \in Card : mars[c] <= mars[c] /\ newest[c] <= newest[c]
      BY <3>1
    <3> QED
      BY <1>2, <1>3, <3>2 DEF Later, redis, TypeOK
  <2> QED
    BY <2>1, <2>2, StillKeeps
<1> QED
  BY <1>6, <1>8, <1>9, <1>11

\* What a lookup has collected and misses once it has read the card at its place.
Passed(q, entries, missing) ==
  /\ entries \in Seq(Balances) /\ missing \subseteq {rows[q][i] : i \in 1..place[q]}
  /\ IsFiniteSet(missing) /\ Len(entries) + Cardinality(missing) = place[q]
  /\ \A i \in DOMAIN entries :
       LET b == entries[i]
       IN  /\ b.version <= mars[b.card] /\ NotBefore(q, b)
           /\ b.card \in NotFound \/ b.version <= newest[b.card]
  /\ \A d \in Range(rows[q]) :
       \/ \E i \in DOMAIN rows[q] : i > place[q] /\ rows[q][i] = d
       \/ d \in missing \/ \E i \in DOMAIN entries : entries[i].card = d
  /\ \A d \in Range(rows[q]) \ (NotFound \cup gone[q]) :
       Len(rows[q]) > 1 =>
         IF lookup[q] = "position"
         THEN \/ cache[d] # Nothing \/ d \in missing
              \/ \E i \in DOMAIN rows[q] : i > place[q] /\ rows[q][i] = d
         ELSE /\ cache[d] # Nothing /\ d \notin missing
              /\ \A i \in DOMAIN entries : entries[i].card = d => ~entries[i].points

\* The card that is read is collected, or missing.
LEMMA ReadPasses ==
  ASSUME IInv, NEW q \in Reader, pc[q] = "read"
  PROVE  LET c == rows[q][place[q]]
         IN  /\ c \in Card /\ place[q] \in 1..Len(rows[q])
             /\ cache[c] # Nothing => Passed(q, Append(balances[q], cache[c]), toPull[q])
             /\ cache[c] = Nothing => Passed(q, balances[q], toPull[q] \cup {c})
<1> USE DEF IInv
<1> DEFINE c == rows[q][place[q]]
           k == place[q]
<1>1. /\ Len(rows[q]) \in Nat \ {0} /\ DOMAIN rows[q] = 1..Len(rows[q]) /\ Range(rows[q]) \subseteq Card
      /\ \A i, j \in DOMAIN rows[q] : rows[q][i] = rows[q][j] => i = j
      /\ Range(rows[q]) = {rows[q][i] : i \in DOMAIN rows[q]}
  BY RowsAre DEF TypeOK, Range
<1>2. /\ k \in 1..Len(rows[q]) /\ toPull[q] \subseteq {rows[q][i] : i \in 1..(k - 1)}
      /\ Len(balances[q]) + Cardinality(toPull[q]) = k - 1 /\ lacked[q] = {} /\ toStore[q] = {}
  BY DEF Query, Counted, Collected
<1>3. c \in Card /\ c \in Range(rows[q]) /\ k \in DOMAIN rows[q] /\ c \notin toPull[q]
  BY <1>1, <1>2
<1>4. toPull[q] \subseteq Range(rows[q])
  BY <1>1, <1>2
<1>5. IsFiniteSet(toPull[q]) /\ Cardinality(toPull[q]) \in Nat
  BY <1>4, LackCounts
<1>6. /\ balances[q] \in Seq(Balances) /\ Len(balances[q]) \in Nat
           /\ DOMAIN balances[q] = 1..Len(balances[q])
      /\ \A i \in DOMAIN balances[q] :
           LET b == balances[q][i]
           IN  /\ b.version <= mars[b.card] /\ NotBefore(q, b)
               /\ b.card \in NotFound \/ b.version <= newest[b.card]
  BY <1>2 DEF TypeOK, Query, Collected
<1>7. \A d \in Range(rows[q]) :
        \/ d = c \/ (\E i \in DOMAIN rows[q] : i > k /\ rows[q][i] = d)
        \/ d \in toPull[q] \/ \E i \in DOMAIN balances[q] : balances[q][i].card = d
  <2>1. \A d \in Range(rows[q]) : d \in Ahead(q) \cup toPull[q] \cup Found(q)
    BY <1>2 DEF Query, Covered, Busy
  <2>2. \A d \in Ahead(q) : d = c \/ (\E i \in DOMAIN rows[q] : i > k /\ rows[q][i] = d)
    BY <1>1, <1>2 DEF Ahead
  <2> QED
    BY <2>1, <2>2 DEF Found
<1>8. ASSUME NEW d \in Range(rows[q]) \ (NotFound \cup gone[q]), Len(rows[q]) > 1
      PROVE  IF lookup[q] = "position"
             THEN \/ cache[d] # Nothing \/ d \in toPull[q] \/ d = c
                  \/ \E i \in DOMAIN rows[q] : i > k /\ rows[q][i] = d
             ELSE /\ cache[d] # Nothing /\ d \notin toPull[q]
                  /\ \A i \in DOMAIN balances[q] : balances[q][i].card = d => ~balances[q][i].points
  <2>1. IF lookup[q] = "position"
        THEN cache[d] # Nothing \/ d \in Ahead(q) \cup toPull[q] \cup lacked[q] \cup Unstored(q)
        ELSE /\ cache[d] # Nothing /\ d \notin toPull[q] \cup lacked[q]
             /\ \A i \in DOMAIN balances[q] : balances[q][i].card = d => ~balances[q][i].points
    BY <1>8 DEF Query, Warm, Busy
  <2>2. Unstored(q) = {}
    BY <1>2 DEF Unstored
  <2>3. \A x \in Ahead(q) : x = c \/ (\E i \in DOMAIN rows[q] : i > k /\ rows[q][i] = x)
    BY <1>1, <1>2 DEF Ahead
  <2> QED
    BY <1>2, <2>1, <2>2, <2>3
<1>9. CASE cache[c] # Nothing
  <2> DEFINE entries == Append(balances[q], cache[c])
  <2>1. /\ cache[c] \in Balances /\ cache[c].card = c /\ ~cache[c].points
        /\ cache[c].version <= mars[c] /\ cache[c].version <= newest[c] /\ NotBefore(q, cache[c])
    BY <1>3, <1>9, CachedIsGood
  <2>2. /\ entries \in Seq(Balances) /\ Len(entries) = Len(balances[q]) + 1
        /\ entries[Len(balances[q]) + 1] = cache[c] /\ \A i \in DOMAIN balances[q] :
             entries[i] = balances[q][i]
        /\ DOMAIN entries = 1..(Len(balances[q]) + 1)
    BY <1>6, <2>1, Appended
  <2> HIDE DEF entries
  <2>3. \A i \in DOMAIN entries : i \in DOMAIN balances[q]
          \/ (entries[i] = cache[c] /\ i = Len(balances[q]) + 1)
    BY <1>6, <2>2
  <2>4. Len(balances[q]) + 1 \in DOMAIN entries /\ \A i \in DOMAIN balances[q] : i \in DOMAIN entries
    BY <1>6, <2>2
  <2>5. toPull[q] \subseteq {rows[q][i] : i \in 1..k}
    BY <1>1, <1>2
  <2>6. Len(entries) + Cardinality(toPull[q]) = k
    <3>1. \A x, y \in Nat, z \in Int : x + y = z - 1 => (x + 1) + y = z
      OBVIOUS
    <3>2. k \in Int /\ Len(balances[q]) + Cardinality(toPull[q]) = k - 1
      BY <1>2
    <3>3. Len(balances[q]) \in Nat /\ Cardinality(toPull[q]) \in Nat
      BY <1>5, <1>6
    <3> QED
      BY <2>2, <3>1, <3>2, <3>3
  <2>7. \A i \in DOMAIN entries :
          LET b == entries[i]
          IN  /\ b.version <= mars[b.card] /\ NotBefore(q, b)
              /\ b.card \in NotFound \/ b.version <= newest[b.card]
    BY <1>6, <2>1, <2>2, <2>3
  <2>8. \A d \in Range(rows[q]) :
          \/ \E i \in DOMAIN rows[q] : i > k /\ rows[q][i] = d
          \/ d \in toPull[q] \/ \E i \in DOMAIN entries : entries[i].card = d
    BY <1>7, <2>1, <2>2, <2>4
  <2>9. ASSUME NEW d \in Range(rows[q]) \ (NotFound \cup gone[q]), Len(rows[q]) > 1
        PROVE  IF lookup[q] = "position"
               THEN \/ cache[d] # Nothing \/ d \in toPull[q]
                    \/ \E i \in DOMAIN rows[q] : i > k /\ rows[q][i] = d
               ELSE /\ cache[d] # Nothing /\ d \notin toPull[q]
                    /\ \A i \in DOMAIN entries : entries[i].card = d => ~entries[i].points
    BY <1>8, <1>9, <2>1, <2>2, <2>3, <2>9
  <2> QED
    BY <1>2, <1>3, <1>5, <1>9, <2>2, <2>5, <2>6, <2>7, <2>8, <2>9 DEF Passed, entries
<1>10. CASE cache[c] = Nothing
  <2> DEFINE missing == toPull[q] \cup {c}
  <2>1. IsFiniteSet(missing) /\ Cardinality(missing) = Cardinality(toPull[q]) + 1
    BY <1>3, <1>5, FS_AddElement
  <2>2. missing \subseteq {rows[q][i] : i \in 1..k}
    BY <1>1, <1>2
  <2>3. Len(balances[q]) + Cardinality(missing) = k
    <3>1. \A x, y \in Nat, z \in Int : x + y = z - 1 => x + (y + 1) = z
      OBVIOUS
    <3>2. k \in Int /\ Len(balances[q]) + Cardinality(toPull[q]) = k - 1
      BY <1>2
    <3>3. Len(balances[q]) \in Nat /\ Cardinality(toPull[q]) \in Nat
      BY <1>5, <1>6
    <3> QED
      BY <2>1, <3>1, <3>2, <3>3
  <2>4. \A d : d \in missing <=> d \in toPull[q] \/ d = c
    OBVIOUS
  <2> HIDE DEF missing
  <2>5. ASSUME NEW d \in Range(rows[q]) \ (NotFound \cup gone[q]), Len(rows[q]) > 1
        PROVE  IF lookup[q] = "position"
               THEN \/ cache[d] # Nothing \/ d \in missing
                    \/ \E i \in DOMAIN rows[q] : i > k /\ rows[q][i] = d
               ELSE /\ cache[d] # Nothing /\ d \notin missing
                    /\ \A i \in DOMAIN balances[q] : balances[q][i].card = d => ~balances[q][i].points
    BY <1>8, <1>10, <2>4, <2>5
  <2>6. \A d \in Range(rows[q]) :
          \/ \E i \in DOMAIN rows[q] : i > k /\ rows[q][i] = d
          \/ d \in missing \/ \E i \in DOMAIN balances[q] : balances[q][i].card = d
    BY <1>7, <2>4
  <2>7. Passed(q, balances[q], missing)
    BY <1>6, <2>1, <2>2, <2>3, <2>5, <2>6 DEF Passed
  <2> QED
    BY <1>2, <1>3, <1>10, <2>7 DEF missing
<1> QED
  BY <1>9, <1>10

\* A card is read from Redis, and the last one leads on: to MARS if cards are
\* missing, else to the answer.
LEMMA ReadKeeps ==
  ASSUME IInv, NEW q \in Reader, Read(q)
  PROVE  IInv'
<1> USE DEF IInv
<1> DEFINE c == rows[q][place[q]]
           k == place[q]
           entries == IF cache[c] # Nothing THEN Append(balances[q], cache[c]) ELSE balances[q]
           missing == IF cache[c] # Nothing THEN toPull[q] ELSE toPull[q] \cup {c}
           last == k = Len(rows[q])
<1>1. pc[q] = "read" /\ UNCHANGED <<mars, messages, redis, gone, lacked>>
  BY DEF Read
<1>2. c \in Card /\ k \in 1..Len(rows[q]) /\ Passed(q, entries, missing)
  BY <1>1, ReadPasses
<1>3. SharedOK' /\ Sound' /\ Kept'
  BY <1>1 DEF TypeOK, SharedOK, Sound, Kept, redis
<1>4. /\ \A r \in Reader : Later(r)
      /\ \A r \in Reader : lacked'[r] = lacked[r]
  BY <1>1, NoTimePasses
<1>5. Query(q) /\ lacked[q] = {} /\ toStore[q] = {} /\ broken[q] = "no"
  BY <1>1 DEF Query, Counted, Collected, Answers
<1>6. /\ Len(rows[q]) \in Nat /\ DOMAIN rows[q] = 1..Len(rows[q]) /\ Range(rows[q]) \subseteq Card
      /\ Range(rows[q]) = {rows[q][i] : i \in DOMAIN rows[q]}
  BY RowsAre DEF TypeOK, Range
<1>7. \/ Rejects(q, "call")
      \/ last /\ missing = {} /\ Collects(q, entries)
      \/ /\ ~last \/ missing # {}
         /\ pc' = [pc EXCEPT ![q] = IF last THEN "pull" ELSE "read"]
         /\ place' = [place EXCEPT ![q] = k + 1]
         /\ toPull' = [toPull EXCEPT ![q] = missing]
         /\ balances' = [balances EXCEPT ![q] = entries]
         /\ UNCHANGED <<rows, lookup, toStore, shown, broken, seen>>
  BY DEF Read
<1> HIDE DEF entries, missing, c
<1>8. CASE Rejects(q, "call")
  <2>1. LocalsOK' /\ Others(q) /\ Query(q)'
    BY <1>4, <1>5, <1>8, RejectsKeeps
  <2> QED
    BY <1>3, <1>4, <2>1, StepKeeps
<1>9. CASE last /\ missing = {} /\ Collects(q, entries)
  <2>1. Ready(q, entries)
    <3>1. Len(entries) + Cardinality(lacked'[q]) = Len(rows[q])
      BY <1>2, <1>4, <1>5, <1>9 DEF Passed
    <3>2. ~\E i \in DOMAIN rows[q] : i > k
      BY <1>2, <1>6, <1>9
    <3>3. \A d \in Range(rows[q]) \ lacked'[q] : \E i \in DOMAIN entries : entries[i].card = d
      BY <1>2, <1>9, <3>2 DEF Passed
    <3>4. ASSUME NEW d \in Range(rows[q]) \ (NotFound \cup gone'[q]), Len(rows[q]) > 1
          PROVE  IF lookup[q] = "position" THEN cache'[d] # Nothing \/ d \in lacked'[q]
                 ELSE /\ cache'[d] # Nothing /\ d \notin lacked'[q]
                      /\ \A i \in DOMAIN entries : entries[i].card = d => ~entries[i].points
      BY <1>1, <1>2, <1>4, <1>5, <1>9, <3>2, <3>4 DEF Passed, redis
    <3>5. ASSUME NEW i \in DOMAIN entries
          PROVE  /\ entries[i].version <= mars'[entries[i].card]
                 /\ entries[i].version >= seen[q][entries[i].card] \/ entries[i].card \in overtaken'
                 /\ entries[i].card \in NotFound \/ entries[i].version <= newest'[entries[i].card]
      BY <1>1, <1>2 DEF Passed, NotBefore, redis
    <3>6. entries \in Seq(Balances) /\ lacked'[q] \subseteq Range(rows[q])
      BY <1>2, <1>4, <1>5 DEF Passed
    <3> QED
      BY <3>1, <3>3, <3>4, <3>5, <3>6 DEF Ready
  <2>2. LocalsOK' /\ Others(q) /\ Query(q)'
    BY <1>1, <1>3, <1>4, <1>5, <1>9, <2>1, CollectsKeeps
  <2> QED
    BY <1>3, <1>4, <2>2, StepKeeps
<1>10. CASE /\ ~last \/ missing # {}
            /\ pc' = [pc EXCEPT ![q] = IF last THEN "pull" ELSE "read"]
            /\ place' = [place EXCEPT ![q] = k + 1]
            /\ toPull' = [toPull EXCEPT ![q] = missing]
            /\ balances' = [balances EXCEPT ![q] = entries]
            /\ UNCHANGED <<rows, lookup, toStore, shown, broken, seen>>
  <2>1. missing \subseteq Card /\ entries \in Seq(Balances) /\ k + 1 \in Nat
    BY <1>2, <1>6 DEF Passed
  <2>2. /\ LocalsOK' /\ Others(q) /\ pc'[q] = (IF last THEN "pull" ELSE "read") /\ place'[q] = k + 1
        /\ toPull'[q] = missing /\ balances'[q] = entries /\ toStore'[q] = {}
        /\ rows'[q] = rows[q] /\ lookup'[q] = lookup[q] /\ broken'[q] = "no"
        /\ shown'[q] = shown[q] /\ seen'[q] = seen[q]
    BY <1>5, <1>10, <2>1 DEF TypeOK, LocalsOK, Others, Rest
  <2>3. Seen(q)'
    BY <1>4, <1>5, <2>2, LaterSeen DEF Query
  <2>4. Shown(q)'
    BY <1>1, <1>5, <2>2 DEF Query, Shown, NotBefore, redis
  <2>5. Collected(q)'
    BY <1>1, <1>2, <2>2 DEF Passed, Collected, NotBefore, redis
  <2>6. Counted(q)'
    <3>1. missing \subseteq Range(rows[q])
      BY <1>2, <1>6 DEF Passed
    <3>2. CASE last
      BY <1>2, <1>4, <1>5, <2>2, <3>1, <3>2 DEF Passed, Counted
    <3>3. CASE ~last
      <4>1. k + 1 \in 1..Len(rows[q]) /\ (k + 1) - 1 = k
        BY <1>2, <1>6, <3>3
      <4> QED
        BY <1>2, <1>4, <1>5, <2>2, <3>3, <4>1 DEF Passed, Counted
    <3> QED
      BY <3>2, <3>3
  <2>7. \A d : (\E i \in DOMAIN rows[q] : i > k /\ rows[q][i] = d) => d \in Ahead(q)'
    <3>1. ASSUME NEW i \in DOMAIN rows[q], i > k
          PROVE  pc'[q] = "read" /\ i >= k + 1
      BY <1>2, <1>6, <2>2, <3>1
    <3> QED
      BY <2>2, <3>1 DEF Ahead
  <2>8. Covered(q)'
    BY <1>2, <2>2, <2>7 DEF Passed, Covered, Found
  <2>9. Warm(q)'
    <3>1. ASSUME NEW d \in Range(rows[q]) \ (NotFound \cup gone[q]), Len(rows[q]) > 1
          PROVE  IF lookup[q] = "position"
                 THEN cache[d] # Nothing \/ d \in Ahead(q)' \cup missing
                 ELSE /\ cache[d] # Nothing /\ d \notin missing
                      /\ \A i \in DOMAIN entries : entries[i].card = d => ~entries[i].points
      BY <1>2, <2>7, <3>1 DEF Passed
    <3> QED
      BY <1>1, <1>4, <1>5, <2>2, <3>1 DEF Warm, redis
  <2>10. Answers(q)'
    BY <2>2 DEF Answers
  <2>11. Query(q)'
    BY <2>3, <2>4, <2>5, <2>6, <2>8, <2>9, <2>10 DEF Query
  <2> QED
    BY <1>3, <1>4, <2>2, <2>11, StepKeeps
<1> QED
  BY <1>7, <1>8, <1>9, <1>10

\* The answer of MARS is the newest balances, of each card it gives.
LEMMA AnswerIs ==
  ASSUME TypeOK, NEW n \in Nat, NEW S, S \subseteq Card, NEW order \in [1..n -> S]
  PROVE  /\ Answer(order) \in Seq(Balances) /\ Len(Answer(order)) = n
         /\ \A i \in 1..n : /\ Answer(order)[i].card = order[i] /\ Answer(order)[i].version = mars[order[i]]
                            /\ order[i] \in S
<1> DEFINE e(i) == [card |-> order[i], version |-> mars[order[i]], points |-> TRUE]
<1>1. \A i \in 1..n : order[i] \in S /\ e(i) \in Balances
  BY DEF Balances, TypeOK
<1>2. \A i \in 1..n : e(i).card = order[i] /\ e(i).version = mars[order[i]]
  OBVIOUS
<1>3. Answer(order) = [i \in 1..n |-> e(i)]
  BY DEF Answer
<1> HIDE DEF e
<1>4. [i \in 1..n |-> e(i)] \in Seq(Balances) /\ Len([i \in 1..n |-> e(i)]) = n
  BY <1>1
<1> QED
  BY <1>1, <1>2, <1>3, <1>4

\* Two sequences of balances, one after the other.
LEMMA Joined ==
  ASSUME NEW s \in Seq(Balances), NEW t \in Seq(Balances)
  PROVE  /\ s \o t \in Seq(Balances) /\ Len(s) \in Nat /\ Len(t) \in Nat
         /\ Len(s \o t) = Len(s) + Len(t) /\ DOMAIN (s \o t) = 1..(Len(s) + Len(t))
         /\ \A i \in 1..(Len(s) + Len(t)) : (s \o t)[i] = IF i <= Len(s) THEN s[i] ELSE t[i - Len(s)]
<1>1. s \o t \in Seq(Balances) /\ Len(s \o t) = Len(s) + Len(t)
  BY ConcatProperties
<1>2. \A i \in 1..(Len(s) + Len(t)) : (s \o t)[i] = IF i <= Len(s) THEN s[i] ELSE t[i - Len(s)]
  BY ConcatProperties
<1>3. Len(s) \in Nat /\ Len(t) \in Nat
  OBVIOUS
<1> QED
  BY <1>1, <1>2, <1>3

\* The answer of MARS is added: one entry for each card that was asked for and
\* is not left out.
Grown(q, left, entries) ==
  /\ entries \in Seq(Balances) /\ Len(balances[q]) \in Nat /\ DOMAIN balances[q] = 1..Len(balances[q])
  /\ left \subseteq Range(rows[q]) /\ left \subseteq Card
  /\ Len(entries) + Cardinality(left) = Len(rows[q])
  /\ DOMAIN balances[q] \subseteq DOMAIN entries
  /\ \A i \in DOMAIN balances[q] : entries[i] = balances[q][i]
  /\ \A i \in DOMAIN entries \ DOMAIN balances[q] :
       /\ i > Len(balances[q]) /\ entries[i].card \in toPull[q] \ left
       /\ entries[i].version = mars[entries[i].card] /\ NotBefore(q, entries[i])
  /\ \A c \in toPull[q] \ left :
       \E i \in DOMAIN entries \ DOMAIN balances[q] : entries[i].card = c

\* The answer of MARS is put behind what was collected.
LEMMA PushesEffect ==
  ASSUME IInv, NEW q \in Reader, pc[q] = "pull", NEW left, left \subseteq toPull[q],
         NEW order \in [1..Cardinality(toPull[q] \ left) -> toPull[q] \ left],
         Range(order) = toPull[q] \ left
  PROVE  Grown(q, left, Pushes(q, order))
<1> USE DEF IInv
<1> DEFINE n == Cardinality(toPull[q] \ left)
           m == Len(balances[q])
           entries == Pushes(q, order)
<1>1. /\ toPull[q] \subseteq Range(rows[q]) /\ m + Cardinality(toPull[q]) = Len(rows[q])
      /\ toPull[q] \subseteq Card
  BY DEF Query, Counted, TypeOK
<1>2. /\ IsFiniteSet(toPull[q]) /\ Cardinality(toPull[q]) \in Nat
      /\ Cardinality(left) \in Nat /\ n \in Nat
  BY <1>1, LackCounts
<1>3. n = Cardinality(toPull[q]) - Cardinality(left)
  <2>1. toPull[q] \cap left = left
    OBVIOUS
  <2>2. Cardinality(toPull[q] \ left) = Cardinality(toPull[q]) - Cardinality(toPull[q] \cap left)
    BY <1>2, FS_Difference
  <2> QED
    BY <2>1, <2>2
<1>4. balances[q] \in Seq(Balances) /\ m \in Nat /\ DOMAIN balances[q] = 1..m
  BY DEF TypeOK
<1>5. /\ Answer(order) \in Seq(Balances) /\ Len(Answer(order)) = n
      /\ \A i \in 1..n : /\ Answer(order)[i].card = order[i] /\ Answer(order)[i].version = mars[order[i]]
                         /\ order[i] \in toPull[q] \ left
  <2>1. order \in [1..n -> toPull[q] \ left] /\ toPull[q] \ left \subseteq Card
    BY <1>1
  <2> HIDE DEF n
  <2> QED
    BY <1>2, <2>1, AnswerIs
<1> HIDE DEF n
<1>6. /\ entries \in Seq(Balances) /\ Len(entries) = m + n /\ DOMAIN entries = 1..(m + n)
      /\ \A i \in 1..(m + n) : entries[i] = IF i <= m THEN balances[q][i] ELSE Answer(order)[i - m]
  <2>1. balances[q] \in Seq(Balances) /\ Answer(order) \in Seq(Balances) /\ Len(Answer(order)) = n
    BY <1>4, <1>5
  <2>2. entries = balances[q] \o Answer(order)
    BY DEF Pushes
  <2> HIDE DEF entries
  <2> QED
    BY <2>1, <2>2, Joined
<1> HIDE DEF entries
<1>7. Len(entries) + Cardinality(left) = Len(rows[q])
  <2>1. \A x, y, z, w \in Nat : (y = z - w) => (x + y) + w = x + z
    OBVIOUS
  <2>2. Len(entries) = m + n /\ m \in Nat
    BY <1>4, <1>6
  <2>3. m + Cardinality(toPull[q]) = Len(rows[q])
    BY <1>1
  <2> HIDE DEF m
  <2> QED
    BY <1>2, <1>3, <2>1, <2>2, <2>3
<1>8. DOMAIN balances[q] \subseteq DOMAIN entries /\ \A i \in DOMAIN balances[q] :
        entries[i] = balances[q][i]
  BY <1>2, <1>4, <1>6
<1>9. ASSUME NEW i \in DOMAIN entries \ DOMAIN balances[q]
      PROVE  /\ i > m /\ entries[i].card \in toPull[q] \ left
             /\ entries[i].version = mars[entries[i].card] /\ NotBefore(q, entries[i])
  <2>1. i > m /\ i - m \in 1..n /\ entries[i] = Answer(order)[i - m]
    BY <1>2, <1>4, <1>6, <1>9
  <2>2. entries[i].card \in toPull[q] \ left /\ entries[i].version = mars[entries[i].card]
    BY <1>5, <2>1
  <2>3. seen[q][entries[i].card] <= mars[entries[i].card]
        /\ seen[q][entries[i].card] \in Nat /\ mars[entries[i].card] \in Nat
    BY <1>1, <2>2 DEF Query, Seen, TypeOK, Version
  <2> QED
    BY <2>1, <2>2, <2>3 DEF NotBefore
<1>10. ASSUME NEW c \in toPull[q] \ left
       PROVE  \E i \in DOMAIN entries \ DOMAIN balances[q] : entries[i].card = c
  <2>1. PICK j \in 1..n : order[j] = c
    BY DEF Range, n
  <2>2. m + j \in DOMAIN entries \ DOMAIN balances[q] /\ entries[m + j] = Answer(order)[j]
    <3>1. m + j \in 1..(m + n) /\ ~(m + j <= m) /\ (m + j) - m = j
      BY <1>2, <1>4
    <3> QED
      BY <1>4, <1>6, <3>1
  <2> QED
    BY <1>5, <2>1, <2>2
<1>11. left \subseteq Range(rows[q]) /\ left \subseteq Card
  BY <1>1
<1> QED
  BY <1>4, <1>6, <1>7, <1>8, <1>9, <1>10, <1>11 DEF entries, Grown

\* What is missing is asked for at MARS, which may leave cards out in a lookup
\* by number, give them in any order, or fail.
LEMMA PullKeeps ==
  ASSUME IInv, NEW q \in Reader, Pull(q)
  PROVE  IInv'
<1> USE DEF IInv
<1>1. pc[q] = "pull" /\ UNCHANGED <<mars, messages, redis, gone>>
  BY DEF Pull
<1>2. Sound' /\ Kept' /\ \A r \in Reader : Later(r)
  BY <1>1, NoTimePasses DEF Sound, Kept, redis
<1>3. Query(q) /\ lacked[q] = {} /\ toStore[q] = {} /\ broken[q] = "no"
  BY <1>1 DEF Query, Counted, Collected, Answers
<1>4. CASE Rejects(q, "call") /\ UNCHANGED lacked
  <2>1. LocalsOK' /\ Others(q) /\ Query(q)'
    BY <1>2, <1>3, <1>4, RejectsKeeps
  <2>2. SharedOK'
    BY <1>1, <1>4 DEF TypeOK, SharedOK, redis
  <2> QED
    BY <1>2, <1>4, <2>1, <2>2, StepKeeps
<1>5. ASSUME NEW left \in SUBSET (MayLack \cap toPull[q]),
             NEW order \in [1..Cardinality(toPull[q] \ left) -> toPull[q] \ left],
             Range(order) = toPull[q] \ left, lacked' = [lacked EXCEPT ![q] = left],
             LET entries == Pushes(q, order)
                 storable == {i \in DOMAIN entries :
                               i > Len(balances[q]) /\ entries[i].card \notin NotFound}
             IN  IF storable = {}
                 THEN Collects(q, entries)
                 ELSE /\ pc' = [pc EXCEPT ![q] = "store"]
                      /\ toPull' = [toPull EXCEPT ![q] = {}]
                      /\ balances' = [balances EXCEPT ![q] = entries]
                      /\ toStore' = [toStore EXCEPT ![q] = storable]
                      /\ UNCHANGED <<rows, lookup, place, shown, broken, seen>>
      PROVE  IInv'
  <2> DEFINE entries == Pushes(q, order)
             storable == {i \in DOMAIN entries : i > Len(balances[q]) /\ entries[i].card \notin NotFound}
  <2>1. /\ entries \in Seq(Balances) /\ Len(balances[q]) \in Nat
             /\ DOMAIN balances[q] = 1..Len(balances[q])
        /\ left \subseteq Range(rows[q]) /\ left \subseteq Card
        /\ Len(entries) + Cardinality(left) = Len(rows[q])
        /\ DOMAIN balances[q] \subseteq DOMAIN entries
        /\ \A i \in DOMAIN balances[q] : entries[i] = balances[q][i]
        /\ \A i \in DOMAIN entries \ DOMAIN balances[q] :
             /\ i > Len(balances[q]) /\ entries[i].card \in toPull[q] \ left
             /\ entries[i].version = mars[entries[i].card] /\ NotBefore(q, entries[i])
        /\ \A c \in toPull[q] \ left :
             \E i \in DOMAIN entries \ DOMAIN balances[q] : entries[i].card = c
    <3>1. /\ left \subseteq toPull[q] /\ Range(order) = toPull[q] \ left
          /\ order \in [1..Cardinality(toPull[q] \ left) -> toPull[q] \ left]
      BY <1>5
    <3>2. Grown(q, left, Pushes(q, order))
      <4> HIDE DEF IInv
      <4> QED
        BY <1>1, <3>1, PushesEffect
    <3> QED
      BY <3>2 DEF Grown
  <2>2. /\ storable = {} => Collects(q, entries)
        /\ storable # {} =>
             /\ pc' = [pc EXCEPT ![q] = "store"]
             /\ toPull' = [toPull EXCEPT ![q] = {}]
             /\ balances' = [balances EXCEPT ![q] = entries]
             /\ toStore' = [toStore EXCEPT ![q] = storable]
             /\ UNCHANGED <<rows, lookup, place, shown, broken, seen>>
    BY <1>5
  <2>3. storable \subseteq DOMAIN entries
        /\ \A i \in DOMAIN entries \ DOMAIN balances[q] : i \in storable \/ entries[i].card \in NotFound
    BY <2>1
  <2> HIDE DEF entries, storable
  <2>4. SharedOK' /\ lacked'[q] = left /\ \A r \in Reader \ {q} : lacked'[r] = lacked[r]
    <3>1. lacked' \in [Reader -> SUBSET Card]
      BY <1>5, <2>1 DEF TypeOK
    <3> QED
      BY <1>1, <1>5, <3>1 DEF TypeOK, SharedOK, redis
  <2>5. ASSUME NEW i \in DOMAIN entries
        PROVE  /\ entries[i].version <= mars[entries[i].card] /\ NotBefore(q, entries[i])
               /\ i \in storable \/ entries[i].card \in NotFound
                    \/ entries[i].version <= newest[entries[i].card]
    <3>1. CASE i \in DOMAIN balances[q]
      BY <1>3, <2>1, <3>1 DEF Query, Collected
    <3>2. CASE i \notin DOMAIN balances[q]
      <4>1. entries[i] \in Balances
        BY <2>1
      <4>2. entries[i].version \in Nat /\ entries[i].version = mars[entries[i].card]
        BY <2>1, <3>2, <4>1, NothingIsNoBalances
      <4>3. entries[i].version <= mars[entries[i].card]
        BY <4>2
      <4> QED
        BY <2>1, <2>3, <3>2, <4>3
    <3> QED
      BY <3>1, <3>2
  <2>6. \A c \in Range(rows[q]) \ left : \E i \in DOMAIN entries : entries[i].card = c
    <3>1. \A c \in Range(rows[q]) : c \in toPull[q] \cup Found(q)
      BY <1>1, <1>3 DEF Query, Covered, Ahead, Busy
    <3> QED
      BY <2>1, <3>1 DEF Found
  <2>7. ASSUME NEW c \in Range(rows[q]) \ (NotFound \cup gone[q]), Len(rows[q]) > 1
        PROVE  IF lookup[q] = "position"
               THEN cache[c] # Nothing \/ c \in left \/ \E i \in storable : entries[i].card = c
               ELSE /\ cache[c] # Nothing /\ c \notin left
                    /\ \A i \in DOMAIN entries : entries[i].card = c => ~entries[i].points
    <3>1. IF lookup[q] = "position"
          THEN cache[c] # Nothing \/ c \in Ahead(q) \cup toPull[q] \cup lacked[q] \cup Unstored(q)
          ELSE /\ cache[c] # Nothing /\ c \notin toPull[q] \cup lacked[q]
               /\ \A i \in DOMAIN balances[q] : balances[q][i].card = c => ~balances[q][i].points
      BY <1>1, <1>3, <2>7 DEF Query, Warm, Busy
    <3>2. Ahead(q) = {} /\ Unstored(q) = {}
      BY <1>1, <1>3 DEF Ahead, Unstored
    <3>3. CASE lookup[q] = "position"
      <4>1. CASE c \in toPull[q] \ left
        BY <2>1, <2>3, <2>7, <3>3, <4>1
      <4> QED
        BY <1>3, <3>1, <3>2, <3>3, <4>1
    <3>4. CASE lookup[q] # "position"
      BY <2>1, <3>1, <3>4
    <3> QED
      BY <3>3, <3>4
  <2>8. CASE storable = {}
    <3>1. Ready(q, entries)
      <4>1. \A i \in DOMAIN entries :
              /\ entries[i].version <= mars'[entries[i].card]
              /\ entries[i].version >= seen[q][entries[i].card] \/ entries[i].card \in overtaken'
              /\ entries[i].card \in NotFound \/ entries[i].version <= newest'[entries[i].card]
        BY <1>1, <2>5, <2>8 DEF NotBefore, redis
      <4>2. \A c \in Range(rows[q]) \ (NotFound \cup gone'[q]) :
              Len(rows[q]) > 1 =>
                IF lookup[q] = "position" THEN cache'[c] # Nothing \/ c \in lacked'[q]
                ELSE /\ cache'[c] # Nothing /\ c \notin lacked'[q]
                     /\ \A i \in DOMAIN entries : entries[i].card = c => ~entries[i].points
        BY <1>1, <2>4, <2>7, <2>8 DEF redis
      <4> QED
        BY <2>1, <2>4, <2>6, <4>1, <4>2 DEF Ready
    <3>2. LocalsOK' /\ Others(q) /\ Query(q)'
      BY <1>1, <1>2, <1>3, <2>2, <2>4, <2>8, <3>1, CollectsKeeps
    <3> QED
      BY <1>2, <2>4, <3>2, StepKeeps
  <2>9. CASE storable # {}
    <3>1. storable \subseteq Nat
      BY <2>1, <2>3
    <3>2. /\ LocalsOK' /\ Others(q) /\ pc'[q] = "store" /\ toPull'[q] = {}
          /\ balances'[q] = entries /\ toStore'[q] = storable
          /\ rows'[q] = rows[q] /\ lookup'[q] = lookup[q] /\ broken'[q] = "no"
          /\ shown'[q] = shown[q] /\ seen'[q] = seen[q]
      <4>1. /\ pc' = [pc EXCEPT ![q] = "store"]
            /\ toPull' = [toPull EXCEPT ![q] = {}]
            /\ balances' = [balances EXCEPT ![q] = entries]
            /\ toStore' = [toStore EXCEPT ![q] = storable]
            /\ UNCHANGED <<rows, lookup, place, shown, broken, seen>>
        BY <2>2, <2>9
      <4>2. entries \in Seq(Balances)
        BY <2>1
      <4>3. LocalsOK'
        BY <3>1, <4>1, <4>2 DEF TypeOK, LocalsOK, Rest
      <4> QED
        BY <1>3, <4>1, <4>3 DEF TypeOK, Others
    <3>3. Seen(q)'
      BY <1>2, <1>3, <3>2, LaterSeen DEF Query
    <3>4. Shown(q)'
      BY <1>1, <1>3, <3>2 DEF Query, Shown, NotBefore, redis
    <3>5. Collected(q)'
      BY <1>1, <2>3, <2>5, <2>9, <3>2 DEF Collected, NotBefore, redis
    <3>6. Counted(q)' /\ Answers(q)'
      BY <2>1, <2>4, <3>2 DEF Counted, Answers
    <3>7. Covered(q)'
      BY <2>4, <2>6, <3>2 DEF Covered, Found
    <3>8. Warm(q)'
      BY <1>1, <2>4, <2>7, <3>2 DEF Warm, Unstored, redis
    <3>9. Query(q)'
      BY <3>3, <3>4, <3>5, <3>6, <3>7, <3>8 DEF Query
    <3> QED
      BY <1>2, <2>4, <3>2, <3>9, StepKeeps
  <2> QED
    BY <2>8, <2>9
<1> QED
  BY <1>4, <1>5 DEF Pull

\* A handler of messages, or the query that pulled them, stores balances.
LEMMA MessageOrAnswer ==
  ASSUME IInv, NEW b \in Balances, b.version <= mars[b.card], Stores(b),
         UNCHANGED <<mars, gone, lacked>>, messages' \subseteq messages
  PROVE  /\ SharedOK' /\ Sound' /\ Kept' /\ cache'[b.card] # Nothing /\ b.version <= newest'[b.card]
         /\ \A c \in Card : cache[c] # Nothing => cache'[c] # Nothing
         /\ \A r \in Reader : Later(r)
<1> USE DEF IInv
<1>1. /\ cache' \in [Card -> Balances \cup {Nothing}] /\ newest' \in [Card -> Nat]
      /\ overtaken \subseteq overtaken' /\ overtaken' \subseteq Card
      /\ \A c \in Card : newest[c] <= newest'[c] /\ newest'[c] <= mars[c]
      /\ \A c \in Card : cache[c] # Nothing => cache'[c] # Nothing
      /\ cache'[b.card] # Nothing /\ b.version <= newest'[b.card]
      /\ Kept'
  BY StoresEffect
<1>2. SharedOK'
  BY <1>1 DEF TypeOK, SharedOK
<1>3. Sound'
  BY <1>1 DEF Sound
<1>4. \A c \in Card : mars[c] <= mars[c]
  BY DEF TypeOK, Version
<1>5. \A r \in Reader : Later(r)
  BY <1>1, <1>4 DEF TypeOK, Later
<1> QED
  BY <1>1, <1>2, <1>3, <1>5

\* What MARS gave is stored, card by card and in any order, before the query
\* goes on; a write that fails ends it.
LEMMA StoreKeeps ==
  ASSUME IInv, NEW q \in Reader, Store(q)
  PROVE  IInv'
<1> USE DEF IInv
<1>1. pc[q] = "store" /\ UNCHANGED <<mars, messages, gone, lacked>>
  BY DEF Store
<1>2. Query(q) /\ toPull[q] = {} /\ broken[q] = "no" /\ toStore[q] \subseteq DOMAIN balances[q]
  BY <1>1 DEF Query, Counted, Collected, Answers
<1>3. PICK i \in toStore[q] :
        \/ /\ Rejects(q, "call")
           /\ Stores(balances[q][i]) \/ UNCHANGED redis
        \/ /\ Stores(balances[q][i])
           /\ IF toStore[q] = {i}
              THEN Collects(q, balances[q])
              ELSE /\ toStore' = [toStore EXCEPT ![q] = toStore[q] \ {i}]
                   /\ UNCHANGED <<pc, rows, lookup, place, toPull, balances, shown, broken, seen>>
  BY DEF Store, TypeOK
<1> DEFINE b == balances[q][i]
<1>4. b \in Balances /\ b.version <= mars[b.card]
  BY <1>2 DEF TypeOK, Query, Collected
<1>5. ASSUME Stores(b)
      PROVE  /\ SharedOK' /\ Sound' /\ Kept' /\ cache'[b.card] # Nothing /\ b.version <= newest'[b.card]
             /\ \A c \in Card : cache[c] # Nothing => cache'[c] # Nothing
             /\ \A r \in Reader : Later(r)
  BY <1>1, <1>4, <1>5, MessageOrAnswer
<1>6. CASE Rejects(q, "call") /\ (Stores(b) \/ UNCHANGED redis)
  <2>1. SharedOK' /\ Sound' /\ Kept' /\ \A r \in Reader : Later(r)
    <3>1. CASE Stores(b)
      BY <1>5, <3>1
    <3>2. CASE UNCHANGED redis
      <4>1. \A r \in Reader : Later(r)
        BY <1>1, <3>2, NoTimePasses
      <4> QED
        BY <1>1, <3>2, <4>1 DEF TypeOK, SharedOK, Sound, Kept, redis
    <3> QED
      BY <1>6, <3>1, <3>2
  <2>2. LocalsOK' /\ Others(q) /\ Query(q)'
    BY <1>2, <1>6, <2>1, RejectsKeeps
  <2> QED
    BY <1>1, <2>1, <2>2, StepKeeps
<1> HIDE DEF b
<1>7. ASSUME Stores(b), NEW j \in DOMAIN balances[q]
      PROVE  LET e == balances[q][j]
             IN  /\ e.version <= mars'[e.card]
                 /\ e.version >= seen[q][e.card] \/ e.card \in overtaken'
                 /\ j \in toStore[q] \ {i} \/ e.card \in NotFound \/ e.version <= newest'[e.card]
  <2> DEFINE e == balances[q][j]
  <2>1. e \in Balances /\ e.card \in Card /\ e.version \in Nat
    <3>1. e \in Balances
      BY DEF TypeOK
    <3> QED
      BY <3>1, NothingIsNoBalances
  <2>2. /\ e.version <= mars[e.card] /\ NotBefore(q, e)
        /\ j \in toStore[q] \/ e.card \in NotFound \/ e.version <= newest[e.card]
    BY <1>2 DEF Query, Collected
  <2>3. j = i => e = b
    BY DEF b
  <2> HIDE DEF e
  <2>4. /\ newest[e.card] \in Nat /\ newest'[e.card] \in Nat /\ newest[e.card] <= newest'[e.card]
        /\ overtaken \subseteq overtaken'
    BY <1>5, <1>7, <2>1 DEF TypeOK, Later
  <2>5. e.version <= newest[e.card] => e.version <= newest'[e.card]
    BY <2>1, <2>4
  <2>6. j = i => e.version <= newest'[e.card]
    BY <1>5, <1>7, <2>3
  <2>7. e.version >= seen[q][e.card] \/ e.card \in overtaken'
    BY <2>2, <2>4 DEF NotBefore
  <2>8. /\ e.version <= mars'[e.card]
        /\ j \in toStore[q] \ {i} \/ e.card \in NotFound \/ e.version <= newest'[e.card]
    BY <1>1, <2>2, <2>5, <2>6
  <2> QED
    BY <2>7, <2>8 DEF e
<1>8. ASSUME Stores(b), NEW c \in Range(rows[q]) \ (NotFound \cup gone[q]), Len(rows[q]) > 1
      PROVE  IF lookup[q] = "position"
             THEN \/ cache'[c] # Nothing \/ c \in lacked[q]
                  \/ \E j \in toStore[q] \ {i} : balances[q][j].card = c
             ELSE /\ cache'[c] # Nothing /\ c \notin lacked[q]
                  /\ \A j \in DOMAIN balances[q] : balances[q][j].card = c => ~balances[q][j].points
  <2>1. c \in Card
    BY RowsAre DEF TypeOK
  <2>2. cache[c] # Nothing => cache'[c] # Nothing
    BY <1>5, <1>8, <2>1
  <2>3. Ahead(q) = {}
    BY <1>1 DEF Ahead
  <2>4. IF lookup[q] = "position"
        THEN cache[c] # Nothing \/ c \in lacked[q] \cup Unstored(q)
        ELSE /\ cache[c] # Nothing /\ c \notin lacked[q]
             /\ \A j \in DOMAIN balances[q] : balances[q][j].card = c => ~balances[q][j].points
    BY <1>1, <1>2, <1>8, <2>3 DEF Query, Warm, Busy
  <2>5. ASSUME NEW j \in toStore[q], balances[q][j].card = c
        PROVE  cache'[c] # Nothing \/ j \in toStore[q] \ {i}
    BY <1>5, <1>8, <2>5 DEF b
  <2> QED
    BY <2>2, <2>4, <2>5 DEF Unstored
<1>9. CASE Stores(b) /\ toStore[q] = {i} /\ Collects(q, balances[q])
  <2>1. Ready(q, balances[q])
    <3>1. /\ balances[q] \in Seq(Balances) /\ lacked'[q] = lacked[q]
               /\ lacked[q] \subseteq Range(rows[q])
          /\ Len(balances[q]) + Cardinality(lacked[q]) = Len(rows[q])
      BY <1>1, <1>2 DEF TypeOK, Query, Counted
    <3>2. \A c \in Range(rows[q]) \ lacked[q] : \E j \in DOMAIN balances[q] : balances[q][j].card = c
      BY <1>1, <1>2 DEF Query, Covered, Ahead, Found, Busy
    <3>3. toStore[q] \ {i} = {}
      BY <1>9
    <3> QED
      BY <1>1, <1>7, <1>8, <1>9, <3>1, <3>2, <3>3 DEF Ready
  <2>2. LocalsOK' /\ Others(q) /\ Query(q)'
    BY <1>1, <1>2, <1>5, <1>9, <2>1, CollectsKeeps
  <2> QED
    BY <1>1, <1>5, <1>9, <2>2, StepKeeps
<1>10. CASE /\ Stores(b) /\ toStore[q] # {i}
            /\ toStore' = [toStore EXCEPT ![q] = toStore[q] \ {i}]
            /\ UNCHANGED <<pc, rows, lookup, place, toPull, balances, shown, broken, seen>>
  <2>1. LocalsOK' /\ Others(q) /\ toStore'[q] = toStore[q] \ {i} /\ toStore'[q] # {}
    <3>1. toStore' \in [Reader -> SUBSET Nat] /\ toStore'[q] = toStore[q] \ {i}
          /\ \A r \in Reader \ {q} : toStore'[r] = toStore[r]
      BY <1>10 DEF TypeOK
    <3>2. LocalsOK'
      BY <1>10, <3>1 DEF TypeOK, LocalsOK
    <3>3. Others(q)
      BY <1>10, <3>1 DEF Others
    <3> QED
      BY <1>10, <3>1, <3>2, <3>3
  <2>2. Seen(q)'
    BY <1>2, <1>5, <1>10, LaterSeen DEF Query
  <2>3. Shown(q)'
    BY <1>2, <1>5, <1>10 DEF Query, Shown, NotBefore, Later
  <2>4. Collected(q)'
    BY <1>1, <1>2, <1>7, <1>10, <2>1 DEF Collected, NotBefore
  <2>5. Counted(q)' /\ Covered(q)' /\ Answers(q)'
    BY <1>1, <1>2, <1>10 DEF Query, Counted, Covered, Answers, Ahead, Found
  <2>6. Warm(q)'
    BY <1>1, <1>2, <1>8, <1>10, <2>1 DEF Warm, Unstored
  <2>7. Query(q)'
    BY <2>2, <2>3, <2>4, <2>5, <2>6 DEF Query
  <2> QED
    BY <1>1, <1>5, <1>10, <2>1, <2>7, StepKeeps
<1> QED
  BY <1>3, <1>6, <1>9, <1>10 DEF b

-----------------------------------------------------------------------------
(* The steps of MARS, of the messages and of Redis *)

\* A step of no reader keeps what all of them hold.
LEMMA ElsewhereKeeps ==
  ASSUME IInv, SharedOK', Sound', Kept', UNCHANGED <<pc, query, lacked, seen>>, \A r \in Reader :
           Later(r)
  PROVE  IInv'
<1>1. TypeOK'
  BY DEF IInv, TypeOK, SharedOK, query
<1>2. ASSUME NEW r \in Reader
      PROVE  Query(r)'
  BY StillKeeps DEF IInv, Still, query
<1> QED
  BY <1>1, <1>2 DEF IInv

\* A balance message is stored, newest first or not.
LEMMA StoreMessageKeeps ==
  ASSUME IInv, NEW b \in messages, StoreMessage(b)
  PROVE  IInv'
<1>1. /\ Stores(b) /\ messages' = messages \ {b} /\ UNCHANGED <<mars, pc, query, history>>
  BY DEF StoreMessage
<1>2. b \in Balances /\ b.version <= mars[b.card]
  BY DEF IInv, TypeOK, Sound
<1>3. SharedOK' /\ Sound' /\ Kept' /\ \A r \in Reader : Later(r)
  BY <1>1, <1>2, MessageOrAnswer DEF history
<1> QED
  BY <1>1, <1>3, ElsewhereKeeps DEF history

\* New balances at MARS leave what was collected as it was.
LEMMA ChangeKeeps ==
  ASSUME IInv, NEW c \in Card, Change(c)
  PROVE  IInv'
<1> USE DEF IInv
<1> DEFINE m == [card |-> c, version |-> mars[c] + 1, points |-> FALSE]
<1>1. /\ mars[c] <= Changes[c] /\ mars' = [mars EXCEPT ![c] = mars[c] + 1]
      /\ messages' = messages \cup {m} /\ UNCHANGED <<redis, pc, query, history>>
  BY DEF Change, TypeOK
<1>2. /\ mars \in [Card -> Nat \ {0}] /\ mars[c] \in Nat \ {0} /\ Changes[c] \in Nat
  BY CardQueriesAssumption DEF TypeOK, Version
<1>3. m \in Balances /\ m.card = c /\ m.version = mars[c] + 1
  <2>1. mars[c] + 1 \in Nat \ {0}
    BY <1>2
  <2> QED
    BY <2>1 DEF Balances, Version
<1> HIDE DEF m
<1>4. /\ mars' \in [Card -> Nat \ {0}] /\ mars'[c] = mars[c] + 1
      /\ \A d \in Card : d # c => mars'[d] = mars[d]
  BY <1>1, <1>2
<1>5. \A d \in Card : mars[d] <= mars'[d]
  BY <1>2, <1>4
<1>6. Sound'
  <2>1. ASSUME NEW d \in Card
        PROVE  mars'[d] <= Changes[d] + 1 /\ newest[d] <= mars'[d]
    <3>1. mars[d] <= Changes[d] + 1 /\ newest[d] <= mars[d] /\ newest[d] \in Nat
      BY DEF Sound, TypeOK
    <3> QED
      BY <1>1, <1>2, <1>4, <3>1
  <2>2. ASSUME NEW b \in messages'
        PROVE  b.version <= mars'[b.card]
    <3>1. CASE b = m
      BY <1>2, <1>3, <1>4, <3>1
    <3>2. CASE b \in messages
      <4>1. b \in Balances /\ b.version <= mars[b.card]
        BY <3>2 DEF TypeOK, Sound
      <4>2. b.card \in Card /\ b.version \in Nat
        BY <4>1, NothingIsNoBalances
      <4> QED
        BY <1>2, <1>4, <1>5, <4>1, <4>2
    <3> QED
      BY <1>1, <3>1, <3>2
  <2> QED
    BY <1>1, <2>1, <2>2 DEF Sound, redis
<1>7. SharedOK'
  BY <1>1, <1>3, <1>4 DEF TypeOK, SharedOK, Version, redis, history
<1>8. Kept'
  BY <1>1 DEF Kept, redis
<1>9. ASSUME NEW r \in Reader
      PROVE  Later(r)
  <2>1. \A d \in Card : newest[d] <= newest[d]
    BY DEF TypeOK
  <2> QED
    BY <1>1, <1>4, <1>5, <2>1 DEF Later, TypeOK, Version, redis, history
<1> HIDE DEF IInv
<1> QED
  BY <1>1, <1>6, <1>7, <1>8, <1>9, ElsewhereKeeps DEF history

\* A key that expires is noted for the queries that run.
LEMMA ExpireKeeps ==
  ASSUME IInv, NEW c \in Card, Expire(c)
  PROVE  IInv'
<1> USE DEF IInv
<1>1. /\ cache' = [cache EXCEPT ![c] = Nothing]
      /\ gone' = [q \in Reader |-> IF pc[q] \in Rest THEN gone[q] ELSE gone[q] \cup {c}]
      /\ UNCHANGED <<mars, messages, newest, overtaken, pc, query, lacked, seen>>
  BY DEF Expire
<1>2. /\ cache' \in [Card -> Balances \cup {Nothing}] /\ gone' \in [Reader -> SUBSET Card]
      /\ \A d \in Card : d # c => cache'[d] = cache[d]
  BY <1>1 DEF TypeOK
<1>3. SharedOK'
  BY <1>1, <1>2 DEF TypeOK, SharedOK
<1>4. Sound'
  BY <1>1 DEF Sound
<1>5. Kept'
  <2>1. cache'[c] = Nothing
    BY <1>1 DEF TypeOK
  <2> QED
    BY <1>1, <1>2, <2>1 DEF Kept
<1>6. ASSUME NEW r \in Reader
      PROVE  Later(r)
  <2>1. \A d \in Card : mars[d] <= mars[d] /\ newest[d] <= newest[d]
    BY DEF TypeOK, Version
  <2>2. gone[r] \subseteq gone'[r] /\ (pc[r] \in Rest \/ c \in gone'[r])
    BY <1>1
  <2> QED
    BY <1>1, <1>2, <2>1, <2>2 DEF Later, TypeOK
<1> HIDE DEF IInv
<1> QED
  BY <1>1, <1>3, <1>4, <1>5, <1>6, ElsewhereKeeps

-----------------------------------------------------------------------------
(* The theorems *)

\* Nothing is stored, shown or asked for when the process starts.
LEMMA InitIsGood == Init => IInv
<1> SUFFICES ASSUME Init PROVE IInv
  OBVIOUS
<1>1. TypeOK
  <2>1. <<>> \in Seq(Balances) /\ 1 \in Version
    BY DEF Version
  <2> QED
    BY <2>1 DEF Init, TypeOK, Rest
<1>2. Sound
  BY CardQueriesAssumption DEF Init, Sound
<1>3. Kept
  BY DEF Init, Kept
<1>4. ASSUME NEW q \in Reader
      PROVE  Query(q)
  <2>1. Seen(q)
    BY DEF Init, Seen
  <2>2. Collected(q) /\ Shown(q)
    BY DEF Init, Collected, Shown
  <2>3. Counted(q) /\ Covered(q) /\ Warm(q) /\ Answers(q)
    BY DEF Init, Counted, Covered, Warm, Answers, Busy
  <2> QED
    BY <2>1, <2>2, <2>3 DEF Query
<1> QED
  BY <1>1, <1>2, <1>3, <1>4 DEF IInv

\* Every step keeps the inductive invariant.
LEMMA NextKeeps == IInv /\ [Next]_vars => IInv'
<1> SUFFICES ASSUME IInv, [Next]_vars PROVE IInv'
  OBVIOUS
<1>1. ASSUME NEW c \in Card, Change(c) PROVE IInv'
  BY <1>1, ChangeKeeps
<1>2. ASSUME NEW c \in Card, Expire(c) PROVE IInv'
  BY <1>2, ExpireKeeps
<1>3. ASSUME NEW b \in messages, StoreMessage(b) PROVE IInv'
  BY <1>3, StoreMessageKeeps
<1>4. ASSUME NEW q \in Reader, Ask(q) PROVE IInv'
  BY <1>4, AskKeeps
<1>5. ASSUME NEW q \in Reader, Read(q) PROVE IInv'
  BY <1>5, ReadKeeps
<1>6. ASSUME NEW q \in Reader, Pull(q) PROVE IInv'
  BY <1>6, PullKeeps
<1>7. ASSUME NEW q \in Reader, Store(q) PROVE IInv'
  BY <1>7, StoreKeeps
<1>8. CASE UNCHANGED vars
  <2>1. UNCHANGED <<mars, messages, redis, pc, query, gone, lacked, seen>>
    BY <1>8 DEF vars, history
  <2>2. SharedOK' /\ Sound' /\ Kept'
    BY <2>1 DEF IInv, TypeOK, SharedOK, Sound, Kept, redis
  <2>3. \A r \in Reader : Later(r)
    BY <2>1, NoTimePasses DEF IInv
  <2> QED
    BY <2>1, <2>2, <2>3, ElsewhereKeeps
<1> QED
  BY <1>1, <1>2, <1>3, <1>4, <1>5, <1>6, <1>7, <1>8 DEF Next

\* The inductive invariant holds in every state, for any cards, readers and
\* number of changes at MARS.
THEOREM Invariance == Spec => []IInv
BY InitIsGood, NextKeeps, PTL DEF Spec

\* Every variable has its type.
THEOREM TypeCorrect == Spec => []TypeOK
<1>1. IInv => TypeOK
  BY DEF IInv
<1> QED
  BY <1>1, Invariance, PTL

(***************************************************************************)
(* Each card of an answer of cardBalances shows its own balances, whatever *)
(* the order they were collected in and whatever the lookup by position    *)
(* gave it, unless MARS left the card out of the lookup by number.         *)
(***************************************************************************)
THEOREM OwnBalances == Spec => []OwnBalancesUnlessLacked
<1>1. IInv => OwnBalancesUnlessLacked
  BY DEF IInv, Query, Answers, OwnBalancesUnlessLacked, Answered
<1> QED
  BY <1>1, Invariance, PTL

(***************************************************************************)
(* Nobody sees the balances of a card go back to what they were before an  *)
(* earlier answer, through keys that expire and queries that fail, unless  *)
(* a late write put older balances over newer ones in Redis.               *)
(***************************************************************************)
THEOREM NeverBack == Spec => []NeverBackUnlessOvertaken
<1>1. ASSUME IInv, NEW q \in Answered, NEW c \in Range(rows[q]) \ overtaken,
             shown[q][c] # Nothing, shown[q][c].card = c
      PROVE  shown[q][c].version >= seen[q][c]
  <2>1. q \in Reader /\ c \in Card
    BY <1>1, RowsAre DEF Answered, IInv, TypeOK
  <2> QED
    BY <1>1, <2>1 DEF IInv, Query, Shown, NotBefore
<1>2. IInv => NeverBackUnlessOvertaken
  BY <1>1 DEF NeverBackUnlessOvertaken
<1> QED
  BY <1>2, Invariance, PTL

(***************************************************************************)
(* A query goes without an answer only when a call failed or MARS left a   *)
(* card out: the order in which balances are collected never runs the copy *)
(* of them short, and a card MARS does not know spoils the wallet no more  *)
(* than the others do.                                                     *)
(***************************************************************************)
THEOREM NeverShort == Spec => []FailsOnlyIfShort
<1>1. IInv => FailsOnlyIfShort
  BY DEF IInv, Query, Answers, FailsOnlyIfShort
<1> QED
  BY <1>1, Invariance, PTL

(***************************************************************************)
(* The first lookup of a wallet query leaves the balances in Redis for the *)
(* second, and Redis keeps no reward points: a card MARS knows shows its   *)
(* points only when its key went away while the query ran.                 *)
(***************************************************************************)
THEOREM PointsGone == Spec => []PointsOnlyIfGone
<1>1. IInv => PointsOnlyIfGone
  BY DEF IInv, Query, Answers, PointsOnlyIfGone, Answered
<1> QED
  BY <1>1, Invariance, PTL

-----------------------------------------------------------------------------
(***************************************************************************)
(* The cards of a customer: for any number of cards and operations, one    *)
(* reward card, one row per card and a status that agrees with MARS,       *)
(* except after the races and failures its histories name.                 *)
(***************************************************************************)
-----------------------------------------------------------------------------
(* Types and shape *)

\* A wallet of loaded rows starts in order.
LEMMA WalletInitially == WalletInit => WalletIInv
<1> SUFFICES ASSUME WalletInit PROVE WalletIInv
  OBVIOUS
<1> USE WalletAssumption
<1>1. WalletTypeOK
  BY DEF WalletInit, WalletTypeOK, Row, Kinds, Labels, Cards
<1>2. Shape
  BY DEF WalletInit, Shape
<1>3. FlaggedOnce
  BY DEF WalletInit, FlaggedOnce, Flagged
<1>4. ClaimedOnce
  BY DEF WalletInit, ClaimedOnce, Claimed, Creating, Row
<1>5. StatusKnown
  BY DEF WalletInit, StatusKnown, Settling, Holding, Cards, Row
<1> QED
  BY <1>1, <1>2, <1>3, <1>4, <1>5 DEF WalletIInv

\* What an operation finds is a row of the table, and its entity has the
\* facts of that row.
LEMMA FindsTypes ==
  ASSUME WalletTypeOK, NEW o \in Op, NEW r \in Row, NEW what \in Kinds, NEW to \in Labels,
         Finds(o, r, what), Loads(o, r) \/ UNCHANGED asReward, Goes(o, "idle", to)
  PROVE  WalletTypeOK'
BY DEF WalletTypeOK, Finds, Loads, Goes, tableVars, histories

\* Every step keeps the types.
LEMMA TypeStep == WalletTypeOK /\ [WalletNext]_walletVars => WalletTypeOK'
<1> SUFFICES ASSUME WalletTypeOK, [WalletNext]_walletVars PROVE WalletTypeOK'
  OBVIOUS
<1> USE WalletAssumption
<1>1. CASE UNCHANGED walletVars
  BY <1>1 DEF WalletTypeOK, walletVars, tableVars, entityVars, histories
<1>2. CASE Crash
  BY <1>2 DEF WalletTypeOK, Crash, tableVars, Labels, Settling, Cards
<1>3. ASSUME NEW o \in Op, Operation(o) PROVE WalletTypeOK'
  <2>1. CASE FindByCardNumber(o)
    BY <2>1 DEF WalletTypeOK, FindByCardNumber, Goes, tableVars, Labels, Kinds, Row, Cards
  <2>2. CASE Validate(o)
    BY <2>2 DEF WalletTypeOK, Validate, Goes, Finishes, tableVars, histories, Labels
  <2>3. CASE RewardsSetCardNumber(o)
    BY <2>3 DEF WalletTypeOK, RewardsSetCardNumber, Goes, Finishes, tableVars, entityVars,
       histories, Labels
  <2>4. CASE MakeAllOtherPowercardsNotTheRewardCard(o)
    <3>1. crossed' \in BOOLEAN
      BY <2>4 DEF MakeAllOtherPowercardsNotTheRewardCard, WalletTypeOK, Crosses
    <3> QED
      BY <2>4, <3>1 DEF WalletTypeOK, MakeAllOtherPowercardsNotTheRewardCard, Goes, Finishes, Labels
  <2>5. CASE ChangeStatus(o)
    <3>1. CardOf[row[o]] \in Cards
      BY DEF WalletTypeOK, Cards
    <3> QED
      BY <2>5, <3>1 DEF WalletTypeOK, ChangeStatus, Goes, Finishes, tableVars, Labels
  <2>6. CASE Save(o)
    <3>1. row[o] \in Row /\ CardOf[row[o]] \in Cards
      BY DEF WalletTypeOK, Cards
    <3> QED
      BY <2>6, <3>1 DEF WalletTypeOK, Save, Written, Finishes, Goes, tableVars, Labels
  <2>7. CASE Remove(o)
    BY <2>7 DEF WalletTypeOK, Remove, Finishes, Goes, tableVars, histories, Labels
  <2>8. ASSUME NEW r \in Row,
               BeginUpdate(o, r) \/ BeginConfigure(o, r) \/ BeginDelete(o, r) \/ BeginStatus(o, r)
        PROVE  WalletTypeOK'
    <3>1. PICK what \in Kinds, to \in Labels :
            Finds(o, r, what) /\ (Loads(o, r) \/ UNCHANGED asReward) /\ Goes(o, "idle", to)
      BY <2>8 DEF BeginUpdate, BeginConfigure, BeginDelete, BeginStatus, Kinds, Labels
    <3> QED
      BY <3>1, FindsTypes
  <2> QED
    BY <1>3, <2>1, <2>2, <2>3, <2>4, <2>5, <2>6, <2>7, <2>8 DEF Operation, Begin
<1> QED
  BY <1>1, <1>2, <1>3 DEF WalletNext

\* Every step keeps the shape of an operation: which row it has found, and what
\* it has done to it.
LEMMA ShapeStep == WalletTypeOK /\ Shape /\ [WalletNext]_walletVars => Shape'
<1> SUFFICES ASSUME WalletTypeOK, Shape, [WalletNext]_walletVars PROVE Shape'
  OBVIOUS
<1> USE WalletAssumption
<1>1. CASE UNCHANGED walletVars
  BY <1>1 DEF Shape, walletVars, entityVars
<1>2. CASE Crash
  BY <1>2 DEF WalletTypeOK, Shape, Crash
<1>3. ASSUME NEW o \in Op, Operation(o) PROVE Shape'
  <2>1. CASE FindByCardNumber(o)
    BY <2>1 DEF WalletTypeOK, Shape, FindByCardNumber, Goes
  <2>2. CASE Validate(o)
    BY <2>2 DEF WalletTypeOK, Shape, Validate, Goes, Finishes
  <2>3. CASE RewardsSetCardNumber(o)
    BY <2>3 DEF WalletTypeOK, Shape, RewardsSetCardNumber, Goes, Finishes, entityVars
  <2>4. CASE MakeAllOtherPowercardsNotTheRewardCard(o)
    BY <2>4 DEF WalletTypeOK, Shape, MakeAllOtherPowercardsNotTheRewardCard, Goes, Finishes
  <2>5. CASE ChangeStatus(o)
    BY <2>5 DEF WalletTypeOK, Shape, ChangeStatus, Goes, Finishes
  <2>6. CASE Save(o)
    BY <2>6 DEF WalletTypeOK, Shape, Save, Goes, Finishes
  <2>7. CASE Remove(o)
    BY <2>7 DEF WalletTypeOK, Shape, Remove, Goes, Finishes
  <2>8. ASSUME NEW r \in Row,
               BeginUpdate(o, r) \/ BeginConfigure(o, r) \/ BeginDelete(o, r) \/ BeginStatus(o, r)
        PROVE  Shape'
    BY <2>8 DEF WalletTypeOK, Shape, BeginUpdate, BeginConfigure, BeginDelete, BeginStatus,
       Finds, Loads, Goes
  <2> QED
    BY <1>3, <2>1, <2>2, <2>3, <2>4, <2>5, <2>6, <2>7, <2>8 DEF Operation, Begin
<1> QED
  BY <1>1, <1>2, <1>3 DEF WalletNext

-----------------------------------------------------------------------------
(* The reward card *)

\* What happened stays known.
LEMMA CrossedStays == WalletTypeOK /\ [WalletNext]_walletVars => (crossed => crossed')
<1> SUFFICES ASSUME WalletTypeOK, [WalletNext]_walletVars, crossed PROVE crossed'
  OBVIOUS
<1>1. CASE UNCHANGED walletVars
  BY <1>1 DEF walletVars, histories
<1>2. CASE Crash
  BY <1>2 DEF Crash
<1>3. ASSUME NEW o \in Op, Operation(o) PROVE crossed'
  <2>1. CASE Begin(o)
    BY <2>1 DEF Begin, FindByCardNumber, BeginUpdate, BeginConfigure, BeginDelete,
       BeginStatus, Finds, histories
  <2>2. CASE Validate(o) \/ RewardsSetCardNumber(o) \/ ChangeStatus(o) \/ Remove(o)
    BY <2>2 DEF Validate, RewardsSetCardNumber, ChangeStatus, Remove, histories
  <2>3. CASE MakeAllOtherPowercardsNotTheRewardCard(o)
    BY <2>3, Zenon DEF MakeAllOtherPowercardsNotTheRewardCard
  <2>4. CASE Save(o)
    BY <2>4 DEF Save
  <2> QED
    BY <1>3, <2>1, <2>2, <2>3, <2>4 DEF Operation
<1> QED
  BY <1>1, <1>2, <1>3 DEF WalletNext

\* A step brings no card to be flagged, or the only one there is.
LEMMA FlaggedStep == WalletTypeOK /\ Shape /\ FlaggedOnce /\ [WalletNext]_walletVars => FlaggedOnce'
<1> SUFFICES ASSUME WalletTypeOK, Shape, FlaggedOnce, [WalletNext]_walletVars, ~crossed'
             PROVE  Flagged' \subseteq Flagged \/ \A q, r \in Flagged' : q = r
  BY CrossedStays DEF FlaggedOnce
<1> USE WalletAssumption
<1>1. CASE UNCHANGED walletVars
  BY <1>1 DEF Flagged, Holding, walletVars, tableVars, entityVars
<1>2. CASE Crash
  BY <1>2 DEF Flagged, Crash, tableVars
<1>3. ASSUME NEW o \in Op, Operation(o)
      PROVE  Flagged' \subseteq Flagged \/ \A q, r \in Flagged' : q = r
  <2>1. CASE FindByCardNumber(o)
    BY <2>1 DEF WalletTypeOK, Shape, Flagged, Holding, FindByCardNumber, Goes, tableVars
  <2>2. CASE Validate(o)
    BY <2>2 DEF WalletTypeOK, Shape, Flagged, Holding, Validate, Goes, Finishes, tableVars
  <2>3. CASE RewardsSetCardNumber(o)
    BY <2>3 DEF WalletTypeOK, Flagged, Holding, RewardsSetCardNumber, Goes, Finishes, tableVars,
       entityVars
  <2>4. CASE MakeAllOtherPowercardsNotTheRewardCard(o)
    <3>1. CASE Goes(o, "clear", "save") /\ reward' = {} /\ asReward' = asReward \cup {o}
               /\ crossed' = (crossed \/ Crosses(o)) /\ UNCHANGED row
      <4>1. ~Crosses(o)
        BY <3>1
      <4>2. \A q \in Flagged' : q = row[o]
        BY <3>1, <4>1 DEF WalletTypeOK, Flagged, Holding, Goes, Crosses
      <4> QED
        BY <4>2
    <3>2. CASE Finishes(o, "clear", "failed") /\ reward' \in {reward, {}}
      BY <3>2 DEF WalletTypeOK, Flagged, Holding, Finishes, Goes
    <3> QED
      BY <2>4, <3>1, <3>2 DEF MakeAllOtherPowercardsNotTheRewardCard
  <2>5. CASE ChangeStatus(o)
    BY <2>5 DEF WalletTypeOK, Flagged, Holding, ChangeStatus, Goes, Finishes, tableVars
  <2>6. CASE Save(o)
    BY <2>6 DEF WalletTypeOK, Flagged, Holding, Save, Written, Goes, Finishes, tableVars
  <2>7. CASE Remove(o)
    BY <2>7 DEF WalletTypeOK, Flagged, Holding, Remove, Goes, Finishes, tableVars
  <2>8. ASSUME NEW r \in Row,
               BeginUpdate(o, r) \/ BeginConfigure(o, r) \/ BeginDelete(o, r) \/ BeginStatus(o, r)
        PROVE  Flagged' \subseteq Flagged
    <3>1. Finds(o, r, "update") \/ Finds(o, r, "configure") \/ Finds(o, r, "delete")
          \/ Finds(o, r, "enable") \/ Finds(o, r, "disable")
      BY <2>8 DEF BeginUpdate, BeginConfigure, BeginDelete, BeginStatus
    <3>2. row' = [row EXCEPT ![o] = r] /\ UNCHANGED reward
      BY <3>1 DEF Finds, tableVars
    <3>3. asReward' = asReward \/ (r \in reward /\ asReward' = asReward \cup {o})
      BY <2>8 DEF BeginUpdate, BeginConfigure, BeginDelete, BeginStatus, Loads
    <3>4. PICK to \in Labels : Goes(o, "idle", to)
      BY <2>8 DEF BeginUpdate, BeginConfigure, BeginDelete, BeginStatus, Labels
    <3>5. o \notin asReward
      BY <3>4 DEF Goes, Shape
    <3> QED
      BY <3>2, <3>3, <3>4, <3>5 DEF WalletTypeOK, Flagged, Holding, Goes
  <2> QED
    BY <1>3, <2>1, <2>2, <2>3, <2>4, <2>5, <2>6, <2>7, <2>8 DEF Operation, Begin
<1> QED
  BY <1>1, <1>2, <1>3 DEF WalletNext

-----------------------------------------------------------------------------
(* One row per card *)

\* A row that joins the claimed ones has no other of its card among them.
LEMMA ClaimedBy ==
  ASSUME WalletTypeOK, ClaimedOnce, raced \subseteq raced', NEW r \in Row,
         Claimed' \subseteq Claimed \cup {r},
         \A q \in Claimed : q # r /\ CardOf[q] = CardOf[r] => CardOf[r] \in raced'
  PROVE  ClaimedOnce'
BY DEF ClaimedOnce

\* No card gets a second row, or an operation on its way to one, unless creates
\* raced.
LEMMA ClaimedStep == WalletTypeOK /\ Shape /\ ClaimedOnce /\ [WalletNext]_walletVars => ClaimedOnce'
<1> SUFFICES ASSUME WalletTypeOK, Shape, ClaimedOnce, [WalletNext]_walletVars PROVE ClaimedOnce'
  OBVIOUS
<1> USE WalletAssumption
<1>1. CASE UNCHANGED walletVars
  BY <1>1 DEF ClaimedOnce, Claimed, Creating, walletVars, tableVars, entityVars, histories
<1>2. CASE Crash
  BY <1>2 DEF WalletTypeOK, ClaimedOnce, Claimed, Creating, Crash, tableVars
<1>3. ASSUME NEW o \in Op, Operation(o) PROVE ClaimedOnce'
  <2>1. CASE FindByCardNumber(o)
    <3>1. CASE RowsOf(CardOf[o]) = {} /\ Goes(o, "idle", "validate")
      <4>1. Claimed' \subseteq Claimed \cup {o} /\ raced \subseteq raced' /\ o \in Row
        BY <2>1, <3>1 DEF WalletTypeOK, Claimed, Creating, FindByCardNumber, Goes, tableVars, Row
      <4>2. \A q \in Claimed : q # o /\ CardOf[q] = CardOf[o] => CardOf[o] \in raced'
        BY <2>1, <3>1 DEF Claimed, RowsOf, FindByCardNumber
      <4> QED
        BY <4>1, <4>2, ClaimedBy
    <3>2. CASE Goes(o, "idle", "failed")
      BY <2>1, <3>2 DEF WalletTypeOK, ClaimedOnce, Claimed, Creating, FindByCardNumber, Goes,
         tableVars
    <3> QED
      BY <2>1, <3>1, <3>2 DEF FindByCardNumber
  <2>2. CASE Validate(o)
    BY <2>2 DEF WalletTypeOK, ClaimedOnce, Claimed, Creating, Validate, Goes, Finishes,
       tableVars, histories
  <2>3. CASE RewardsSetCardNumber(o)
    BY <2>3 DEF WalletTypeOK, Shape, ClaimedOnce, Claimed, Creating, RewardsSetCardNumber, Goes,
       Finishes,
       tableVars, entityVars, histories
  <2>4. CASE MakeAllOtherPowercardsNotTheRewardCard(o)
    BY <2>4 DEF WalletTypeOK, ClaimedOnce, Claimed, Creating,
       MakeAllOtherPowercardsNotTheRewardCard,
       Goes, Finishes
  <2>5. CASE ChangeStatus(o)
    BY <2>5 DEF WalletTypeOK, Shape, ClaimedOnce, Claimed, Creating, ChangeStatus, Goes,
       Finishes, tableVars
  <2>6. CASE Save(o)
    <3>1. row[o] \in Row /\ raced \subseteq raced'
      BY <2>6 DEF WalletTypeOK, Save, Written
    <3>2. Creating' \subseteq Creating /\ db' \subseteq db \cup {row[o]}
            /\ Claimed' \subseteq Claimed \cup {row[o]}
      BY <2>6 DEF WalletTypeOK, Claimed, Creating, Save, Written, Goes, Finishes, tableVars
    <3>3. CASE kind[o] = "create"
      <4>1. row[o] = o /\ o \in Creating
        BY <2>6, <3>3 DEF Shape, Creating, Save, Finishes, Goes
      <4>2. \A q \in Claimed : q # row[o] /\ CardOf[q] = CardOf[row[o]] => CardOf[row[o]] \in raced'
        BY <3>1, <4>1 DEF ClaimedOnce, Claimed
      <4> QED
        BY <3>1, <3>2, <4>2, ClaimedBy
    <3>4. CASE row[o] \in db
      <4>1. \A q \in Claimed : q # row[o] /\ CardOf[q] = CardOf[row[o]] => CardOf[row[o]] \in raced'
        BY <3>1, <3>4 DEF ClaimedOnce, Claimed
      <4> QED
        BY <3>1, <3>2, <4>1, ClaimedBy
    <3>5. CASE kind[o] # "create" /\ row[o] \notin db
      <4>1. CASE UNCHANGED db
        BY <3>1, <3>2, <4>1 DEF ClaimedOnce, Claimed
      <4>2. CASE Written(o)
        <5>1. \A q \in Claimed : q # row[o] /\ CardOf[q] = CardOf[row[o]] => CardOf[row[o]] \in raced'
          BY <3>5, <4>2 DEF Written, PutsBack, Claimed
        <5> QED
          BY <3>1, <3>2, <5>1, ClaimedBy
      <4> QED
        BY <2>6, <4>1, <4>2 DEF Save, tableVars
    <3> QED
      BY <3>3, <3>4, <3>5
  <2>7. CASE Remove(o)
    BY <2>7 DEF WalletTypeOK, ClaimedOnce, Claimed, Creating, Remove, Goes, Finishes, tableVars,
       histories
  <2>8. ASSUME NEW r \in Row,
               BeginUpdate(o, r) \/ BeginConfigure(o, r) \/ BeginDelete(o, r) \/ BeginStatus(o, r)
        PROVE  ClaimedOnce'
    <3>1. PICK what \in Kinds \ {"create"}, to \in Labels \ {"validate"} :
            Finds(o, r, what) /\ Goes(o, "idle", to)
      BY <2>8 DEF BeginUpdate, BeginConfigure, BeginDelete, BeginStatus, Kinds, Labels
    <3>2. Creating' \subseteq Creating
      BY <3>1 DEF WalletTypeOK, Creating, Finds, Goes
    <3>3. UNCHANGED db /\ UNCHANGED raced
      BY <3>1 DEF Finds, tableVars, histories
    <3> QED
      BY <3>2, <3>3 DEF ClaimedOnce, Claimed
  <2> QED
    BY <1>3, <2>1, <2>2, <2>3, <2>4, <2>5, <2>6, <2>7, <2>8 DEF Operation, Begin
<1> QED
  BY <1>1, <1>2, <1>3 DEF WalletNext

-----------------------------------------------------------------------------
(* The status of a card *)

\* Operations that are settling card c, and the facts that hold when none is.
SettlingOf(c) == {o \in Settling : CardOf[row[o]] = c}
Agrees(c) ==
  /\ \A r \in db : CardOf[r] = c => (r \in open <=> c \in active)
  /\ \A o \in Holding : CardOf[row[o]] = c => (o \in asOpen <=> c \in active)
Known(c) ==
  IF SettlingOf(c) # {}
  THEN \E o \in SettlingOf(c) : o \in asOpen <=> c \in active
  ELSE Agrees(c)

\* The status of the rows, card by card.
LEMMA KnownIs == StatusKnown <=> \A c \in Cards \ unsettled : Known(c)
BY DEF StatusKnown, Known, SettlingOf, Agrees

\* And after a step.
LEMMA KnownIsNext == StatusKnown' <=> \A c \in Cards \ unsettled' : Known(c)'
BY DEF StatusKnown, Known, SettlingOf, Agrees

\* Nothing about card c is new after the step: no operation settles it that
\* did not, none that did has ended, and every entity and row kept its status.
LEMMA KnownStays ==
  ASSUME WalletTypeOK, NEW c \in Cards, Known(c),
         c \in active' <=> c \in active,
         SettlingOf(c)' = SettlingOf(c),
         \A p \in SettlingOf(c) : p \in asOpen' <=> p \in asOpen,
         \A r \in db' : CardOf[r] = c => \/ r \in db /\ (r \in open' <=> r \in open)
                                        \/ \E p \in Holding : /\ CardOf[row[p]] = c
                                                              /\ r \in open' <=> p \in asOpen,
         \A p \in Holding' : CardOf[row'[p]] = c =>
            \/ p \in Holding /\ row'[p] = row[p] /\ (p \in asOpen' <=> p \in asOpen)
            \/ row'[p] \in db /\ (p \in asOpen' <=> row'[p] \in open)
            \/ p \in asOpen' /\ c \in active
  PROVE  Known(c)'
<1>1. CASE SettlingOf(c) # {}
  BY <1>1 DEF Known
<1>2. CASE SettlingOf(c) = {}
  <2>1. Agrees(c)
    BY <1>2 DEF Known
  <2>2. ASSUME NEW r \in db', CardOf[r] = c PROVE r \in open' <=> c \in active'
    BY <2>1, <2>2 DEF Agrees
  <2>3. ASSUME NEW p \in Holding', CardOf[row'[p]] = c PROVE p \in asOpen' <=> c \in active'
    BY <2>1, <2>3 DEF Agrees
  <2>4. Agrees(c)'
    BY <2>2, <2>3 DEF Agrees
  <2> QED
    BY <1>2, <2>4 DEF Known
<1> QED
  BY <1>1, <1>2

\* A card that is unsettled stays so.
LEMMA UnsettledStays == WalletTypeOK /\ [WalletNext]_walletVars => unsettled \subseteq unsettled'
<1> SUFFICES ASSUME WalletTypeOK, [WalletNext]_walletVars PROVE unsettled \subseteq unsettled'
  OBVIOUS
<1>1. CASE UNCHANGED walletVars
  BY <1>1 DEF walletVars, histories
<1>2. CASE Crash
  BY <1>2 DEF Crash
<1>3. ASSUME NEW o \in Op, Operation(o) PROVE unsettled \subseteq unsettled'
  <2>1. CASE Begin(o)
    BY <2>1 DEF Begin, FindByCardNumber, BeginUpdate, BeginConfigure, BeginDelete,
       BeginStatus, Finds, histories
  <2>2. CASE Validate(o) \/ RewardsSetCardNumber(o) \/ ChangeStatus(o) \/ Remove(o)
    BY <2>2 DEF Validate, RewardsSetCardNumber, ChangeStatus, Remove, histories
  <2>3. CASE MakeAllOtherPowercardsNotTheRewardCard(o) \/ Save(o)
    BY <2>3 DEF MakeAllOtherPowercardsNotTheRewardCard, Save
  <2> QED
    BY <1>3, <2>1, <2>2, <2>3 DEF Operation
<1> QED
  BY <1>1, <1>2, <1>3 DEF WalletNext

\* The steps that touch no status.
LEMMA StatusKept ==
  ASSUME WalletTypeOK, NEW c \in Cards, Known(c), NEW o \in Op,
         UNCHANGED <<active, kind, row, open, asOpen>>, db' \subseteq db,
         NEW from \in {"register", "clear"}, NEW to \in {"clear", "save"},
         Goes(o, from, to), kind[o] \notin {"enable", "disable"}
  PROVE  Known(c)'
<1>1. SettlingOf(c)' = SettlingOf(c) /\ Holding' = Holding
  BY DEF WalletTypeOK, SettlingOf, Settling, Holding, Goes
<1> QED
  BY <1>1, KnownStays

\* An operation that ends without having written or settled anything.
LEMMA StatusEnds ==
  ASSUME WalletTypeOK, NEW c \in Cards, Known(c), NEW o \in Op, o \notin SettlingOf(c),
         NEW from, NEW to \in {"done", "failed"}, Finishes(o, from, to),
         c \in active' <=> c \in active,
         db' \subseteq db, \A r \in db' : r \in open' <=> r \in open
  PROVE  Known(c)'
<1>1. SettlingOf(c)' = SettlingOf(c) /\ Holding' \subseteq Holding
  BY DEF WalletTypeOK, SettlingOf, Settling, Holding, Goes, Finishes
<1>2. \A p \in Op \ {o} : p \in asOpen' <=> p \in asOpen
  BY DEF Finishes
<1>3. o \notin Holding' /\ row' = row
  BY DEF WalletTypeOK, Holding, Goes, Finishes
<1> QED
  BY <1>1, <1>2, <1>3, KnownStays DEF SettlingOf, Settling, Holding

\* Every step keeps the status of the rows in agreement with MARS.
LEMMA StatusStep == WalletTypeOK /\ Shape /\ StatusKnown /\ [WalletNext]_walletVars => StatusKnown'
<1> SUFFICES ASSUME WalletTypeOK, Shape, [WalletNext]_walletVars,
                    NEW c \in Cards, c \notin unsettled', c \notin unsettled, Known(c)
             PROVE  Known(c)'
  BY KnownIs, KnownIsNext, UnsettledStays
<1> USE WalletAssumption
<1>1. CASE UNCHANGED walletVars
  BY <1>1 DEF Known, Agrees, SettlingOf, Settling, Holding, walletVars, tableVars, entityVars
<1>2. CASE Crash
  <2>1. SettlingOf(c) = {}
    BY <1>2 DEF SettlingOf, Crash
  <2>2. Holding' = {} /\ SettlingOf(c)' = {}
    BY <1>2 DEF WalletTypeOK, Crash, Holding, SettlingOf, Settling, Labels
  <2> QED
    BY <1>2, <2>1, <2>2 DEF Known, Agrees, Crash, tableVars
<1>3. ASSUME NEW o \in Op, Operation(o) PROVE Known(c)'
  <2>1. CASE FindByCardNumber(o)
    <3>1. SettlingOf(c)' = SettlingOf(c) /\ Holding' = Holding
      BY <2>1 DEF WalletTypeOK, SettlingOf, Settling, Holding, FindByCardNumber, Goes
    <3>2. \A p \in Holding : row'[p] = row[p]
      BY <2>1 DEF WalletTypeOK, Holding, FindByCardNumber, Goes
    <3> QED
      BY <2>1, <3>1, <3>2, KnownStays DEF FindByCardNumber, tableVars
  <2>2. CASE Validate(o)
    <3>1. kind[o] = "create"
      BY <2>2 DEF Shape, Validate, Goes, Finishes
    <3>2. CASE /\ CardOf[o] \in active
               /\ Goes(o, "validate", "clear") \/ Goes(o, "validate", "save")
               /\ asOpen' = asOpen \cup {o}
               /\ UNCHANGED <<kind, row>>
      <4>1. SettlingOf(c)' = SettlingOf(c) /\ Holding' = Holding \cup {o}
        BY <3>1, <3>2 DEF WalletTypeOK, SettlingOf, Settling, Holding, Goes
      <4>2. row[o] = o /\ o \notin Settling
        BY <3>1 DEF Shape, Settling
      <4>3. \A p \in Op \ {o} : p \in asOpen' <=> p \in asOpen
        BY <3>2
      <4> QED
        BY <2>2, <3>2, <4>1, <4>2, <4>3, KnownStays DEF Validate, tableVars, SettlingOf,
           Settling, Holding
    <3>3. CASE Finishes(o, "validate", "failed")
      <4>1. o \notin SettlingOf(c)
        BY <3>1 DEF SettlingOf, Settling
      <4> QED
        BY <2>2, <3>3, <4>1, StatusEnds DEF Validate, tableVars
    <3> QED
      BY <2>2, <3>2, <3>3 DEF Validate
  <2>3. CASE RewardsSetCardNumber(o)
    <3>1. kind[o] = "update" /\ o \notin SettlingOf(c)
      BY <2>3 DEF Shape, RewardsSetCardNumber, Goes, Finishes, SettlingOf, Settling
    <3>2. CASE Goes(o, "register", "clear") /\ UNCHANGED entityVars
      BY <2>3, <3>1, <3>2, StatusKept DEF RewardsSetCardNumber, tableVars, entityVars
    <3>3. CASE Finishes(o, "register", "failed")
      BY <2>3, <3>1, <3>3, StatusEnds DEF RewardsSetCardNumber, tableVars
    <3> QED
      BY <2>3, <3>2, <3>3 DEF RewardsSetCardNumber
  <2>5. CASE ChangeStatus(o)
    <3> DEFINE d == CardOf[row[o]]
    <3>1. kind[o] \in {"enable", "disable"} /\ o \notin SettlingOf(c)
      BY <2>5 DEF Shape, ChangeStatus, Goes, Finishes, SettlingOf, Settling
    <3>2. CASE Finishes(o, "mars", "failed")
      <4>1. c \in active' <=> c \in active
        BY <2>5, <3>2 DEF ChangeStatus, Goes, Finishes, WalletTypeOK
      <4> QED
        BY <2>5, <3>1, <3>2, <4>1, StatusEnds DEF ChangeStatus, tableVars
    <3>3. CASE Goes(o, "mars", "save") /\ UNCHANGED <<kind, row>> /\ d # c
      <4>1. SettlingOf(c)' = SettlingOf(c) /\ Holding' = Holding
        BY <3>3 DEF WalletTypeOK, SettlingOf, Settling, Holding, Goes
      <4>2. c \in active' <=> c \in active
        BY <2>5, <3>3 DEF ChangeStatus, Finishes, Goes
      <4>3. \A p \in Op \ {o} : p \in asOpen' <=> p \in asOpen
        BY <2>5, <3>3 DEF ChangeStatus, Finishes, Goes
      <4> QED
        BY <2>5, <3>1, <3>3, <4>1, <4>2, <4>3, KnownStays DEF ChangeStatus, tableVars,
           SettlingOf, Settling, Holding
    <3>4. CASE Goes(o, "mars", "save") /\ UNCHANGED <<kind, row>> /\ d = c
      <4>1. o \in SettlingOf(c)'
        BY <3>1, <3>4 DEF WalletTypeOK, SettlingOf, Settling, Goes
      <4>2. o \in asOpen' <=> c \in active'
        BY <2>5, <3>4 DEF WalletTypeOK, ChangeStatus, Goes, Finishes
      <4> QED
        BY <4>1, <4>2 DEF Known
    <3> QED
      BY <2>5, <3>2, <3>3, <3>4 DEF ChangeStatus
  <2>4. CASE MakeAllOtherPowercardsNotTheRewardCard(o)
    <3>1. kind[o] \notin {"enable", "disable"} /\ o \notin SettlingOf(c)
      BY <2>4 DEF Shape, MakeAllOtherPowercardsNotTheRewardCard, Goes, Finishes, SettlingOf,
         Settling
    <3>2. CASE Goes(o, "clear", "save") /\ UNCHANGED <<kind, row, asOpen>>
      BY <2>4, <3>1, <3>2, StatusKept DEF MakeAllOtherPowercardsNotTheRewardCard
    <3>3. CASE Finishes(o, "clear", "failed")
      BY <2>4, <3>1, <3>3, StatusEnds DEF MakeAllOtherPowercardsNotTheRewardCard
    <3> QED
      BY <2>4, <3>2, <3>3 DEF MakeAllOtherPowercardsNotTheRewardCard
  <2>6. CASE Save(o)
    <3> DEFINE d == CardOf[row[o]]
    <3>1. Finishes(o, "save", "done") \/ Finishes(o, "save", "failed")
      BY <2>6 DEF Save
    <3>2. /\ Holding' = Holding \ {o} /\ o \in Holding /\ row' = row
          /\ SettlingOf(c)' = SettlingOf(c) \ {o}
          /\ \A p \in Op \ {o} : p \in asOpen' <=> p \in asOpen
      BY <3>1 DEF WalletTypeOK, Holding, SettlingOf, Settling, Finishes, Goes
    <3>3. Written(o) \/ UNCHANGED tableVars
      BY <2>6 DEF Save
    <3>4. \A r \in db' : \/ r \in db /\ (r \in open' <=> r \in open)
                         \/ r = row[o] /\ (r \in open' <=> o \in asOpen)
      BY <3>3 DEF Written, tableVars, WalletTypeOK
    <3>5. active' = active
      BY <2>6 DEF Save
    <3>6. CASE o \notin SettlingOf(c)
      <4>1. SettlingOf(c)' = SettlingOf(c)
        BY <3>2, <3>6
      <4> QED
        BY <3>2, <3>4, <3>5, <3>6, <4>1, KnownStays DEF SettlingOf, Settling, Holding
    <3>7. CASE o \in SettlingOf(c)
      <4>1. d = c /\ o \in Settling
        BY <3>7 DEF SettlingOf
      <4>2. Written(o) /\ ~LeavesOther(o)
        BY <2>6, <4>1 DEF Save
      <4>3. (\A p \in Holding \ {o} : CardOf[row[p]] # c) /\ (\A q \in db : q # row[o] => CardOf[q] # c)
        BY <4>1, <4>2 DEF LeavesOther
      <4>4. SettlingOf(c) = {o}
        BY <3>7, <4>3 DEF SettlingOf, Settling, Holding
      <4>5. o \in asOpen <=> c \in active
        BY <4>4 DEF Known
      <4>6. SettlingOf(c)' = {} /\ \A p \in Holding' : CardOf[row'[p]] # c
        BY <3>2, <4>3, <4>4
      <4>7. \A r \in db' : CardOf[r] = c => (r \in open' <=> o \in asOpen)
        BY <4>2, <4>3 DEF Written
      <4>8. Agrees(c)'
        BY <3>5, <4>5, <4>6, <4>7 DEF Agrees
      <4> QED
        BY <4>6, <4>8 DEF Known
    <3> QED
      BY <3>6, <3>7
  <2>7. CASE Remove(o)
    <3>1. o \notin SettlingOf(c)
      BY <2>7 DEF Remove, Goes, Finishes, SettlingOf, Settling
    <3>2. db' \subseteq db /\ \A r \in db' : r \in open' <=> r \in open
      BY <2>7 DEF Remove, tableVars
    <3> QED
      BY <2>7, <3>1, <3>2, StatusEnds DEF Remove
  <2>8. ASSUME NEW r \in Row,
               BeginUpdate(o, r) \/ BeginConfigure(o, r) \/ BeginDelete(o, r) \/ BeginStatus(o, r)
        PROVE  Known(c)'
    <3>1. PICK what \in Kinds, to \in Labels :
            /\ Finds(o, r, what) /\ Goes(o, "idle", to)
            /\ ~(to = "save" /\ what \in {"enable", "disable"})
      BY <2>8 DEF BeginUpdate, BeginConfigure, BeginDelete, BeginStatus, Kinds, Labels
    <3>2. o \notin asOpen /\ o \notin Holding /\ o \notin SettlingOf(c)
      BY <3>1 DEF Goes, Shape, Holding, SettlingOf, Settling
    <3>3. SettlingOf(c)' = SettlingOf(c) /\ Holding' \subseteq Holding \cup {o}
      BY <3>1, <3>2 DEF WalletTypeOK, SettlingOf, Settling, Holding, Finds, Goes
    <3>4. \A p \in Op \ {o} : row'[p] = row[p] /\ (p \in asOpen' <=> p \in asOpen)
      BY <3>1 DEF WalletTypeOK, Finds
    <3>5. row'[o] = r /\ r \in db /\ (o \in asOpen' <=> r \in open)
      BY <3>1, <3>2 DEF WalletTypeOK, Finds
    <3>6. UNCHANGED <<db, open, active>>
      BY <3>1 DEF Finds, tableVars
    <3> QED
      BY <3>2, <3>3, <3>4, <3>5, <3>6, KnownStays DEF SettlingOf, Settling, Holding
  <2> QED
    BY <1>3, <2>1, <2>2, <2>3, <2>4, <2>5, <2>6, <2>7, <2>8 DEF Operation, Begin
<1> QED
  BY <1>1, <1>2, <1>3 DEF WalletNext

-----------------------------------------------------------------------------
(* The theorems *)

\* The inductive invariant of the wallet holds in every state.
THEOREM WalletInvariance == WalletSpec => []WalletIInv
<1>1. WalletIInv /\ [WalletNext]_walletVars => WalletIInv'
  BY TypeStep, ShapeStep, FlaggedStep, ClaimedStep, StatusStep DEF WalletIInv
<1> QED
  BY WalletInitially, <1>1, PTL DEF WalletSpec

\* The types of the rows, the entities and the histories.
THEOREM WalletTypeCorrect == WalletSpec => []WalletTypeOK
<1>1. WalletIInv => WalletTypeOK
  BY DEF WalletIInv
<1> QED
  BY WalletInvariance, <1>1, PTL

\* One reward card, however many operations there are, unless one cleared the
\* flags under another that was about to set one.
THEOREM OneReward == WalletSpec => []OneRewardUnlessCrossed
<1>1. WalletIInv => OneRewardUnlessCrossed
  BY DEF WalletIInv, FlaggedOnce, Flagged, OneRewardUnlessCrossed
<1> QED
  BY WalletInvariance, <1>1, PTL

\* One row per card, unless two operations added it together or a save put a
\* removed row back.
THEOREM OneRow == WalletSpec => []OneRowUnlessRaced
<1>1. WalletIInv => OneRowUnlessRaced
  BY DEF WalletIInv, ClaimedOnce, Claimed, OneRowUnlessRaced
<1> QED
  BY WalletInvariance, <1>1, PTL

\* The status of a row is the status of its card at MARS, unless a failure or
\* a stale entity separated them.
THEOREM StatusAgrees == WalletSpec => []StatusUnlessUnsettled
<1>1. WalletIInv => StatusUnlessUnsettled
  <2> SUFFICES ASSUME WalletIInv, NEW r \in db, CardOf[r] \notin unsettled,
                      ~ \E o \in Settling : CardOf[row[o]] = CardOf[r]
               PROVE  r \in open <=> CardOf[r] \in active
    BY DEF StatusUnlessUnsettled
  <2>1. CardOf[r] \in Cards
    BY DEF WalletIInv, WalletTypeOK, Cards
  <2> QED
    BY <2>1 DEF WalletIInv, StatusKnown
<1> QED
  BY WalletInvariance, <1>1, PTL
===============================================================================
