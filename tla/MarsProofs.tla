------------------------------ MODULE MarsProofs ------------------------------
(***************************************************************************)
(* Proofs about RateCards and TokenRefresh: what a customer sees and pays  *)
(* for any stores, users and changes at MARS, and what is known of the     *)
(* access token for any number of chains of refreshes.                     *)
(***************************************************************************)
EXTENDS RateCards, TokenRefresh, FiniteSetTheorems, TLAPS

Lookup == {"read", "pull", "store"}

\* The price of their kind of customer, at the store of the card as long as it stays.
Placed(u, s) == IF u \in DigitalBuyer THEN s = Near[u] ELSE roamed \/ s = home
Entitled(u, k) ==
  /\ k.new = (u \in NewCustomer) /\ Placed(u, k.store)
  /\ k.version = IF RateCardVersion = -1 THEN 0 ELSE RateCardVersion

\* The payment type a user asks with, and the one their price is checked with
\* as long as the offers stay.
Asked(u) == IF u \in Terse THEN "absent" ELSE Payment(u, seen[u])
Charged(u, k) ==
  u \notin ApplePayer \/ current[u].number = seen[u].number => k.payment = Payment(u, seen[u])

\* Rates in Redis or on their way are of the key, and not from the future.
Honest ==
  /\ offers <= changes + 1 /\ \A s \in Store : rates[s] <= changes + 1
  /\ \A k \in Key : cache[k] # Nothing => cache[k].key = k /\ cache[k].version <= rates[k.store]
  /\ \A u \in User : pc[u] = "store" =>
       got[u] # Nothing /\ got[u].key = key[u] /\ got[u].version <= rates[key[u].store]
  /\ \A u \in User : shown[u] # Nothing => shown[u].version <= rates[shown[u].key.store]
  /\ ~roamed => cachedHome \subseteq {home}

\* Without a write that overtakes another, no rates pass those a user was shown.
InOrder ==
  ~overtaken =>
    /\ \A k \in Key, u \in User :
         (cache[k] # Nothing /\ shown[u] # Nothing /\ shown[u].key = k)
           => cache[k].version >= shown[u].version
    /\ \A v \in User : pc[v] = "store" =>
         /\ cache[key[v]] # Nothing => got[v].version >= cache[key[v]].version
         /\ \A u \in User : (shown[u] # Nothing /\ shown[u].key = key[v])
              => got[v].version >= shown[u].version

\* What a request is about, from its first await to its last.
Routed(u) ==
  /\ pc[u] \in Lookup \cup {"locations", "askOffers", "items"} => key[u] \in Key
  /\ aim[u] \in {"apple", "check"} => shown[u] # Nothing
  /\ aim[u] = "list" => u \in Lister /\ shown[u] = Nothing
  /\ aim[u] = "apple" => u \in ApplePayer
  /\ aim[u] \in {"list", "apple"} =>
       pc[u] \in Lookup \cup {"locations", "askOffers"} /\ Placed(u, key[u].store)
  /\ pc[u] \in {"locations", "askOffers"} => aim[u] \in {"list", "apple"}
  /\ pc[u] = "items" => aim[u] = "check"
  /\ pc[u] = "home" => u \notin DigitalBuyer /\ aim[u] \in {"show", "check"}
  /\ pc[u] \in Rest \cup {"asked"} => aim[u] = "show"
  /\ pc[u] \in Lookup \cup {"items"} /\ aim[u] \in {"show", "check"} => Entitled(u, key[u])
  /\ pc[u] \in Lookup /\ aim[u] = "show" => key[u].payment = Asked(u)
  /\ pc[u] \in Lookup \cup {"items"} /\ aim[u] = "check" => Charged(u, key[u])

\* Offers are those of the store, and what a check gets is no older than what
\* the user saw.
Offered(u) ==
  /\ seen[u].number <= offers /\ current[u].number <= offers
  /\ seen[u] # NoOffers => Placed(u, seen[u].store)
  /\ current[u] # NoOffers => Placed(u, current[u].store)
  /\ (\/ pc[u] \in Lookup /\ aim[u] \in {"apple", "check"}
      \/ pc[u] = "items" /\ u \in ApplePayer
      \/ pc[u] = "refused") => current[u].number >= seen[u].number

Request(u) == Routed(u) /\ Offered(u)

\* What was shown and what was checked are for the same request.
Compared(u) ==
  /\ shown[u] # Nothing => Entitled(u, shown[u].key) /\ shown[u].key.payment = Asked(u)
  /\ pc[u] = "refused" =>
       /\ shown[u] # Nothing /\ checked[u] # Nothing
       /\ Price(u, checked[u], current[u]) # Price(u, shown[u], seen[u])
       /\ Entitled(u, checked[u].key) /\ Charged(u, checked[u].key)
       /\ ~overtaken /\ checked[u].key = shown[u].key => checked[u].version >= shown[u].version

IInv == TypeOK /\ Honest /\ InOrder /\ \A u \in User : Request(u) /\ Compared(u)

-----------------------------------------------------------------------------
(* Frames *)

Locals == <<pc, aim, key, got, current, seen, shown, checked>>

\* What a step leaves to a user it is not about.
Idle(x) ==
  /\ pc'[x] = pc[x] /\ aim'[x] = aim[x] /\ key'[x] = key[x] /\ got'[x] = got[x]
  /\ current'[x] = current[x] /\ seen'[x] = seen[x]
  /\ shown'[x] = shown[x] /\ checked'[x] = checked[x]

\* Who has asked for nothing, or whose request is lost.
Reset(x) ==
  /\ pc[x] = "idle" /\ aim[x] = "show" /\ current[x] = NoOffers /\ seen[x] = NoOffers
  /\ shown[x] = Nothing /\ checked[x] = Nothing

\* A key that is not in Redis is told from the rates in one, and no offers from some.
LEMMA NothingIsNoCard == \A r \in RateCard : r # Nothing
BY DEF RateCard, Nothing

LEMMA Numbers ==
  /\ Number \subseteq Nat /\ NoOffers.number = 0
  /\ \A o \in Offers : o # NoOffers /\ o.number \in Nat /\ o.number >= 1
BY RateCardsAssumption DEF Number, Offers, NoOffers

\* A key is made of the user as they are.
LEMMA KeysMade ==
  ASSUME NEW u \in User, NEW s \in Store
  PROVE  /\ KeyShown(u, s) \in Key /\ KeyChecked(u, s) \in Key /\ FeeKey(u, s) \in Key
         /\ FeeKey(u, s).store = s
         /\ Placed(u, s) => Entitled(u, KeyShown(u, s)) /\ Entitled(u, KeyChecked(u, s))
         /\ KeyShown(u, s).payment = Asked(u) /\ KeyShown(u, s).store = s
         /\ Charged(u, KeyChecked(u, s)) /\ KeyChecked(u, s).store = s
BY RateCardsAssumption DEF KeyShown, KeyChecked, FeeKey, RateCardKey, Key, Entitled, Asked, Charged,
   Payment

\* Who asks for nothing has nothing to keep in order.
LEMMA Fresh ==
  ASSUME NEW x \in User, Reset(x), offers \in Number
  PROVE  Request(x) /\ Compared(x)
BY Numbers DEF Reset, Request, Routed, Offered, Compared, Lookup, Rest

\* A user is as they were while others act and MARS stands still.
LEMMA IdleKeeps ==
  ASSUME NEW x \in User, Request(x), Compared(x), Idle(x), UNCHANGED mars,
         overtaken => overtaken'
  PROVE  Request(x)' /\ Compared(x)'
<1>1. \A k : (Entitled(x, k)' <=> Entitled(x, k)) /\ (Charged(x, k)' <=> Charged(x, k))
  BY DEF Idle, mars, Entitled, Placed, Charged, Payment
<1>2. Asked(x)' = Asked(x) /\ \A s : Placed(x, s)' <=> Placed(x, s)
  BY DEF Idle, mars, Asked, Payment, Placed
<1>3. Request(x)'
  BY <1>1, <1>2 DEF Idle, mars, Request, Routed, Offered
<1>4. Compared(x)'
  BY <1>1, <1>2 DEF Idle, mars, Compared, Price
<1> QED
  BY <1>3, <1>4

\* The same for all users, when a step is about none of them.
LEMMA RestKeeps ==
  ASSUME \A x \in User : Request(x) /\ Compared(x), UNCHANGED <<mars, overtaken, Locals>>
  PROVE  \A x \in User : (Request(x) /\ Compared(x))'
BY IdleKeeps DEF Idle, Locals

-----------------------------------------------------------------------------
(* The environment *)

\* New rates, a card that roams and an offer that comes or goes count as
\* changes, which is all a request has to know of them.
LEMMA ChangesKeeps ==
  ASSUME IInv, Changes
  PROVE  IInv'
<1> USE DEF IInv
<1>2. /\ changes' = changes + 1 /\ changes' \in 0..Last /\ withApple' = withApple
      /\ roamed' \in BOOLEAN /\ (roamed => roamed') /\ (~roamed' => home' = home) /\ home' \in Store
      /\ offers' \in Nat /\ offers <= offers' /\ offers' <= offers + 1
  <2>1. changes' = changes + 1 /\ changes' \in 0..Last /\ withApple' = withApple
    BY RateCardsAssumption DEF Changes, TypeOK
  <2>2. offers \in Nat
    BY Numbers DEF TypeOK
  <2>3. CASE UNCHANGED <<home, offers, roamed>>
    BY <2>1, <2>2, <2>3 DEF TypeOK
  <2>4. CASE home' \in Store \ {home} /\ roamed' = TRUE /\ UNCHANGED <<rates, offers>>
    BY <2>1, <2>2, <2>4 DEF TypeOK
  <2>5. CASE offers' = offers + 1 /\ UNCHANGED <<rates, home, roamed>>
    BY <2>1, <2>2, <2>5 DEF TypeOK
  <2> QED
    BY <2>3, <2>4, <2>5, <2>1 DEF Changes
<1>n. \A x \in Store : rates[x] \in Nat
  BY Numbers DEF TypeOK
<1>3. rates' \in [Store -> Nat] /\ \A x \in Store : rates[x] <= rates'[x] /\ rates'[x] <= rates[x] + 1
  <2>1. rates \in [Store -> Nat]
    BY <1>n DEF TypeOK
  <2>2. rates' = rates \/ \E s \in Store : rates' = [rates EXCEPT ![s] = @ + 1]
    BY DEF Changes
  <2> QED
    BY <2>1, <2>2
<1>4. UNCHANGED <<cache, cachedHome, overtaken, Locals, faults>>
  BY DEF Changes, redis, Locals
<1>5. TypeOK'
  <2>1. \A x \in Store : rates'[x] \in 1..Last + 1
    BY <1>2, <1>3, RateCardsAssumption DEF TypeOK, Honest, Number
  <2>2. rates' \in [Store -> Number]
    BY <2>1, <1>3 DEF Number
  <2>3. offers' \in Number
    BY <1>2, RateCardsAssumption DEF TypeOK, Honest, Number
  <2> QED
    BY <1>2, <1>4, <2>2, <2>3 DEF TypeOK, Locals
<1>6. Honest'
  <2>1. \A x \in Store : rates'[x] <= changes' + 1
    BY <1>2, <1>3, Numbers DEF Honest, TypeOK
  <2>2. ASSUME NEW k \in Key, cache'[k] # Nothing
        PROVE  cache'[k].key = k /\ cache'[k].version <= rates'[k.store]
    <3>1. cache[k].version \in Nat /\ k.store \in Store /\ cache[k] # Nothing
      BY <1>4, <2>2, Numbers DEF TypeOK, Key, RateCard
    <3>2. cache[k].key = k /\ cache[k].version <= rates[k.store]
      BY <3>1 DEF Honest
    <3> QED
      BY <1>n, <1>3, <1>4, <3>1, <3>2
  <2>3. ASSUME NEW u \in User, pc'[u] = "store"
        PROVE  got'[u] # Nothing /\ got'[u].key = key'[u] /\ got'[u].version <= rates'[key'[u].store]
    <3>1. key[u] \in Key /\ pc[u] = "store" /\ got[u] \in RateCard
      BY <1>4, <2>3 DEF Locals, Request, Routed, Lookup, Honest, TypeOK
    <3>2. key[u].store \in Store /\ got[u].version \in Nat
      BY <3>1, Numbers DEF Key, RateCard
    <3>3. got[u] # Nothing /\ got[u].key = key[u] /\ got[u].version <= rates[key[u].store]
      BY <3>1 DEF Honest
    <3> QED
      BY <1>n, <1>3, <1>4, <3>2, <3>3 DEF Locals
  <2>4. ASSUME NEW u \in User, shown'[u] # Nothing
        PROVE  shown'[u].version <= rates'[shown'[u].key.store]
    <3>1. shown[u] \in RateCard
      BY <1>4, <2>4 DEF TypeOK, Locals
    <3>2. shown[u].key.store \in Store /\ shown[u].version \in Nat
      BY <3>1, Numbers DEF Key, RateCard
    <3>3. shown[u].version <= rates[shown[u].key.store]
      BY <1>4, <2>4 DEF Honest, Locals
    <3> QED
      BY <1>n, <1>3, <1>4, <3>2, <3>3 DEF Locals
  <2>5. ~roamed' => cachedHome' \subseteq {home'}
    BY <1>2, <1>4 DEF Honest
  <2>6. offers' <= changes' + 1
    BY <1>2, Numbers DEF Honest, TypeOK
  <2> QED
    BY <2>1, <2>2, <2>3, <2>4, <2>5, <2>6 DEF Honest
<1>7. InOrder'
  BY <1>4 DEF InOrder, Locals
<1>8. ASSUME NEW x \in User PROVE Request(x)' /\ Compared(x)'
  <2>1. \A k : Entitled(x, k) => Entitled(x, k)'
    BY <1>2 DEF Entitled, Placed
  <2>2. \A b : Placed(x, b) => Placed(x, b)'
    BY <1>2 DEF Placed
  <2>3. Asked(x)' = Asked(x) /\ \A k : Charged(x, k)' <=> Charged(x, k)
    BY <1>2, <1>4 DEF Asked, Charged, Payment, Locals
  <2>4. Routed(x)'
    BY <1>4, <2>1, <2>2, <2>3 DEF Request, Routed, Locals
  <2>5. Offered(x)'
    <3>1. seen[x].number \in Nat /\ current[x].number \in Nat /\ offers \in Nat
      BY Numbers DEF TypeOK
    <3> QED
      BY <1>2, <1>4, <2>2, <3>1 DEF Request, Offered, Locals
  <2>6. Compared(x)'
    BY <1>4, <2>1, <2>3 DEF Compared, Price, Locals
  <2> QED
    BY <2>4, <2>5, <2>6 DEF Request
<1> QED
  BY <1>5, <1>6, <1>7, <1>8

\* The balances in Redis say where the card is, or where it was before it
\* roamed.
LEMMA StoreOfCardKeeps ==
  ASSUME IInv, BalanceMessage \/ ExpireHome
  PROVE  IInv'
<1> USE DEF IInv
<1>1. UNCHANGED <<mars, cache, overtaken, Locals, faults>>
  BY DEF BalanceMessage, ExpireHome, Locals, mars
<1>2. cachedHome' = {} \/ cachedHome' = {home}
  BY DEF BalanceMessage, ExpireHome
<1>3. cachedHome' \subseteq Store /\ Cardinality(cachedHome') <= 1
  <2>1. Cardinality({}) = 0
    BY FS_EmptySet
  <2>2. Cardinality({home}) = 1
    BY FS_Singleton
  <2>3. Cardinality(cachedHome') = 0 \/ Cardinality(cachedHome') = 1
    BY <1>2, <2>1, <2>2, Zenon
  <2>4. Cardinality(cachedHome') <= 1
    BY <2>3
  <2>5. cachedHome' \subseteq Store
    BY <1>2 DEF TypeOK
  <2> QED
    BY <2>4, <2>5
<1>4. TypeOK'
  BY <1>1, <1>3 DEF TypeOK, mars, Locals
<1>5. Honest'
  BY <1>1, <1>2 DEF Honest, mars, Locals
<1>6. InOrder'
  BY <1>1 DEF InOrder, Locals
<1> QED
  BY <1>1, <1>4, <1>5, <1>6, RestKeeps

\* Redis may lose rates at any time.
LEMMA ExpireRatesKeeps ==
  ASSUME IInv, NEW k \in Key, ExpireRates(k)
  PROVE  IInv'
<1> USE DEF IInv
<1>1. UNCHANGED <<mars, cachedHome, overtaken, Locals, faults>>
  BY DEF ExpireRates, Locals, mars
<1>2. cache' \in [Key -> RateCard \cup {Nothing}]
      /\ \A x \in Key : cache'[x] # Nothing => cache'[x] = cache[x]
  BY DEF ExpireRates, TypeOK
<1>4. TypeOK'
  BY <1>1, <1>2 DEF TypeOK, mars, Locals
<1>5. Honest'
  BY <1>1, <1>2 DEF Honest, mars, Locals
<1>6. InOrder'
  <2>1. \A v \in User : pc[v] = "store" => key[v] \in Key
    BY DEF Request, Routed, Lookup
  <2> QED
    BY <1>1, <1>2, <2>1 DEF InOrder, Locals
<1> QED
  BY <1>1, <1>4, <1>5, <1>6, RestKeeps

-----------------------------------------------------------------------------
(* Steps of a user that leave Redis alone *)

\* A step of one user leaves the others where they are.
LEMMA OthersKeep ==
  ASSUME IInv, NEW u \in User, UNCHANGED mars, overtaken => overtaken',
         \A x \in User \ {u} : Idle(x), (Request(u) /\ Compared(u))'
  PROVE  \A x \in User : (Request(x) /\ Compared(x))'
BY IdleKeeps DEF IInv

\* Rates stay honest and in order when no user pulls any or is shown any.
LEMMA QuietKeeps ==
  ASSUME IInv, UNCHANGED <<mars, cache, overtaken>>,
         \A x \in User : pc'[x] = "store" => pc[x] = "store" /\ key'[x] = key[x] /\ got'[x] = got[x],
         \A x \in User : shown'[x] = shown[x] \/ shown'[x] = Nothing,
         ~roamed => cachedHome' \subseteq {home}
  PROVE  Honest' /\ InOrder'
<1>1. Honest'
  BY DEF IInv, Honest, mars
<1>2. InOrder'
  BY DEF IInv, InOrder
<1> QED
  BY <1>1, <1>2

\* The list of offers asks for them, and the fee, at the store of the user.
LEMMA OfferListKeeps ==
  ASSUME IInv, NEW u \in User, OfferList(u)
  PROVE  IInv'
<1> USE DEF IInv
<1>1. UNCHANGED <<mars, redis, got, faults>> /\ pc[u] \in Rest /\ u \in Lister
  BY DEF OfferList
<1>2. PICK s \in Store : Placed(u, s) /\ Needs(u, FeeKey(u, s))
  <2>1. PICK s \in IF u \in DigitalBuyer THEN {Near[u]} ELSE CardStore : Needs(u, FeeKey(u, s))
    BY DEF OfferList
  <2>2. s \in Store /\ Placed(u, s)
    BY RateCardsAssumption DEF CardStore, TypeOK, Honest, Placed
  <2> QED
    BY <2>1, <2>2
<1>3. /\ pc' = [pc EXCEPT ![u] = "locations"] /\ aim' = [aim EXCEPT ![u] = "list"]
      /\ key' = [key EXCEPT ![u] = FeeKey(u, s)]
      /\ current' = [current EXCEPT ![u] = NoOffers] /\ seen' = [seen EXCEPT ![u] = NoOffers]
      /\ shown' = [shown EXCEPT ![u] = Nothing] /\ checked' = [checked EXCEPT ![u] = Nothing]
  BY <1>2 DEF OfferList, Needs, Aims, Goes, Forgets, ForgetsOffers, Gets
<1>4. FeeKey(u, s) \in Key /\ FeeKey(u, s).store = s
  BY KeysMade
<1>5. TypeOK'
  BY <1>1, <1>3, <1>4 DEF TypeOK, mars, redis, Awaits
<1>6. /\ pc'[u] = "locations" /\ aim'[u] = "list" /\ key'[u] = FeeKey(u, s)
      /\ current'[u] = NoOffers /\ seen'[u] = NoOffers /\ shown'[u] = Nothing
      /\ checked'[u] = Nothing
  BY <1>3 DEF TypeOK
<1>7. (Request(u) /\ Compared(u))'
  <2>1. Placed(u, key[u].store)'
    BY <1>1, <1>2, <1>4, <1>6 DEF Placed, mars
  <2>2. Routed(u)'
    BY <1>1, <1>4, <1>6, <2>1 DEF Routed, Rest, Lookup
  <2>3. Offered(u)'
    BY <1>1, <1>6, Numbers DEF Offered, Lookup, TypeOK, mars
  <2>4. Compared(u)'
    BY <1>6 DEF Compared
  <2> QED
    BY <2>2, <2>3, <2>4 DEF Request
<1>8. \A x \in User \ {u} : Idle(x)
  BY <1>1, <1>3 DEF Idle, TypeOK
<1>9. Honest' /\ InOrder'
  BY <1>1, <1>6, <1>8, QuietKeeps DEF Idle, redis, Honest
<1> QED
  BY <1>1, <1>5, <1>7, <1>8, <1>9, OthersKeep DEF redis

\* A customer asks for the rate card of their key, at the store in it.
LEMMA GetRateCardKeeps ==
  ASSUME IInv, NEW u \in User, GetRateCard(u)
  PROVE  IInv'
<1> USE DEF IInv
<1>1. UNCHANGED <<mars, redis, got, seen, faults>> /\ pc[u] \in Rest \cup {"asked"}
  BY DEF GetRateCard, Rest
<1>2. /\ aim' = [aim EXCEPT ![u] = "show"] /\ current' = [current EXCEPT ![u] = NoOffers]
      /\ shown' = [shown EXCEPT ![u] = Nothing] /\ checked' = [checked EXCEPT ![u] = Nothing]
  BY DEF GetRateCard, Aims, Gets, Forgets
<1>3. \/ /\ u \in DigitalBuyer /\ pc' = [pc EXCEPT ![u] = "read"]
         /\ key' = [key EXCEPT ![u] = KeyShown(u, Near[u])]
      \/ u \notin DigitalBuyer /\ pc' = [pc EXCEPT ![u] = "home"] /\ key' = key
  BY DEF GetRateCard, Goes, Needs
<1>4. KeyShown(u, Near[u]) \in Key /\ KeyShown(u, Near[u]).payment = Asked(u)
      /\ (u \in DigitalBuyer => Entitled(u, KeyShown(u, Near[u])))
  BY KeysMade, RateCardsAssumption DEF Placed
<1>5. TypeOK'
  BY <1>1, <1>2, <1>3, <1>4 DEF TypeOK, mars, redis, Awaits
<1>6. /\ aim'[u] = "show" /\ current'[u] = NoOffers /\ shown'[u] = Nothing
      /\ checked'[u] = Nothing /\ seen'[u] = seen[u]
      /\ \/ u \in DigitalBuyer /\ pc'[u] = "read" /\ key'[u] = KeyShown(u, Near[u])
         \/ u \notin DigitalBuyer /\ pc'[u] = "home"
  BY <1>1, <1>2, <1>3 DEF TypeOK
<1>7. (Request(u) /\ Compared(u))'
  <2>1. pc'[u] = "read" => Entitled(u, key[u])' /\ key'[u].payment = Asked(u)'
    BY <1>1, <1>4, <1>6 DEF Entitled, Placed, Asked, Payment, mars
  <2>2. Routed(u)'
    BY <1>4, <1>6, <2>1 DEF Routed, Rest, Lookup
  <2>3. Offered(u)'
    BY <1>1, <1>6, Numbers DEF Request, Offered, Placed, Lookup, TypeOK, mars
  <2>4. Compared(u)'
    BY <1>6 DEF Compared
  <2> QED
    BY <2>2, <2>3, <2>4 DEF Request
<1>8. \A x \in User \ {u} : Idle(x)
  BY <1>1, <1>2, <1>3 DEF TypeOK, Idle
<1>9. Honest' /\ InOrder'
  BY <1>1, <1>6, <1>8, QuietKeeps DEF Idle, redis, Honest
<1> QED
  BY <1>1, <1>5, <1>7, <1>8, <1>9, OthersKeep DEF redis

\* A check of items has the key its customer is charged by, with the offers
\* as they have got them.
LEMMA CheckItemsKeeps ==
  ASSUME IInv, NEW u \in User, NEW s \in Store, CheckItems(u, s), Placed(u, s),
         shown[u] # Nothing, u \in ApplePayer => current[u].number >= seen[u].number,
         UNCHANGED <<mars, current, seen, shown, checked>>
  PROVE  /\ pc' \in [User -> Rest \cup Awaits \cup {"asked"}]
         /\ aim' \in [User -> {"list", "show", "apple", "check"}]
         /\ key' \in [User -> Key \cup {Nothing}]
         /\ pc'[u] = "items" /\ (Request(u) /\ Compared(u))'
         /\ \A x \in User \ {u} : pc'[x] = pc[x] /\ aim'[x] = aim[x] /\ key'[x] = key[x]
<1> USE DEF IInv
<1> DEFINE k == KeyChecked(u, s)
<1>1. k \in Key /\ Entitled(u, k) /\ Charged(u, k)
  BY KeysMade
<1>2. pc' = [pc EXCEPT ![u] = "items"] /\ aim' = [aim EXCEPT ![u] = "check"]
      /\ key' = [key EXCEPT ![u] = k]
  BY DEF CheckItems, Needs, Aims, Goes
<1> HIDE DEF k
<1>3. pc'[u] = "items" /\ aim'[u] = "check" /\ key'[u] = k
  BY <1>2 DEF TypeOK
<1>4. Entitled(u, key[u])' /\ Charged(u, key[u])'
  BY <1>1, <1>3 DEF Entitled, Placed, Charged, Payment, mars
<1>5. Routed(u)'
  BY <1>1, <1>3, <1>4 DEF Routed, Rest, Lookup
<1>6. Offered(u)'
  BY <1>3 DEF Request, Offered, Placed, Lookup, mars
<1>7. Compared(u)'
  BY <1>3 DEF Compared, Entitled, Placed, Asked, Payment, mars
<1> QED
  BY <1>1, <1>2, <1>3, <1>5, <1>6, <1>7 DEF Request, TypeOK, Awaits

\* A purchase goes on to a check at a store the customer is entitled to.
LEMMA BeginCheckKeeps ==
  ASSUME IInv, NEW u \in User, NEW s \in Store, BeginCheck(u, s), Placed(u, s),
         shown[u] # Nothing, UNCHANGED <<mars, current, seen, shown, checked>>
  PROVE  /\ pc' \in [User -> Rest \cup Awaits \cup {"asked"}]
         /\ aim' \in [User -> {"list", "show", "apple", "check"}]
         /\ key' \in [User -> Key \cup {Nothing}]
         /\ pc'[u] \in {"locations", "items"} /\ (Request(u) /\ Compared(u))'
         /\ \A x \in User \ {u} : pc'[x] = pc[x] /\ aim'[x] = aim[x] /\ key'[x] = key[x]
<1> USE DEF IInv
<1>1. CASE u \in ApplePayer
  <2> DEFINE k == FeeKey(u, s)
  <2>1. k \in Key /\ k.store = s
    BY KeysMade
  <2>2. pc' = [pc EXCEPT ![u] = "locations"] /\ aim' = [aim EXCEPT ![u] = "apple"]
        /\ key' = [key EXCEPT ![u] = k]
    BY <1>1 DEF BeginCheck, Needs, Aims, Goes
  <2> HIDE DEF k
  <2>3. pc'[u] = "locations" /\ aim'[u] = "apple" /\ key'[u] = k
    BY <2>2 DEF TypeOK
  <2>4. Placed(u, key[u].store)'
    BY <2>1, <2>3 DEF Placed, mars
  <2>5. Routed(u)'
    BY <1>1, <2>1, <2>3, <2>4 DEF Routed, Rest, Lookup
  <2>6. Offered(u)'
    BY <2>3 DEF Request, Offered, Placed, Lookup, mars
  <2>7. Compared(u)'
    BY <2>3 DEF Compared, Entitled, Placed, Asked, Payment, mars
  <2> QED
    BY <2>1, <2>2, <2>3, <2>5, <2>6, <2>7 DEF Request, TypeOK, Awaits
<1>2. CASE u \notin ApplePayer
  BY <1>2, CheckItemsKeeps DEF BeginCheck
<1> QED
  BY <1>1, <1>2

\* A purchase keeps what was shown until it has been checked.
LEMMA BuyKeeps ==
  ASSUME IInv, NEW u \in User, Buy(u)
  PROVE  IInv'
<1> USE DEF IInv
<1>1. UNCHANGED <<mars, redis, got, current, seen, shown, checked, faults>>
      /\ pc[u] = "shown" /\ shown[u] # Nothing /\ Entitled(u, shown[u].key) /\ shown[u] \in RateCard
  BY DEF Buy, TypeOK, Compared
<1>2. /\ pc' \in [User -> Rest \cup Awaits \cup {"asked"}]
      /\ aim' \in [User -> {"list", "show", "apple", "check"}]
      /\ key' \in [User -> Key \cup {Nothing}]
      /\ pc'[u] \in {"locations", "items", "home"} /\ (Request(u) /\ Compared(u))'
      /\ \A x \in User \ {u} : pc'[x] = pc[x] /\ aim'[x] = aim[x] /\ key'[x] = key[x]
  <2>1. CASE u \in DigitalBuyer
    <3>1. shown[u].key.store \in Store /\ Placed(u, shown[u].key.store)
      BY <1>1 DEF RateCard, Key, Entitled
    <3>2. BeginCheck(u, shown[u].key.store)
      BY <2>1 DEF Buy
    <3> QED
      BY <1>1, <3>1, <3>2, BeginCheckKeeps
  <2>2. CASE u \notin DigitalBuyer
    <3>1. pc' = [pc EXCEPT ![u] = "home"] /\ aim' = [aim EXCEPT ![u] = "check"] /\ key' = key
      BY <2>2 DEF Buy, Goes, Aims
    <3>2. pc'[u] = "home" /\ aim'[u] = "check"
      BY <3>1 DEF TypeOK
    <3>3. Routed(u)'
      BY <1>1, <2>2, <3>2 DEF Routed, Rest, Lookup
    <3>4. Offered(u)'
      BY <1>1, <3>2 DEF Request, Offered, Placed, Lookup, mars
    <3>5. Compared(u)'
      BY <1>1, <3>2 DEF Compared, Entitled, Placed, Asked, Payment, mars
    <3> QED
      BY <3>1, <3>2, <3>3, <3>4, <3>5 DEF Request, TypeOK, Awaits
  <2> QED
    BY <2>1, <2>2
<1>3. TypeOK'
  BY <1>1, <1>2 DEF TypeOK, mars, redis
<1>4. \A x \in User \ {u} : Idle(x)
  BY <1>1, <1>2 DEF Idle
<1>5. Honest' /\ InOrder'
  BY <1>1, <1>2, <1>4, QuietKeeps DEF Idle, redis, Honest
<1> QED
  BY <1>1, <1>2, <1>3, <1>4, <1>5, OthersKeep DEF redis

\* The store of a card goes into the key of the rates it pays.
LEMMA CardBalanceKeeps ==
  ASSUME IInv, NEW u \in User, CardBalance(u)
  PROVE  IInv'
<1> USE DEF IInv
<1>1. UNCHANGED <<mars, cache, overtaken, got, current, seen, shown, checked, faults>>
      /\ pc[u] = "home" /\ u \notin DigitalBuyer
  BY DEF CardBalance, Request, Routed
<1>2. PICK s \in Store : Home(u, s) /\ cachedHome' = {s} /\ (~roamed => s = home)
  <2>1. PICK s \in CardStore : Home(u, s) /\ cachedHome' = {s}
    BY DEF CardBalance
  <2>2. s \in Store /\ (~roamed => s = home)
    BY DEF CardStore, TypeOK, Honest
  <2> QED
    BY <2>1, <2>2
<1>3. Placed(u, s)
  BY <1>1, <1>2 DEF Placed
<1>4. /\ pc' \in [User -> Rest \cup Awaits \cup {"asked"}]
      /\ aim' \in [User -> {"list", "show", "apple", "check"}]
      /\ key' \in [User -> Key \cup {Nothing}]
      /\ pc'[u] \in {"locations", "items", "read"} /\ (Request(u) /\ Compared(u))'
      /\ \A x \in User \ {u} : pc'[x] = pc[x] /\ aim'[x] = aim[x] /\ key'[x] = key[x]
  <2>1. CASE aim[u] = "show"
    <3> DEFINE k == KeyShown(u, s)
    <3>1. pc' = [pc EXCEPT ![u] = "read"] /\ aim' = aim /\ key' = [key EXCEPT ![u] = k]
      BY <1>2, <2>1 DEF Home, Needs, Goes
    <3>2. k \in Key /\ Entitled(u, k) /\ k.payment = Asked(u)
      BY <1>3, KeysMade
    <3> HIDE DEF k
    <3>3. pc'[u] = "read" /\ aim'[u] = "show" /\ key'[u] = k
      BY <2>1, <3>1 DEF TypeOK
    <3>4. Entitled(u, key[u])' /\ key'[u].payment = Asked(u)'
      BY <1>1, <3>2, <3>3 DEF Entitled, Placed, Asked, Payment, mars
    <3>5. Routed(u)'
      BY <3>2, <3>3, <3>4 DEF Routed, Rest, Lookup
    <3>6. Offered(u)'
      BY <1>1, <3>3 DEF Request, Offered, Placed, Lookup, mars
    <3>7. Compared(u)'
      BY <1>1, <3>3 DEF Compared, Entitled, Placed, Asked, Payment, mars
    <3> QED
      BY <3>1, <3>2, <3>3, <3>5, <3>6, <3>7 DEF Request, TypeOK, Awaits
  <2>2. CASE aim[u] = "check"
    <3>1. BeginCheck(u, s) /\ shown[u] # Nothing
      BY <1>2, <2>2 DEF Home, Request, Routed
    <3> QED
      BY <1>1, <1>3, <3>1, BeginCheckKeeps
  <2> QED
    BY <1>1, <2>1, <2>2 DEF Request, Routed
<1>5. TypeOK'
  <2>1. Cardinality({s}) = 1
    BY FS_Singleton
  <2>2. cachedHome' \subseteq Store /\ Cardinality(cachedHome') = 1
    BY <1>2, <2>1
  <2> QED
    BY <1>1, <1>4, <2>2 DEF TypeOK, mars
<1>6. \A x \in User \ {u} : Idle(x)
  BY <1>1, <1>4 DEF Idle
<1>7. Honest' /\ InOrder'
  BY <1>1, <1>2, <1>4, <1>6, QuietKeeps DEF Idle
<1> QED
  BY <1>1, <1>4, <1>5, <1>6, <1>7, OthersKeep

\* The offers a request gets are as new as can be.
LEMMA OffersKeeps ==
  ASSUME IInv, NEW u \in User, StateFromStoreId(u) \/ AskOffers(u)
  PROVE  IInv'
<1> USE DEF IInv
<1> DEFINE o == [store |-> key[u].store, number |-> offers]
<1>1. UNCHANGED <<mars, redis, aim, key, got, seen, shown, checked, faults>>
      /\ pc[u] \in {"locations", "askOffers", "items"} /\ key[u] \in Key
      /\ Placed(u, key[u].store) /\ aim[u] \in {"list", "apple", "check"}
  BY DEF StateFromStoreId, AskOffers, Request, Routed, Lookup, Entitled
<1>2. o \in Offers /\ o.store = key[u].store /\ o.number = offers
  BY <1>1 DEF Offers, Key, TypeOK
<1>3. \/ pc[u] = "locations" /\ pc' = [pc EXCEPT ![u] = "askOffers"] /\ current' = current
      \/ /\ pc[u] \in {"askOffers", "items"} /\ pc' = [pc EXCEPT ![u] = "read"]
         /\ current' = [current EXCEPT ![u] = o]
  BY DEF StateFromStoreId, AskOffers, Goes, Gets
<1> HIDE DEF o
<1>4. TypeOK'
  BY <1>1, <1>2, <1>3 DEF TypeOK, mars, redis, Awaits
<1>5. (Request(u) /\ Compared(u))'
  <2>1. \/ pc[u] = "locations" /\ pc'[u] = "askOffers" /\ current'[u] = current[u]
        \/ pc[u] \in {"askOffers", "items"} /\ pc'[u] = "read" /\ current'[u] = o
    BY <1>3 DEF TypeOK
  <2>2. /\ seen[u].number \in Nat /\ current[u].number \in Nat /\ offers \in Nat
        /\ offers >= current[u].number /\ offers >= seen[u].number
    BY Numbers DEF TypeOK, Request, Offered
  <2>3. Placed(u, key[u].store)'
    BY <1>1 DEF Placed, mars
  <2>4. pc[u] = "items" => aim[u] = "check" /\ Entitled(u, key[u])' /\ Charged(u, key[u])'
    <3> SUFFICES ASSUME pc[u] = "items"
                 PROVE  aim[u] = "check" /\ Entitled(u, key[u])' /\ Charged(u, key[u])'
      OBVIOUS
    <3>1. aim[u] = "check" /\ Entitled(u, key[u]) /\ Charged(u, key[u])
          /\ (u \in ApplePayer => current[u].number >= seen[u].number)
      BY DEF Request, Routed, Offered
    <3>2. Entitled(u, key[u])'
      BY <1>1, <3>1 DEF Entitled, Placed, mars
    <3>3. Charged(u, key[u])'
      BY <1>1, <1>2, <2>1, <2>2, <3>1 DEF Charged, Payment, mars
    <3> QED
      BY <3>1, <3>2, <3>3
  <2>5. Routed(u)'
    BY <1>1, <2>1, <2>3, <2>4 DEF Request, Routed, Rest, Lookup
  <2>6. Offered(u)'
    BY <1>1, <1>2, <2>1, <2>2, <2>3 DEF Request, Offered, Placed, Lookup, mars
  <2>7. Compared(u)'
    BY <1>1, <2>1 DEF Compared, Entitled, Placed, Asked, Payment, mars
  <2> QED
    BY <2>5, <2>6, <2>7 DEF Request
<1>6. \A x \in User \ {u} : Idle(x)
  BY <1>1, <1>3 DEF Idle, TypeOK
<1>7. Honest' /\ InOrder'
  <2>1. pc'[u] # "store"
    BY <1>3 DEF TypeOK
  <2> QED
    BY <1>1, <1>6, <2>1, QuietKeeps DEF Idle, redis, Honest
<1> QED
  BY <1>1, <1>4, <1>5, <1>6, <1>7, OthersKeep DEF redis

-----------------------------------------------------------------------------
(* The lookup *)

\* Rates r of the key of u, no older than any a user was shown, go to Redis or
\* come from it, and perhaps to u.
LEMMA ShownKeeps ==
  ASSUME IInv, NEW u \in User, NEW r \in RateCard, pc[u] \in Lookup, r.key = key[u],
         r.version <= rates[key[u].store],
         UNCHANGED <<mars, cachedHome>>, cache' = [cache EXCEPT ![key[u]] = r],
         overtaken => overtaken',
         \A x \in User : \/ shown'[x] = shown[x]
                         \/ shown'[x] = Nothing
                         \/ shown'[x] = r,
         \A x \in User : pc'[x] = "store" => pc[x] = "store" /\ key'[x] = key[x] /\ got'[x] = got[x],
         ~overtaken' =>
           /\ \A x \in User : (shown[x] # Nothing /\ shown[x].key = key[u])
                => r.version >= shown[x].version
           /\ \A v \in User : (pc'[v] = "store" /\ key[v] = key[u]) => got[v].version >= r.version
  PROVE  Honest' /\ InOrder'
<1> USE DEF IInv
<1>1. key[u] \in Key /\ r # Nothing /\ r.version \in Nat
  BY Numbers, NothingIsNoCard DEF Request, Routed, RateCard
<1>2. \A k \in Key : cache'[k] = IF k = key[u] THEN r ELSE cache[k]
  BY <1>1 DEF TypeOK
<1>3. Honest'
  BY <1>1, <1>2 DEF Honest, mars
<1>4. ASSUME ~overtaken', NEW k \in Key, NEW x \in User,
             cache'[k] # Nothing, shown'[x] # Nothing, shown'[x].key = k
      PROVE  cache'[k].version >= shown'[x].version
  <2>1. CASE shown'[x] = r
    BY <1>1, <1>2, <1>4, <2>1
  <2>2. CASE shown'[x] = shown[x] /\ k = key[u]
    BY <1>2, <1>4, <2>2
  <2>3. CASE shown'[x] = shown[x] /\ k # key[u]
    BY <1>2, <1>4, <2>3 DEF InOrder
  <2> QED
    BY <1>4, <2>1, <2>2, <2>3
<1>5. ASSUME ~overtaken', NEW v \in User, pc'[v] = "store"
      PROVE  /\ cache'[key'[v]] # Nothing => got'[v].version >= cache'[key'[v]].version
             /\ \A x \in User : (shown'[x] # Nothing /\ shown'[x].key = key'[v])
                  => got'[v].version >= shown'[x].version
  <2>1. pc[v] = "store" /\ key'[v] = key[v] /\ got'[v] = got[v] /\ key[v] \in Key
    BY <1>5 DEF Request, Routed, Lookup
  <2>2. cache'[key[v]] # Nothing => got[v].version >= cache'[key[v]].version
    BY <1>2, <1>5, <2>1 DEF InOrder
  <2>3. ASSUME NEW x \in User, shown'[x] # Nothing, shown'[x].key = key[v]
        PROVE  got[v].version >= shown'[x].version
    <3>1. CASE shown'[x] = r
      BY <1>5, <2>1, <2>3, <3>1
    <3>2. CASE shown'[x] = shown[x]
      BY <1>5, <2>1, <2>3, <3>2 DEF InOrder
    <3> QED
      BY <2>3, <3>1, <3>2
  <2> QED
    BY <2>1, <2>2, <2>3
<1>6. InOrder'
  BY <1>4, <1>5 DEF InOrder
<1> QED
  BY <1>3, <1>6

\* What comes of a rate card of the key of a user.
LEMMA FoundKeeps ==
  ASSUME IInv, NEW u \in User, NEW r \in RateCard, pc[u] \in {"read", "store"}, Found(u, r),
         r.key = key[u], UNCHANGED mars, overtaken => overtaken',
         ~overtaken' => ((shown[u] # Nothing /\ shown[u].key = key[u]) => r.version >= shown[u].version)
  PROVE  /\ pc' \in [User -> Rest \cup Awaits \cup {"asked"}]
         /\ aim' \in [User -> {"list", "show", "apple", "check"}]
         /\ key' \in [User -> Key \cup {Nothing}]
         /\ current' \in [User -> Offers \cup {NoOffers}]
         /\ seen' \in [User -> Offers \cup {NoOffers}]
         /\ shown' \in [User -> RateCard \cup {Nothing}]
         /\ checked' \in [User -> RateCard \cup {Nothing}]
         /\ pc'[u] = "shown" => shown'[u] # Nothing
         /\ pc'[u] # "store" /\ (shown'[u] = shown[u] \/ shown'[u] = Nothing \/ shown'[u] = r)
         /\ \A x \in User \ {u} :
              /\ pc'[x] = pc[x] /\ aim'[x] = aim[x] /\ key'[x] = key[x]
              /\ current'[x] = current[x] /\ seen'[x] = seen[x]
              /\ shown'[x] = shown[x] /\ checked'[x] = checked[x]
         /\ (Request(u) /\ Compared(u))'
<1> USE DEF IInv
<1>1. r # Nothing /\ key[u] \in Key /\ pc[u] \in Lookup
  BY NothingIsNoCard DEF Request, Routed, Lookup
<1>2. /\ seen[u].number \in Nat /\ current[u].number \in Nat /\ offers \in Nat
      /\ offers >= current[u].number /\ offers >= seen[u].number /\ NoOffers.number = 0
  BY Numbers DEF TypeOK, Request, Offered
<1>3. CASE aim[u] = "list"
  <2>1. pc' = [pc EXCEPT ![u] = "asked"] /\ aim' = [aim EXCEPT ![u] = "show"]
        /\ key' = [key EXCEPT ![u] = Nothing] /\ UNCHANGED <<shown, checked>>
        /\ current' = [current EXCEPT ![u] = NoOffers] /\ seen' = [seen EXCEPT ![u] = current[u]]
    BY <1>3 DEF Found, Listed, Goes, Aims, Needs, Gets
  <2>2. pc'[u] = "asked" /\ aim'[u] = "show" /\ current'[u] = NoOffers /\ seen'[u] = current[u]
    BY <2>1 DEF TypeOK
  <2>3. Routed(u)'
    BY <2>2 DEF Routed, Rest, Lookup
  <2>4. Offered(u)'
    BY <1>2, <2>2 DEF Request, Offered, Placed, Lookup, mars
  <2>5. Compared(u)'
    BY <1>1, <1>3, <2>1, <2>2 DEF Request, Routed, Compared
  <2> QED
    BY <2>1, <2>2, <2>3, <2>4, <2>5 DEF Request, TypeOK
<1>4. CASE aim[u] = "show"
  <2>1. pc' = [pc EXCEPT ![u] = "shown"] /\ shown' = [shown EXCEPT ![u] = r]
        /\ key' = [key EXCEPT ![u] = Nothing] /\ UNCHANGED <<aim, current, seen, checked>>
    BY <1>4 DEF Found, PostProcessRateCard, Goes, Needs
  <2>2. pc'[u] = "shown" /\ aim'[u] = "show" /\ shown'[u] = r /\ seen'[u] = seen[u]
        /\ current'[u] = current[u]
    BY <1>4, <2>1 DEF TypeOK
  <2>3. Entitled(u, r.key) /\ r.key.payment = Asked(u)
    BY <1>1, <1>4 DEF Request, Routed
  <2>4. Routed(u)'
    BY <2>2 DEF Routed, Rest, Lookup
  <2>5. Offered(u)'
    BY <2>2 DEF Request, Offered, Placed, Lookup, mars
  <2>6. Compared(u)'
    BY <1>1, <2>2, <2>3 DEF Compared, Entitled, Placed, Asked, Payment, mars
  <2> QED
    BY <1>1, <2>1, <2>2, <2>4, <2>5, <2>6 DEF Request, TypeOK, Rest
<1>5. CASE aim[u] = "apple"
  <2>1. CheckItems(u, key[u].store) /\ UNCHANGED <<current, seen, shown, checked>>
    BY <1>5 DEF Found
  <2>2. key[u].store \in Store /\ Placed(u, key[u].store) /\ shown[u] # Nothing
        /\ current[u].number >= seen[u].number
    BY <1>1, <1>5 DEF Request, Routed, Offered, Key
  <2>3. /\ pc' \in [User -> Rest \cup Awaits \cup {"asked"}]
        /\ aim' \in [User -> {"list", "show", "apple", "check"}]
        /\ key' \in [User -> Key \cup {Nothing}]
        /\ pc'[u] = "items" /\ (Request(u) /\ Compared(u))'
        /\ \A x \in User \ {u} : pc'[x] = pc[x] /\ aim'[x] = aim[x] /\ key'[x] = key[x]
    BY <2>1, <2>2, CheckItemsKeeps
  <2> QED
    BY <2>1, <2>3 DEF TypeOK
<1>6. CASE aim[u] = "check"
  <2>1. aim' = [aim EXCEPT ![u] = "show"] /\ key' = [key EXCEPT ![u] = Nothing]
    BY <1>6 DEF Found, VerifyDollarsPaid, Aims, Needs
  <2>2. \/ /\ pc' = [pc EXCEPT ![u] = "paid"]
           /\ shown' = [shown EXCEPT ![u] = Nothing] /\ checked' = [checked EXCEPT ![u] = Nothing]
           /\ current' = [current EXCEPT ![u] = NoOffers] /\ seen' = [seen EXCEPT ![u] = NoOffers]
        \/ /\ Price(u, r, current[u]) # Price(u, shown[u], seen[u])
           /\ pc' = [pc EXCEPT ![u] = "refused"]
           /\ checked' = [checked EXCEPT ![u] = r] /\ UNCHANGED <<shown, current, seen>>
    BY <1>6 DEF Found, VerifyDollarsPaid, Goes, Forgets, ForgetsOffers, Gets
  <2>3. Entitled(u, r.key) /\ Charged(u, r.key) /\ shown[u] # Nothing
        /\ current[u].number >= seen[u].number
    BY <1>1, <1>6 DEF Request, Routed, Offered
  <2>4. CASE /\ pc' = [pc EXCEPT ![u] = "paid"]
             /\ shown' = [shown EXCEPT ![u] = Nothing] /\ checked' = [checked EXCEPT ![u] = Nothing]
             /\ current' = [current EXCEPT ![u] = NoOffers] /\ seen' = [seen EXCEPT ![u] = NoOffers]
    <3>1. pc'[u] = "paid" /\ aim'[u] = "show" /\ shown'[u] = Nothing /\ current'[u] = NoOffers
          /\ seen'[u] = NoOffers
      BY <2>1, <2>4 DEF TypeOK
    <3>2. Routed(u)'
      BY <3>1 DEF Routed, Rest, Lookup
    <3>3. Offered(u)'
      BY <1>2, <3>1 DEF Offered, Lookup, mars
    <3>4. Compared(u)'
      BY <3>1 DEF Compared
    <3> QED
      BY <2>1, <2>4, <3>1, <3>2, <3>3, <3>4 DEF Request, TypeOK, Rest
  <2>5. CASE /\ Price(u, r, current[u]) # Price(u, shown[u], seen[u])
             /\ pc' = [pc EXCEPT ![u] = "refused"]
             /\ checked' = [checked EXCEPT ![u] = r] /\ UNCHANGED <<shown, current, seen>>
    <3>1. pc'[u] = "refused" /\ aim'[u] = "show" /\ checked'[u] = r
      BY <2>1, <2>5 DEF TypeOK
    <3>2. Routed(u)'
      BY <3>1 DEF Routed, Rest, Lookup
    <3>3. Offered(u)'
      BY <2>3, <2>5, <3>1 DEF Request, Offered, Placed, Lookup, mars
    <3>4. Compared(u)'
      <4>1. (shown[u] # Nothing => Entitled(u, shown[u].key) /\ shown[u].key.payment = Asked(u))'
        BY <2>5 DEF Compared, Entitled, Placed, Asked, Payment, mars
      <4>2. Entitled(u, checked[u].key)' /\ Charged(u, checked[u].key)'
        BY <2>3, <2>5, <3>1 DEF Entitled, Placed, Charged, Payment, mars
      <4>3. (Price(u, checked[u], current[u]) # Price(u, shown[u], seen[u]))'
        BY <2>5, <3>1 DEF Price
      <4>4. (shown[u] # Nothing /\ checked[u] # Nothing)'
        BY <1>1, <2>3, <2>5, <3>1
      <4>5. (~overtaken /\ checked[u].key = shown[u].key => checked[u].version >= shown[u].version)'
        BY <2>3, <2>5, <3>1
      <4> QED
        BY <4>1, <4>2, <4>3, <4>4, <4>5 DEF Compared
    <3> QED
      BY <2>1, <2>5, <3>1, <3>2, <3>3, <3>4 DEF Request, TypeOK, Rest
  <2> QED
    BY <2>2, <2>4, <2>5
<1> QED
  BY <1>3, <1>4, <1>5, <1>6 DEF TypeOK

\* Rates found in Redis are at least as new as those anyone was shown, or a
\* write overtook another.
LEMMA ReadRatesKeeps ==
  ASSUME IInv, NEW u \in User, ReadRates(u)
  PROVE  IInv'
<1> USE DEF IInv
<1> DEFINE r == cache[key[u]]
<1>1. UNCHANGED <<mars, redis, got, faults>> /\ pc[u] = "read" /\ key[u] \in Key
  BY DEF ReadRates, Request, Routed, Lookup
<1>2. CASE r # Nothing
  <2>1. Found(u, r) /\ r \in RateCard /\ r.key = key[u] /\ r.version <= rates[key[u].store]
    BY <1>1, <1>2 DEF ReadRates, TypeOK, Honest
  <2>2. cache' = [cache EXCEPT ![key[u]] = r]
    BY <1>1 DEF TypeOK, redis
  <2>3. ~overtaken' =>
           /\ \A x \in User : (shown[x] # Nothing /\ shown[x].key = key[u])
                => r.version >= shown[x].version
           /\ \A v \in User : (pc[v] = "store" /\ key[v] = key[u]) => got[v].version >= r.version
    BY <1>1, <1>2 DEF InOrder, redis
  <2> HIDE DEF r
  <2>4. /\ pc' \in [User -> Rest \cup Awaits \cup {"asked"}]
        /\ aim' \in [User -> {"list", "show", "apple", "check"}]
        /\ key' \in [User -> Key \cup {Nothing}]
        /\ current' \in [User -> Offers \cup {NoOffers}]
        /\ seen' \in [User -> Offers \cup {NoOffers}]
        /\ shown' \in [User -> RateCard \cup {Nothing}]
        /\ checked' \in [User -> RateCard \cup {Nothing}]
        /\ pc'[u] = "shown" => shown'[u] # Nothing
        /\ pc'[u] # "store" /\ (shown'[u] = shown[u] \/ shown'[u] = Nothing \/ shown'[u] = r)
        /\ \A x \in User \ {u} :
             /\ pc'[x] = pc[x] /\ aim'[x] = aim[x] /\ key'[x] = key[x]
             /\ current'[x] = current[x] /\ seen'[x] = seen[x]
             /\ shown'[x] = shown[x] /\ checked'[x] = checked[x]
        /\ (Request(u) /\ Compared(u))'
    BY <1>1, <2>1, <2>3, FoundKeeps DEF redis
  <2>5. TypeOK'
    BY <1>1, <2>4 DEF TypeOK, mars, redis
  <2>f. /\ \A x \in User : shown'[x] = shown[x] \/ shown'[x] = Nothing \/ shown'[x] = r
        /\ \A x \in User : pc'[x] = "store" => pc[x] = "store" /\ key'[x] = key[x] /\ got'[x] = got[x]
    BY <1>1, <2>4
  <2>g. ~overtaken' => \A v \in User : (pc'[v] = "store" /\ key[v] = key[u])
          => got[v].version >= r.version
    BY <2>3, <2>f
  <2>h. UNCHANGED <<mars, cachedHome, overtaken>> /\ pc[u] \in Lookup
    BY <1>1 DEF redis, Lookup
  <2>6. Honest' /\ InOrder'
    BY <2>1, <2>2, <2>3, <2>f, <2>g, <2>h, ShownKeeps
  <2>7. \A x \in User \ {u} : Idle(x)
    BY <1>1, <2>4 DEF Idle
  <2> QED
    BY <1>1, <2>4, <2>5, <2>6, <2>7, OthersKeep DEF redis
<1>3. CASE r = Nothing
  <2>1. pc' = [pc EXCEPT ![u] = "pull"] /\ UNCHANGED <<aim, key, current, seen, shown, checked>>
    BY <1>3 DEF ReadRates, Goes
  <2>2. TypeOK'
    BY <1>1, <2>1 DEF TypeOK, mars, redis, Awaits
  <2>3. pc'[u] = "pull"
    BY <2>1 DEF TypeOK
  <2>4. (Request(u) /\ Compared(u))'
    BY <1>1, <2>1, <2>3 DEF Request, Routed, Offered, Compared, Rest, Lookup,
       Entitled, Placed, Asked, Charged, Payment, Price, mars
  <2>5. \A x \in User \ {u} : Idle(x)
    BY <1>1, <2>1 DEF Idle, TypeOK
  <2>6. Honest' /\ InOrder'
    BY <1>1, <2>1, <2>3, <2>5, QuietKeeps DEF Idle, redis, Honest
  <2> QED
    BY <1>1, <2>2, <2>4, <2>5, <2>6, OthersKeep DEF redis
<1> QED
  BY <1>2, <1>3

\* Rates that come from MARS are the newest there are.
LEMMA PullRatesKeeps ==
  ASSUME IInv, NEW u \in User, PullRates(u)
  PROVE  IInv'
<1> USE DEF IInv
<1> DEFINE r == [key |-> key[u], version |-> rates[key[u].store]]
<1>1. UNCHANGED <<mars, redis, aim, key, current, seen, shown, checked, faults>>
      /\ pc[u] = "pull" /\ key[u] \in Key
      /\ pc' = [pc EXCEPT ![u] = "store"] /\ got' = [got EXCEPT ![u] = r]
  BY DEF PullRates, Request, Routed, Lookup, Goes
<1>2. r \in RateCard /\ r.key = key[u] /\ r.version = rates[key[u].store] /\ r.version \in Nat
  BY <1>1, Numbers DEF RateCard, Key, TypeOK
<1> HIDE DEF r
<1>3. r # Nothing
  BY <1>2, NothingIsNoCard
<1>4. pc'[u] = "store" /\ got'[u] = r /\ \A x \in User \ {u} : pc'[x] = pc[x] /\ got'[x] = got[x]
  BY <1>1 DEF TypeOK
<1>5. TypeOK'
  BY <1>1, <1>2 DEF TypeOK, mars, redis, Awaits
<1>6. (Request(u) /\ Compared(u))'
  BY <1>1, <1>4 DEF Request, Routed, Offered, Compared, Rest, Lookup,
       Entitled, Placed, Asked, Charged, Payment, Price, mars
<1>7. \A x \in User \ {u} : Idle(x)
  BY <1>1, <1>4 DEF Idle
<1>8. Honest'
  BY <1>1, <1>2, <1>3, <1>4 DEF Honest, mars, redis
<1>9. InOrder'
  <2>1. /\ cache[key[u]] # Nothing => r.version >= cache[key[u]].version
        /\ \A x \in User : (shown[x] # Nothing /\ shown[x].key = key[u])
             => r.version >= shown[x].version
    <3>1. \A x \in User : shown[x] # Nothing => shown[x].version \in Nat
      BY Numbers DEF TypeOK, RateCard
    <3>2. cache[key[u]] # Nothing => cache[key[u]].version \in Nat
      BY <1>1, Numbers DEF TypeOK, RateCard
    <3> QED
      BY <1>1, <1>2, <3>1, <3>2 DEF Honest
  <2> QED
    BY <1>1, <1>4, <2>1 DEF InOrder, redis
<1> QED
  BY <1>1, <1>5, <1>6, <1>7, <1>8, <1>9, OthersKeep DEF redis

\* What a user has pulled is stored, and the user leaves the store.
LEMMA StoredKeeps ==
  ASSUME IInv, NEW u \in User, pc[u] = "store", Stored(u)
  PROVE  /\ got[u] \in RateCard /\ got[u].key = key[u] /\ key[u] \in Key
         /\ got[u].version <= rates[key[u].store]
         /\ cache' = [cache EXCEPT ![key[u]] = got[u]]
         /\ cache' \in [Key -> RateCard \cup {Nothing}]
         /\ got' \in [User -> RateCard \cup {Nothing}] /\ overtaken' \in BOOLEAN
         /\ overtaken => overtaken'
         /\ \A x \in User \ {u} : got'[x] = got[x]
         /\ ~overtaken' =>
              /\ \A x \in User : (shown[x] # Nothing /\ shown[x].key = key[u])
                   => got[u].version >= shown[x].version
              /\ \A v \in User : (pc[v] = "store" /\ key[v] = key[u])
                   => got[v].version >= got[u].version
<1> USE DEF IInv
<1>1. got[u] \in RateCard /\ got[u].key = key[u] /\ key[u] \in Key
      /\ got[u].version <= rates[key[u].store]
  BY DEF Honest, TypeOK, Request, Routed, Lookup
<1>2. cache' = [cache EXCEPT ![key[u]] = got[u]] /\ got' = [got EXCEPT ![u] = Nothing]
  BY DEF Stored
<1>3. overtaken' \in BOOLEAN /\ (overtaken => overtaken')
  BY DEF Stored, TypeOK
<1>4. ASSUME ~overtaken'
      PROVE  /\ ~overtaken
             /\ \A v \in User : (pc[v] = "store" /\ key[v] = key[u])
                  => ~(got[v].version < got[u].version)
  BY <1>4 DEF Stored
<1>5. \A v \in User : pc[v] = "store" => got[v].version \in Nat
  BY Numbers DEF Honest, TypeOK, RateCard
<1>6. ~overtaken' =>
        /\ \A x \in User : (shown[x] # Nothing /\ shown[x].key = key[u])
             => got[u].version >= shown[x].version
        /\ \A v \in User : (pc[v] = "store" /\ key[v] = key[u])
             => got[v].version >= got[u].version
  BY <1>4, <1>5 DEF InOrder
<1> QED
  BY <1>1, <1>2, <1>3, <1>6 DEF TypeOK

\* Rates that are pulled are stored before they are shown.
LEMMA StoreRatesKeeps ==
  ASSUME IInv, NEW u \in User, StoreRates(u)
  PROVE  IInv'
<1> USE DEF IInv
<1> DEFINE r == got[u]
<1>1. UNCHANGED <<mars, cachedHome, faults>> /\ pc[u] = "store" /\ Stored(u) /\ Found(u, r)
  BY DEF StoreRates
<1>2. /\ r \in RateCard /\ r.key = key[u] /\ key[u] \in Key
      /\ r.version <= rates[key[u].store]
      /\ cache' = [cache EXCEPT ![key[u]] = r]
      /\ cache' \in [Key -> RateCard \cup {Nothing}]
      /\ got' \in [User -> RateCard \cup {Nothing}] /\ overtaken' \in BOOLEAN
      /\ overtaken => overtaken'
      /\ \A x \in User \ {u} : got'[x] = got[x]
      /\ ~overtaken' =>
           /\ \A x \in User : (shown[x] # Nothing /\ shown[x].key = key[u])
                => r.version >= shown[x].version
           /\ \A v \in User : (pc[v] = "store" /\ key[v] = key[u])
                => got[v].version >= r.version
  BY <1>1, StoredKeeps
<1> HIDE DEF r
<1>3. /\ pc' \in [User -> Rest \cup Awaits \cup {"asked"}]
      /\ aim' \in [User -> {"list", "show", "apple", "check"}]
      /\ key' \in [User -> Key \cup {Nothing}]
      /\ current' \in [User -> Offers \cup {NoOffers}]
      /\ seen' \in [User -> Offers \cup {NoOffers}]
      /\ shown' \in [User -> RateCard \cup {Nothing}]
      /\ checked' \in [User -> RateCard \cup {Nothing}]
      /\ pc'[u] = "shown" => shown'[u] # Nothing
      /\ pc'[u] # "store" /\ (shown'[u] = shown[u] \/ shown'[u] = Nothing \/ shown'[u] = r)
      /\ \A x \in User \ {u} :
           /\ pc'[x] = pc[x] /\ aim'[x] = aim[x] /\ key'[x] = key[x]
           /\ current'[x] = current[x] /\ seen'[x] = seen[x]
           /\ shown'[x] = shown[x] /\ checked'[x] = checked[x]
      /\ (Request(u) /\ Compared(u))'
  BY <1>1, <1>2, FoundKeeps
<1>4. TypeOK'
  BY <1>1, <1>2, <1>3 DEF TypeOK, mars
<1>f. /\ \A x \in User : shown'[x] = shown[x] \/ shown'[x] = Nothing \/ shown'[x] = r
      /\ \A x \in User : pc'[x] = "store" => pc[x] = "store" /\ key'[x] = key[x] /\ got'[x] = got[x]
  BY <1>2, <1>3
<1>g. ~overtaken' => \A v \in User : (pc'[v] = "store" /\ key[v] = key[u])
        => got[v].version >= r.version
  BY <1>2, <1>f
<1>h. pc[u] \in Lookup
  BY <1>1 DEF Lookup
<1>5. Honest' /\ InOrder'
  BY <1>1, <1>2, <1>f, <1>g, <1>h, ShownKeeps
<1>6. \A x \in User \ {u} : Idle(x)
  BY <1>2, <1>3 DEF Idle
<1> QED
  BY <1>1, <1>2, <1>3, <1>4, <1>5, <1>6, OthersKeep

-----------------------------------------------------------------------------
(* Failures *)

\* A call that fails ends its request; the write of rates may have happened all
\* the same.
LEMMA FailKeeps ==
  ASSUME IInv, NEW u \in User, Fail(u)
  PROVE  IInv'
<1> USE DEF IInv
<1>1. /\ UNCHANGED <<mars, cachedHome>> /\ faults' \in 0..Faults /\ pc[u] \in Awaits
      /\ pc' = [pc EXCEPT ![u] = "idle"] /\ aim' = [aim EXCEPT ![u] = "show"]
      /\ key' = [key EXCEPT ![u] = Nothing]
      /\ current' = [current EXCEPT ![u] = NoOffers] /\ seen' = [seen EXCEPT ![u] = NoOffers]
      /\ shown' = [shown EXCEPT ![u] = Nothing] /\ checked' = [checked EXCEPT ![u] = Nothing]
  BY RateCardsAssumption DEF Fail, Goes, Aims, Needs, Gets, Forgets, ForgetsOffers, TypeOK
<1>2. Reset(u)' /\ pc'[u] # "store" /\ shown'[u] = Nothing
  BY <1>1 DEF TypeOK, Reset
<1>3. (Request(u) /\ Compared(u))'
  BY <1>1, <1>2, Numbers DEF Reset, Request, Routed, Offered, Compared, Lookup, Rest, mars, TypeOK
<1>4. /\ cache' \in [Key -> RateCard \cup {Nothing}]
      /\ got' \in [User -> RateCard \cup {Nothing}] /\ overtaken' \in BOOLEAN
      /\ overtaken => overtaken'
      /\ \A x \in User \ {u} : got'[x] = got[x]
  <2>1. CASE pc[u] = "store" /\ Stored(u)
    BY <2>1, StoredKeeps
  <2>2. CASE UNCHANGED <<cache, overtaken>> /\ got' = [got EXCEPT ![u] = Nothing]
    BY <2>2 DEF TypeOK
  <2> QED
    BY <2>1, <2>2 DEF Fail
<1>5. TypeOK'
  BY <1>1, <1>4 DEF TypeOK, mars, Rest
<1>6. \A x \in User \ {u} : Idle(x)
  BY <1>1, <1>4 DEF Idle, TypeOK
<1>7. Honest' /\ InOrder'
  <2>1. CASE pc[u] = "store" /\ Stored(u)
    <3>1. /\ got[u] \in RateCard /\ got[u].key = key[u]
          /\ got[u].version <= rates[key[u].store]
          /\ cache' = [cache EXCEPT ![key[u]] = got[u]]
          /\ ~overtaken' =>
               /\ \A x \in User : (shown[x] # Nothing /\ shown[x].key = key[u])
                    => got[u].version >= shown[x].version
               /\ \A v \in User : (pc[v] = "store" /\ key[v] = key[u])
                    => got[v].version >= got[u].version
      BY <2>1, StoredKeeps
    <3>f. /\ \A x \in User : shown'[x] = shown[x] \/ shown'[x] = Nothing
          /\ \A x \in User : pc'[x] = "store" => pc[x] = "store" /\ key'[x] = key[x] /\ got'[x] = got[x]
      BY <1>2, <1>6 DEF Idle
    <3>g. ~overtaken' => \A v \in User : (pc'[v] = "store" /\ key[v] = key[u])
            => got[v].version >= got[u].version
      BY <3>1, <3>f
    <3>h. pc[u] \in Lookup
      BY <2>1 DEF Lookup
    <3> QED
      BY <1>1, <1>4, <3>1, <3>f, <3>g, <3>h, ShownKeeps
  <2>2. CASE UNCHANGED <<cache, overtaken>>
    BY <1>1, <1>2, <1>6, <2>2, QuietKeeps DEF Idle, Honest
  <2> QED
    BY <2>1, <2>2 DEF Fail
<1> QED
  BY <1>1, <1>3, <1>4, <1>5, <1>6, <1>7, OthersKeep

\* A crash loses every request and leaves Redis.
LEMMA CrashKeeps ==
  ASSUME IInv, Crash
  PROVE  IInv'
<1> USE DEF IInv
<1>1. UNCHANGED <<mars, redis>> /\ faults' \in 0..Faults
  BY RateCardsAssumption DEF Crash, TypeOK
<1>2. TypeOK'
  BY <1>1 DEF Crash, TypeOK, mars, redis, Rest
<1>3. \A x \in User : Idle(x) \/ (Reset(x)' /\ pc[x] \in Awaits)
  BY DEF Crash, Idle, Reset
<1>4. ASSUME NEW x \in User PROVE (Request(x) /\ Compared(x))'
  <2>1. CASE Idle(x)
    BY <1>1, <2>1, IdleKeeps DEF redis
  <2>2. CASE Reset(x)'
    BY <1>1, <2>2, Numbers DEF Reset, Request, Routed, Offered, Compared, Lookup, Rest, mars, TypeOK
  <2> QED
    BY <1>3, <2>1, <2>2
<1>5. Honest' /\ InOrder'
  <2>1. \A x \in User : pc'[x] = "store" => pc[x] = "store" /\ key'[x] = key[x] /\ got'[x] = got[x]
    BY <1>3 DEF Idle, Reset
  <2>2. \A x \in User : shown'[x] = shown[x] \/ shown'[x] = Nothing
    BY <1>3 DEF Idle, Reset
  <2> QED
    BY <1>1, <2>1, <2>2, QuietKeeps DEF redis, Honest
<1> QED
  BY <1>2, <1>4, <1>5

-----------------------------------------------------------------------------
\* Every step keeps the inductive invariant.
LEMMA StepKeeps == IInv /\ [Next]_vars => IInv'
<1> SUFFICES ASSUME IInv, [Next]_vars PROVE IInv'
  OBVIOUS
<1>1. CASE UNCHANGED vars
  <2>1. TypeOK' /\ Honest' /\ InOrder'
    BY <1>1 DEF IInv, vars, mars, redis, TypeOK, Honest, InOrder
  <2> QED
    BY <1>1, <2>1, RestKeeps DEF IInv, vars, redis, Locals
<1>2. CASE Changes \/ BalanceMessage \/ ExpireHome \/ Crash
  BY <1>2, ChangesKeeps, StoreOfCardKeeps, CrashKeeps
<1>3. CASE \E k \in Key : ExpireRates(k)
  BY <1>3, ExpireRatesKeeps
<1>4. ASSUME NEW u \in User, OfferList(u) \/ GetRateCard(u) \/ Buy(u) \/ Step(u) \/ Fail(u)
      PROVE  IInv'
  BY <1>4, OfferListKeeps, GetRateCardKeeps, BuyKeeps, FailKeeps, CardBalanceKeeps, OffersKeeps,
     ReadRatesKeeps, PullRatesKeeps, StoreRatesKeeps DEF Step
<1> QED
  BY <1>1, <1>2, <1>3, <1>4 DEF Next

\* The inductive invariant holds in every state, for any stores, users and
\* number of changes.
THEOREM Invariance == Spec => []IInv
<1>1. Init => IInv
  <2> SUFFICES ASSUME Init PROVE IInv
    OBVIOUS
  <2>1. Cardinality({}) = 0
    BY FS_EmptySet
  <2>t. roamed \in BOOLEAN /\ overtaken \in BOOLEAN /\ 1 \in Number /\ withApple \subseteq Number
    <3>1. roamed \in BOOLEAN /\ overtaken \in BOOLEAN
      BY Zenon DEF Init
    <3>2. 1 \in Number
      BY RateCardsAssumption DEF Number
    <3>3. withApple \subseteq Number
      BY RateCardsAssumption DEF Init, Number
    <3> QED
      BY <3>1, <3>2, <3>3
  <2>s. {} \subseteq Store /\ Cardinality({}) <= 1
    BY <2>1
  <2>2. TypeOK
    <3>1. 0 \in 0..Last /\ 0 \in 0..Faults /\ First \in Store
      BY RateCardsAssumption
    <3>2. /\ rates \in [Store -> Number] /\ home \in Store /\ offers \in Number
          /\ withApple \subseteq Number /\ changes \in 0..Last /\ faults \in 0..Faults
      BY <2>t, <3>1 DEF Init
    <3>3. /\ cache \in [Key -> RateCard \cup {Nothing}]
          /\ cachedHome \subseteq Store /\ Cardinality(cachedHome) <= 1
      BY <2>s DEF Init
    <3>4. /\ pc \in [User -> Rest \cup Awaits \cup {"asked"}]
          /\ aim \in [User -> {"list", "show", "apple", "check"}]
          /\ \A u \in User : pc[u] # "shown"
      BY DEF Init, Rest
    <3>5. /\ key \in [User -> Key \cup {Nothing}] /\ got \in [User -> RateCard \cup {Nothing}]
          /\ current \in [User -> Offers \cup {NoOffers}] /\ seen \in [User -> Offers \cup {NoOffers}]
          /\ shown \in [User -> RateCard \cup {Nothing}]
          /\ checked \in [User -> RateCard \cup {Nothing}]
      BY DEF Init
    <3> QED
      BY <2>t, <3>2, <3>3, <3>4, <3>5 DEF TypeOK
  <2>3. Honest /\ InOrder
    BY RateCardsAssumption DEF Init, Honest, InOrder
  <2>4. \A x \in User : Reset(x)
    BY DEF Init, Reset
  <2> QED
    BY <2>2, <2>3, <2>4, Fresh DEF IInv, TypeOK
<1> QED
  BY <1>1, StepKeeps, PTL DEF Spec

\* Every variable has its type.
THEOREM TypeCorrect == Spec => []TypeOK
BY Invariance, PTL DEF IInv

(***************************************************************************)
(* The rate card that marsCachingService keeps in Redis is the one of its  *)
(* key and no older than any a user was shown, unless a write of older     *)
(* rates passed another: prices do not go back.                            *)
(***************************************************************************)
THEOREM NotOlder == Spec => []NotOlderUnlessOvertaken
<1>1. IInv => NotOlderUnlessOvertaken
  BY DEF IInv, Honest, InOrder, NotOlderUnlessOvertaken
<1> QED
  BY <1>1, Invariance, PTL

(***************************************************************************)
(* A purchase at the price the customer was shown is refused only because  *)
(* the card has roamed, the offers of a customer who picks them or has     *)
(* Apple Pay have changed, the store has newer rates, or the app asked for *)
(* the rate card without a payment type, unless a write of older rates     *)
(* passed another: what getRateCard shows and what the purchase checks are *)
(* otherwise rate cards of one key and offers of one store.                *)
(***************************************************************************)
THEOREM Refused == Spec => []RefusedOnlyIfChanged
<1>1. IInv => RefusedOnlyIfChanged
  <2> SUFFICES ASSUME IInv, ~overtaken, NEW u \in User, pc[u] = "refused",
                      ~(roamed /\ u \notin DigitalBuyer),
                      ~(u \in Lister /\ current[u].number > seen[u].number),
                      ~(u \in Terse /\ (checked[u].version # shown[u].version \/ u \in ApplePayer))
               PROVE  checked[u].key = shown[u].key /\ checked[u].version > shown[u].version
    BY DEF RefusedOnlyIfChanged
  <2>1. /\ shown[u] \in RateCard /\ checked[u] \in RateCard
        /\ Price(u, checked[u], current[u]) # Price(u, shown[u], seen[u])
        /\ Entitled(u, shown[u].key) /\ Entitled(u, checked[u].key)
        /\ shown[u].key.payment = Asked(u) /\ Charged(u, checked[u].key)
    BY DEF IInv, Compared, TypeOK
  <2>2. u \in Lister => current[u] = seen[u]
    <3> SUFFICES ASSUME u \in Lister PROVE current[u] = seen[u]
      OBVIOUS
    <3>1. current[u].number = seen[u].number
      <4>1. current[u].number >= seen[u].number
        BY DEF IInv, Request, Offered
      <4>2. current[u].number \in Nat /\ seen[u].number \in Nat
        BY Numbers DEF IInv, TypeOK
      <4> QED
        BY <4>1, <4>2
    <3>2. CASE current[u] = NoOffers \/ seen[u] = NoOffers
      <4>1. \A o \in Offers \cup {NoOffers} : o.number = 0 => o = NoOffers
        BY Numbers
      <4> QED
        BY <3>1, <3>2, <4>1, Numbers DEF IInv, TypeOK
    <3>3. CASE current[u] # NoOffers /\ seen[u] # NoOffers
      <4>1. current[u].store = seen[u].store
        BY <3>3 DEF IInv, Request, Offered, Placed
      <4>2. current[u] \in Offers /\ seen[u] \in Offers
        BY <3>3 DEF IInv, TypeOK
      <4> QED
        BY <3>1, <4>1, <4>2 DEF Offers
    <3> QED
      BY <3>2, <3>3
  <2>3. checked[u].key.store = shown[u].key.store /\ checked[u].key.new = shown[u].key.new
        /\ checked[u].key.version = shown[u].key.version
    BY <2>1 DEF Entitled, Placed
  <2>4. checked[u].key.payment = Payment(u, seen[u])
    BY <2>1, <2>2 DEF Charged, Lister
  <2>5. u \notin Terse
    <3> SUFFICES ASSUME u \in Terse PROVE FALSE
      OBVIOUS
    <3>1. u \notin ApplePayer /\ checked[u].version = shown[u].version
      OBVIOUS
    <3>2. checked[u].key.payment = "none" /\ shown[u].key.payment = "absent"
      BY <2>1, <2>4, <3>1 DEF Payment, Asked
    <3>3. (IF u \in Picker THEN current[u] ELSE NoOffers)
            = (IF u \in Picker THEN seen[u] ELSE NoOffers)
      BY <2>2 DEF Lister
    <3> QED
      BY <2>1, <2>3, <3>1, <3>2, <3>3 DEF Price
  <2>6. checked[u].key = shown[u].key
    <3>1. checked[u].key.payment = shown[u].key.payment
      BY <2>1, <2>4, <2>5 DEF Asked
    <3> QED
      BY <2>1, <2>3, <3>1 DEF RateCard, Key
  <2>7. shown[u].version # checked[u].version
    <3>1. (IF u \in Picker THEN current[u] ELSE NoOffers)
            = (IF u \in Picker THEN seen[u] ELSE NoOffers)
      BY <2>2 DEF Lister
    <3> QED
      BY <2>1, <2>6, <3>1 DEF Price
  <2>8. checked[u].version >= shown[u].version
    BY <2>6 DEF IInv, Compared
  <2>9. checked[u].version \in Nat /\ shown[u].version \in Nat
    BY <2>1, Numbers DEF RateCard
  <2> QED
    BY <2>6, <2>7, <2>8, <2>9
<1> QED
  BY <1>1, Invariance, PTL

-----------------------------------------------------------------------------
(***************************************************************************)
(* The access token, for every set of chains and every bound on the calls  *)
(* in flight.                                                              *)
(***************************************************************************)
\* The state invariants together are inductive.
TokenIInv == TokenTypeOK /\ RefreshGoesOn /\ ServingHasToken /\ OneTimerUnlessOverlap

(***************************************************************************)
(* Starting a refresh: it is under way, the remembered timer is cleared,   *)
(* no other chain moves, and an overlap with a refresh under way is noted. *)
(***************************************************************************)
LEMMA Starting ==
  ASSUME TokenTypeOK, NEW c \in Chain, RefreshToken(c)
  PROVE  /\ stage' \in [Chain -> {"off", "asking", "armed"}]
         /\ stage'[c] = "asking" /\ overlap' \in BOOLEAN
         /\ \A x \in Chain \ {c} :
              stage'[x] = IF x = handle /\ stage[x] = "armed" THEN "off" ELSE stage[x]
         /\ ~overlap' => ~overlap /\ \A x \in Chain : stage[x] # "asking"
BY DEF TokenTypeOK, RefreshToken, Asking

\* A refresh that starts keeps the claims about chains and timers.
LEMMA StartingKeeps ==
  ASSUME TokenTypeOK, OneTimerUnlessOverlap, NEW c \in Chain, RefreshToken(c)
  PROVE  RefreshGoesOn' /\ OneTimerUnlessOverlap'
<1>1. RefreshGoesOn'
  BY Starting DEF RefreshGoesOn, On
<1>2. ASSUME ~overlap', NEW x \in Chain, stage'[x] # "off" PROVE x = c
  <2> SUFFICES ASSUME x # c PROVE FALSE
    OBVIOUS
  <2>1. stage[x] # "off" /\ ~(x = handle /\ stage[x] = "armed") /\ ~overlap
    BY <1>2, Starting
  <2>2. stage[x] = "armed"
    BY <1>2, <2>1, Starting DEF TokenTypeOK
  <2> QED
    BY <2>1, <2>2 DEF OneTimerUnlessOverlap, On
<1>3. OneTimerUnlessOverlap'
  BY <1>2, Starting DEF OneTimerUnlessOverlap, On
<1> QED
  BY <1>1, <1>3

\* A chain whose request ends leaves the others alone.
LEMMA EndingKeeps ==
  ASSUME TokenTypeOK, OneTimerUnlessOverlap, NEW c \in Chain, NEW s \in {"off", "armed"},
         stage[c] = "asking", stage' = [stage EXCEPT ![c] = s], overlap' = overlap,
         s = "armed" => handle' = c
  PROVE  OneTimerUnlessOverlap' /\ (s = "armed" => RefreshGoesOn')
<1>1. \A x \in Chain : stage'[x] = IF x = c THEN s ELSE stage[x]
  BY DEF TokenTypeOK
<1>2. OneTimerUnlessOverlap'
  BY <1>1 DEF OneTimerUnlessOverlap, On
<1>3. s = "armed" => RefreshGoesOn'
  BY <1>1 DEF RefreshGoesOn, On
<1> QED
  BY <1>2, <1>3

\* Every step keeps the inductive invariant.
LEMMA TokenStep == TokenIInv /\ [TokenNext]_tokenVars => TokenIInv'
<1> SUFFICES ASSUME TokenIInv, [TokenNext]_tokenVars PROVE TokenIInv'
  OBVIOUS
<1> USE DEF TokenIInv
<1>u. UNCHANGED <<stage, handle, overlap, broken>> => RefreshGoesOn' /\ OneTimerUnlessOverlap'
  BY DEF RefreshGoesOn, OneTimerUnlessOverlap, On
<1>1. CASE UNCHANGED tokenVars
  BY <1>1, <1>u DEF tokenVars, chainVars, callerVars, TokenTypeOK, ServingHasToken
<1>2. ASSUME NEW c \in Chain, Fire(c) PROVE TokenIInv'
  <2>1. TokenTypeOK'
    BY <1>2, Starting DEF Fire, TokenTypeOK, callerVars
  <2>2. RefreshGoesOn' /\ OneTimerUnlessOverlap'
    BY <1>2, StartingKeeps DEF Fire
  <2>3. ServingHasToken'
    BY <1>2 DEF Fire, callerVars, ServingHasToken
  <2> QED
    BY <2>1, <2>2, <2>3
<1>3. ASSUME NEW c \in Chain, Grant(c) PROVE TokenIInv'
  <2>1. TokenTypeOK'
    BY <1>3 DEF Grant, Succeed, Booting, TokenTypeOK
  <2>2. RefreshGoesOn' /\ OneTimerUnlessOverlap'
    BY <1>3, EndingKeeps DEF Grant
  <2>3. ServingHasToken'
    BY <1>3 DEF Grant, ServingHasToken
  <2> QED
    BY <2>1, <2>2, <2>3
<1>4. ASSUME NEW c \in Chain, Refuse(c) PROVE TokenIInv'
  <2>1. TokenTypeOK'
    BY <1>4 DEF Refuse, Reject, Booting, TokenTypeOK
  <2>2. RefreshGoesOn' /\ OneTimerUnlessOverlap'
    BY <1>4, EndingKeeps DEF Refuse
  <2>3. ServingHasToken'
    BY <1>4 DEF Refuse, Reject, Booting, ServingHasToken
  <2> QED
    BY <2>1, <2>2, <2>3
<1>5. ASSUME NEW c \in Chain, FailToken(c) PROVE TokenIInv'
  <2>1. TokenTypeOK'
    BY <1>5 DEF FailToken, Reject, Booting, TokenTypeOK
  <2>2. RefreshGoesOn' /\ OneTimerUnlessOverlap'
    BY <1>5, EndingKeeps DEF FailToken, RefreshGoesOn
  <2>3. ServingHasToken'
    BY <1>5 DEF FailToken, Reject, Booting, ServingHasToken
  <2> QED
    BY <2>1, <2>2, <2>3
<1>6. ASSUME NEW c \in Chain, Unauthorized(c) PROVE TokenIInv'
  <2>1. TokenTypeOK'
    BY <1>6, Starting, TokenAssumption DEF Unauthorized, TokenTypeOK, callerVars
  <2>2. RefreshGoesOn' /\ OneTimerUnlessOverlap'
    BY <1>6, StartingKeeps DEF Unauthorized
  <2>3. ServingHasToken'
    BY <1>6 DEF Unauthorized, callerVars, ServingHasToken
  <2> QED
    BY <2>1, <2>2, <2>3
<1>7. ASSUME NEW c \in Chain, Locations(c) PROVE TokenIInv'
  <2>1. TokenTypeOK'
    BY <1>7, Starting DEF Locations, TokenTypeOK
  <2>2. RefreshGoesOn' /\ OneTimerUnlessOverlap'
    BY <1>7, StartingKeeps DEF Locations
  <2>3. ServingHasToken'
    BY <1>7 DEF Locations, ServingHasToken
  <2> QED
    BY <2>1, <2>2, <2>3
<1>8. CASE Send \/ Lose
  <2>1. rejected' \in 0..MaxCalls
    BY <1>8, TokenAssumption DEF Send, Lose, TokenTypeOK
  <2>2. UNCHANGED <<stage, handle, token, service, initialized, locating, up, broken, overlap>>
    BY <1>8 DEF Send, Lose, chainVars, callerVars
  <2>3. TokenTypeOK' /\ ServingHasToken'
    BY <2>1, <2>2 DEF TokenTypeOK, ServingHasToken
  <2> QED
    BY <2>2, <2>3, <1>u
<1>9. CASE Expire \/ Outage
  <2>1. UNCHANGED <<stage, handle, service, initialized, locating, rejected, broken, overlap>>
    BY <1>9 DEF Expire, Outage, chainVars, callerVars
  <2>2. up' \in BOOLEAN
    BY <1>9, Zenon DEF Expire, Outage, TokenTypeOK
  <2>3. token' = token \/ (token = "valid" /\ token' = "expired")
    BY <1>9 DEF Expire, Outage
  <2>4. TokenTypeOK' /\ ServingHasToken'
    BY <2>1, <2>2, <2>3 DEF TokenTypeOK, ServingHasToken
  <2> QED
    BY <2>1, <2>4, <1>u
<1> QED
  BY <1>1, <1>2, <1>3, <1>4, <1>5, <1>6, <1>7, <1>8, <1>9 DEF TokenNext

\* The inductive invariant of the token refresh holds throughout.
THEOREM TokenInvariance == TokenSpec => []TokenIInv
<1>1. TokenInit => TokenIInv
  <2> SUFFICES ASSUME TokenInit PROVE TokenIInv
    OBVIOUS
  <2>1. PICK c \in Chain : stage = [x \in Chain |-> IF x = c THEN "asking" ELSE "off"]
    BY DEF TokenInit
  <2>2. TokenTypeOK
    <3>1. stage \in [Chain -> {"off", "asking", "armed"}] /\ 0 \in 0..MaxCalls
      BY <2>1, TokenAssumption
    <3> QED
      BY <3>1 DEF TokenInit, TokenTypeOK
  <2>3. RefreshGoesOn /\ OneTimerUnlessOverlap
    BY <2>1 DEF RefreshGoesOn, OneTimerUnlessOverlap, On
  <2>4. ServingHasToken
    BY DEF TokenInit, ServingHasToken
  <2> QED
    BY <2>2, <2>3, <2>4 DEF TokenIInv
<1> QED
  BY <1>1, TokenStep, PTL DEF TokenSpec

\* The types of the token refresh hold throughout (TypeOK).
THEOREM TokenTypeCorrect == TokenSpec => []TokenTypeOK
BY TokenInvariance, PTL DEF TokenIInv

\* Without a failed token request, refreshing never stops (RefreshGoesOn).
THEOREM GoesOn == TokenSpec => []RefreshGoesOn
BY TokenInvariance, PTL DEF TokenIInv

\* The service never serves without having been given a token (ServingHasToken).
THEOREM HasToken == TokenSpec => []ServingHasToken
BY TokenInvariance, PTL DEF TokenIInv

\* As long as refreshes do not overlap there is one timer, and it is the one
\* the service can clear (OneTimerUnlessOverlap).
THEOREM OneTimerAlone == TokenSpec => []OneTimerUnlessOverlap
BY TokenInvariance, PTL DEF TokenIInv
===============================================================================
