-------------------------------- MODULE RateCards --------------------------------
(***************************************************************************)
(* PowercardService and MarsService: rate cards, offers, and the check of  *)
(* the price before a purchase.                                            *)
(*                                                                         *)
(* The app shows a customer the rate card of a store, and its offers.  A   *)
(* purchase sends back the price of the items that were picked from them;  *)
(* the service looks rate card and offers up again and goes on to the      *)
(* payment only if the prices agree.  Offers are asked from MARS each      *)
(* time.  Rate cards come from Redis when they can, under a key made of    *)
(* the version, the store, whether the customer is new and the payment     *)
(* type.  A recharge is at the store the card has roamed to, which the     *)
(* cached balances name; a digital card is bought at the store of the      *)
(* input.                                                                  *)
(*                                                                         *)
(* A rate card is its key and the number of the change of the store's      *)
(* rates it reflects, offers are their store and number; different ones    *)
(* have different prices.  Of MARS it is taken that a query without a      *)
(* payment type is one of a customer without Apple Pay, and that the       *)
(* offers of a store are the same to the query of the app and to that of   *)
(* the check, which names the store and the customer and nothing else.     *)
(***************************************************************************)
EXTENDS Integers, FiniteSets

CONSTANTS
  Store,
  First,           \* the store the card is roamed to at first
  User,            \* customers at the app
  Near,            \* the store at which a user buys a digital card
  NewCustomer,     \* users who have bought nothing yet
  ApplePayer,      \* users who pay with Apple Pay
  Picker,          \* users who pick an item of an offer, with those of the rate card
  DigitalBuyer,    \* users who buy a digital card; the others recharge one card
  Terse,           \* users whose app asks for rate cards without a payment type
  WithApple,       \* what the numbers of the offers with the Apple Pay offer may be
  RateCardVersion, \* powercardConfig.rateCardVersion, by default -1
  Last,            \* bound: the changes at MARS
  Faults           \* bound: the calls that fail and the crashes

ASSUME RateCardsAssumption ==
  /\ Last \in Nat /\ Faults \in Nat /\ First \in Store /\ Near \in [User -> Store]
  /\ NewCustomer \subseteq User /\ ApplePayer \subseteq User /\ Picker \subseteq User
  /\ DigitalBuyer \subseteq User /\ Terse \subseteq User
  /\ WithApple \subseteq SUBSET (1..Last + 1) /\ RateCardVersion \in Int

Lister == ApplePayer \cup Picker   \* users whose app shows them the offers

Key == [version : {0, RateCardVersion}, store : Store, new : BOOLEAN,
        payment : {"none", "apple", "absent"}]
Number == 1..Last + 1
RateCard == [key : Key, version : Number]
Nothing == [version |-> 0]
Offers == [store : Store, number : Number]
NoOffers == [number |-> 0]

VARIABLES
  rates,      \* how often the rates of a store have changed at MARS, plus 1
  home,       \* the store the card has roamed to, at MARS
  offers,     \* how often the offers have changed at MARS, plus 1
  withApple,  \* the numbers of the offers that have the Apple Pay offer
  cache,      \* the rate cards in Redis; Nothing when the key is absent
  cachedHome, \* the store in the cached balances of the card; {} without them
  pc,         \* the next await of a user's request, or what came of the last one
  aim,        \* what a request needs the rate card for
  key,        \* the rate card it needs
  got,        \* the rate card it has pulled
  current,    \* the offers it has got from MARS
  seen,       \* the offers the user was shown last
  shown,      \* the rate card the user was shown last
  checked,    \* the rate card the price was checked against last
  changes,    \* changes at MARS so far
  faults,     \* failures so far
  roamed,     \* history: the card has roamed
  overtaken   \* history: a write has passed a user with older rates of its key

mars == <<rates, home, offers, withApple, changes, roamed>>
redis == <<cache, cachedHome, overtaken>>
vars == <<mars, redis, pc, aim, key, got, current, seen, shown, checked, faults>>

Rest == {"idle", "shown", "refused", "paid"}
Awaits == {"home", "locations", "askOffers", "items", "read", "pull", "store"}

TypeOK ==
  /\ rates \in [Store -> Number] /\ home \in Store
  /\ offers \in Number /\ withApple \subseteq Number
  /\ cache \in [Key -> RateCard \cup {Nothing}]
  /\ cachedHome \subseteq Store /\ Cardinality(cachedHome) <= 1
  /\ pc \in [User -> Rest \cup Awaits \cup {"asked"}]
  /\ aim \in [User -> {"list", "show", "apple", "check"}]
  /\ key \in [User -> Key \cup {Nothing}] /\ got \in [User -> RateCard \cup {Nothing}]
  /\ current \in [User -> Offers \cup {NoOffers}] /\ seen \in [User -> Offers \cup {NoOffers}]
  /\ shown \in [User -> RateCard \cup {Nothing}] /\ checked \in [User -> RateCard \cup {Nothing}]
  /\ changes \in 0..Last /\ faults \in 0..Faults
  /\ roamed \in BOOLEAN /\ overtaken \in BOOLEAN
  /\ \A u \in User : pc[u] = "shown" => shown[u] # Nothing

Init ==
  /\ rates = [s \in Store |-> 1] /\ home = First
  /\ offers = 1 /\ withApple \in WithApple
  /\ cache = [k \in Key |-> Nothing] /\ cachedHome = {}
  /\ pc = [u \in User |-> "idle"] /\ aim = [u \in User |-> "show"]
  /\ key = [u \in User |-> Nothing] /\ got = [u \in User |-> Nothing]
  /\ current = [u \in User |-> NoOffers] /\ seen = [u \in User |-> NoOffers]
  /\ shown = [u \in User |-> Nothing] /\ checked = [u \in User |-> Nothing]
  /\ changes = 0 /\ faults = 0 /\ roamed = FALSE /\ overtaken = FALSE

Goes(u, to) == pc' = [pc EXCEPT ![u] = to]
Aims(u, what) == aim' = [aim EXCEPT ![u] = what]
Needs(u, k) == key' = [key EXCEPT ![u] = k]
Gets(u, o) == current' = [current EXCEPT ![u] = o]

-----------------------------------------------------------------------------
(* What a request needs *)

\* The key of a rate card in Redis, where version -1 goes as 0.
RateCardKey(v, s, new, payment) ==
  [version |-> IF v = -1 THEN 0 ELSE v, store |-> s, new |-> new, payment |-> payment]

\* The payment type of a user, by the offers they have.
Payment(u, o) == IF u \in ApplePayer /\ o.number \in withApple THEN "apple" ELSE "none"

\* The rate card a user asks for, and the one their price is checked against.
KeyShown(u, s) ==
  RateCardKey(RateCardVersion, s, u \in NewCustomer,
              IF u \in Terse THEN "absent" ELSE Payment(u, seen[u]))
KeyChecked(u, s) == RateCardKey(RateCardVersion, s, u \in NewCustomer, Payment(u, current[u]))

\* The rate card that has the activation fee an offer list comes with.
FeeKey(u, s) == RateCardKey(-1, s, TRUE, IF u \in ApplePayer THEN "apple" ELSE "none")

\* Mutant: the items are priced as for a customer who is not new.
CheckItemsAsKnown(u, s) ==
  /\ Aims(u, "check") /\ Needs(u, [KeyChecked(u, s) EXCEPT !.new = FALSE]) /\ Goes(u, "items")

\* The items are looked up among the offers first, then in the rate card.
CheckItems(u, s) == Aims(u, "check") /\ Needs(u, KeyChecked(u, s)) /\ Goes(u, "items")

\* A purchase that may have the Apple Pay offer asks for the offers for that
\* alone, before it looks up its items.
BeginCheck(u, s) ==
  \/ u \in ApplePayer /\ Aims(u, "apple") /\ Needs(u, FeeKey(u, s)) /\ Goes(u, "locations")
  \/ u \notin ApplePayer /\ CheckItems(u, s)

\* What was shown goes away when it is paid, or the app asks anew.
Forgets(u) ==
  /\ shown' = [shown EXCEPT ![u] = Nothing]
  /\ checked' = [checked EXCEPT ![u] = Nothing]
ForgetsOffers(u) == Gets(u, NoOffers) /\ seen' = [seen EXCEPT ![u] = NoOffers]

\* The sum of the prices of the items a customer has picked, of a rate card
\* and of the offers.
Price(u, r, o) ==
  [store |-> r.key.store, new |-> r.key.new, apple |-> r.key.payment = "apple",
   version |-> r.version, offer |-> IF u \in Picker THEN o ELSE NoOffers]

\* The price the customer has sent is compared with the one found now.
VerifyDollarsPaid(u, r) ==
  LET same == Price(u, r, current[u]) = Price(u, shown[u], seen[u])
  IN  /\ Aims(u, "show") /\ Needs(u, Nothing)
      /\ \/ same /\ Goes(u, "paid") /\ Forgets(u) /\ ForgetsOffers(u)
         \/ /\ ~same /\ Goes(u, "refused")
            /\ checked' = [checked EXCEPT ![u] = r] /\ UNCHANGED <<shown, current, seen>>

\* offerList takes the activation fee from the rate card and answers.
Listed(u) ==
  /\ Goes(u, "asked") /\ Aims(u, "show") /\ Needs(u, Nothing)
  /\ seen' = [seen EXCEPT ![u] = current[u]] /\ Gets(u, NoOffers)
  /\ UNCHANGED <<shown, checked>>

\* The rate card is answered, with headings that its prices call for.
PostProcessRateCard(u, r) ==
  /\ Goes(u, "shown") /\ shown' = [shown EXCEPT ![u] = r]
  /\ Needs(u, Nothing) /\ UNCHANGED <<aim, current, seen, checked>>

\* What comes of a rate card: the end of offerList or of a query for it, the
\* offer check of a purchase, which goes on to its items, or the price check.
Found(u, r) ==
  \/ aim[u] = "list" /\ Listed(u)
  \/ aim[u] = "show" /\ PostProcessRateCard(u, r)
  \/ aim[u] = "apple" /\ CheckItems(u, key[u].store) /\ UNCHANGED <<current, seen, shown, checked>>
  \/ aim[u] = "check" /\ VerifyDollarsPaid(u, r)

-----------------------------------------------------------------------------
(* Requests of the app *)

\* The store of the card, as the cached balances have it, else MARS.
CardStore == IF cachedHome = {} THEN {home} ELSE cachedHome

\* offerList, before the app asks for the rate card of the same store.
OfferList(u) ==
  /\ u \in Lister /\ pc[u] \in Rest
  /\ \E s \in IF u \in DigitalBuyer THEN {Near[u]} ELSE CardStore : Needs(u, FeeKey(u, s))
  /\ Aims(u, "list") /\ Goes(u, "locations") /\ Forgets(u) /\ ForgetsOffers(u)
  /\ UNCHANGED <<mars, redis, got, faults>>

\* getRateCards, for a store, and getRateCardByPowerCardUuid, for a card.
GetRateCard(u) ==
  /\ pc[u] \in (IF u \in Lister THEN {"asked"} ELSE Rest)
  /\ \/ u \in DigitalBuyer /\ Goes(u, "read") /\ Needs(u, KeyShown(u, Near[u]))
     \/ u \notin DigitalBuyer /\ Goes(u, "home") /\ UNCHANGED key
  /\ Aims(u, "show") /\ Forgets(u) /\ Gets(u, NoOffers)
  /\ UNCHANGED <<mars, redis, got, seen, faults>>

\* powercardVirtualPurchaseCreate and powercardFundsAdd, up to the payment.
Buy(u) ==
  /\ pc[u] = "shown"
  /\ \/ u \in DigitalBuyer /\ BeginCheck(u, shown[u].key.store)
     \/ u \notin DigitalBuyer /\ Aims(u, "check") /\ Goes(u, "home") /\ UNCHANGED key
  /\ UNCHANGED <<mars, redis, got, current, seen, shown, checked, faults>>

-----------------------------------------------------------------------------
(* The store of the card *)

\* Mutant: a recharge is checked at the store of the input.
HomeUnused(u, s) ==
  \/ aim[u] = "show" /\ Needs(u, KeyShown(u, s)) /\ Goes(u, "read") /\ UNCHANGED aim
  \/ aim[u] = "check" /\ BeginCheck(u, CHOOSE x \in Store : x # s)

Home(u, s) ==
  \/ aim[u] = "show" /\ Needs(u, KeyShown(u, s)) /\ Goes(u, "read") /\ UNCHANGED aim
  \/ aim[u] = "check" /\ BeginCheck(u, s)

\* The store comes from the cached balances, or MARS is asked, and its answer
\* is stored.
CardBalance(u) ==
  /\ pc[u] = "home"
  /\ \E s \in CardStore : Home(u, s) /\ cachedHome' = {s}
  /\ UNCHANGED <<mars, cache, overtaken, got, current, seen, shown, checked, faults>>

-----------------------------------------------------------------------------
(* Offers *)

\* The locations, from Redis or from MARS, tell the state the store is in.
StateFromStoreId(u) ==
  /\ pc[u] = "locations" /\ Goes(u, "askOffers")
  /\ UNCHANGED <<mars, redis, aim, key, got, current, seen, shown, checked, faults>>

\* MARS lists the offers as they are, to offerList, which goes on to the rate
\* card with the activation fee, or to the price check, which goes on to that
\* with the other items.
AskOffers(u) ==
  /\ pc[u] \in {"askOffers", "items"} /\ Goes(u, "read")
  /\ Gets(u, [store |-> key[u].store, number |-> offers])
  /\ UNCHANGED <<mars, redis, aim, key, got, seen, shown, checked, faults>>

-----------------------------------------------------------------------------
(* rateCards: from the cache, else from MARS *)

ReadRates(u) ==
  LET cached == cache[key[u]]
  IN  /\ pc[u] = "read"
      /\ \/ cached # Nothing /\ Found(u, cached)
         \/ cached = Nothing /\ Goes(u, "pull")
            /\ UNCHANGED <<aim, key, current, seen, shown, checked>>
      /\ UNCHANGED <<mars, redis, got, faults>>

\* MARS is asked for the current version.
PullRates(u) ==
  /\ pc[u] = "pull" /\ Goes(u, "store")
  /\ got' = [got EXCEPT ![u] = [key |-> key[u], version |-> rates[key[u].store]]]
  /\ UNCHANGED <<mars, redis, aim, key, current, seen, shown, checked, faults>>

\* Mutant: the answer is stored as that for existing customers.
StoredAsExisting(u) ==
  /\ cache' = [cache EXCEPT ![[key[u] EXCEPT !.new = FALSE]] = got[u]]
  /\ UNCHANGED overtaken /\ got' = [got EXCEPT ![u] = Nothing]

\* The answer is stored, with an expiration.
Stored(u) ==
  /\ cache' = [cache EXCEPT ![key[u]] = got[u]]
  /\ overtaken' = (overtaken \/ \E v \in User : /\ pc[v] = "store" /\ key[v] = key[u]
                                                /\ got[v].version < got[u].version)
  /\ got' = [got EXCEPT ![u] = Nothing]

StoreRates(u) ==
  /\ pc[u] = "store" /\ Stored(u) /\ Found(u, got[u])
  /\ UNCHANGED <<mars, cachedHome, faults>>

-----------------------------------------------------------------------------
(* Failures *)

\* A call fails, and with it the request; an answer may have been stored.
Fail(u) ==
  /\ pc[u] \in Awaits /\ faults < Faults
  /\ faults' = faults + 1
  /\ Goes(u, "idle") /\ Aims(u, "show") /\ Needs(u, Nothing)
  /\ Forgets(u) /\ ForgetsOffers(u)
  /\ \/ pc[u] = "store" /\ Stored(u)
     \/ UNCHANGED <<cache, overtaken>> /\ got' = [got EXCEPT ![u] = Nothing]
  /\ UNCHANGED <<mars, cachedHome>>

Crash ==
  LET lost == {u \in User : pc[u] \in Awaits}
      After(f, x) == [u \in User |-> IF u \in lost THEN x ELSE f[u]]
  IN  /\ lost # {} /\ faults < Faults
      /\ faults' = faults + 1
      /\ pc' = After(pc, "idle") /\ aim' = After(aim, "show")
      /\ key' = After(key, Nothing) /\ got' = After(got, Nothing)
      /\ current' = After(current, NoOffers) /\ seen' = After(seen, NoOffers)
      /\ shown' = After(shown, Nothing) /\ checked' = After(checked, Nothing)
      /\ UNCHANGED <<mars, redis>>

-----------------------------------------------------------------------------
(* MARS, the balance messages and the expiration of keys *)

Changes ==
  /\ changes < Last
  /\ changes' = changes + 1
  /\ \/ /\ \E s \in Store : rates' = [rates EXCEPT ![s] = @ + 1]
        /\ UNCHANGED <<home, offers, roamed>>
     \/ /\ home' \in Store \ {home} /\ roamed' = TRUE
        /\ UNCHANGED <<rates, offers>>
     \/ offers' = offers + 1 /\ UNCHANGED <<rates, home, roamed>>
  /\ UNCHANGED <<withApple, redis, pc, aim, key, got, current, seen, shown, checked, faults>>

\* The handler of a balance message stores the balances, and the store.
BalanceMessage ==
  /\ cachedHome # {home} /\ cachedHome' = {home}
  /\ UNCHANGED <<mars, cache, overtaken, pc, aim, key, got, current, seen, shown, checked, faults>>

\* Mutant: a rate card is stored without an expiration.
ExpireNever(k) ==
  /\ cache[k] # Nothing /\ cache' = cache
  /\ UNCHANGED <<mars, cachedHome, overtaken>>
  /\ UNCHANGED <<pc, aim, key, got, current, seen, shown, checked, faults>>

ExpireRates(k) ==
  /\ cache[k] # Nothing /\ cache' = [cache EXCEPT ![k] = Nothing]
  /\ UNCHANGED <<mars, cachedHome, overtaken>>
  /\ UNCHANGED <<pc, aim, key, got, current, seen, shown, checked, faults>>

ExpireHome ==
  /\ cachedHome # {} /\ cachedHome' = {}
  /\ UNCHANGED <<mars, cache, overtaken, pc, aim, key, got, current, seen, shown, checked, faults>>

-----------------------------------------------------------------------------
Step(u) ==
  \/ CardBalance(u) \/ StateFromStoreId(u) \/ AskOffers(u)
  \/ ReadRates(u) \/ PullRates(u) \/ StoreRates(u)

Next ==
  \/ Changes \/ BalanceMessage \/ ExpireHome \/ Crash
  \/ \E k \in Key : ExpireRates(k)
  \/ \E u \in User : OfferList(u) \/ GetRateCard(u) \/ Buy(u) \/ Step(u) \/ Fail(u)

Spec == Init /\ [][Next]_vars

(***************************************************************************)
(* Awaits settle and keys expire.  A customer who has not got what they    *)
(* want asks again, and does not look at rate cards forever without buying.*)
(***************************************************************************)
Asks(u) == pc[u] # "paid" /\ (OfferList(u) \/ GetRateCard(u))

Fairness ==
  /\ \A u \in User :
       /\ WF_vars(Step(u) \/ Asks(u))
       /\ SF_vars(Buy(u))
  /\ \A k \in Key : WF_vars(ExpireRates(k))

FairSpec == Spec /\ Fairness

-----------------------------------------------------------------------------
(***************************************************************************)
(* A rate card in Redis is the one of its key and, unless a write has      *)
(* passed a user who was on their way with older rates, no older than any  *)
(* a user was shown: prices do not go back.                                *)
(***************************************************************************)
NotOlderUnlessOvertaken ==
  ~overtaken => \A k \in Key : cache[k] # Nothing =>
    /\ cache[k].key = k
    /\ \A u \in User : (shown[u] # Nothing /\ shown[u].key = k)
         => cache[k].version >= shown[u].version

(***************************************************************************)
(* A purchase at the price that was shown is refused only because          *)
(*  - the card has roamed, for a recharge,                                 *)
(*  - the offers have changed since they were shown, for a customer who    *)
(*    picked one or has Apple Pay,                                         *)
(*  - the store has newer rates, or                                        *)
(*  - the app asked without a payment type: such a rate card is cached     *)
(*    apart, and may be older or newer than the one the check finds, or    *)
(*    lack the discount of Apple Pay,                                      *)
(* as long as MARS lists the check the offers it listed the app.           *)
(* It is never because old rates came back under the same key, unless a    *)
(* write passed a user with older ones.                                    *)
(***************************************************************************)
RefusedOnlyIfChanged ==
  ~overtaken => \A u \in User : pc[u] = "refused" =>
    \/ roamed /\ u \notin DigitalBuyer
    \/ u \in Lister /\ current[u].number > seen[u].number
    \/ checked[u].key = shown[u].key /\ checked[u].version > shown[u].version
    \/ u \in Terse /\ (checked[u].version # shown[u].version \/ u \in ApplePayer)

(***************************************************************************)
(* When the rates stop changing, what is cached becomes and stays current. *)
(***************************************************************************)
RatesConverge ==
  <>[](\A k \in Key : cache[k] = Nothing \/ cache[k].version = rates[k.store])

(***************************************************************************)
(* A customer who was refused and keeps trying gets to pay: a price that   *)
(* was out of date does not stay so.                                       *)
(***************************************************************************)
RefusedGetThrough ==
  \A u \in User : pc[u] = "refused" ~> pc[u] = "paid"

=============================================================================
