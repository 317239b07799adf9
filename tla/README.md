# TLA+ verification of the powercard service

This directory holds TLA+ models of the Dave & Buster's powercard service in
`src/`, TLC configurations that check them on small instances, and TLAPS proofs
that hold for every instance. `PROJECT.json` ties each definition to the source
lines it stands for, and lists the runs, the mutants, the hazards and the
theorems.

The service is a NestJS/TypeScript GraphQL application. It runs in one Node
process: code between two `await`s is atomic, and everything else that is in
progress may run at each `await`. Several processes may run against the same
Redis and Postgres. Every model takes one step per stretch of code between two
awaits, and an action stands for that whole stretch.

Paths are abbreviated: PS `src/src/modules/powercard/powercard.service.ts`,
MS `src/src/modules/mars/mars.service.ts`,
MC `src/src/modules/mars-caching/mars-caching.service.ts`,
PB `src/src/modules/powercard-balances/powercard-balances.service.ts`,
LS `src/src/modules/location/location.service.ts`.

## 1. Inventory

### Components

| Component | State it keeps | Operations | Talks to |
|---|---|---|---|
| PowercardService (PS) | rows `powercard`, `receipt`, `powercardBalanceSnapshot`, `rating` in Postgres | purchases (`powercardFundsAdd`, `powercardVirtualPurchaseCreate`), `checkPaymentApply`, card create/update/delete/enable/disable, pay-at-table messages, balances, receipts | everything below |
| MarsService (MS) | the access token, its timer, cached answers through MC | one method per MARS call, token refresh | MARS over HTTP, MC |
| MarsCachingService (MC) | Redis: balances, valid-card flags, ticket sessions, checks and tables, purchase progress records, rate cards, locations | get, merge and set per kind | Redis |
| PowercardBalancesService (PB) | a map of ticket timeouts; sessions in Redis | handler of the balance queue, ticket sessions, easy recharge alerts | RabbitMQ, PS, MC, notification and pass services |
| LocationService (LS) | `isMarsInitialized` | `locations`, `storeLocation` | MS |
| AdminService | `featureStore` rows | store feature switches | Postgres |
| BrandService, receipt email builder, config, logger, errors, serializers | constants | formatting, conversion, wiring | - |
| GraphQL resolvers | none | each passes its arguments to one service method | services |

External: MARS (the card system of the stores), the transaction service
(authorizes and voids payments), the customer, pass and notification services,
RabbitMQ (`noAck: true`: a message whose handler fails is gone), Redis and
Postgres through TypeORM (saving a loaded entity writes back the columns it was
loaded with; the code relies on no unique constraint).

### Interactions

- A GraphQL request becomes one call of a service method. Requests of one
  customer and of several interleave at every await.
- The two inbound queues (balances, pay-at-table) start a handler per message;
  handlers of two messages interleave too.
- MARS both answers calls and pushes messages, so a pulled answer and a pushed
  one for the same card or check may arrive in either order.
- Timers drive the token refresh and the end of a ticket session.
- Purchases call, in order: transaction service, Redis, (Postgres), MARS, Redis,
  (Postgres), MARS again for the offer, customer service, Postgres, Redis.

### What is hard, and what makes each component correct

| Part | Hard behaviour | Correct when |
|---|---|---|
| Purchases | a failure, a lost answer, a timeout or a crash at any await; two places that void; a progress record that must not run ahead | a success is complete; a failure is voided and voided once; the record tells the truth; a timed out MARS call is reported; every request ends |
| Card rows under purchases | entities saved after awaits | a recharge neither brings back `easyRechargeSent` nor loses a setting |
| Digital card | check-then-act around a payment | one digital card per customer unless two purchases pass the check side by side; a row only for an active card |
| MARS token | refreshes overlap, timers replaced, outages end a chain of refreshes | a refresh is always scheduled; the token recovers after an outage; one timer |
| Ticket session | check-then-set, a timer racing an update, key expiry | the last update of a session reaches the pass |
| Valid-card cache | a negative answer cached | a card added to the app gets its updates |
| Balance cache | unlocked read, merge and write of partial messages | a balance does not go back in time; all attributes or none; it becomes current |
| Check and table cache | two pulls of one check, a closed check stored late, any error removes a table | a closed check does not stay cached |
| Check payment | two payments of one check; MARS paid and receipt lost | a purchase like the others; one receipt per check, showing every payment |
| Rate cards and prices | the price shown and the price checked come from two lookups, under a key of four attributes, with a store and offers that may change between them | a price is refused only for a named change or for a query without a payment type; who was refused gets to pay; cached rates become current |
| Cards of a customer | read-then-write over several rows; stale entities | one reward card, one row per card, a status that agrees with MARS |
| Queries of a wallet | two lookups, balances given by position and then by number, in the order they were found | each card shows its own balances, and no older ones than before |
| Easy recharge alert | rows judged before awaits, marked after the alert; marks, resets, settings, updates, enablings and disablings save the row they loaded | one alert for each recharge, a mark only after an alert, the setting given last, an item for the last purchase |

## 2. Modules

| Module | Models | Extends |
|---|---|---|
| `PurchaseContract` | what a purchase promises: payment, credit and one answer | - |
| `PurchaseTransaction` | what the three purchase handlers share, mapped to the contract | - |
| `FundsAdd` | `powercardFundsAdd` and the card row it edits | `PurchaseTransaction` |
| `VirtualPurchase` | `powercardVirtualPurchaseCreate` and the rows it adds | `PurchaseTransaction` |
| `CheckPayment` | `checkPaymentApply`, `receiptsClear` and the receipt of a check | `PurchaseTransaction` |
| `TokenRefresh` | `refreshToken`, its timer and everything that starts a refresh | - |
| `BalanceFeed` | the handler of balance messages, ticket sessions, the place of the easy recharge alert in it | - |
| `EasyRecharge` | the alerts of messages and administrators, the item they offer, and everything that saves an existing row of a card | - |
| `CheckCache` | pay-at-table messages, the `check` and `checkList` queries, the cached copies of a check | - |
| `Wallet` | create, update, configure, delete, enable and disable over a customer's cards | - |
| `BalanceCache` | the cached balances of a card under queries, messages and recharges | - |
| `CardQueries` | the queries for the cards of a wallet, over the cached balances of several cards | - |
| `RateCards` | rate card queries, offers, the check of a price before a purchase, the cached rate cards | - |
| `MCFundsAdd`, `MCVirtualPurchase`, `MCCheckPayment`, `MCTokenRefresh`, `MCBalanceFeed`, `MCCheckCache`, `MCWallet`, `MCBalanceCache`, `MCRateCards`, `MCCardQueries`, `MCEasyRecharge` | constants for TLC | the module they name |
| `PurchaseTransactionProofs` | lemmas on the shared steps | `PurchaseTransaction` |
| `FundsAddProofs`, `VirtualPurchaseProofs`, `CheckPaymentProofs` | invariants and refinement of the purchases | the module they name, the lemmas |
| `BalanceCacheProofs` | invariants of the cached balances | `BalanceCache` |
| `MarsProofs` | invariants of prices and of the access token, the two parts of `MarsService` | `RateCards`, `TokenRefresh` |
| `MessageProofs` | invariants of the two sides of a balance message, the alert and the session | `EasyRecharge`, `BalanceFeed` |
| `WalletProofs` | invariants of the queries of a wallet and of the operations on it | `CardQueries`, `Wallet` |

Three modules of proofs are about two components each. The components stay
apart: no variable, constant or definition is common to the two, and each
theorem is about one of the specifications. So that both can be extended, the
second of each pair names its specification for itself: `TokenSpec`, `FeedSpec`
and `WalletSpec`, with `TokenInit`, `TokenNext` and so on.

Definitions whose comment begins with "Mutant" are deliberately broken variants
of the definition that follows them. No specification uses one; each shows that
a property can fail when the code is wrong in that way.

### Purchases (`PurchaseTransaction`, `FundsAdd`, `VirtualPurchase`, `CheckPayment`)

`pc[r]` names the await request `r` is at. `Succeeds` and `Throws` resolve and
reject it. An await that rejects lands where the source's `try` blocks say: the
catch block (`"voiding"`), or straight out of the handler (`"failed"`) for the
write of `AUTHORIZED`, which is outside the try block, and for every call inside
the catch block. A call that fails may or may not have had its effect: `record'`,
`tx'`, `redeemed'` and the others are chosen from both. MARS is weaker still:
a request stays in flight after the handler gave up on it (`MarsDecides`), so a
recharge that timed out may be applied after its payment was voided.

| Variable | In the code |
|---|---|
| `input`, `easy` | the offer id, `isNewCustomer`, `easyRechargeEnabled` of the input |
| `tx`, `voidsSent`, `saidTimedOut` | status of the payment at the transaction service and the void calls it received (PS 2096-2216, 2444-2472) |
| `record` | `powercardTransactionState` in Redis (MC 306-327) |
| `mars`, `timedOut` | `CardRecharge`/`CardActivateDigital` and `error.timedOut` (MS 856-911, 1125-1191) |
| `redeemed`, `notNew`, `snapshots` | offer, customer and snapshot steps |
| `rows`, `entity` (`FundsAdd`) | the powercard row and the request's loaded copy |
| `cards` (`VirtualPurchase`) | requests whose digital card has a row |
| `raced` (`VirtualPurchase`) | history: customers with a purchase that passed the check while another had passed it and not saved its row (`Rivals`) |
| `answer`, `target` (`CheckPayment`) | the receipt MARS answered with, as the set of payments it shows; the id of the row the handler found |
| `receipts`, `shows` (`CheckPayment`) | rows of the check in `receipt`, and the payments each shows |
| `fault` | history: which kind of call failed |

Reads that come before the payment (balances, rate card, offers, the check of
dollars paid) are one step that may reject the request; `RateCards` has them one
by one. The mobile pass, the
receipt email and logging swallow their errors and change nothing a purchase
depends on; they are left out.

The three handlers implement `PurchaseContract` under the refinement mapping of
`PurchaseTransaction`:

    Contract == INSTANCE PurchaseContract WITH
      payment <- tx, credit <- credited, reply <- replies

where `credited` are the requests MARS applied and `replies` what the customer
was told, read off `pc`. The progress record, the offer, the rows and the failures are
not part of the contract.

`CheckPayment` pays one check, or a part of it, several times. It keeps no
progress record, offer or snapshot, and its MARS call has no void of its own:
any error after the authorization lands in one catch block that voids once
(PS 634-643). MARS answers with the receipt of the check as it stands after the
payment, the handler looks for the row of the check, awaits, and saves its own
answer over it. `raced` records that a payment found no row while another was
about to save one, `overtaken` that a save passed a payment whose answer is
older, `cleared` that `receiptsClear` ran. A payment that is voided because its
receipt could not be saved stays applied at MARS, and later receipts show it:
the contract allows a credit without a standing payment, as the code does.

### Token (`TokenRefresh`)

A chain is a succession of refreshes, each started by the timer the one before
it set. `Fire` starts the next refresh of a chain, `Unauthorized` starts a chain for a 401,
`Locations` starts one for the first call of `locations`, and the bootstrap
starts the first. `RefreshToken` is the part before the await: it clears the
timer the service remembers (`handle`). `Grant`, `Refuse` and `FailToken` are the
three outcomes after it: a token and a timer; no token, a timer and an error; an error
alone. `token` is what MARS thinks of the stored token. `up`, `broken` and
`overlap` stand for MARS and for what happened before.

### Balance messages (`BalanceFeed`)

One powercard, and the messages MARS sends about it. `stage[m]` names the await the
handler of message `m` is at, from `handleInboundBalanceMessage` (PB 120-393) down
to the alert of an easy recharge.

| Variable | In the code |
|---|---|
| `inApp`, `sent` | the card's row and its `easyRechargeSent` |
| `valid` | `__POWERCARD_VALID`, three-valued: absent, true, false |
| `cached`, `stored` | whether Redis has balances of the card, and which messages were merged into them |
| `sawSent`, `old` | what the handler read before an await and uses after it |
| `key`, `timer`, `carry` | `__TICKET_SESSION_IN_PROGRESS`, the timeouts of the process that started a session, and what the end of a session read |
| `shown` | messages whose content reached the pass |
| `orphan`, `excused` | history: which losses an error or a crash explains |

A message is either a ticket update, which goes through a session, or a balance
message, which updates the pass itself; `Low` and `Dropping` say whether it
would raise an alert and whether it looks like a tap of the card. `Crash(p)`
ends the handlers and timers of a process and leaves Redis alone. `Around` holds
what other operations do to the same rows and keys: adding and removing the
card, a recharge, the expiry of keys. The merge of the balances themselves is
not in this module: a message counts as stored when its write is done.

### Check and table cache (`CheckCache`)

One check and the tags of its table. The check is its version: MARS moves from
version 0 to `Last`, which closes it, and sends one message per version. Its
answers may lag (`served`, at most `MaxLag` behind), which is why the code
retries a pull whose amount differs from the message's (PS 1776-1824). `check` and
`lists[g]` are the Redis keys, each a set of at most one version. Handlers of
messages and queries of users share `Pull`, `StorePulled`, `PullList`,
`StoreList` and `StoreChecks`, since they run the same methods with and without
`refresh`. Several processes read the queue, so messages may start in any order.
A table message reads a row only to reuse its id, so its read and its write are
one step.

### Cards of a customer (`Wallet`)

The rows of one customer. Each operation is `powercardCreate`,
`powercardUpdate`, `powercardConfigSet`, `powercardDelete`, `powercardEnable` or
`powercardDisable`, chosen when it begins.

| Variable | In the code |
|---|---|
| `db`, `reward`, `open` | rows of the customer, `isRewardsCard`, status OPEN |
| `active` | whether MARS has the card active |
| `stage`, `kind` | the await an operation is at, and which operation it is |
| `row`, `asReward`, `asOpen` | its loaded entity: the row and the two columns as loaded or set |
| `crossed`, `raced`, `unsettled` | history: flags cleared under an entity that sets one, cards added or put back together, cards whose status was lost |

`Save` writes the whole entity: the columns in hand replace those of the row,
and a row that was removed is inserted again (PS 2594-2623). The flags are
cleared by one UPDATE over all rows of the customer (PS 2760-2769). Enabling and
disabling tell MARS first and save afterwards, so a failure in between separates
the two. Aliases, images and the order of cards are left out, and so is
`createPowercardInCustomerWallet` (PS 946-971), which nothing calls: it would add a
row without looking for a duplicate.

### Cached balances (`BalanceCache`)

One card. An attribute of a balance is the number of the change at MARS it
reflects, 0 when absent: `tickets` is what a ticket message provides, `chips`
stands for every other attribute the cache keeps, `points` for the reward points
the merge drops (MC 88-149). `cache` is the Redis key; `new` and `old` are the
balances a writer pulled and those it found, in hand between its get and its set
(MC 83-137). Actors are the messages (a handler each), users with a query each,
and recharges, which update the cache with MARS's answer, drop the key and fetch
it again from a timer (MS 856-911). `floor` remembers the newest value of
each attribute that was stored; `overtaken` that a write passed an actor with
older balances still on its way; `vanished` that the key went away under a
ticket message. The update after a recharge (MS 805-821) is taken to store whole
balances; in the code, when the key is absent, its country and status are null and
its `IsRegistered` is false, until the drop of the key that follows. Since the merge drops `points`, a second query within the life
of the key shows none; the serializer turns that into 0. A query is for one
card; `CardQueries` has those for several.

### Queries of a wallet (`CardQueries`)

`cardBalancesMultiple` (MS 977-1054) reads the cards one by one from Redis, pulls
the missing ones in one call, adds what MARS answers to what it found, and stores
it entry by entry. So the entries are not in the order of the cards. `powercards`
makes that lookup twice: `findByCustomerUuid` gives the entries to the cards by
position (PS 2664-2703) and throws when there are too few, and `fetchCardBalances`
gives them by number (PS 2808-2847). `powercard` and
`queryPowercardsByPowercardNumber` make the second lookup only.

| Variable | In the code |
|---|---|
| `mars`, `messages` | the balances at MARS, and the messages about them that are not stored |
| `cache` | the balances in Redis (MC 78-149), without reward points |
| `rows`, `lookup`, `pc` | the cards a query is about, which of the two lookups it makes, and the await it is at |
| `place`, `toPull`, `balances`, `toStore` | the locals of `cardBalancesMultiple`: the place of the card it reads next, the cards it has to pull, what it has collected, and the places in that of what it has to store |
| `shown` | the balances copied into the entities, `Nothing` before |
| `newest`, `overtaken`, `seen` | history: the newest balances stored, cards of which older ones were stored over newer, the newest ones a reader was shown |
| `lacked`, `gone`, `broken` | history: cards the last answer of MARS left out, keys that went away during the query, why it has no answer |

Balances are one number each: `BalanceCache` takes the attributes apart and shows
what happens between the get and the set of a merge, which is one step here. An
entry of MARS with another status than 200 is added to the answer and not
stored, so a card that MARS does not know is pulled by every lookup, and MARS has
no balances of it that could change (`CardQueriesAssumption`).

### Easy recharge alerts (`EasyRecharge`)

The rows of one card, which a message finds in some `Order`, and everything that
saves one of them. Four mean to set `easyRechargeEnabled` or `easyRechargeSent`:
the mark of an alert (PS 1450-1457), its reset by a recharge (PS 1459-1466,
2403-2411), `powercardConfigSet` (PS 772-800) and the setting that comes with a
recharge (PS 1287-1292). Three mean neither and save both as they loaded them:
`powercardUpdate` (PS 981-1022), `powercardEnable` (PS 1416-1428) and
`powercardDisable` (PS 1432-1448), one pair of actions (`EditFind`, `EditSave`),
since they differ only in columns and awaits that are not modelled here; the
attributes of an update do not have the two columns. Each finds the row, awaits, and saves all of it.
New rows and the removal of a row are in `Wallet`.

| Variable | In the code |
|---|---|
| `table`, `lastQty` | the two columns of each row; the chips of the last purchase with a snapshot (PS 802-822) |
| `pc`, `due`, `at` | the await of an actor (a handler of a message, `Inbound`, a caller or a recharge); the rows that wanted an alert when the message found them and have not had their turn (PB 293-332); the row it is at |
| `entity`, `item` | the row as loaded and edited, and the item chosen for the alert (PB 533-570) |
| `wish` | history: the setting each row was given last |
| `alerts`, `alerted` | history: alerts since the last reset, by messages (counted up to 2) and by anybody |
| `stale`, `late` | history: who holds a row that was saved since, who chose an item before the last purchase |
| `crossed`, `outdated` | history: rows whose mark another step passed or that failed to be marked; rows saved with a setting from before the last |

An administrator's alert asks no flag and sets it all the same. Errors leave the
handler, so the rows after the one that failed have no turn. A save of several
rows by one `powercardConfigSet` is one transaction per call; the model sets one
row. The text of the notification and its link are left out, and the rate card
in `Menu` does not change (`RateCards` has its changes).

### Rate cards and prices (`RateCards`)

The app shows the rate card of a store and its offers; a purchase sends back the
price of the items picked from them, and the service looks both up again before it
asks for the payment (PS 1223-1268, 1057-1096, 2507-2592). `pc[u]` is the await
the request of user `u` is at, or what came of the last one.

| Variable | In the code |
|---|---|
| `rates`, `home`, `offers`, `withApple` | at MARS: the rates of a store, the store the card has roamed to, the list of offers, and which lists have the Apple Pay offer |
| `cache`, `cachedHome` | Redis: rate cards by version, store, new customer and payment type (MC 180-204, 380-402), and the store in the cached balances |
| `aim`, `key`, `got`, `current` | what the request needs the rate card for, which one, the pulled one, and the offers MARS has answered it with |
| `seen`, `shown`, `checked` | the offers and the rate card the app shows, and the rate card the price was refused against |
| `changes`, `faults` | the bounds' counters |
| `roamed`, `overtaken` | history: the card has roamed; a write passed a user with older rates of its key |

The check of a price takes two lookups for every customer, in this order: the
offers, from MARS each time (`CheckItems`, `AskOffers`; PS 2532-2534), and the
rate card, from Redis if it is there. The items a customer picked are looked for
in both (PS 2555-2568), so `Price` depends on both for a `Picker`. A purchase with
Apple Pay makes a whole `offerList` of its own before that, only to see whether the
Apple Pay offer is in it (`BeginCheck`; PS 1204-1221); the check overwrites that
list of offers with its own.

The key of a rate card in Redis has the version, and -1 goes as 0 (MC 380-402):
`offerList` always asks for -1, everyone else for `rateCardVersion`, which is -1 by
default. The payment type of a key is 0 or that of Apple Pay in a check, but
`getRateCards` without a payment type, which the API allows
(`src/test/rate-card.db-606.get-rate-cards.e2e-spec.ts`), reads and stores a third one, `absent`
(PS 1526). Users in `Terse` have an app that asks so.

A rate card is its key and the number of the change it reflects, offers are their
store and number, and different ones have different prices, so a refusal in the
model is at least as frequent as in the code. Two cards of the same price, and the
sum over the items a customer picked, are abstracted to that (`Price`). Of MARS,
which is not in `src/`, it is taken that a query without a payment type is one of a
customer without Apple Pay, and that it lists the same offers of a store to the
query of the app, which names the state and the payment type too (PS 1613-1621),
and to the check, which names the store and the customer only (PS 2522-2525).
Where it does not, a price with an offer may be refused without any change. Query, offer
list and purchase share the lookup of a rate card (`ReadRates`, `PullRates`,
`StoreRates`), as in the code. The order in which the app asks (offers first, for a
customer who uses them, then the rate card) is external. The pull of a card's
balances and their store are one step, since `BalanceCache` takes them apart. The
heading texts of a rate card and `enableStoreIdOverride` (PS 1247, 1498-1500), a
switch for test environments that names one store for all, are left out.

## 3. Runs

| Run | Asks | Shows |
|---|---|---|
| `funds_add` | one recharge, every input, every failure, a crash anywhere | a success is complete; a failure is voided unless Redis or the transaction service cut the void short; a payment is voided once; the record is reliable at every step; a timeout is reported; the recharge implements `PurchaseContract`; it ends |
| `virtual_purchase` | two digital purchases of one customer, with and without an offer, every failure, a crash anywhere | a row only for an activated card; a second card only when the purchases passed the check side by side, whatever failed or crashed; each purchase implements `PurchaseContract` |
| `token_refresh` | three chains under outages and expiry | a refresh is always scheduled unless a request for a token failed outright; one timer unless refreshes overlap; the token recovers |
| `balance_feed` | two of three messages about one card (two ticket updates and a balance message) on two processes, with errors, crashes and expiry | a ticket update is not forgotten and reaches the pass unless an error or a crash cuts its session short; a session ends; a card that stays in the app is not ignored for good |
| `check_cache` | a check changed and closed, with its messages and a user's queries, lagging answers, errors and crashes | every copy converges to the last version once MARS answers with it; every handler ends although it retries |
| `check_payment` | two payments of one check, with every failure, late answers, crashes and cleared receipts | one receipt unless two payments raced for it; the receipt shows every confirmed payment unless an older answer was saved last; each payment implements `PurchaseContract` |
| `wallet` | three operations of every kind over two cards, with failures and crashes | one reward card, one row per card, a status that agrees with MARS, but for the races and failures the properties name |
| `balance_cache` | a change by play or by a recharge, then one of the tickets, and a user who keeps asking | balances do not go back in time unless a write overtook an older one, are whole unless the key vanished, and become current |
| `rate_cards` | a customer who recharges, picks an offer and whose app leaves out the payment type, and one who buys a digital card with Apple Pay, under a change of the rates, of the card's store or of the offers, with expiry, failures and crashes | a cached rate card is of its key and does not go back unless a write overtook older rates; a price is refused only because the card roamed, the offers changed for who uses them, the store has newer rates, or the app asked without a payment type, or after such a write; cached rates become current; a refused customer who keeps trying gets to pay |
| `card_queries` | a wallet of a card MARS does not know, one its answer may lack and one it knows, asked for as a whole or card by card, while balances change, messages are stored in any order and keys expire | each card shows its own balances unless MARS left it out of the second lookup; nobody sees balances go back unless a late write put older ones over newer; a query fails only for a call that failed or an answer that was short; reward points are only shown when a key went away in between |
| `easy_recharge` | two messages, a recharge, and a caller who triggers an alert, sets the setting, or updates, enables or disables the card, over two rows of one customer, with every call failing | one alert for each recharge, a mark only where there was an alert, and the setting given last, but for the crossings the histories name; an alert offers the item of the last purchase unless one came after the choice |
| `virtual_purchase_twice` (violation) | one digital card per customer | two purchases pass the check before either saves its row |

### Bounds

- One request covers every property of a recharge that speaks of a single
  request: recharges share only the card rows (`EasyRecharge` is about those),
  and the proofs show the properties for any number of requests. Digital purchases
  share the check for an existing card; two of them race, or come one after the
  other, and a third has nobody else to race with. They are interchangeable
  (symmetry).
- Inputs of a recharge are complete: with and without an offer, new and known
  customer, setting absent, on and off. A digital purchase has both or neither of
  the offer and the new customer. `voidsSent` needs no bound: a handler
  sends at most two.
- Three chains allow an armed timer, a waiting refresh and a third that starts
  meanwhile. `MaxCalls = 2` bounds calls in flight with a rejected token: two
  401s suffice to start overlapping refreshes. In the liveness property a 401
  waits until a chain is free; a chain that is not free is itself a refresh
  under way.

- `balance_feed`: `MaxHandled = 2` of three messages get a handler. A session
  is disturbed by one other handler (another update, or a balance message that
  stores and alerts), and two processes separate the one that crashes from the
  one that goes on. The proof of `NoUpdateForgotten` needs no bound.
- `check_cache`: `Last = 2` gives an open version, a change of it and the close;
  `MaxLag = 1` and `Retries = 1` (the code retries more often) give a pull that
  is one version late and a retry that helps or does not. One tag and one user
  give every pair of writers of a key: a handler and a handler, a handler and a
  query. Two users differ from one only by overwriting each other's copies.
- `check_payment`: two payments give every order of two answers and two saves.
  A third adds a longer chain of the same overwriting; the proofs cover it.
- `wallet`: three operations over two existing rows; the card an operation
  creates is the first row's, so that it is the same card as one already there
  and as one another operation creates. The third operation is what a stale
  entity needs: one holds it, one removes or replaces its row, one adds the card
  again. Operations are interchangeable (symmetry).
- `balance_cache`: two changes, the first by play or by the recharge and the
  second of the tickets only, with a message each. The user asks again and
  again, so any number of queries interleave with one handler per message.
- `card_queries`: three cards, since position and number disagree in a wallet of
  two only by a swap; the first is never cached, the second may be missing, and
  the third changes twice, which is what a late write over a newer one takes. One
  reader asks any number of times; what other readers do to Redis, messages do.
- `easy_recharge`: each process runs once. Two rows of one customer show the
  choice of one of them, two messages the crossing of two alerts; the recharge
  and the caller, who may do any of the four things a caller does, each save a row
  loaded before another save. The menu sells 1, 2,
  2 and 3 chips, so an item may be missing, single or double. The messages are
  interchangeable (symmetry).
- `rate_cards`: `Last = 1` change (of the rates of a store, of the store of the
  card or of the offers) and `Faults = 1` failure or crash. One change between a
  showing and its check, or between a pull and its store, is all a refusal or an
  overtaking takes. Both customers start at one store and are new. The one who
  recharges picks an offer and asks without a payment type, so reads one rate card
  and is checked against another; the digital buyer has Apple Pay, and the fee, the
  rate card and the check use the other two payment types. They ask and pay any number
  of times. The first list of offers has the Apple Pay offer and the second
  does not; every other choice of lists multiplies the states that liveness has to
  go through, and is covered by the proofs, which hold for any `WithApple`.

### Fairness

- Purchases: `WF_vars(pc[r] # "idle" /\ Handler(r))`. Node runs the continuation of
  every settled promise, and every await settles because each HTTP call has a
  timeout and the database clients report a lost connection. A request need not
  be made, MARS owes no decision (`MarsDecides` is not fair), and which way a
  call goes is never assumed: the handler may fail at every step.
- Token: timers fire, a request for a token is answered or times out, and a
  call that MARS rejects starts its refresh. Expiry, outages and the calls of users are not fair;
  `TokenRecovers` assumes, in its own premise, that MARS stays up from some
  point and that calls keep coming while the token is bad.

- Balance messages: handlers that have begun go on, timers fire, Redis expires
  its keys. No message need be sent and no call need succeed.
- Checks: handlers go on, delivered messages are handled, keys expire. Users need not
  ask, and MARS need not catch up: that is the premise of `CacheConverges`.
- Balances: awaits settle, delivered messages are handled, the timer of a
  recharge fires, and the key expires. Nobody need play, recharge or ask.

- Rate cards: awaits settle and keys of rate cards expire. A customer who has not
  paid asks again, and does not look at rate cards for ever without buying
  (strong fairness of `Buy`): both are part of what "keeps trying" means. Failures
  and crashes are bounded by `Faults`.

The digital purchase and the check payment take the steps of the recharge between
their awaits, so their end under fairness is not checked again. The queries of a wallet
and the alerts have no liveness property: an alert that fails is not repeated,
and a query ends with its last await.

Deadlock is checked in every run but `wallet` and `easy_recharge`, whose
operations run once and then stop. The purchases of a card end in an explicit `Done`
step, taken only when every request has ended and no MARS request is in flight.

## 4. Proofs

Every safety property that a passing run checks is a theorem. The theorems hold
for every set of requests, cards, rows, customers, stores, chains, messages,
processes, operations, users and recharges, for every bound on changes and
failures, and under the constants' assumptions: `PurchaseAssumption` and `FundsAddAssumption`
(inputs are inputs, each request recharges a card),
`VirtualPurchaseAssumption` (each request has a customer),
`TokenAssumption` (there is a chain, the bound is positive), `FeedAssumption`
(the kinds of message are sets of messages, each message has a process),
`WalletAssumption` (an operation's row is not one of the first, each row has a
card, the first rows have different cards), `CacheAssumption` (users,
recharges and messages are different actors), `RateCardsAssumption` (users are of
the kinds they are said to be, stores are stores), `EasyRechargeAssumption` (the
card has rows in an order, handlers of messages are no callers, recharges buy chips) and
`CardQueriesAssumption` (a wallet has a card, and each of its cards once; MARS
has no balances of a card it does not know).

**Purchases.** None of `SuccessIsComplete`, `VoidedUnlessCutShort`,
`RecordIsReliable` or `TimeoutIsReported` is inductive: each is about the end of
the handler and needs to know what every await before it could rely on. `IInv`
says that. `BeforePayment`, `BeforeMars` and `AfterMars` give the content of the
record and the work done at each await of the try block, `Sound` says that
nothing has failed there, `Voiding` says what holds on the way through the catch
block (the outer void is reached only with the payment still authorized), and
`Flagged` that an unvoided payment has not been reported as timed out. The
argument for a step goes in two parts. For every request other than the one that
moves, all of the invariant depends on that request's own variables, which the
step leaves alone (`Local`, `Same`). For the one that moves, an effect lemma of
`PurchaseTransactionProofs` (`SucceedsEffect`, `ThrowsEffect`, `VoidSendEffect`
and others) reduces the step to what it changes, and each conjunct follows.

`SuccessIsComplete`, `VoidedUnlessCutShort`, `RecordIsReliable`,
`TimeoutIsReported` and `CardIsBacked` follow from the invariant, and so does
`OneVirtualPowercardUnlessRaced`, by one fact that is not about a single request:
unless requests raced, at most one purchase of a customer has a claim
(`OneClaimUnlessRaced`), be it a row or a handler past the check. Only `Begin`
makes a claim (`OnlyBeginClaims`), and it records the race when there is another
(`BeginKeepsClaims`), because the check sees every row and `Rivals` every handler
without one.
`NoVoidOfVoided` is an action property proved from it. `Implements` uses the
refinement mapping and shows that each step is a step of
`PurchaseContract` or a stutter, using the invariant where the contract has a
guard: a confirmation needs a credit and a standing payment, a void needs a
request not yet answered.

**Token.** `RefreshGoesOn` holds because only `RefreshToken` turns a timer off
and it leaves its own chain asking, and only `FailToken`, which sets `broken`,
ends a chain. `ServingHasToken` needs that a
success always stores a token first. `OneTimerUnlessOverlap` needs the
invariant that without overlap every chain other than the handle's is off.

**Balance messages.** `NoUpdateForgotten` says that an update whose handler went
past the session is in the hands of a timer. Two facts carry it. `KeyBacked`: a
session key in Redis that no crash or error left behind has an armed timer, so a
handler that finds the key can rely on a read still to come; this survives two
timers under one key because the end of a session deletes the key before it
reads, and an early expiry only removes it. `StoredFirst`: a ticket update is in
Redis before its handler asks for a session, so that read includes it. With
`TypeOK` these are inductive for any number of messages and processes.

**Check payments.** For each payment by itself the argument is that of the other
purchases: `Steps` says what each await may rely on. The receipt is shared, and
three more facts carry it. `OneClaim`: unless raced, the rows there are and the
rows about to be saved are one row. `AnswerShowsItself`: MARS answers a payment it applied
with a receipt that shows it. `PaidIsShown`: unless raced or overtaken, the rows
and every answer still on its way show the payments that were confirmed; a save
keeps this because the row it saves is the only one and its answer is among those
on the way. `QuietKeeps` deals with all steps that are not about the receipt.

**Cards of a customer.** `FlaggedOnce` and `ClaimedOnce` strengthen the two
uniqueness properties from the table to the entities in hand: a row that will be
flagged, or added, when an operation saves counts already. `StatusKnown` says
which entities agree with MARS: all of them while no enable or disable is about
to save, else one that is. `Shape` ties awaits to kinds of operation.

**Cached balances.** `NoneCarriesOlder` says of every actor what
`NotOlderUnlessOvertaken` says of the cache: what it may still write is not older
than what was stored. It is kept when MARS changes because `MarsIsNewest` bounds
everything held or stored, and when an actor reads the cache because what is
cached is not older either. A handler's own message counts as carried, so a
handler that pulls newer balances than its message tells overtakes itself.
`MergesWithWhole` and `Shape` carry `WholeUnlessVanished`: a ticket message that
merges finds the other attributes, everyone else holds whole balances.

**Rate cards.** `NotOlderUnlessOvertaken` is about Redis and a user. What keeps
it is `InOrder`: unless a write of older rates passed another, what a user has
pulled and is about to store is no older than what is in Redis or was shown to
anyone. `Honest` bounds every rate card by the rates of its store and every list of
offers by the offers at MARS, so that a pull is the newest there is. Neither says
why a price is refused. `Routed` follows a request from await to await: what it
needs the rate card for, and that the key it looks up is the one its user is
entitled to by kind of customer and store, as long as the card has not roamed
(`Entitled`), and by payment type (`Asked` for a showing, `Charged` for a check
under the same offers). `Offered` says that offers in hand are of such a store too,
and no older than those the user was shown. `Compared` says the same of the rate cards that
were shown and checked: with the same offers and a payment type, two of the same
request differ only in their version, and `InOrder` leaves new rates as the only
reason.

**Easy recharge alerts.** Everyone who saves writes back a whole row, in five actions of the model for the seven of the code. `Fresh` says
that what an actor has loaded is the row, in the columns it does not set, unless
the pair of actor and row is in `stale`; `DueUnmarked` says the same of the rows a
handler found due. So a save that is not stale changes nothing it does not
mean to, and one that is stale is recorded. `Told` relates, for a row that nothing crossed,
the handlers on their way to mark it, its alerts and its mark: who is to mark it
has alerted, an alert has its mark or a handler that will set it, and there is
one. A second handler that alerts finds one of the two and crosses the row.
`OffersLastPurchase` is inductive by itself, given the types, because a
purchase makes every choice late. The rows a handler found are a set with a
numbering and `Best` is a maximum over positions, where the code loops over
lists, so that the proof needs no induction over sequences.

**Queries of a wallet.** A query can go wrong in the number of entries, their
order and their age. `Counted` says that entries and cards still missing are as
many as the cards passed, and with `Covered` (each card is ahead, missing, left
out or among the entries) that the copy by position runs short only when MARS left a
card out and that the copy by number finds each of the others. `Collected`,
`Shown` and `Seen` say that nothing held is older than what the reader was shown (`NotBefore`) and that all of it but
the entries of unknown cards was stored, or is about to be; `Kept` and `Sound` say what Redis and MARS add to
that. `Warm` carries reward points: what the first lookup of a wallet did not find
in Redis it stores, so that the second finds it there, without points, unless the
key went away. `Collects` is both the copy by position, which starts the second
lookup, and the copy by number, which answers; what it needs is stated once
(`Ready`) for a lookup that ends in Redis and one that ends with a store. Between
the steps of a reader `Later` says how far the others can get:
versions grow, and a key that goes away is noted. Cards that are still to be
read are a place in the rows and those to be pulled or stored are sets, where the code has lists.

The inductive invariants were found with TLC on the instances of the runs, and
hold there in every state.

The inductive invariants, the type invariants of all modules with proofs,
`SuccessIsComplete`, `VoidedUnlessCutShort`, `RecordIsReliable` and `NoVoidOfVoided` of
`VirtualPurchase`, `PaymentIsComplete`, `VoidedUnlessCutShort` and `NoVoidOfVoided` of
`CheckPayment`, `VoidOnlyAfterFailure` and `ServingHasToken` are proved for every
instance, so no run repeats them.

Model-checked only: the liveness properties (`EveryRequestEnds`,
`TokenRecovers`, `UpdatesReachPass`, `SessionsEnd`, `InvalidMarksPass`,
`BalancesConverge`, `CacheConverges`, `EveryMessageEnds`, `RatesConverge`,
`RefusedGetThrough`), which rest on fairness and so are beyond the prover. All of
`CheckCache` is among them: any copy of a check may be stale at any moment, and its
correctness is eventual. Its type invariant is stated for the reader; no run lists it.

## 5. Races the code leaves open

The history variables mark what the properties except, and a reader of
the code may want to know which of it contradicts a comment or a test:

- A customer gets two digital cards when two purchases pass the check at PS 1075
  before either saves its row, although "cannot create additional digital
  powercards" (`src/test/powercard-virtual-purchase-create.e2e-spec.ts:155`). The
  run `virtual_purchase_twice` shows it; `raced` marks it.
- A Redis error of the write of `AUTHORIZED` (PS 1103) or at the top of the catch
  block leaves the payment authorized, although "it must be voided if any steps in the
  creation of the power card fail" (PS 1108). `VoidedUnlessCutShort` excepts
  exactly these faults.
- A save of a row loaded before the payment (PS 1291), before another save
  (PS 1450-1466) or before the calls of an update, an enabling or a disabling (PS
  1022, 1427, 1447) writes back a mark that a recharge took away, or a setting the
  customer has changed. `crossed` and `outdated` of `EasyRecharge` mark it.
- Two operations leave a customer two reward cards, although the comment at PS
  922 sets "all other rewards cards to false". `crossed` of `Wallet` marks it.
- A customer whose app asks for rate cards without a payment type is shown a copy
  the check does not look at (PS 1526, 1095): the two may differ in age, and one
  with Apple Pay is shown the price without its discount. `RefusedOnlyIfChanged`
  excepts `Terse`.
- The second of the two lookups of a wallet finds in Redis what the first stored,
  without the reward points: `PointsOnlyIfGone`.

## 6. Not modelled, and the plan

Out of scope for good: the GraphQL resolvers (delegation), the serializers and
the receipt email (field-by-field conversion), brand data, configuration,
logging and the mock MARS API (no behaviour over time), the two test triggers of
`PowercardBalancesService` (they build a message and call the handler).

Done of the plan: the purchases of cards, the token, the balance feed with its
ticket sessions, the check and table cache, the cards of a customer, the cached
balances and the queries over them, the check payment, the rate cards and the easy
recharge alerts. Left out of parts that are modelled: the rating of a payment
(PS 730-762) is one insert that nothing reads; the distance order of
`LocationService` (LS 42-72) and the store feature switches of `AdminService` are
reads and single statements over tables nothing else here writes. Still to come,
most important first:

1. The safety of cached checks once MARS is quiet.
2. The nearest store and the admin switches (LS, `admin.service.ts`), whose edges
   are a radius and a store number of 0 (LS 50, `admin.service.ts:85`).
3. The composition of `BalanceFeed` with `BalanceCache`, which share the key of
   the balances.
