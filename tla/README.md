# Formal models of the shop

TLA+ models of this repository (a Django backend with PostgreSQL, Redis and
Celery under `src/backend`, and the operations scripts under `src/infra`),
checked with TLC on small instances; every safety property that a run finds to
hold is also proved with TLAPS, for every value of the constants.

## The system

Customers fill a cart, ask what delivery costs and confirm a checkout. The
backend reserves stock for 20 minutes, reserves a place in the coupon's quota,
verifies the customer's identity, and opens a link at Mercado Pago. The provider
announces payments with webhooks; workers fetch the payment and apply it to the
order. Staff refund, cancel, correct stock and import the parcels at a carrier.
Celery beat releases what has lapsed, retries what was lost, polls carriers and
counts visits anew. Editors keep the catalogue and the landing page; the public
side of both is cached.

State is rows in PostgreSQL, entries in a shared cache, and files. Concurrency is
that of HTTP requests, Celery workers and beat tasks; a row lock
(`SELECT ... FOR UPDATE`) inside a database transaction makes many services one
atomic step. What is left to go wrong is between those steps: what was read
before the lock, what happens between two transactions of one operation, what a
provider or a file system has done when a transaction is undone, what arrives
late or twice, and what is lost.

| Component | State | Operations | What makes it hard | What makes it correct |
|---|---|---|---|---|
| Stock reservations (`commerce/services.py`, `inventory.py`) | `on_hand`, reservations, movements | reserve, consume, release, restock, adjust, release task | the last unit, the end of the 20 minutes, a task in two steps | nothing reserved is sold to another; one end per reservation; the ledger explains the stock |
| Coupon redemptions (`commerce/services.py`) | one redemption per order, `max_redemptions` | reserve, consume, release, release task, edit of the quota | the clock is read before the lock; late payments | nobody joins beyond the quota; a held place is honoured |
| Checkout and payments (`checkout.py`, `payments.py`) | order, attempts, reservations, coupon | confirm, resume, apply a payment | results late, twice, out of order, of several attempts | a paid order has what it was paid for |
| Refunds and cancellation (`payments.py`, `cancellation.py`, `admin_services.py`) | refunds by idempotency key | refund, cancel, cancel with refund | the provider is called inside the transaction | refunded means the money is back; stock is restored once |
| Webhook events (`payments.py`, `tasks.py`) | one row per event | ingest, process, sweep | duplicates, crashes, lost tasks, the sweep against slow workers | an accepted event is applied at last |
| Shipments (`shipping.py`, `tasks.py`) | shipment, parcel imports | prepare, import, poll, track | carrier calls in transactions, tasks against staff | one order per parcel at the carrier; a shipment is imported when all its parcels are; every import ends |
| Shipping quotes, packing, carriers (`shipping.py`, `packing.py`, `providers.py`) | quotes, a token per adapter and in the cache | ask every carrier, pack, log in, repeat | carts edited meanwhile, policies edited meanwhile, refused tokens | the parcels are those of the order; offers are priced as configured; a refused token is dropped |
| Carts and prices (`services.py`, `api_views.py`) | carts and their lines | add, set, remove, clear, merge on login, price | a login repeated or overtaken; cents | no unit is counted that was not asked; totals are the sum of their parts |
| Mercado Pago connection (`mercadopago_oauth.py`) | tokens, configuration, two cache entries | connect, renew, disconnect | a renewal without a lock, overlapping callbacks | an authorisation is exchanged once |
| Support (`support/services.py`) | cases, messages, files | open, reply, close, reopen, claim | retries, closing against replying, files outside the transaction | one case per request; a closed case stays closed; attachments have their file |
| Catalogue (`catalog/`, `catalog_serializers.py`) | categories, products, variants, SKU counters, cached pages | move, edit, activate, number, search, cache | checks before writes, whole rows written back, versions announced after the commit | a tree of bounded depth; what is on sale has variants; pages are fresh; filters are exact |
| Accounts and identity (`accounts/`, `identity_service.py`) | one challenge per account, documents, verifications, ARCA's ticket | register, verify, sign in, verify identity, review, query | guesses at once, the registry asked between two transactions, a ticket that expires | five guesses; the identity verified is that of the order; ARCA is asked with a live ticket |
| Addresses (`locations/services.py`) | one delivery address | look up, move, edit, confirm | only the confirmation locks; an edit writes the whole row | what is confirmed is a place the customer pointed at, and that of the door unless an edit set it |
| Configuration (`backoffice/integrations.py`, `landing/`) | a row per service, images and files | save, test, upload | the panel and the users of a row judge it apart | what is called configured is in use, or fails in an error; no row names a missing file |
| Analytics (`analytics/`) | visits, events, conversions, daily tables | record, attribute, count, purge | callbacks lost after the commit, late visits | a paid order is counted; a closed day is complete |
| Backup and restore (`infra/ops/`) | backup sets, restored targets | back up, prune, restore | kills between steps | what carries a manifest is whole; the last good copies stay |
| HTTP API, localities, frontend | | | | see "What is not modelled" |

How they interact. `confirm_checkout` and `resume_checkout` call
`reserve_coupon_redemption` and `create_reservation`; applying a payment calls
`consume_coupon_redemption` and then `consume_reservation` on every reservation
of the order; a refund and a cancellation call their inverses. Webhooks and the
reconciliation task both end in `apply_payment`, whose commit calls the recording
of the conversion. `perform_order_admin_action` calls refund, cancellation,
resume, shipment and tracking for the staff, in a transaction of its own. A
confirmation uses the quote, the address and the identity that earlier requests
left. Every write of the catalogue moves the version of the cache.

`PROJECT.json` lists every component, modelled or not, and under `hazards` what
in this code is hard to test, at its line, with the properties that cover it.

## The modules

| Module | Models | Proofs |
|---|---|---|
| `Inventory`, `StockPromise` | reservations of stock, the release task, restock, correction, the infinite flag; what reservations promise, as the abstract specification `Inventory` implements | `InventoryProofs` |
| `Coupons` | the redemptions of one coupon | `CartProofs` |
| `Pricing`, `Packing` | what a cart costs, how it is packed | `CartProofs` |
| `Checkout` | one order from checkout to refund | `CheckoutProofs` |
| `WebhookEvents` | one event from its deliveries to its application | `ProvidersProofs` |
| `CarrierCalls`, `Integrations`, `Fiscal`, `Identity` | tokens and repeated requests of carriers; configured services; ARCA; the verification of identities | `ProvidersProofs` |
| `Shipments`, `Connection`, `Analytics` | the parcels of one order at the carrier; the Mercado Pago account of the shop; visits and conversions | `BackOfficeProofs` |
| `CatalogCache`, `Categories`, `Publication`, `Catalogue` | the versioned cache of the public catalogue; the tree; products and their variants; which products a filter keeps | `CatalogProofs` |
| `Images`, `Backups` | pictures and their files; backups and restores | `CatalogProofs` |
| `Accounts`, `Support`, `Addresses` | registration, code and sign-in of one account; cases; a delivery address | `StorefrontProofs` |
| `Carts`, `Purchase`, `Rates`, `Rollups` | carts before the checkout; from a cart to an order; what delivery costs; the daily tables | `StorefrontProofs` |
| `FiniteFacts` | nothing: lemmas on numbers, finite sets, sums, iterations, folds and loops, for the proofs | itself |
| `MC...` | constants, symmetry and composition for TLC; the compositions `MCAmounts`, `MCProviders`, `MCBackOffice` and `MCStorefront` are proved about as well | the module of their components |

Common to all: a service that holds its lock from its first read to its commit is
one action; one that does not is several, with what it has read kept in the
record of its caller. A path that raises rolls back and is no step, unless it has
acted outside the database. Cache, files and providers are outside, and every
call to one of them is a step. Definitions ending in a comment that names what is
wrong with them (a dropped guard, a misspelt status) are the mutated forms by
which each property is shown to notice something; no behaviour uses them.

### Inventory

State: the columns of `ProductVariant` (`on_hand`, `stock_is_infinite`) and
`StockReservation` (`status`, `quantity`, `tracks_inventory`), the movements of
each reservation counted by kind, the sum of the movements of each variant, and
the ids the running release task still has to visit. `elapsed[r]` stands for
`expires_at <= now`: nothing extends `expires_at`, and the code asks nothing else
of the clock. Each service locks the variant first and is one transaction, hence
one action. `Reserve` includes the release of lapsed reservations that
`create_reservation` does on its way. `SweepSelect` and `SweepRelease` are the
two halves of the release task. Not modelled: the text of references, who did it,
creation of variants.

`StockPromise` has free stock, claims and four actions. The refinement maps an
elapsed reservation to a dropped claim at once, although its row says "active"
until somebody visits it: what a buyer can see does not depend on the task.

### Coupons

A call is two actions: reading the clock, and the rest under the lock, because
both functions call `timezone.now()` before they lock. A payment holds the
order's lock meanwhile, so only one payment of an order waits and no release
comes between; a checkout reads its clock before it locks the order. `Granted`
is the state after making room: what has lapsed at the caller's time is released.
The quota is edited at any time to any value.

### Checkout

State: the order's two statuses, what must be settled before its first attempt
(identity review, agreed shipping cost), its attempts (`PaymentTransaction` with
the `StockReservation` made with it), its coupon, its refunds, the provider's
payments, and the results that workers have fetched and not applied yet. The
order is for one unit of one variant, so an attempt makes one reservation; an
order with several lines behaves alike, because applying a payment consumes all
its reservations or finds one missing. Attempt, reservation and link end
together, 20 minutes after they were made (`elapsed`).

`Apply` is `_apply_payment_atomic`, one disjunct per branch, with everything the
branch calls. `Fetch` and `Apply` are separate because the answer is fetched
before the lock. An approved result may find the coupon used up by others
(`ApplyWithoutCoupon`; what others do is in `Coupons`). `RefundLost` is a refund
the provider accepted in a transaction that rolled back. The statuses PREPARING
and READY_FOR_PICKUP are "open"; SHIPPED, which no code sets, counts as
"fulfilled" wherever the code asks. `claimed` and `provider` are the provider as
the adapter uses it: refunds are idempotent by key, and another key on the same
payment is an error.

### WebhookEvents

State: the row, how far each delivery, worker and sweep is, the tasks in the
broker, and `handled` (the payment was applied or found not to match), which is
what the rest is for. `ingest_webhook` is `Create` or `Find`, then `Reject` or
`Accept`, then `Enqueue`: the view runs outside a transaction, so every save
commits by itself. The worker claims the row under its lock, asks and applies
without it, and writes the outcome with an UPDATE. A worker that gets no adapter
(`NoAdapter`: the access token cannot be renewed) queues the event before it has
claimed it, whatever the event has become. The sweep's SELECT and UPDATE
are two actions.

### Shipments

State: the shipment's status, the import record of each parcel, how far each
caller is, the orders and verdicts of the carrier, and what a transaction of the
panel would restore. `Requests` are the API and the tasks, where every step of a
call commits; `Panel` is `perform_order_admin_action`, whose whole call is one
transaction: it keeps its locks, the others see what was committed
(`SeenShipment`, `SeenParcel`), and a failure undoes everything except what the
carrier has done. A caller prepares the shipment, visits the parcels one by one
(import or poll), writes the status of the whole, and may fetch and save the
tracking. A carrier may accept, decline, leave a parcel undecided, or act and lose
its answer. `key` is the idempotency key of a record, which is derived from the
order, not drawn anew: this is what `OneCarrierOrder` rests on.

### Connection

State: the row of the integration, the two cache entries of a state (pending and
used) that live for ten minutes each, the callbacks, the readers of the token,
and the codes exchanged. A reader's look at an expired token and its storing of
the renewed one (`Look`, `Renewed`) are two steps without a lock between them;
storing and dropping credentials lock the row. A failure is written over a copy
of `public_config`.

### Carts and Purchase

`Carts`: adding, setting and merging hold the lock of the cart; removing a line
holds none, clearing takes two transactions, and a coupon is judged by a copy read
before the lock. A login merges the visitor's cart and deletes it, also when the
login is repeated. `asked` counts what each visitor has asked for.

`Purchase`: a quote takes its parcels and its fingerprint from two reads of the
cart, between which the cart may change; confirming locks the cart and compares;
resuming locks the order and not the cart. `edits` and `tries` are bounded.

### Pricing, Packing, Rates and Catalogue

Algorithms. A behaviour takes one input of a small set, and the invariant compares
what the code's steps make of it with a definition that does not follow them:
totals and their parts, for every basket, promotion and coupon (`PricingIsSound`);
units inside their parcels without overlap, limits kept, none left out, and the
same result however the query orders the lines (`PackingIsSound`); offers of the
usable carriers, with surcharge and threshold, also when the policy is edited
between the reads (`OfferIsSound`); the coarse database filter followed by the
exact one, against the filter's meaning (`FilterIsExact`).

A sort is the list of what is sorted by rank (`Ordering`): the element at place r
is the one that r - 1 others precede. The code's sorts are stable, so a key ends
with the place of its element, and no two are equal. Lengths, weights and amounts
are natural numbers: the code's decimals have two places, and a cent or a tenth of
a millimetre is the unit. `Boxes` come sorted, as `pack_items` sorts them first.

### The outside services

`CarrierCalls`: the token in each adapter and in the shared cache, written and
cleared without a lock; a request that gets no answer is repeated; Andreani's
adapter drops a refused token and tries once more. `Integrations`: the fields of
a row as filled or not (texts, as the form sends them), the status the panel shows,
the test and its result, the tokens of Mercado Pago with their expiry, and
what each part of the shop that reads the row makes of it (`Use`): an adapter,
nothing, as if the service were switched off, or an error. `legible` is whether the
texts that nobody checks when they are saved are what their readers take them for:
the amounts of a carrier's policy, Google's client id, the id and secret of Mercado
Pago's application. The policies of both carriers are read for every quote, so the
other carrier's row counts as well (`otherFails`). `Fiscal`: the ticket
from WSAA with its expiry, the clock read before the login, queries that take
time up to their timeout. `Identity`: a confirmation reads the document, asks the
registry outside any transaction, and places the order or finds that the same key
has placed it; the staff correct documents and approve reviews meanwhile.

### The editors

`Categories`: a move locks the category, its parent and then its descendants
level by level; creating and editing check first and write afterwards without a
lock, so another editor may come between (`overtaken` marks what such a write has
broken, and the properties are about the rest). `Publication`: the editor saves
the whole row of a product as it was read, the SKU counter with it; the
services lock it. Deleting a variant is a service that no view calls yet. `Images`: files are stored inside the transaction and superseded ones
deleted after it, which in the panel is still inside the request's (`harmed` is set
when a row is written over another's, or undone after its deletions).
`CatalogCache`: a writer moves the version after its commit; a reader makes its
key, looks, reads and stores in four steps.

### The others

`Accounts`: the request that creates the account issues the code; guesses compare
and count under the lock. `Support`: opening a case locks its owner, the rest
locks the case; `stored` is what the private storage has, and
`claimed` remembers the cases that an account took from another opener. Only whether a request
brings a file, and the row that names it, are kept of attachments. Staff change a case by a query that locks it together with its customer
and its assignee (`management_views.py:228`); the sqlite of the tests accepts it,
PostgreSQL refuses to lock the nullable side of an outer join. `Patch` is the action
as it is written: a model in which it always fails has fewer behaviours, and none that
this one lacks. `Addresses`: lookups, moves of
the pin and edits write without a lock what they have read before: the geocoders and
the pin their columns, an edit the whole row with any coordinates and summary that the
customer sends, and the review as it was read. Two columns of history say whether the
customer has pointed at the place (`agreed`) and whether an edit has set it, or the
summary, since it was found or pinned (`edited`). `Analytics`:
the callback after the commit, the task that records every five minutes what it
lost, and the purge. `Rollups`: visits and events are statements of their own; the daily task
counts the last days anew, each in one transaction, and may be missed or break
off. `Backups`: the steps of a backup, of its pruning and of a restore, behind a
file lock that the kernel gives back when its holder is killed.

## The runs

| Run | Instance | Shows |
|---|---|---|
| `inventory` | 1 variant, 3 reservations of 1 or 2 units, 3 units on hand, corrections to 1, one restock per reservation | `LedgerBalances`, `TrailTellsLife`, `ReservedStaysCovered`, `ElapsedIsReleased`, and that it implements `StockPromise` (`KeepsPromise`) |
| `infinite` | the same | violates `InfiniteStockStands` |
| `amounts` | 3 orders, quotas 1 and 2, 2 ticks of life, clock up to 3; every basket of up to 3 lines of amounts 1, 3 or 100 with promotions and coupons of 10% or 50% or of 2 or 150; every cart of up to 2 articles of 2 units each, 2 boxes | `JoinsWithinQuota`, `PlaceIsHonoured`, `PricingIsSound`, `PackingIsSound` |
| `checkout` | 2 attempts, 2 payments, 2 refund keys, 2 fetched results, 1 or 2 units on hand | `PaidIsCovered`, `StockFollowsMoney`, `CouponNeedsStock`, `RefundedMoneyIsBack`, `OneAwaitedAttempt` |
| `checkout_resume` | the same | violates `PaidIsNotChargedAgain` |
| `checkout_cancel` | the same | violates `PaidIsRefundedBeforeCancel` |
| `checkout_refund` | the same | violates `RestoredOnce` |
| `providers` | webhooks: 3 deliveries, 2 workers, 2 tasks in the broker, 2 losses; carriers: 2 adapters, 1 repetition, 3 tokens; configuration: 2 owners, no application in the environment, https; ARCA: 2 filers, 2 CUITs, tickets of up to 4 ticks with a margin of 3, answers within 1; identity: 2 documents, 2 confirmations with 2 keys, 1 check | `UnhandledIsOpen`, `AcceptedIsHandled`, `RefusedIsNotReused`, `ConfiguredIsInUse`, `TaxpayerIsSound`, `OrderIsIdentified` |
| `back_office` | shipment: 2 parcels, a task and a member of staff, 1 fault; connection: 2 accounts, 1 state, 2 callbacks, 1 reader; analytics: 2 orders, 1 visit, 1 lost callback | `ImportedIsWhole`, `OneCarrierOrder`, `ImportingIsSettled`, `AuthorisedOnce`, `ConversionIsRecorded` |
| `storefront` | support: 2 cases, an account and a guest, 2 requests, 2 keys; carts: 1 visitor, 1 account, 2 calls, 4 units; rates: 2 amounts, 2 policies, up to 2 parcels; purchase: 2 products, 2 places, 1 quote, 1 order, 2 edits; categories: 3 rows, 2 levels, 2 editors; images: 2 files, 2 editors; cache: 2 requests, 1 write; publication: 2 writers, 2 numbers; filter: 2 prices, 2 values; accounts: 3 people, 2 attempts; backups: 3 days, 1 backup, 2 restores; addresses: 2 tabs, 3 points; counts: 5 days, a window of 4, 1 visit, 1 page view, 1 checkout, 1 sale | `CasesAreSound`, `UnitsWereAsked`, `OfferIsSound`, `ParcelsHoldOrder`, `CatalogueIsSound`, `FilesExist`, `FreshIsServed`, `FilterIsExact`, `GuessesAreFew`, `BackupsAreWhole`, `ConfirmedIsAgreed`, `ClosedDayIsComplete` |
| `resume_items` | 2 products, 1 order, 1 quote | violates `ReservedAreItsItems` |
| `sku_reuse` | 2 editors, 2 numbers | violates `NumbersAreNotReused` |

`MCAmounts`, `MCProviders`, `MCBackOffice` and `MCStorefront` put components side
by side that share no state. The first step of a behaviour chooses a component,
and the others stay as they begin: the states explored are the sum of the
components', not their product, and a property of one is checked on exactly the
behaviours it has alone. Their `...TypeOK` are the conjunction of the components'
type invariants; all are proved as well, and those of `Inventory`, `Coupons` and `Checkout` are
proved and not run. Four properties of `MCStorefront` join two of its components': `BackupsAreWhole`
is `CompletedIsKept` and `RestoredIsWhole`; `FilesExist` is `AttachmentHasFile` and
`ImageExists`; `CasesAreSound` is `ClosedIsClosed` and `OneCasePerRequest`;
`CatalogueIsSound` is `TreeIsSound` and `SellableHasVariant`.

Why the bounds are enough. Three reservations on three units of stock make every
case of contention: two that fit, one that does not, one that lapses while
another is made. Coupons need one order that asks, one that is in use and one
that lapses or comes back; a lifetime of two ticks lets a call be older than a
reservation. Two attempts with two payments are the least in which an earlier
reservation, a second payment of the same link and a result of the other attempt
meet; two workers are the least in which results are applied out of order. Two
losses let a task be lost and the worker that recovered it stop as well. Two
parcels are the least of which one is imported and one is not, and one fault may
fall between any two steps of a call. Two callers of each other service are the
least that overlap; where the hazard needs a third party (a guess between two
guesses, a carrier that refuses the token another adapter has just stored) there
is one. Three categories make a chain that is one level too deep, and a cycle of
two with a third below it. A window of four days holds a visit that passes a
midnight, a missed run and a broken one. Three tokens let one be refused, one be
stored late and one be new. Counters that would grow (attempts, fetched results,
tasks, losses, restocks, edits, the clock) are bounded in the guards by the
constants named as bounds.

Larger instances were explored outside the runs, with no violation: the cache
with two writes (3.8 million states), four categories of three levels (2.5
million, with `CategoriesInv` of `CatalogProofs`, its ranks the depths), two page
views a day in `Rollups`, three edits of the cart in `Purchase`, tickets of five ticks in `Fiscal`, and `RowsInv` of
`BackOfficeProofs` as an invariant.

Deadlock is checked except in the composed runs, whose components may really end:
with every delivery answered and the event processed, a cart priced or packed, a
backup finished on the last day, nothing is left to do. The other models always
have something that can happen (staff and customers may act again).

### What the code does not keep

- `infinite`: PRODUCT.md:42 says infinite stock is never decremented. The
  reservation keeps the setting the variant had when it was made, so a variant
  made infinite meanwhile is decremented by the sale.
- `checkout_resume`: `resume_checkout` does not ask for the payment's status. The
  serializer that offers an order to be resumed does, so only a client that calls
  it directly, or a page opened before the payment, gets a second link.
- `checkout_cancel`: a rejected result is applied to an order that is already
  paid (two tries with one link, results out of order). The order becomes
  "failed", its used coupon is released, and `cancel_order`, which refuses paid
  orders, accepts it.
- `checkout_refund`: refunded reservations stay "consumed". An order that is paid
  again after a refund, or has two approved attempts, can be refunded twice, and
  the same units go back to the shelf twice.
- `resume_items`: `resume_checkout` compares four amounts of the cart with the
  order's and then reserves the goods of the cart, which it does not lock. Goods
  exchanged for others of the same amounts are reserved, and consumed by the
  payment, for an order that sells the old ones.
- `sku_reuse`: the product editor writes back the whole row it has read, with the
  SKU counter as it was. After a variant has been added meanwhile, the next one is
  refused as a duplicate, or has its number once it is deleted.

Seen while modelling, and within what the properties allow (no document promises
otherwise, or only in general terms):

- the facets of the product list are counted over products read before its key is
  made (`storefront.py:382`), so they may be older than the page
  (`FreshIsServed` is about the other pages);
- the tracking task excludes its own word for a delivered parcel
  (`tasks.py:120`), not the carrier's, so delivered parcels are asked for ever;
- an order may be refunded between the preparation of a shipment and its import;
  a slow caller's last save takes back a tracking word (`shipping.py:1110`);
- a renewal that began before a disconnection stores its tokens after it and
  enables the account again (`mercadopago_oauth.py:551`), although
  `docs/operations/donweb-production.md:62-63` says that disconnecting removes
  them; a failure writes back the public configuration as it was read
  (`mercadopago_oauth.py:494`), the account and the client id with it, over what was
  saved meanwhile;
- "configured" does not mean that it works (`ConfiguredIsInUse` names the ways): a
  surcharge or a threshold that is no number, which nothing checks when it is saved,
  breaks the quotes of both carriers (`provider_config.py:125`; `Rates` begins with
  policies that can be read); a token that is due without an application to renew it
  breaks the payments (`mercadopago_oauth.py:538`); a client id of spaces switches
  Google off (`google_identity.py:16`);
- a worker without an adapter queues an event again although it is done or another
  worker has it (`tasks.py:49-52`, `58-60`), and so does a sweep; a done one is then
  selected every five minutes and skipped;
- the code of a registration is created and never mailed (`api_views.py:575-577`);
- a test's outcome may be written over a configuration newer than the one tested;
  `DisabledCarrierAdapter` (`shipping.py:111`) has no `test_connection`;
- an edit of an address never asks for another review (`locations/serializers.py:10-18`
  leaves the coordinates and the geocoder's summary writable): it may change the text
  under the confirmed point, move or remove the point of a confirmed address, or drop
  the precision that `confirm_address` looks at, so that the middle of a town is
  confirmed. The form sends texts only and looks the address up in a second request
  (`address-manager.tsx:111-118`); when that one is lost the old point stays. An edit
  that races with the deletion inserts the address again;
- a conversion recorded later than the window of the daily task never reaches the
  daily tables; the number of an identity verification is counted without a lock;
- manual quotes are found by fingerprint and may be shared by two orders
  (`shipping.py:677-690`); a carrier's policy is read after its row, so a binding
  may join two configurations (`provider_config.py:118`, `183`).

## Fairness

`Inventory`: beat enqueues the release task every minute and a worker runs it to
its end (weak fairness of both halves). Customers, staff and the clock owe
nothing; `ElapsedIsReleased` starts when the time is over.

`WebhookEvents`: time passes, the sweep runs every minute, and workers
finish what they got an answer for (weak fairness). Some worker takes the task at
last, and the provider, asked again and again, answers at some time (strong fairness
of both: a missing adapter and failures use tasks up and end attempts, so neither is
enabled all the time, and `max_retries` with the sweep brings them back). Losses
are finite (`MaxLosses`): nothing is promised if every task is lost.

`Shipments`: the resume task runs every minute and takes its turn against the
panel's transaction, which holds the locks from time to time, and a caller that
has begun goes on (strong fairness of `Resume` and `Work`); the time of a poll
comes and an import grows old (weak fairness). Carriers owe no verdict: an import
they never decide about ends with a call for attention (`ImportingIsSettled`).

`Analytics`: beat runs the recording of missing conversions every five minutes and
a worker brings it to its end (weak fairness of `Tick`, `TickNext` and the task's
steps). Webhook workers may be killed at any step and owe nothing
(`ConversionIsRecorded`).

The other modules state safety only and assume nothing.

## The proofs

All are of the form `Spec => ...` for any sets of variants, reservations, orders,
attempts, payments, keys, parcels, callers, workers and editors. The assumptions
are named in each module: finite sets where something is counted or summed,
positive limits, values that are not members of the sets they stand beside. A few
say what the code is configured with: a carrier's answer comes within half the
margin of ARCA's ticket (`Fiscal`), the daily task is missed less often than its
window is long (`Rollups`), a confirmation is not also a check (`Identity`).

`InventoryProofs`
: The inductive invariant is the type correctness of the rows with the ledger
  equation and the trail; both are needed together with `on_hand >= 0`, which the
  sale's check maintains. `StaysCovered` compares the units held before and after
  each action (held units are a finite set of pairs, so adding a reservation adds
  its quantity and releasing or elapsing one only removes). `ImplementsPromise`
  maps every action to an action of `StockPromise` or a stutter: `Elapse` is what
  drops a claim, the release task stutters, and a release in time drops it.

`CartProofs`
: Pricing. `PricesAddUp`: every rule's discount is within what it is a discount of
  (`DiscountIsBounded`), so each line keeps room for a share of the coupon and the
  promised discount is never more than all the room. A share rounded down is its
  quotient; what the shares leave of the coupon is the sum of the parts lost,
  which is less than a cent for each line that lost one (`PartsLeft`). One round over
  the lines therefore gives every remaining cent away, at most one to a line and
  none to a line without room (`RoundSpends`): its invariant (`Going`) says of the
  lines still to come that the parts they lost cover the cents that remain. So the
  loop of `_allocate_amount` ends after one round (`OneRoundIsEnough`).

  Packing. `CartsArePackedWhole` has two halves. The order: keys of equal length
  are totally ordered (`NothingPrecedesItself`, `PrecedesIsTransitive`,
  `OnePrecedesTheOther`), so ranks are a bijection and `Ordering` lists each copy
  once (`OrderingListsAll`). A reordering of the lines maps copies to copies; since
  lines differ in their SKU, the parts of the key before its place decide between
  lines, and the number of the copy within one (`FirstPartsDecide`,
  `LastPartDecides`), so the units come in the same order (`UnitsComeInOrder`), and
  packing sees only them. The parcels: a space is its unit and its three residual
  spaces (`SplitsIntoThree`, `ResidualFillsSpace`), one without depth has no volume
  (`FlatIsEmpty`), and sorting the spaces only renumbers the sum (`SortedAddsUp`), so
  a parcel in which the units, the free spaces and the weights make up its box
  (`IsWhole`) takes another unit and stays so (`PlaceKeepsWhole`). The fold over
  the units then keeps, while it succeeds, that the parcels are whole and hold the
  units so far (`AllArePacked`), and of each line there are as many as it asks for
  (`UnitsAreAllCopies`).

  Coupons. `QuotaHolds` shows that a step that adds to the redemptions in use counted a
  superset of the others at its older clock: what is in use now was in use then, or
  was released by the step itself. The type invariant says that a waiting call's
  clock is not in the future, which this needs. `PlacesAreHonoured` counts the
  redemptions that are not released (`LiveFits`): every grant has released what had
  lapsed at its time, however old, so they never outnumber the highest quota, and
  the order that pays is one of them.

`CheckoutProofs`
: The invariants are not inductive by themselves: a fetched result must be of a
  payment the provider has, approved results of money that moved, and the payment
  an attempt remembers must have been made for it (`Provenance`). With this and the
  types (`Traced`) each theorem is a short induction: `StockIsPaidFor`,
  `CouponGoesWithStock`, `PaidOrdersAreCovered`, `RefundsAreReal`,
  `OneLinkAtATime`. That `on_hand` stays a natural number needs that live
  reservations are covered (`HoldsCovered`), which is proved with them.

`ProvidersProofs`
: `UnhandledStaysOpen` ties each delivery's and worker's progress to the row
  (`Pending`). `CarrierCorrect`: tokens are new when they are given; one that is
  about to be stored is held by nobody else and was refused to nobody
  (`UnstoredIsPrivate`), so a token that was refused and dropped cannot come back
  by a late write (`RefusedIsGone`). `IntegrationsCorrect`: a row's status and its
  fields are written together, and the fields the panel requires cover what each
  reader asks for (`ConfiguredSuffices`), service by service. `FiscalCorrect`:
  no answer is awaited beyond its timeout and a query begins with a ticket that
  outlasts two of them (`WaitsAreShort`). `IdentityCorrect`: what the attempt of
  each confirmation is at each of its places (`AttemptFollows`), and that a tied
  attempt is tied to an order that exists (`TiedToAnOrder`).

`BackOfficeProofs`
: `ImportedStaysWhole` needs to know what each caller has found at its step
  (`CallsKnow`), both of the rows and of what was committed, since the panel's
  transaction may undo the former (`UndoIsOfTheOpen`, `RowsComeTogether`,
  `CompleteIsWhole`). `OneOrderPerParcel` follows from the keys: every record, also
  one made anew after a rollback, has the key derived from its order. `OneExchange`:
  as long as a state is pending, whoever has claimed it is alone and has left the
  used mark; reading it takes it away, so a second callback finds either the mark
  or nothing. Both entries live for ten minutes and the mark is the younger one,
  which is the guard of `ExpireUsed`.

`CatalogProofs`
: `FreshPages`: versions are not ahead of the changes (`Counted`), a request's key
  tells which announcements it began after (`KeysTellFloors`), and pages stored
  under a key are as new as every request with that key needs (`PagesAreNew`,
  `ValuesAreNew`). It holds as long as the cache is not emptied.

  `CategoriesCorrect`: the rows are a forest if there is a rank for each, 1 for
  those at the top and one more than the parent's for the others; the rank is then
  the depth that the code walks up to find (`RankIsDepth`). What is inductive is
  that such ranks exist and stay within `MaxDepth`, and that each checked move has
  locked a set, closed under children and without the new parent, that fits below
  it (`Movable`). The check finds this set: what lies within the category is the
  least closed set that holds it (`WithinIsLeast`), and a move that has locked the
  children of all it has locked but its last level (`Widened`) has, when the level
  is empty, locked all of it. Two moves' locks are disjoint, so neither changes the
  ranks the other's check rests on, although the chain above the new parent is not
  locked: a move above it would need its rows. Rows are created and renamed without
  locks, hence the exception (`overtaken`).

  `ImagesCorrect`: names are given once and a request's own file is known to nobody
  else until its row is written (`NamesAreUsed`); what is shown is stored until a
  request that has replaced it commits (`Intact`, `NotShownAgain`), while no row
  was written over another's. `BackupsCorrect`: one backup runs at a time under a
  name that is free (`OneRuns`), and a restore loads a database that is its own
  (`Owns`). `PublicationCorrect`: every write
  checks under its lock that an active variant is left, or relies on a check that
  had become false (`raced`, which the property excepts). `CatalogueCorrect`: the coarse filter loses
  nothing that the exact one keeps (`SieveLosesNothing`).

`StorefrontProofs`
: `FewGuesses`: the code is issued once, by the request that made the account
  (`IssuedOnce`), and its row counts every wrong answer, because one request at a
  time is between reading and writing it (`Counting`). `SupportCorrect`: what a
  request with an open transaction has seen still is so, because its row locks keep
  others out (`PostFollows`, `LocksHold`); an opener sees its cases until another
  claims them (`OpenerSees`), so the search by key finds an earlier attempt.
  `AddressesCorrect`: not only the row, also the copy that an edit holds and writes
  back, is agreed or marked for review, and what was found or pinned and not edited
  since has a place (`RowIsSound`). `RatesCorrect`: every carrier that was
  bound has a quote, an error or its turn to come, and only one (`CarriersOf`).
  `PurchaseCorrect` hands what was packed from the request to the quote and the
  order (`AskHolds`, `QuoteHolds`, `OrderHolds`). `CartsCorrect`: units are a sum
  over lines and carts; a merge moves them and a login that comes twice finds the
  visitor's cart gone (`NewCartsAreEmpty`). `RollupsCorrect`: a day that a complete
  run has counted after its requests had ended is counted for good (`IsFinal`).

The composed specifications. `AmountsIsItsParts`, `ProvidersAreTheirParts`,
`BackOfficeIsItsParts` and `StorefrontIsItsParts` show that a behaviour of
`MCAmounts`, `MCProviders`, `MCBackOffice` or `MCStorefront` is one of each of its
components, so that every theorem about a component holds of the whole:
`ProvidersTypes`, `BackOfficeTypes`, `StorefrontTypes` and the `...Correct` of
each (`AmountsCorrect`, ...), and the four joined properties
(`CasesStaySound`, `BackupsStayWhole`, `FilesStay`, `CatalogueStaysSound`).

Induction. The library's induction theorems take an operator, which the provers
cannot instantiate. `FiniteFacts` states what the proofs need of sets instead: a
set of naturals with 0 and each successor is all of them (`CountingUp`), and a
family of subsets of a finite set that has each set whose smaller ones it has is
all of them (`BySize`), both from the well-foundedness of `<`, which is a fact
about sets. From them come that sums over finite sets unfold and change with one
term (`SumUnfolds`, `SumChanges`: `SumFunctionOnSet` is a fold whose order of
choice is fixed), that a recursive function on the naturals exists
(`IterationExists`), and that growing sets end in the least closed one
(`IterationsClose`, `IterationsAreLeast`). The library's folds are recursive
functions chosen by their equation: that one exists, and keeps to a set that its
step keeps to, is `FoldIsDefined` and `FoldIsTyped` for folds over a sequence, and
`RepeatingEnds` for a loop that stops when a round changes nothing. Sums of sums,
of multiples and over a renumbered set are `SumsAdd`, `SumScales` and
`SumIsRenumbered`.

What the proofs found. `OneCasePerRequest` as it was first stated (two cases of
one opener and one key are never there) holds on an instance with one account, and
is false with two: an account claims a guest's case with the recovery code, the
opener no longer sees it, and a repeated request opens another. The code does
this; the property now says so, with `claimed` as a history variable. In `Rollups`, `Images` and
`Analytics` the proofs of the types needed that the sets of page views, pictures
and sold orders are not empty, in `Backups` that there is a database to restore to, in
`Categories` that the rows are finitely many: they are assumptions now.

The sorts of `Packing` were insertions, a fold of folds about which little could
be said in general; `Ordering` says what a stable sort returns. The comparison of
reading orders covered one reordering and now covers all of them, which the proof
gives at no cost. An empty list of boxes packs nothing, not even an empty cart
(`packing.py:97`): it was outside the instance and is in the model now.

Only model-checked: the liveness properties (`ElapsedIsReleased`,
`AcceptedIsHandled`, `ImportingIsSettled`, `ConversionIsRecorded`), since fairness
and ENABLED are beyond the prover. Termination of the two algorithms is no
property of its own: they are functions, and the lemmas above show that their
equations have a solution. The violations are counterexamples and need no proof.

## What is not modelled, and the plan

Left out, and why:

- the storefront and management frontends (`src/frontend`): they keep no state the
  server relies on;
- serialisation, permissions and throttling of the HTTP API, the text of mails, the carriers' message formats, regions and branch offices: data
  without steps of their own;
- banners, texts, boxes and the other single rows of the panel: one row, one
  statement, one audit event;
- the daily synchronisation of localities and the normalisation of their names:
  one task that rewrites a table from a file, with nothing beside it;
- the reconciliation loop over several orders (`tasks.py:106`) and the order in
  which rows of different tables are locked (`payments.py:209`): the models hold
  one order, and a lock is the atomicity of an action; both are listed as hazards
  without a property;
- notification mails and read markers of support cases, password reset, profile
  forms, restic repositories, the scheduler's marker files, search ranking, the
  reports that read the daily tables;
- `*/admin.py` and the CSV import, which only `catalog/admin.py` calls: Django's
  administration site is not installed.

What would come next:

1. `Payments`: the composition of `WebhookEvents` with `Checkout` for two orders
   (the reconciliation loop that one order ends, the order of locks).
2. An abstract specification of a paid order (charged once, goods once, money back
   once) that `Checkout` without the four steps above would implement.
