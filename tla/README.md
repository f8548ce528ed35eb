# La Favola: a verification project for the ordering backend

TLA+ models of the backend of La Favola (a NestJS/TypeORM API on PostgreSQL,
`src/api`), model-checked with TLC on small instances and proved with TLAPS for
every value of the constants.

Contents: 1 the system, 2 the modules and how they correspond to the code,
3 what the runs check, 4 what is proved, 5 findings, 6 what is not modelled,
7 the plan.

## 1. The system

Paths are relative to `src/api/src`.

| Component | State | Operations | Talks to |
|---|---|---|---|
| Orders (`modules/orders`) | order row (status, payment status), `order_status_history` | status change by staff, cancellation by the customer | outbox |
| Deliveries (`modules/deliveries`) | one assignment and one tracking row per order, drivers | assign, transition, location ping, create, update and deactivate a driver | orders, outbox |
| Payments (`modules/payments`, `integrations/sumup`) | transactions, webhook events, receipts | create checkout, webhook / poll, collect on delivery | SumUp, orders, outbox |
| Refunds (`modules/refunds`) | refunds | request, approve, mark failed | SumUp, payments, orders |
| Checkout (`modules/checkout`) | idempotency rows, the conversion of a cart, coupon redemptions | checkout | carts, coupons, promotions, orders, outbox |
| Carts (`modules/carts`) | carts, items | add, update, remove, clear, add a reorder or favourite | menu, checkout |
| POS (`modules/admin-pos`) | idempotency rows | create order for a walk-in or a table | orders |
| Outbox (`queue/outbox.*`, `worker.ts`) | `outbox_events`, notifications, push deliveries | enqueue, claim, handle, publish / fail / dead-letter | mail, realtime, push |
| Coupons, Promotions (`modules/coupons`, `modules/promotions`) | promotions, limits, redemptions | quote, evaluate, redeem | checkout |
| Pricing (`modules/pricing`) | none: pure arithmetic on the menu | price a configuration, totals of an order | checkout, carts, POS |
| Pizza builder, option groups (`modules/pizza-builder`, `modules/option-groups`) | rules, groups, options | show the configuration of an item | pricing |
| Restaurants, Menu (`modules/restaurants`, `modules/menu`) | hours, delivery time, items | slots and availability, check of a time, edits | checkout |
| Auth, Users, Staff (`modules/auth`, `modules/users`, `modules/staff`) | users, refresh sessions, mailed codes, roles | register, verify, log in, refresh, reset, administer, remove | mail, every request |
| Customers, Addresses, Favorites, devices (`modules/customers`, `modules/addresses`, `modules/favorites`, `modules/notifications`) | profile, preferences, addresses, favourites, device tokens, privacy requests | read, write, remove; fulfil a deletion | users, carts |
| Support, Media (`modules/support`, `modules/media`) | tickets, messages, unread counters, assets and their objects | create, answer, read, claim, change status; upload, finalize, remove | storage provider, outbox |
| Loyalty, FAQ, audit, reports, dashboard | rows of their own | see section 6 | |
| Flutter clients (`src/admin`, `src/customer`), public site | no rules of their own | | HTTP API |

The processes are: API instances, which handle requests concurrently; one or
more outbox workers (`worker.ts`); the payment and the storage provider; customers,
drivers and staff who send requests in any order; the database, which serialises row
locks.

What is hard in this system:

* **several writers of one row.** Staff, the customer, a driver's delivery step,
  a verified capture and a refund all write the order row. Only `updateStatus`
  consults the `TRANSITIONS` table; the others guard themselves.
* **checks before locks.** `cancelByCustomer`, `updateLocation`, `deactivateDriver`
  and most handlers of users, menu and media read without a lock and write later, and
  `save` writes back every column that differs from the row it finds by then.
* **an unreliable, reordering provider.** A snapshot of a checkout is fetched
  before anything is locked and applied afterwards, once by each webhook or poll.
* **money moved inside a transaction that can roll back** (`approve`), and **objects
  stored and deleted outside of one** (`MediaService`).
* **claims with a timeout.** A slow worker and its successor handle one event
  at the same time, and outcomes are written by id.
* **idempotency keys and unlocked pre-reads** in checkout and POS, carts that are
  edited while they are ordered, and a coupon whose last use several customers want.
* **promotions that depend on each other.** A loop decides about each by what it has
  applied so far, and their last uses are counted by several checkouts at a time.
* **amounts clamped in several places**, which a CHECK of the order row recomputes.
* **the same rule written twice.** The pizza page shows limits that pricing enforces,
  the shop shows times that checkout accepts: two pieces of code each.
* **tokens that must work once**, although two requests present them at a time.
* **a deletion that must leave nothing of what it erases**, although requests that began
  before it go on.
* **counters kept beside what they count** (unread messages).
* **a pool of connections.** A transaction holds one and may ask for a second.

The properties that make each part correct are listed with the runs in section
3; the places where the hazards bite are the `hazards` of `PROJECT.json`.

## 2. Modules

| Module | Models | State |
|---|---|---|
| `OrderStatus` | the enumerations and the `TRANSITIONS` table | none |
| `Orders` | `orders.service.ts`; the row checkout and POS insert | `status`, `payStatus`, `history`, `outbox`, `cancelling` |
| `Deliveries` (extends Orders) | `deliveries.service.ts` | `assignee`, `assignment`, `tracking`, `hired`, `activeDrivers`, `idleChecked`, `pinging` |
| `Payments` (extends Deliveries) | `payments.service.ts`, SumUp | `txnOrder`, `txnStatus`, `checkout`, `snapshots`, `webhookEvents`, `receipts` |
| `Refunds` (extends Payments) | `refunds.service.ts` | `refundTxn`, `refundAmount`, `refundStatus`, `failing`, `returned` |
| `OrderFlow` (extends Refunds) | the composition: `Next` interleaves the four services and the provider; all properties | |
| `OrderJourney` | abstract specification: what is promised about one order | `stage`, `receipted` |
| `Outbox` | `outbox.service.ts`, `outbox.worker.ts` | `eventStatus`, `attempts`, `available`, `timedOut`, `claimed`, `step`, `position`, effects |
| `Checkout` | `checkout.service.ts`, `carts.service.ts`, `createOrder` of `admin-pos.service.ts` | rows: `cartOwner`, `converted`, `itemCart`, `orderActor`, `orderCart`, `orderItems`, `redeemed`, `keyRows`; requests: `step`, `input`, `read`, `outcome` |
| `Purchases` | abstract specification: what is promised about orders, carts, keys and the coupon | `owner`, `closed`, `buyer`, `cart`, `sold`, `redeemed`, `kept`, `answer` |
| `Pricing` | `pricing.service.ts`: which configurations of an item are accepted and what they cost | none |
| `PizzaBuilder` (extends Pricing) | `pizza-builder.service.ts`: the page of an item and the selection it sends; what `validateConfiguration` and the option groups let be there | none |
| `Totals` | `evaluateAutomatic` of `promotions.service.ts`, `order-totals.service.ts`, coupon discount and amounts in `checkout.service.ts` | `offer`, `redeemed`; requests: `step`, `order`, `counts`, `pending`, `applied`, `saved`, `savedFee`, `row` |
| `Quotes` (extends Totals, PizzaBuilder) | the composition: orders that have been priced | |
| `Hours` | clock, slots and checks of `restaurants.service.ts` as functions of the hours | none |
| `Storefront` (extends Hours) | edits of hours, delivery time and menu items, the item as the shop shows it, the schedule of a checkout | rows: `hours`, `delivery`, `item`; `now`; requests: `step`, `wish`, `seen`, `edited` |
| `Accounts` | `auth.service.ts`, `users.service.ts`, `jwt.strategy.ts`, privacy requests and sessions of `customers.service.ts` | rows: `account`, `sessions`, `codes`, `privacy`; `holders` of access tokens; requests: `step`, `about`, `row`, `seen` |
| `CustomerData` | `customers.service.ts`, `addresses.service.ts`, `favorites.service.ts`, devices and preferences of `notifications.service.ts`, `getActive` of `carts.service.ts`, `anonymizeAccount` | `rows`, `request`; the deletion: `snapshot`, `overlapped`, `erased` |
| `Media` | `media.service.ts` and the storage provider | `asset`, `object`, `stored`, `uploading`, `finalizing` |
| `Support` (extends Media) | `support.service.ts` | rows: `ticket`, `message`; history: `unread`; requests: `step`, `input`, `seen` |
| `MCOrderFlow`, `MCOutbox`, `MCCheckout`, `MCQuotes`, `MCAccounts`, `MCSupport`, `MCStorefront`, `MCCustomerData` | values of the constants and symmetry sets for TLC | |
| `OrderFlowProofs`, `OutboxProofs`, `CheckoutProofs`, `QuotesProofs`, `AccountsProofs`, `SupportProofs`, `StorefrontProofs`, `CustomerDataProofs` | theorems | |

How the parts meet. `Checkout` ends where `OrderFlow` begins: an order it creates is an
initial order there. The two share no variable, since after checkout no request reads
the cart again. `Totals` looks at the middle of the same transaction, from the priced
cart to the inserted row, and `Storefront` at its schedule; what decides about the cart
and the key depends on neither. `Accounts` and `CustomerData` look at one deletion from
two sides: what it does to the account, its sessions and codes, and what it does to the
rows the app keeps.

Definitions whose comment starts with "A fault:" are plausible bugs. They belong
to no specification; each one is what some property is tested against.

### Steps and atomicity

PostgreSQL runs at READ COMMITTED, so a transaction is one step only as far as
its row locks make it one.

* `updateStatus`, `assign`, `createCheckout` and `collectOnDelivery` begin with
  `SELECT ... FOR UPDATE` on the order, `transition` locks assignment, tracking
  row and order before it writes, `synchronizeCheckout` transaction and order,
  `approve` refund, payment and order. Every other writer of those rows takes
  the same locks, so each of them is one action that contains *all* its writes:
  status, history row, outbox event, receipt.
* Locks are taken in different orders in different services (`assign` order then
  assignment, `transition` the reverse). PostgreSQL aborts one of two deadlocked
  transactions, which changes nothing: an aborted transaction is a step that did
  not happen. So is one that violates a CHECK. The exception is `approve`, whose
  provider call survives the abort: `ApproveFails`.
* What is read before a lock and used after it is split in two actions with the
  value read kept in a variable: `CheckCancellable`/`CancelByCustomer`
  (`cancelling`), `ReadLocation`/`SaveLocation` (`pinging`),
  `CheckDriverIdle`/`DeactivateDriver` (`idleChecked`),
  `FetchCheckout`/`SynchronizeCheckout` (`snapshots`).
* TypeORM's `save` writes back every column that differs from the row it finds,
  so the save of a stale entity restores stale columns: `SaveLocation`,
  `Accounts!SaveName` and `SaveDisabled`, `Storefront!SaveItem`.
* `snapshots` is a set: applying one state of one checkout twice is a no-op,
  because the `payment_webhook_events` row is unique and committed in the same
  transaction, so a set tells apart what the code tells apart. A fetched snapshot
  that is never applied is a lost webhook.
* In `Outbox` nothing but the claim is a transaction: every statement of
  `handle` and `persistAndPush` is an action on a copy of the row (`claimed`
  holds the attempt count of the copy), and `Publish` and `Failed` write the
  outcome by id.
* In `Checkout` each request of the API is a process. A step is a statement that
  may wait (for a row lock or a connection) or whose result is used later. What a
  transaction writes becomes visible at its commit, so `Complete` writes
  everything; what it holds meanwhile is derived from the steps of the others:
  `CartHeld` (`FOR UPDATE` on the cart, which also blocks inserts that refer to
  it), `KeyHeld` (an uncommitted row under the unique key), `CouponHeld`
  (`FOR UPDATE` on the coupon) and `Free` (connections). `Fail` refuses a request
  at any step, for a reason that is left out or because it or the API dies.
* `LookUpKey`, `ReadCart` and the search of an active cart in `RequestAdd` are the
  unlocked reads; `InsertKey` and `LockCart` repeat them under locks.
* `save` of an entity whose row is gone inserts it again: `Checkout!SaveItem`, the
  items `back` of `Complete`, and `CustomerData!Save`.
* In `Totals` the promotions are locked together (`HoldsPromotions`): the query locks
  every automatic promotion of the restaurant, and whoever comes second waits for the
  first of them until the other has committed. One round of the loop is one action
  because the policy speaks of what the loop sees; nobody else can disturb it.
* In `Accounts` a handler is one action that reads and one for each statement that
  writes. `Rotate` is a single UPDATE with a condition, so its guard is evaluated on
  the row there is; `PresentCode` locks the code (`CodeHeld`); an action that follows an
  unlocked read repeats none of its guards. A deletion runs at REPEATABLE READ and
  fails when a row it touches has changed meanwhile, so it is one step.
* In `CustomerData` a request is the list of its statements still to do (`todo`), and
  what each finds may change that list: `find` of a profile that is missing inserts it,
  `require` of one ends the request. An UPDATE that clears the default addresses is
  two steps, because it sees the rows of its snapshot and then waits for whoever has
  them locked. The deletion has a snapshot of its own and commits only if none of what
  it deletes has changed since.
* In `Support` a handler locks the ticket (`Begin`, `Held`) and saves it at the end with
  what it computed from the row read. In `Media` row and object change one after the
  other: `Upload`/`RecordUpload`, `CheckFinalize`/`Finalize`, and a removal whose save
  the CHECK of the table refuses.
* In `Storefront` a checkout reads restaurant, item and hours by a statement each and
  the staff may edit between any two; the clock ticks between them too.

### Abstractions

* In `Checkout`, prices, quantities, the menu, addresses and promotions are left
  out (amounts and promotions are in `Totals`). The body of a request is a model value,
  equal bodies being one request hash; some of them name the coupon. One item stands
  for all items of a reorder. What a request remembers is forgotten when it ends,
  except the answer to its key.
* Timestamps, `version` columns, reasons, actor ids and payload texts are left
  out. Time appears in `Outbox` through the two comparisons with `NOW()` the claim
  makes (`available`, `timedOut`), and in `Storefront` as the clock.
* `delivery.assigned` and `delivery.status_changed` events are not recorded in
  `outbox`, which holds the order events of one order.
* A transaction (refund) id stands for an (order, idempotency key) pair; the
  replay of a key answers from the row and changes nothing.
* A checkout created at the provider whose row was rolled back is not
  referenced by anything and is left out.
* `Amount` is the grand total of every order; partial refunds take every value
  up to it.
* `PosOrders` have no customer (nobody cancels them in the app) and are announced
  as `order.placed`.
* `other_wallet` stands for the wallet methods checkout accepts and
  `createCheckout` refuses. Such orders exist, and wait until they are cancelled.
* One location ping per order is in flight at a time.
* In `Outbox`, a mail, a mail to staff and a realtime message are one
  announcement; the recipients of an event are a constant (staff is read from
  the database in the code); a user has one device; a user without a device and
  one who has opted out of push are both outside `activeDevices`. A failing
  write of the outcome leaves `processBatch`, which is a crash of the worker.
* In `Pricing` one item is modelled, with its groups, choices and builder rule as
  constants; that item, size, choices and ingredients exist and are available is
  assumed, and removed ingredients, which cost nothing, are left out. Quantities are
  counted in parts of a portion (`Portion`, 100 for a column of two decimals), so prices
  are multiples of a part; that `Math.round` makes of a product with a fraction is left
  out. The sum of prices is the number of units they have (`Units`), which is what a sum
  over a set is without recursion. `PizzaBuilder` leaves out the labels and the flag
  `required` of a group.
* In `Totals` a promotion is active, in its window and meant for the day, and nobody
  edits it. The lines of an order are the set of its items; a category stands for the
  items it holds. A promotion without a group behaves as one with a group of its own
  (`promotion:<id>` in the code), which nobody lists. Amounts are integers as in the
  code; overflow beyond PostgreSQL's `integer` or JavaScript's safe integers is not
  modelled.
* In `Hours` an instant is a number of minutes and the clocks of the restaurant are
  changed once; the lengths of a day, a week, a slot and the horizon are constants. An
  order in `Storefront` has one item, the slowest of its cart.
* In `Accounts` codes, tokens and passwords are left out: presenting one is naming its
  row. Expiry is a request that is refused. "Suspended" is treated as "disabled", which
  no handler tells apart. `update` writes the four other statuses, `deleted` among them;
  that it may set e-mail and password to null is left out. `erased` marks the sessions
  there were when a privacy request deleted their owner.
* In `CustomerData` a row has the two columns some rule reads; a customer is alone,
  because no row is shared with another. Of the tables a request of a customer writes and
  the deletion leaves there are two (`Kept`): notification preferences, and carts as
  `getActive` makes them (what becomes of a cart is in `Checkout`). Consents, privacy
  requests and saved payment methods are rows the deletion leaves too, loyalty accounts and
  redemptions as well; no property is about them. Notifications are written by the worker
  (`Outbox`) and erased.
* In `Support` nothing follows what `anonymizeAccount` does to a ticket and its messages: it
  sets the customer and the author of theirs to null.
* In `Refunds` the provider is assumed to check nothing: it returns whatever it is asked for,
  also beyond its own capture. `returned` only says that money has come back.
* In `Media` size, type and dimensions are one flag: what is stored under a key is as
  announced ("good"), or not. The targets are support tickets.

## 3. Runs

| Run | Instance | Asks |
|---|---|---|
| `delivery` | 1 cash order, 2 drivers, 2 collections | do kitchen, drivers, staff and customer keep order, assignment, payment and history consistent, and is the order's path one of `OrderJourney`? |
| `payments` | 1 card order, 2 checkouts, with fairness | is the order confirmed and settled once whatever comes late, twice or in the wrong order, and does captured money always reach it? |
| `refunds` | 1 card order, 1 retried checkout, 2 refunds of up to 2 units | do the refunds on record stay within the payment, and is a full one shown, under concurrent, failing and dying approvals? |
| `outbox` | 2 events, 2 users, 2 workers, batches of 2, 2 attempts, 1 stall, with fairness | is what is published delivered, what is given up given up late, and does everything settle? |
| `checkout` | 2 requests at a time of 2 customers and a cashier, 1 key, 2 carts, items and orders, a coupon to be used once, 3 connections, with fairness | does a cart or a key become at most one order, does the coupon keep its limits, and does every request end, whatever overlaps, repeats, fails or dies? |
| `quotes` | 2 requests at a time of 2 customers, 3 promotions in 12 combinations of versions, a menu with all its accepted configurations, 4 coupons | are the promotions of an order those the policy allows and within their limits, do the amounts agree with the CHECKs, does a choice with a price ever make an order cheaper, and can whatever is ordered be put together on the page? |
| `accounts` | 2 requests at a time of an administrator and a customer, 3 sessions, a code, a privacy request | do tokens, codes and privacy requests work once, and do the sessions a deletion takes end with it? |
| `customer_data` | 2 requests at a time, 3 keys for rows, a deletion | does a default address survive a request that fails, and does a deletion leave nothing in the tables it erases unless a request on them overlapped it? |
| `support` | 2 requests at a time of a customer, an agent and an administrator, 1 ticket, 3 messages, 1 file | are the unread counters right, does a claim last, and does a file in a message belong there? |
| `storefront` | days of 10 units in weeks of 2, a change of the clocks, 2 requests at a time | does the shop offer what checkout takes, and checkout take what the shop offers, and is an order in hours and in time for the kitchen, whatever is edited meanwhile? |
| `doc_*` | the smallest instance that shows it | one promise of a document each, which the code does not keep (section 5) |

Properties of `OrderFlow`:

* `HistoryFollowsTheTable`: services that write statuses without consulting the
  table never leave it, and the last history row is the current status.
* `DeliveryMatchesOrder`: how far the assignment and the order have got agree,
  although staff may move the order by hand between a driver's steps and reassign
  at any time.
* `PaidBeforeHandOver`: a driver's delivery of a cash order is finished only with
  a receipt on record. Staff can still move such an order to `delivered` by hand,
  which `UpdateStatus` allows and the property therefore does not exclude.
* `CollectedOnce`, `PaidHasReceipt`, `CapturedHasReceipt`: the books.
  Two captures of one card order (two open checkouts) are possible and accepted
  by the code; nothing is claimed about them.
* `ConfirmedAtMostOnce`: the customer is told once.
* `PaidUntilRefunded`: no failed, expired or stale checkout takes a paid order
  out of `paid`.
* `RefundsWithinCapture`: the refunds on record as carried out never exceed their payment.
  `create` compares a request with the refunds carried out so far, not with the other
  requests, so two that fit on their own may be requested together; `approve` compares
  again under the lock of the payment, and nothing else does: the provider of the model
  checks nothing. It is a statement about the books. Money that was returned by an approval
  that then rolled back is not on them (section 5).
* `FullRefundIsShown`: a payment whose refunds add up to all of it is shown as refunded, in
  whatever order they are approved.
* `CaptureReachesTheOrder`: liveness, see below.
* `ImplementsJourney`: refinement of `OrderJourney`, with `stage` computed from
  `status` and `receipted` from `receipts`. In the abstract module an order moves
  forward one stage at a time, is dropped only before the oven, and the first
  money for an unpaid order puts it in the queue in the same step.

Properties of `Outbox`: `PublishedIsDelivered` (at-least-once delivery of mail,
notification and push, for every recipient), `GivenUpLate` (a dead letter had all
its attempts), `HandledAlone` (two workers on one event only after a stall, and
as different attempts), `EveryEventSettles`.

Properties of `Checkout`:

* `OneOrderPerCart`: no cart and no item is in two orders, although carts are
  looked up without a lock, items come back after they were removed, and a customer may
  have two active carts (no index forbids it).
* `OneOrderPerKey`: all answered requests with one key of one user were answered
  with one order.
* `CouponWithinLimits`: the total and the per-customer limit.
* `ImplementsPurchases`: refinement of `Purchases`, with the answer of a request
  computed from `input` and `outcome`. In the abstract module there are no steps, locks
  or cart items: an open cart with something in it becomes an order of its owner, with its
  key and its coupon, in one step; a wish with a key gets one order, and whoever asks is
  answered with one that was kept. A failed checkout therefore closes, redeems and
  stores nothing, and no row of an order ever changes.
* `RequestsEnd`: no transaction waits forever. It holds with three connections for two
  requests and fails with two (`doc_pool`): each needs up to two at a time, and
  only one more than there are requests makes sure that somebody gets on.

Properties of `Totals` and `Quotes`:

* `StackingPolicy`: the promotions an order gets can be combined, all qualify, and
  each that qualifies and saves something is left out only for one that conflicts with
  it and comes before it by priority, then id. The code has no such statement, it has
  a loop with three checks against what was applied so far.
* `PromotionsWithinLimits`: the total and the per-customer limits under concurrency.
* `TotalsAreStorable`: `OrderTotalsService` clamps the taxable amount and the total,
  checkout the delivery discount, `evaluateAutomatic` the sum of the promotions, and
  the CHECK `chk_order_grand_total_consistency` clamps once. The amounts agree for all
  of them, because an order that is free has no tax.
* `MoreCostsNoLess`: the free toppings are the cheapest and move when a topping is
  added; a choice with a price that is not negative never makes the order cheaper, if
  toppings are ordered by the portion at least (section 5).
* `OrderableIsShown`: pricing and page read the limits of a group each in its own way
  (the group's own, the item's override, the rule's number of toppings, null as one,
  none or nothing). The page never keeps a customer from what can be ordered: of a group
  that is attached it shows as many choices, and one it does not show is not needed. The
  converse fails (section 5).

Properties of `Accounts`:

* `RotatedOnce`: a refresh token has one successor, of the same user, and is of no use
  afterwards; what decides is the row count of one UPDATE.
* `CodeUsedOnce`: a mailed code changes an account once, although two requests present
  it, a resend consumes it and a deletion removes it meanwhile.
* `FulfilledOnce`: a privacy request is fulfilled once, although its button is pressed twice
  or the answer was lost: it is looked at again under its lock.
* `DeletedIsNotRefreshed`: `refreshToken` looks at the account and rotates later. No
  session there was when a privacy request deleted the account is exchanged afterwards,
  because the deletion takes their rows, and the one handler that can insert such a row
  again (`revokeSecuritySession`) inserts it revoked. It is a property of these sessions
  only: a login that was under way opens a new one, and an administrator who sets a status,
  `deleted` included, takes no sessions away (section 5).

Properties of `CustomerData`:

* `DefaultIsReplaced`: a default goes only by the deletion or because an address that had
  been read was saved, never because a request failed half way.
* `ErasureIsComplete`: a deletion leaves no row of the five tables it erases, then or later,
  unless a request on one of them was under way while it ran; requests that make carts and
  notification preferences, which it leaves, may be. What a request that does overlap
  can leave behind, and what the deletion never touches, is in section 5.

Properties of `Support`:

* `UnreadIsCounted`: each counter is the number of messages of the other side that
  nobody has marked read, a set kept as history.
* `ClaimedOnce`: whoever claimed a ticket keeps it.
* `FilesBelong`: a file in a message was uploaded for that ticket by the message's
  author and was stored as announced, although row and object change one after the
  other and the client may put another file at any time.

Properties of `Storefront`:

* `SlotsAreAccepted` and `AcceptedAreShown`: the shop's slots and the checkout's check
  are computed by different code in opposite directions. For an item on sale both mean the
  same times, with three exceptions, each of which TLC finds when it is taken out of the
  property: past the horizon the shop shows times that checkout refuses, of an item that takes
  no time to prepare it shows the current minute, which checkout refuses, and does not show
  times of a delivery that checkout accepts (section 5).
* `ShownIsMeant`: the clock on the wall shows the offered time when the order is due,
  also around a change of the clocks. The configured change does not fall into opening
  hours, as none does (section 5 says what happens to those it does).
* `KitchenHasItsTime`: a placed order leaves the kitchen its preparation time, cut at
  most by the shortest way of a delivery.
* `OrdersAreInHours`: for the times the order is for and the kitchen must be ready,
  unless the hours were edited while the checkout ran.

### Bounds

`MaxTxns`, `RefundIds`, `MaxEvents` and `MaxStalls` bound what would grow for
ever; `Retryable` says whether a checkout the provider failed can still be paid.
Two checkouts are what it takes for one to disturb the other; two refunds for two
approvals to meet, and with two units they can be partial. Two workers and two
events in one batch show a copy that waits in a batch while its claim expires;
one stall is what it takes for two workers to meet (the safety properties have
also been checked with two stalls, 1.8 million states). `MaxAttempts` is 5 in the code
and 2 here: what matters is the step before and the step at the limit. One order is
enough for the runs because the only thing two orders share is a driver's active flag;
the theorems hold for any set of orders, which also covers what the runs leave out:
POS orders, wallets, several orders of one driver.

Two requests are what every race in `Checkout` needs, and what it takes to use a
pool of two up; a second customer is what the per-customer limit and the
ownership of keys need, two orders what a double order needs. A request arrives
only while there are rows left for it and those before it (`RoomIn`), so no
request waits for a bound.

The promotions of `quotes` differ in everything the policy looks at: groups, groups
listed by either side, equal and different priorities, both limits, minimum, items and
coupons; two conflict, or one is worth nothing, in some combination. The orders are all
accepted configurations, one of them with every kind of coupon, a fee, a second item, by
another customer and at the till. A coupon of 150 percent and a promotion of 100 make
every clamp bite. The menu has a group whose limit is null, one the item overrides, one
that is not attached, and one whose minimum is above none. Two parts make a portion, and
ham and basil are ordered by half a portion too.

In `accounts`, the race of two requests for one token needs two requests and, with the
login before and a successor for each, three sessions; one code can be presented twice,
consumed by a resend and deleted; the administrator is a second account, who sets
every status of the first, demotes and removes it. 5.6 million states. `customer_data` has
three keys: two addresses and a row of another table, or three rows of one; 4.1 million states.

In `support`, one ticket is all two handlers can share; three messages are one of each
side and one more, so that a counter can be neither none nor all. In `storefront` the
staff opens and closes at 4 or 8 of 10, so a day is closed, missing or open for half of
it; preparation takes 0 (which the checkout reads as 1 and the shop does not) or 2 and the way 1
or 3, on either side of the shortest way and of the preparation; the shop takes 2
(`DefaultPrep`, 15 minutes in the code) for an item that is not on sale. From 9 to 12 the clock
passes midnight and a change of the clocks from 1 to 2 ahead; 2.3 million states. In these
bounds each of the three exceptions above is met.

### Fairness

* `OrderFlow!Fairness`: a checkout whose state changed is fetched again and every
  fetched snapshot is applied. SumUp repeats a webhook until it is answered with
  2xx, and the handler answers only after `synchronizeCheckout`
  (`payments.service.ts:207-242`). Nothing is assumed of people: no customer must
  pay, no driver must drive. The fairness is on each snapshot because an
  applied one is dropped by its event row, so none can starve another.
* `Outbox!Fairness`: backoffs and claims time out (time passes), and the loop of
  `worker.ts` runs. How a handling ends is open: a provider may fail for ever,
  and `EveryEventSettles` holds because attempts are counted. Crashes are bounded
  by `MaxStalls`: with infinitely many crashes no event need ever settle, because
  a claim that died is taken again beyond the five attempts.
* `Checkout!Fairness`: strong fairness of the handling of each request. The
  connection pool and PostgreSQL's lock queues serve those who wait in order, so a
  request whose next statement is possible again and again is served. Customers
  need not send anything, and nothing needs to fail: `Fail` is not fair.

The other modules have no fairness: what matters about them is safety, and nothing of
theirs waits for anything but a lock of a request that runs.

`CHECK_DEADLOCK FALSE` everywhere: with bounded numbers of requests a system
in which everything has been done stops.

## 4. Proofs

The eight modules `*Proofs` prove, for all values of the constants (any sets of orders,
drivers, refunds, users, workers, promotions, tickets and requests, any number of
checkouts, events, attempts, stalls, carts, sessions, codes, messages, limits and
connections, any lengths of days and hours, any menu and configuration) under the named `ASSUME`s of the modules:

| Theorem | Statement | Invariant it rests on |
|---|---|---|
| `TypeCorrect` | `[]TypeOK` | itself, one lemma per service |
| `HistoryCorrect` | `[]HistoryFollowsTheTable` | + no history is empty |
| `ConfirmedOnce` | `[]ConfirmedAtMostOnce` | `ConfirmationInv`: an order that waits for payment has not been confirmed |
| `DeliveryCorrect` | `[]DeliveryMatchesOrder` | itself with `TypeOK` |
| `PaidCorrect`, `CapturedCorrect`, `CollectedCorrect`, `HandOverCorrect` | `PaidHasReceipt`, `CapturedHasReceipt`, `CollectedOnce`, `PaidBeforeHandOver` | `BooksInv`, below |
| `RefundsCorrect`, `FullRefundCorrect` | `[]RefundsWithinCapture`, `[]FullRefundIsShown` | `RefundsInv`, below |
| `PaidStaysPaid` | `PaidUntilRefunded` | `TypeOK`, `BooksInv` |
| `FlowImplementsJourney` | `ImplementsJourney` | `TypeOK`, `BooksInv` |
| `ReceivedIsPlaced` | `[]Journey!NotWaitingOnceReceived` | the refinement, and an invariant of `OrderJourney` |
| `OutboxTypeCorrect` | `[]TypeOK` | itself |
| `GivenUpCorrect`, `HandledAloneCorrect` | `[]GivenUpLate`, `[]HandledAlone` | `ClaimsInv`, below |
| `DeliveredCorrect` | `[]PublishedIsDelivered` | `HandlerOK` of every worker |
| `CheckoutTypeCorrect` | `[]TypeOK` | `TypeInv`: + what a request relies on at its step (`Fits`) |
| `OneOrderCorrect`, `ConvertedCorrect` | `[]OneOrderPerCart`, `[]ConvertedIsOrdered` | `CartInv`, below |
| `OneOrderPerKeyCorrect` | `[]OneOrderPerKey` | `KeyInv`, below |
| `CouponCorrect` | `[]CouponWithinLimits` | `CouponInv`, below |
| `CheckoutImplementsPurchases` | `ImplementsPurchases` | `TypeInv`, `CartInv`, `KeyInv`, `CouponInv` |
| `PlacedOrdersStay` | `Promise!PlacedStays`: a placed order and its key row never change | the refinement |
| `TotalsTypeCorrect` | `[]TypeOK` | `TypeInv`: + only placed orders are counted, POS orders apply nothing |
| `StackingCorrect` | `[]StackingPolicy` | `StackInv`, below |
| `LimitsCorrect` | `[]PromotionsWithinLimits` | `LimitInv`, below |
| `TotalsCorrect` | `[]TotalsAreStorable` | `RowInv` and the lemma `RowsAreStorable` |
| `PricesCorrect` | `[]MoreCostsNoLess` | `OrdersRead` and the lemma `CheaperWithout`, below |
| `PageCorrect` | `[]OrderableIsShown` | `OrdersRead` and the lemma `BoundsAdmit` |
| `AccountsTypeCorrect` | `[]TypeOK` | itself |
| `RotatedOnceCorrect`, `CodeUsedOnceCorrect`, `FulfilledOnceCorrect` | `[]RotatedOnce`, `[]CodeUsedOnce`, `[]FulfilledOnce` | `Inv` of `AccountsProofs`, below |
| `DeletedIsNotRefreshedCorrect` | `DeletedIsNotRefreshed` | the same |
| `CustomerDataTypeCorrect` | `[]TypeOK` | itself |
| `DefaultCorrect` | `DefaultIsReplaced` | `HandlersInv`, below |
| `ErasureIsCompleteHolds` | `[]ErasureIsComplete` | `Alone` with `HandlersInv`, below |
| `SupportTypeCorrect` | `[]TypeOK` | `Inv` of `SupportProofs` |
| `UnreadCorrect`, `DatesCorrect`, `ClaimedOnceCorrect`, `EndedIsSilentCorrect` | `[]UnreadIsCounted`, `[]DatesFollowStatus`, `ClaimedOnce`, `EndedIsSilent` | `LocksInv` with `UnreadInv`, `FreshInv`, below |
| `StoredCorrect`, `FilesCorrect` | `[]ActiveWasStored`, `[]FilesBelong` | `MediaInv`, `FilesInv`, below |
| `StorefrontTypeCorrect` | `[]TypeOK` | itself |
| `KitchenCorrect` | `[]KitchenHasItsTime` | `ScheduledInv`, below |
| `InHoursCorrect` | `OrdersAreInHours` | the same |
| `ShownCorrect`, `SlotsCorrect` | `[]ShownIsMeant`, `[]SlotsAreAccepted`, under `ClosedAtTheChange` | `HoursInv`, below |
| `AcceptedCorrect` | `[]AcceptedAreShown`, under `ClosedAtTheChange` and `NoneLeavesTheDayBefore` | the same |

* The moves are proved once: `StepMovesAnOrder` shows that every step of every
  service either leaves status, history and outbox alone or is `Move` of one
  order along an allowed pair. History, confirmations and the journey follow from
  it without looking at the services again.
* `BooksInv` adds to the four invariants what makes them inductive: a transaction
  without a row has no order (`TxnsAreOwned`), only card orders have a checkout
  at the provider (`OnlineIsByCard`), and an order with a collection on record is
  shown as paid, because neither a checkout nor a refund can reach it
  (`CollectionIsFinal`). Without the last, a second collection could not be
  excluded: the code's guard is the payment status, not the receipt.
* `RefundsInv`: the two properties, and that a refund is of one payment. What has been refunded of a payment is
  a set of units, so the total is a cardinality: `TotalGrows` and `TotalShrinks` say what
  a refund that is carried out or taken back does to it. That the total stays within the payment
  rests on `Refundable` alone, the comparison `approve` makes under its locks. It computes the
  payment's status from the total in the same step, which is why the order of approvals does not
  matter.
* `ClaimsInv`: copies of one row carry different attempts, none ahead of the
  row, and while nothing has stalled a row with a copy is `processing` and not
  timed out. The bound `claimed <= attempts` is what makes a dead letter late: a
  stale worker gives an event up with its own, lower, count.
* `HandlerOK(w)`: the recipients before `position` have been delivered to, and the
  one at `position` has its notification from step `look` on. It survives the
  steps of other workers because effects only grow and devices are only disabled
  (`DeliveredStays`).
* `ConvertedIsOrdered` says that the carts that are closed are those of the orders, each
  its buyer's and with something in it. TLC checks it by way of `Purchases`.
* `CartInv`: whoever is past `LockCart` holds an open cart that nobody else holds
  and has read something (`CartLocks`); an item stays in one cart, as its rows, its
  orders and all who have read it see it (`ItemsStay`); an order that has not been
  placed is referred to by nothing (`NewRowsAreBlank`). Without `ItemsStay` an item
  that comes back could be sold with another cart.
* `KeyInv`: a key that is held by a checkout has no row yet and no second holder.
  A POS order needs no lock of its own: its actor is a cashier and no holder is.
* `CouponInv`: a checkout that is about to redeem is within both limits and alone;
  `OneMoreUse` is the one fact about cardinalities. Each of the three for `Checkout`
  first sorts the steps into a few kinds (`CartStepKinds`, `KeySteps`, `CouponSteps`)
  and then looks only at the kinds that matter.
* The refinement of `Purchases` needs all of it: `CartInv` that the cart is open and its
  items are unsold, `KeyInv` that the key is new and the answers are rows,
  `CouponInv` that the limits are not reached. `PromiseSteps` sorts the steps into those
  that tell a caller something, open a cart, or place an order.
* `StackInv`: at every round of the loop the policy holds for what has been considered,
  and all of that comes before all that has not (`InOrder`). The latter gives the
  reason for a promotion that is left out: whatever it conflicts with was applied
  earlier. `QualifiesStays` says that a request sees the same promotions throughout.
* `LimitInv`: who holds the promotions is alone, and its count is still what has been
  redeemed (`CountIsFresh`); with it, `OneMoreRedemption` bounds the cardinality.
* `RowsAreStorable` is arithmetic: `ClampedTotals` says that clamping twice is clamping
  once if there is no tax on nothing, and `TaxIsNat` that there is none.
* `CheaperWithout` compares a configuration with the same one without a choice. The
  prices of a set are the cardinality of a set of units, so a sum splits, and grows with its
  set (`SumSplits`, `SumWithout`). That a subset of least sum exists for each size is the
  least element of a set of numbers (`CheapestExist`, `LeastNumber`), not an induction.
  The step that matters is an exchange (`CheapestCostLeast`): no set of as many toppings is
  cheaper than the cheapest ones. So if a topping goes, what is free loses at most
  the price of that topping (`FreeWithout`), whichever topping takes its place.
* `BoundsAdmit` goes through the ways the page and pricing read the limits of a group, with
  `NULL` in each of the columns.
* `Inv` of `AccountsProofs`: a session with a successor has ended and is its owner's, and one
  that a deletion took is gone or was inserted again revoked (`SessionsInv`); a request that
  holds a token is about the owner of its session (`TokensInv`); a code or privacy request
  that is locked is unused and locked once (`CodesInv`, `PrivacyInv`). A request about to
  rotate needs a live session, which none of those a deletion took is, whatever status a
  stale save or an administrator gives the account (`ErasedAges`).
* `Alone` of `CustomerDataProofs`: while a deletion runs that no request on its tables
  overlaps, every request that is under way is on tables that are kept (`Harmless`), so the
  snapshot stays all there is of the others; and after it no request is let in. It needs
  `HandlersInv`, below: a request saves into the table it has read from, under an id that is
  used in no other, and holds no addresses (`HarmlessSave`).
* `HandlersInv`: the statements a request has still to do fit its default flag, an address
  is saved last, what was read is of the table that is written next (`Good`), and an id is
  used in one table, where only addresses are defaults (`RowsAreOfOneTable`). So only the
  request that saves a new default takes the flag of another address away, and the
  transaction of a request that fails before its save takes it back.
* `LocksInv` of `SupportProofs`: a request has the ticket's row as it still is, and no
  other request has it; so what is computed from the row is up to date. `UnreadInv` adds
  that what is unread of a ticket is in it, `FreshInv` that a ticket that is created had
  nothing. `MediaInv` follows the file, not the row: whatever is good in the store,
  checked, or about to be saved has been stored as announced, and `FilesInv` lets
  messages refer to nothing else.
* `ScheduledInv` of `StorefrontProofs`: a checkout past its schedule has checked the
  times of the order against what it has read, and its reading is its own, so later edits
  of the item and the delivery time do not matter; the hours do, unless they are as they
  were.

* `HoursInv` of `StorefrontProofs`: the rows of the hours are among those the staff can
  write. The rest is arithmetic with constants that are not literals, which the SMT solver
  does not decide by itself: `Division`, `Multiples`, `DivisionIsUnique` and
  `RoundUpIsLeast` state what it needs of quotients. `LocalTimes` then says that the clocks
  show a time of the shop as it was meant, and `OpenOnTheDay` that the check of checkout
  asks the same row as the slots.
* Both hypotheses of the last three theorems are about the hours a restaurant keeps, and
  the instance of the run has them. `ClosedAtTheChange`: no row opens earlier in the
  day than the clocks change, plus their offset. `NoneLeavesTheDayBefore`: no row
  opens so early that the food of a delivery at opening would be ready on the day
  before. The code enforces neither, and without them TLC finds the properties
  violated (section 5).

Every invariant and every safety property the runs check is the statement of a theorem,
except the one that fails (`RefundedIsFinal`). Model-checked only:
`CaptureReachesTheOrder`, `EveryEventSettles` and `RequestsEnd`, because liveness
under fairness is out of the prover's reach.

## 5. Findings

Each of these is a run that TLC must find violated, quoted with its document in
`PROJECT.json`.

* `doc_refund_overwritten`: the unconditional mark of a failed approval
  overwrites the success of another.
* `doc_pool`: ten checkouts or reorders at a time (the default size of the pool)
  hold one connection each and wait for a second one forever.

Met on the way, with no run of their own.

Orders, deliveries, payments:

* The transition table of deliveries accepts `cancelled`, the CHECK of
  `delivery_tracking.status` (migration `...010`, line 27) does not: the request always
  rolls back, while `REQUIREMENTS_TRACEABILITY.md:24` says that delivery events pass.
* `isStale` does not protect `partially_refunded`: a stale snapshot takes the status back
  (`payments.service.ts:449`), while `P1_SUMUP_PAYMENT_IMPLEMENTATION_REPORT.md:42` says that
  a refunded state cannot be overwritten by one.
* A stale `pending` snapshot applied after a `failed` one leaves the transaction
  pending for ever, because the event row drops every later `failed` one.
* A location ping saves the tracking status it read without a lock
  (`deliveries.service.ts:579`): `ReadLocation`, `SaveLocation`.
* A customer's cancellation is checked on an unlocked read
  (`orders.service.ts:383`); if the kitchen starts in between, `updateStatus` still
  allows it: `CheckCancellable`, `CancelByCustomer`.
* A driver with an unfinished delivery can be disabled, by `updateDriver` or by a
  race of `deactivateDriver` with `assign`.

* The money of a refund can be returned twice, and beyond the payment if the provider allows
  it: an approval that rolls back or dies after the call to the provider leaves the refund
  requested or `failed`, and a `failed` one is not counted when the next is requested or
  approved (`refunds.service.ts:68-75`, `:211-218`). `approve` does not look at the status
  of the payment. `RefundsWithinCapture` holds for the books only: `ApproveFails`,
  `ApproveCrashes`, `MarkFailed`.

Outbox:

* `PRODUCTION_READINESS.md:6` says the worker retries five times. A claim whose
  worker died is taken again whatever its attempt count (`outbox.worker.ts:40`), so
  an event that kills its worker is retried for ever, which is why
  `EveryEventSettles` needs the bound on stalls.
* A worker that is slower than its claim writes its outcome by id
  (`outbox.worker.ts:60`): when it fails after another one has published the event, the
  event is failed, claimed and handled again.
* `handleOrder` (`outbox.worker.ts:205-245`) announces the order's current status, not the
  event's: a late event announces a later status twice and an earlier one never.

Checkout, POS, pricing, promotions:

* A coupon for free delivery takes the fee off an order below its minimum
  (`checkout.service.ts:300`), of which the quote says that the coupon does not apply
  (`coupons.service.ts:127`; `REQUIREMENTS_TRACEABILITY.md:18`).
* A coupon that lacks one of its limits can never be used: the column is `null`,
  not `undefined`, and a number is `>= null` (`checkout.service.ts:258`,
  `coupons.service.ts:186`; promotions compare with `!= null`): `Reached`.
* A POS request that is repeated while the first is being handled passes the look at
  the key and fails on the unique key instead of returning the order
  (`admin-pos.service.ts:261`): `CreatePos`.
* An option group or a builder rule without a maximum admits nothing: the column is
  `null`, not `undefined`, and `count > null` holds for every selection
  (`pricing.service.ts:131`, `:259`): `Within`. The page shows the same null as one, or
  as no limit.
* The page shows groups whether they are attached to the item or not, and neither the
  item's overrides nor incompatible ingredients, so a customer can put together what
  pricing refuses. Only the seed attaches groups to items; a rule created through the
  API shows groups whose choices are all refused.
* The limit on all toppings is not enforced for items that are not build-your-own.
* A part of a portion can make a pizza cheaper: a topping is charged by its quantity
  (`pricing.service.ts:151`, at least 0.01), but a free one takes its whole price off (`:155-162`).
  Without the words "at least a portion" TLC finds `MoreCostsNoLess` violated.
* A toppings group with a minimum that is not attached to the item is shown by the page with
  that minimum, and pricing refuses each of its choices, so the page can only be completed to
  something that is refused. `OrderableIsShown` therefore speaks of attached groups.
* Options that sum up to less than zero are accepted by pricing as long as the unit
  price is not negative, and refused by the CHECK of `option_charges_minor`.
* A percentage coupon with a maximum of 0 has no maximum (`checkout.service.ts:51`), while a
  promotion with one saves nothing (`promotions.service.ts:250`).
* The amounts in `promotion_redemptions` are those before the sum is clamped and may add
  up to more than the order's discount.
* A reorder locks menu items before the cart (`carts.service.ts:310`), a checkout
  the cart before it refers to the menu items: PostgreSQL may abort one of them.

Hours and menu:

* Hours that pass midnight are refused by `upsertBusinessHours`
  (`restaurants.service.ts:239`), although `isOpenAt` and the slots handle them; a
  restaurant without any hours counts as open.
* `zonedLocalToUtc` takes the offset of another instant (the digits read as UTC), so times
  within an offset of a change of the clocks are off by the difference: `ZonedLocalToUtc`.
* Around the change of the clocks a slot can be shown that checkout refuses: with rows that
  open before it, TLC finds `SlotsAreAccepted` violated. Restaurants are closed in that
  night, but no code asks for it.
* The shop takes the preparation time of an item as it is (`restaurants.service.ts:90`), checkout a
  minute at least (`checkout.service.ts:317-320`), and 0 may be entered
  (`create-menu-item.dto.ts:26`). So the page shows a pickup due in the current minute that
  checkout refuses; and with a delivery time of 31 minutes the way is 31 for the page and 30
  for checkout, which accepts a delivery half an hour after opening that is not shown. The
  exceptions of `SlotsAreAccepted` and `AcceptedAreShown` are these.
* For an item that is not on sale, as without an item, the page assumes 15 minutes
  (`restaurants.service.ts:81-90`): `ShopPrep`.
* A time whose food has to be ready on the day before, for a shop that opens right after
  midnight and was open until then, is accepted by checkout, which asks both days, and not
  shown, because the slots look at one (`AcceptedAreShown`).
* `asapAvailable` is shown until closing, but an order as soon as possible is refused when
  the kitchen would be ready after it.
* Slots late on the last day are offered beyond the 14 days checkout admits.
* A delivery takes at least 5 minutes of the way, also when the delivery time is less than
  that above the preparation: the kitchen's time is cut by up to 5 minutes.
* A stale save of a menu item undoes an archive (`menu.service.ts:131-147`): `SaveItem`.

Accounts and customer data:

* `verifyEmail` sets a disabled account active again if a code is still live
  (`auth.service.ts:385`); `updateProfile` and `users.remove` save a stale row over a
  concurrent anonymization (`customers.service.ts:54-76`): `VerifyEmail`, `SaveName`,
  `SaveDisabled`. `CLIENT_BACKEND_ANALYSIS_REPORT.md:195` says that identity is anonymized.
* `assertAnotherActiveAdmin` counts without a lock (`users.service.ts:771`), so two
  administrators can disable each other; the same in `staff.service.ts:54`.
* `createWithPermissions` saves the user before it looks at the permission ids
  (`users.service.ts:137`): a request with a wrong id leaves half a user. Two
  replacements of one user's permissions at a time may leave the union (`:327-352`).
* `UsersService.update` takes every status (`create-user.dto.ts:39-41`), `deleted` and
  `disabled` too, and removes no session (`users.service.ts:706-725`): a refresh that looked at
  the account before is exchanged (`auth.service.ts:243-270`), for tokens no guard then
  accepts. `DeletedIsNotRefreshed` is about deletion by a privacy request. An administrator,
  the last one too, may set his own status to `pending_verification` and lock himself out:
  `CheckUpdate`, `WriteUpdate`.
* A request that overlaps a deletion can leave, or insert again, a row of the customer
  (`addresses.service.ts:41-56`, `customers.service.ts:54-66`): `Save`.
* The deletion leaves the customer's `notification_preferences` and carts with their items
  (`customers.service.ts:307-349`), and loyalty account and coupon redemptions; what it says it
  retains (`:350-357`) are orders, consents and privacy requests, and support content: `Kept`
  and section 2.
* The default address is lost when an update that does not mention it saves a row it had
  read before another request made it the default. Two first reads of a profile and two
  requests for a default at a time end in a unique violation; favourites can be duplicated.

Support and media:

* `MediaService.remove` deletes the object and then saves a status the CHECK of the table
  does not have (`media.service.ts:244-247`, migration `1700000000004`, lines 73-74): the
  request fails, and the row stays active without its object. The journey guide
  (`CUSTOMER_ADMIN_API_JOURNEY_GUIDE.md:264`) lists it as a supported step.

Seeds: `pizza-builder-seed.ts` inserts option groups without looking for them and fails on
their unique code when it is run a second time.

## 6. Not modelled

Parts of the modelled components that are left out, and why, are in the `note` of each
component in `PROJECT.json`. Not modelled at all:

* **Loyalty.** Points are redeemed under a lock from a balance no code credits.
* **FAQ, audit, reports, dashboard.** Texts, an append-only log and queries.
* **Roles and permissions.** Rows that are inserted, deleted or replaced and read again by
  every request; what a stale read does is under section 5.
* **Mail, push and realtime adapters.** I/O behind the outbox worker, an external actor.
* **Seeds and migrations.** Run by hand; the constraints of the tables are in the modules
  of the components (`Storable`, `TotalsAreStorable`, `AreGroups`, the unique columns).
* **Flutter clients, public site, generated client.** No rules the server does not enforce.

Not stated, since the code does not keep it: that a second checkout is not opened while a
first is open; that a driver with deliveries stays active; that every order is announced with
each status it has had. The hazards without a property say why.

## 7. Plan

Done: the order flow, its refinement and proofs; the outbox worker; checkout, carts and POS
orders with their refinement; pricing, the pizza page, promotions and totals; opening hours
and the schedule of a checkout; accounts, sessions, codes and privacy requests; customer data
and its deletion; support tickets with their files; a theorem for every safety property.

What is left:

1. Abstract specifications of the outbox (an event is delivered at least once) and of the
   support desk, and their refinement.
2. `Locks`: the lock orders of the services, which deadlocks can occur and that
   a refusal leaves no lock behind.
3. The administration of promotions, coupons, roles and permissions beside the requests
   that use them.
4. What a notification says: statuses in the order they were reached.
