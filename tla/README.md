# Pratikshya backend: formal models

TLA+ models of the FastAPI/SQLAlchemy shop backend in `src/app`, TLC
configurations that check them on small instances, and TLAPS proofs of the
results that matter most. The models are about what a unit test hardly
reaches: overlapping requests at READ COMMITTED, webhooks that arrive late,
twice or out of order, refunds that meet audits, rows read without a lock and
written back later, caches filled with what was true before, a process that
stops between the object store and the database, one rule computed by several
pieces of code.

Paths below are relative to `src/app` unless they start with `src/`.

## 1. Inventory

### How the system runs

Every HTTP request opens one database session (`core/database.py:26-36`,
`get_db`): the transaction commits when the handler returns and rolls back if
it raises. A handler that marks a row and then raises has marked nothing.
PostgreSQL runs at READ COMMITTED, so a plain `SELECT` sees whatever was last
committed and protects nothing; SQLAlchemy flushes only the columns that
changed, blindly (`autoflush=False`, `expire_on_commit=False`). Only `SELECT
... FOR UPDATE` serialises requests, and unique constraints and foreign keys
decide at the flush. The in-process store (`core/lru_cache_store.py`) is no
part of the transaction: it is written at once, no rollback undoes it, and a
restart empties it. The object store of the media services is no part of it either.
There are no background workers: besides customers and staff, only Razorpay's
webhooks, the punching machines, an admin-triggered audit and the asset
import act on the data. This gives every module the same shapes:

* a handler that locks its rows first is **one action**, enabled exactly where
  it succeeds;
* a handler that reads without a lock is **several actions** (read and decide,
  call the gateway or the store, flush or commit), and other requests run
  between them. An `Abort` or `Fail` action ends a request at any point with
  nothing more written: an exception, a timeout, a dead worker, or PostgreSQL's
  deadlock detection;
* what the store or a gateway did before that stays done.

### Components

| Component | State | Operations | Interacts with | What makes it correct |
|---|---|---|---|---|
| Payments (`services/payments/payment_service.py`) | payment sessions, the order's `payment_status`, refunds booked | create / resume / cancel session, verify, webhooks, reconcile, audit, refund | Razorpay, order status | books follow the money, refunds are real, a late event never undoes a payment, a captured payment is recorded |
| Checkout and cancellation (`services/orders/order_service.py`) | product stock, coupon counter, redemptions, orders | `place_order`, `cancel_order`, `admin_cancel` | product rows, coupon row, payment sessions | no oversell, stock conserved, coupon limits |
| Order status (same file) | `status`, status history | desk steps, `apply_status`, `force_status`, guest claim | payments, cancellation | terminal states are final; what tracking shows is a path |
| Returns (`create_return`, `orders/return_service.py`) | `returned_quantity`, return orders | request, approve, reject, pickup, receive, inspect, refund | order lines | not more returned than bought, no refund for a package nobody saw |
| Cart (`commerce/cart_service.py`) | cart rows, cached cart, applied coupon | add, update, remove, coupon, read | catalogue, coupons, checkout | cart, page and order say one price; a change evicts the cache |
| Coupons administration (`api/v1/coupons.py`) | coupon rows | create, edit, activate, archive | orders that count uses | only coupons that could have been entered; no use lost to an edit |
| Instagram rewards (`commerce/instagram_reward_service.py`) | claims, the coupon each approval issues | submit, approve, reject, reopen, manual claim | orders, coupons | one reward per order |
| Product lifecycle (`catalog/product_service.py`) | status × review × published, content, cached page | authoring, review, publication, archiving, bulk edits | categories, cache | nothing unreviewed is live, nothing unpublished is served, a withdrawn page leaves |
| Product identity (same file) | ids, labels, slugs, SKUs | create, draft, duplicate, relabel, edit | | a name names one product |
| Categories and collections (`catalog/category_service.py`, `collection_service.py`) | rows by slug, rules, members | CRUD, archive, restore | products' references | references belong together; two ways to name members agree |
| Storefront (`product_service`, `explore_service`, `recommendation_service`) | none but the recently viewed list | list, facets, home, explore, recommend | products, categories, hero plates | counts, pages and seams agree with the list |
| Attendance and leave (`employee/workforce_service.py`, `attendance_ingest_service.py`) | day records, punches, PINs, leaves | machine batches, web punches, sweep, corrections, leave requests and decisions | each other | a punched day has a record that counts its taps; derived leave days follow standing leaves |
| Employees (`employee/employee_service.py`, `core/rbac.py`) | accounts, roles, grants, cached grants; departments, sections | create, levels, roles, status, delegation, deletion, bootstrap | authentication | nobody gains authority that was not handed out; the chart has no dangling references |
| Authentication (`auth/*.py`, `dependencies.py`) | session rows, blacklist, reset keys | sign-up, sign-in, refresh, sign-out, passwords, suspension | in-process store | a token is exchanged, refused, spent as often as it should be |
| Customers (`customer/*.py`, `commerce/wishlist_service.py`) | addresses, email, wishlist | CRUD, default address | authentication | one default, one row for a saved product, an email of one user |
| Media (`api/v1/media.py`, `media/*.py`) | objects, register, product images, placements | upload, register, delete, duplicate, place | object store | what a product shows is there |
| Asset import (`media/local_media_migration.py`) | manifest | run, verify | object store, library | what the manifest claims is there; nothing is overwritten |
| Inventory (`inventory/*.py`) | stock records, ledger, warehouses, transfers | create, adjust, transfer | none (separate from checkout's stock) | stock on hand comes from the ledger |
| Notification, audit log, analytics, checkout-session stub, schemas, migrations, AI/RAG/chatbot and worker stubs | rows written once, or none | | | not modelled (section 7) |

`PROJECT.json` lists all of them with their status, and under `hazards` the
places in the code that are hard to test, each at its line.

## 2. Modules

| Module | Models |
|---|---|
| `StatusRules` | the transition tables of `models/enums.py` and `ORDER_TRANSITIONS`, as relations |
| `Payments` | one order, its payment sessions, requests in flight, Razorpay |
| `PaymentPromise` | abstract: the order's payment claim follows the money |
| `Checkout` | product stock under row locks, one coupon, orders placed and cancelled |
| `StockPromise` | abstract: units are taken all together or not at all, and put back once |
| `Returns` | the returns against one delivered order |
| `Fulfilment` | one order's way to the customer and its status history |
| `Cart` | a customer's cart, its cached response, and prices as page, cart and order compute them |
| `Offers` | coupons edited while orders count their uses |
| `Rewards` | Instagram claims of orders, and the coupons issued for them |
| `Catalog` | products, their taxonomy rows, writers, readers and cached pages |
| `Identity` | ids, labels, and slugs or SKUs |
| `Taxonomy` | categories, subcategories and products' references to them |
| `Collections` | collections and the two ways a product is named as a member |
| `Storefront` | listing, facets, home, explore, recommendations, recently viewed |
| `Sessions` | sign-in sessions, tokens, the blacklist and password resets |
| `Staff` | accounts, delegation of capabilities, cached grants |
| `Organisation` | departments, sections, assignments |
| `Workforce` | attendance and leave |
| `Profile` | addresses, wishlist, email |
| `Media` | product images over an object store |
| `MediaImport` | the import of the asset library |
| `Inventory` | the warehouse register |
| `Aftersale` | `Returns`, `Fulfilment` and `Inventory` in one specification (section 3) |
| `Office` | ten parts of the back office in one specification (section 3) |
| `Quotes` | `Cart` under names that do not clash with those of `Checkout` |
| `PaymentsProofs`, `CheckoutProofs`, `AftersaleProofs`, `CatalogProofs`, `SessionsProofs`, `WorkforceProofs`, `OfficeProofs` | the theorems |
| `Sums` | lemmas about the sums that the models take over functions |
| `MCPayments`, `MCCheckout`, `MCCart`, `MCAftersale`, `MCCatalog`, `MCSessions`, `MCStaff`, `MCWorkforce`, `MCOffice` | instances for TLC |

Operators named `...Calls` group the operations that a router offers
(`EditCalls`, `DeskCalls`, `MediaCalls`, ...): `Next` is a disjunction of these and of the
later steps of requests under way. In every module `req` (or `write`, `desk`,
`clerk`, `push`, `review`: the request's kind) holds what a request has read and
is about to write.

### Payments

`sess[s]` is a `PaymentSessionModel` row: `status`, whether
`razorpay_payment_id` is set (`paid`), `refunded_amount` (`refunded`) and the part of
`last_webhook_event` that remembers a refund's idempotency key (`refundKey`).
`rzp[s]` is external: what Razorpay did for the Razorpay order of the session.
A webhook is a *fact* of `rzp`: its handler is enabled from the moment the fact
exists and stays so, which covers loss, delay, duplication and reordering
without a queue. `req[r]` is a request in flight that took no lock on entry.

* `CreateRead`, `CreateCheckActive`, `CreateRazorpayOrder`, `CreateInsert`:
  `create_session`, cut at its two reads, the gateway call and the commit.
* `CancelSessionRead/Write`; `CancelOrderRead/ReadSessions/Write` for
  `cancel_order`, `admin_cancel` and `_on_order_cancelled`; `StageRead`,
  `ForceRead`, `SetStatusWrite` for the staff endpoints.
* `VerifyPayment`, `VerifyReplay`, `WebhookCaptured`, `WebhookCapturedMismatch`, `WebhookFailed`,
  `WebhookOrderPaid`, `WebhookRefund`, `Reconcile`, `AuditCaptured`,
  `AuditRefunded`: one locked handler each. `AuditCaptured` keeps the session's
  change when the order's validation raises, because the batch audit catches the
  exception and commits.
* `RefundRead`, `RefundGateway`, `RefundWrite`: `refund_payment` holds the row
  lock over the gateway call; `Locked(s)` keeps every other locked handler out.
  An `Abort` between the last two is a refund that Razorpay executed and we
  forgot.

Left out: signatures (a valid one is assumed; an invalid one changes nothing),
currency, order ownership and expiry, which no handler changes.

### Checkout, Cart, Offers

`LockRow(r, p)` is one row of the `FOR UPDATE` select: it waits for the lock,
then reads. The rows of one select may be taken in any order, so two checkouts
may block each other; `Abort` is PostgreSQL breaking the deadlock.
`PlaceCheck` validates stock and coupon, `PlaceCommit` writes. The coupon's
counter is read without a lock by `place_order` (`seenUsage`) and under one by a
cancellation (`CancelCommit`). Orders are identified by their number, which the
code derives from the idempotency key.

`Cart` is about numbers instead of interleavings: `product` has a stored price,
a pricing block and stock; `PagePrice`, `CartPrice` and `OrderPrice` are three translations
of three pieces of code, with Python's round-half-even, and a quote goes
through restoring (lines dropped or clamped), the coupon, the shipping threshold and fees. The
customer's requests come one at a time; the desk edits prices, stock and coupon
in between.

`Offers` reads a coupon, validates the patch over what it read, and sends the
columns that differ (`Dirty`); `OrderReads/OrderWrites` is the counter of `place_order`.

### Returns, Fulfilment, Inventory

`CreateRead` compares each entry of the form with what its line has left and
`CreateCommit` adds the entries up, as `create_return` does. The five desk steps
up to the inspection read, validate and overwrite without a lock (`StepRead`,
`StepCommit`); the two refund steps lock the row and are one action each.

`Fulfilment` keeps `status` and the set of rows of the status history; desk steps,
`ApplyStatus`, `ForceStatus` and the customer's `Cancel` read and validate, `SetStatus` writes
both, `ConfirmPaid` is the payment handler's two rows under the order's lock.

`Inventory` reads a stock row, validates, and `WriteStock` writes the row and the
ledger entry; transfers move along their table, which has no endpoint that leaves
DRAFT except by cancelling.

### Catalog, Identity, Taxonomy, Collections, Storefront

`Catalog`: a write loads the product (`Load`), applies one operation to the loaded row,
flushes the columns that differ, which takes the row's lock and drops cached
pages (`Flush`), and commits when the handler has returned (`Commit`). A page is read in steps (`View`, `Gate`, `Store`) and
stored under the address it was asked for. `CategoryService`'s archiving and
restoring act on `node` and drop pages between flush and commit.

`Identity`: each request decides on a row from what it looks up and writes it later;
`Write` is refused by the primary key and the unique label. A behaviour is about slugs
or about SKUs (`column`), which differ in how a free one is found.

`Taxonomy`: `Resolve` is `_resolve_taxonomy` with `Lookup` and `Pick`, by id before slug;
`BulkUpdate` stores what it was given for every product it names.

`Collections`: `NamesOnPage` translates the batch query behind pages of many products, `NamesOfProduct` the one
behind a product's own page, `Listed` what the collection itself lists. They treat a rule that is empty (`none`)
or names nothing that is matched (`blank`) differently, and labels in another case (`Recased`): `ShelvesAgree` says
exactly where the three coincide, of collections that are manual or whose rule is `set`.

`Storefront`: one operator per function: matching, `ItemsExcl` and facets, sort and pages,
home's seams with reserved plates, recommendations, and the recently viewed
list in the store. Its state is the catalogue, edited between views. Colours and labels are free text
in the code, so a product's colours are a list that may repeat one and spell it in two ways: `Times` counts
occurrences in the exact spelling, as `_compute_facets` does, and `Has` matches by `Fold`, as the filter does.

### Sessions, Staff, Organisation, Profile

`Sessions`: an id stands for one issue of tokens: its access token, refresh token and
session row. `RefreshRead`, `RefreshStore`, `RefreshCommit` are the look-up, the blacklisting in the store and the
commit; a refresh token is matched by bcrypt, which reads 72 bytes, so any live
row of its user matches. `Restart` empties the store. A blacklist entry lives for the whole seconds its token has
left: `AgeAccess` and `AgeRefresh` end it when the token's final second begins, and a token blacklisted
in that second (`Blacklisted`) gets none.

`Staff`: a request is admitted with the actor's row and its grants, from the cache
or the database; the guards (`CanManage`, `MayDelegate`, ...) are those of
`EmployeeService`; `Commit` writes the columns, `Forget` drops the cache entry after that.
`FillCache` is a guard that stores what it read earlier. Codes are stored as given and expanded when they are
resolved and again when they are compared (`Expand`: `LEGACY_TO_CAPABILITY` and `CAPABILITY_IMPLIES`).

`Organisation`: look-up and write; the foreign keys' `CASCADE` and `SET NULL` are part of the
deletions. `Profile`: the same for addresses, with the demotion of the rows the request
read; unique constraints of wishlist and email decide at the write.

### Workforce, Rewards

`Workforce`: every request but the sweep, which is one `UPDATE`, is two steps. It begins by reading the
tables and working out its writes (`Begin`, under `Push`, `SetPin`, `PunchIn`, `PunchOut`, `Correct`, `DeleteAttendance`,
`Submit`, `Decide`): the session has no autoflush, so nothing is sent before. `Commit` applies them to the tables
as they are then, as an `INSERT` that the unique index of employee and day may refuse, an `UPDATE` of the columns that
differ from what was read, or a `DELETE`; the row that a rebuild deletes is locked until its commit. `Overlaps` says which kinds of
requests may be under way together. `Kept` is `debounce_punches`, `Taps` what `summarize_punches` counts, and `MaxBackfill` is
`MAX_BACKFILL_DAYS`, in `SetPin` and in `Sweep`. `Roster` is the desk's view of a day: its
record, or a row made up from the leaves where there is none.
`Rewards`: a review takes its claim's lock, looks at the others of the order, and
commits; a submission takes none; the manual claim keeps the status it saw before the lock.

### Media, MediaImport

`Media`: upload and deletion change the object first and the rows at the commit
(`Attach`, `DeleteRow`); `Crash` keeps the first without the second. `MediaImport`: one
action per system call of a run over the files in order; `Kill` at any point leaves the
store as it is and the report unwritten; `EditLibrary` changes sources under a run.

## 3. Runs

Ten runs pass; two are expected to find a violation.

| Run | Instance | Shows |
|---|---|---|
| `payments_concurrent` | 2 sessions, 2 requests, amount 2, captures of 1 or 2 | what is recorded as paid was captured; booked refunds were paid back; a paid order no longer waits for payment; the payment status never regresses; `Payments` implements `PaymentPromise` |
| `payments_serial` | 2 sessions, 1 request, 1 refund key, stages ALLOCATED and PICKING, weak fairness of `WebhookCaptured` | with unlocked requests one at a time: a cancelled order has no open session and stays cancelled, retries resume the open session, the reservation is released at most once; a captured payment of a session that was not cancelled is eventually recorded, even after a failed attempt |
| `checkout_orders` | 2 products, 3 orders, 2 requests, stock of 3 and 1, a coupon on p1 with limits 2 and 1 | units are conserved and never oversold while checkouts share and do not share rows; the coupon's limits hold; `Checkout` implements `StockPromise` |
| `cart_quotes` | 2 products, stock up to 2, discounts that end in half a rupee, four states of the coupon | page, cart and order agree on prices; an accepted order costs what the cart says; a cached cart is the current one |
| `aftersale_desk` | 2 returns of 2 lines; one order with 2 desks; 1 stock row with 2 clerks | returned units match return orders and were bought; money goes back after the inspection only; tracking shows a path; stock on hand is explained by the ledger |
| `sessions_tokens` | 1 user, 3 issues of tokens, 2 requests one of which refreshes, 1 restart | rotation replaces and never adds; a refresh token is exchanged once between restarts, until its final second; signed-out tokens are refused; a reset link works once |
| `staff_grants` | 3 accounts, 3 capabilities, 2 requests, 4 commits | an employee never holds the admin domain; nobody holds what does not follow from what was handed out; only an owner changes an owner |
| `catalog_pages` | 1 product with 2 slugs and 2 labels, 1 category, 1 writer, 1 reader, weak fairness of expiry and of readers | what is live was approved; cached pages show only content that was public; a withdrawn page leaves every address |
| `workforce_days` | 1 employee, 1 PIN, 1 machine with punches at 3 times of day 1, 2 days, 2 leaves, 2 requests that overlap where section 6 lists no race | punched days have a record, and one from the machines counts every tap; a day the roster shows as leave, unless the desk entered it, belongs to a standing leave; withdrawing a leave takes no day of another |
| `office_desk` | ten parts, see below | what two tables, two queries, or a table and the store say of one thing agrees |
| `payments_cancelled_charged` | violation | an order cancelled after a failed attempt is still charged by a later capture |
| `checkout_coupon_over_limit` | violation | two checkouts of different products exceed the coupon's limit |

`Aftersale` and `Office` put several components into one specification: a behaviour
picks its `part` in the initial state and takes only steps of that part, the others
stay in one initial state. The parts share no state in the code either, so nothing is
lost: the run visits the states of each, and each property speaks of its part. In
`MCOffice` one set of model values stands for the rows of every part and one for its
overlapping requests, so that one symmetry serves all.
The parts of `Office` and what they show:

| Part | Instance | Property |
|---|---|---|
| rewards | 2 orders, 2 tabs, 1 desk, 4 claims, 3 coupons | `OneCouponPerOrder` |
| offers | 2 coupons, 2 codes, 1 edit beside orders, dates up to 2 | `OffersSound` |
| collections | 1 collection, 2 products, one named by labels and one in another case and by the rule, 2 overlapping writes | `NamesHold` |
| taxonomy | 2 categories, 2 subcategories, 2 slugs, 1 edit beside desk steps, 1 rename | `NamesHold` |
| identity | 2 ids of a category and 1 made of the time, 2 products, 2 overlapping requests | `NamesHold` |
| organisation | 2 departments, 2 sections, 1 employee, 2 overlapping requests | `ChartConsistent` |
| profile | 2 addresses, 1 product, 2 users (one of them staff), 2 tabs | `ProfileSound` |
| media | 2 keys, 2 contents, 2 products, 1 request, crashes | `GalleryIntact` |
| import | 2 files, 3 contents one of which is no image, kills and edits | `ManifestHolds` |
| storefront | 3 products, 2 categories, 4 lists of 3 spellings of 2 colours, 2 spellings of a label, 3 prices, 2 steps from a chosen catalogue | `StorefrontSound` |

`NamesHold` says of three parts what is one question: does a name lead to one thing.

### Bounds, and why they are enough

Two requests in flight are the least that lets one commit between another
one's read and write; the handlers relate a request to one other party at a
time. Two of each row are the least that can be confused.

* Payments: two sessions are the least that lets one session's failure meet
  another one's payment. `Amount = 2` is the smallest total with a partial
  refund; captured amounts of 1 and 2 include the mismatch. `MaxCancels` is one
  above what `payments_serial` allows.
* Checkout: three orders over stocks of three and one are enough for a unit
  that was sold, returned and sold again; two requests may hold each other's rows.
* Fulfilment: `MaxHistory = 11` is one row more than the ten of an undisturbed
  delivery, so a disturbed one may still end; `MaxForced = 1`.
* Inventory: one row, `MaxMovements = 4`, deltas of -1 and 2 on openings of 0 and
  1: enough to be refused, and to lose an amount to an overlapping adjustment.
* Rewards: `MaxRewards = 4`, `MaxCoupons = 3`: an order with a rejected, a
  reopened and a new claim, and another order.
* Sessions: `MaxAgeing = 1`: one token, access or refresh, reaches its final second; what that allows, one token shows.
* Staff: `MaxChanges = 4` commits: create, raise, delegate, and one that meets them. Two of the codes are a legacy code and
  the capability it rolls up into, which implies it, so that expansion matters.
* Catalog: `MaxVersion = 2`: what was reviewed and what was edited since. One
  writer and one reader in the run; the proofs cover any number of either.
* Workforce: `MaxBatch = 1` punch to a push; longer batches are pushes of one after another to the same state.
  `Window = 2` over taps at 0, 1 and 3: the second is dropped, and which one that is depends on what arrived. `LastDay = 2`:
  a finished day and the current one, a leave of two days and one that overlaps it. Punches fall on
  one day, no more than `MaxBackfill = 1`.
* Taxonomy and Identity: `MaxSubs = 2`, `MaxRenames = 1`, `MaxProducts = 2`. In Identity the second
  writer only creates. Offers, Media and addresses take one request at a time (section 6
  says what goes wrong otherwise).
* Storefront: queries hold at most two facets' filters, or one and a term;
  `MaxSteps = 2` edits or views from a catalogue in which two products share a colour in different spellings, two
  a price and two a picture.

Restrictions of the requests are part of what a run shows: `Cancellers = {r1}` (one
cancellation at a time), `Creators = {r1}` (one return form), `Refreshers = {r1}` (one
refreshing client), `Desks = {d1}` in `office_desk`, and `Overlaps <- Meetings` in `workforce_days` (a decision
with a submission, a web punch, a correction or a deletion; a push with a web punch; a correction with a
deletion). Where the code loses the race without them, section 6 says so.

`CHECK_DEADLOCK FALSE` everywhere: an order that is refunded and delivered, a
shop that is sold out, a return that is closed or a bound that is used up has
nothing left to happen.

### Fairness

`Payments!FairSpec` assumes weak fairness of `WebhookCaptured(s)` only: Razorpay
redelivers a webhook until it is acknowledged, and the endpoint answers an
error when the handler raises. Nothing is assumed of customers, of staff, of
requests in flight finishing, or of audits. Weak fairness is enough because the
handler stays enabled from the capture until the payment is recorded, but for
the moments in which a refund holds the lock, and refunds need a recorded
payment.

`Catalog!FairSpec` assumes that a cached page expires (the entry's time to live, one
address at a time) and that a reader which has begun to read goes on (`Gate` or `Store`: a
request that the server runs to its end). Nothing is assumed of writers.

The other runs check safety only.

## 4. Proofs

The theorems hold for every value of the constants that meets the named assumptions of
the modules (TLC evaluates these on every run). Where a theorem needs more than that, its statement names the hypothesis, and the
run's instance meets it: most are that requests of one kind come one at a time, and
section 6 says what goes wrong otherwise.

### Payments

* `TypeCorrect`, `Invariant`: the types, and the inductive invariant `IndInv`, from which
  `SettledOnlyIfCaptured` and `BookedRefundsAreReal` follow.
  `RefundsAreReal` alone is not inductive: `RefundWrite` adds an amount the
  request decided on two steps earlier. `IndInv` therefore adds
  `RefundInFlight` (what a request is about to book, Razorpay has paid),
  `RefundsExclusive` (the row lock: one refund per session, so nothing else
  uses up that room), `MoneyBounded` (Razorpay's own books) and
  `PaidHasPayment` / `OrderClaim` (settled rows have captured money, and the
  order's payment status is one of the five it can reach).
* `PaymentStatusMoves`, `KeepsPromise`, `PaidOrdersConfirmed`:
  the payment status moves along its table, `Payments` implements
  `PaymentPromise` (each step of the model is a step of the promise or a
  stutter, from `IndInv`), and a paid order does not wait for payment,
  assuming that `force_status` is not used with `PENDING_PAYMENT`.
* `AtMostOneActive`, `ReleasedAtMostOnce`, `CancelledStaysCancelled` assume `Serial`: one
  unlocked request at a time, and no status forced or staged to CANCELLED by hand. Webhooks and
  audits still come at any time. `SerialInv` says that what the one request has
  found out is still so when it writes: nobody else creates a session or
  cancels; a cancelled order has no open session.
* `CapturesAccepted`, `CapturesWait`: the safety half of `CaptureIsRecorded`, for any number of
  requests. `HeldInv` says what a request under way may rely on: the session it refunds is paid
  and its lock keeps it so, the session it is about to insert is not there yet and nobody else
  inserts it, the sessions it is about to cancel exist. Hence no refund ever locks a session whose
  capture is still to be recorded, and the two status tables leave the way to PAID open. With
  `DeliveryCloses` (one delivery settles the order) these are the premises from which weak fairness of the
  webhook gives liveness; only that last step is left to TLC.

### Checkout and cart

* `StockProtected`, `StockNeverNegative`: a value read under a row
  lock is current, a checkout that passed the stock check holds its rows with
  enough units on them, hence stock never goes below zero. The two are proved
  together: types need the lock, the lock argument needs the types.
* `UnitsNeverLost`: for each product, the shelf and the orders that keep their units add up
  to the opening stock, where an order that came back twice counts as less than nothing. The
  invariant is the equation itself, on top of `OrderInv` (what has been placed is known to have
  been); each step changes one summand, `Sums!SumChange`.
* `ImplementsStockPromise` (`OneCanceller`): every step of `Checkout` is a step of
  `StockPromise` or a stutter, and so is the initial state. `CancelInv`: what is about to be
  cancelled is open and nothing of it came back yet.
* `CouponNeverOverLimit` (`OneCanceller`, `SharedProduct`: one product is in every cart the
  coupon applies to). Nothing locks the coupon at checkout; `CouponInv` shows that the product's
  row lock does its work: what a checkout that passed the checks read of the coupon is still so.
  Without the shared product this is false, which `checkout_coupon_over_limit` shows.
* `OnePriceEverywhere`, `OrderCostsTheQuote`, `CachedCartStaysCurrent`: of module `Quotes`, with
  `CartInv` (a live product has a price or a block, and the cache holds nothing but the
  quote of the restored lines or was overtaken by an edit). `PricingsComplete`: each block saved has a
  selling price; `CouponsInOrder`: no percentage above 100. The second needs that the
  worth of some lines is at most that of all of them, so that no discount exceeds the total
  and both computations stay on the same side of zero.

### Returns, status history, warehouse

* `NoRefundUnseen`: a refund is requested only for a return that was
  received and inspected, whatever desk requests overlap. Statuses may be
  overwritten by stale requests; the invariant is about the history a status
  stands for, which no step erases, also of the statuses still about to be
  written.
* `ReturnedUnitsAccounted` (`NoLineTwice`, `OneCreator`): `QtyInv` relates each line's counter to
  the sum over its return orders, and what the form under way asks for to what the line has left.
* `TrackingIsAPath`: every row of the history starts where another one led, where the order is included, and
  a delivery that nobody forced passed every stage. A desk that overlaps another one records a step from
  a status the order has left. `TrackInv` therefore says of the history, and of the steps about to be
  recorded, that they start at a status that was reached and are edges of the table unless forced; the
  stages then follow backwards from DELIVERED along the table.
* `RegisterExplained`: what is on hand is the opening and a sum of *some* movements of the row, each once.
  `RegisterInv` says the same of the number a clerk is about to write, but for the movement it adds: an
  overlapping adjustment whose amount is lost leaves a number that fewer movements explain.

### Catalogue and sessions

* `CatalogProofs!LiveApproved`, `CachedWasPublic`: whatever writers and readers
  overlap. `CatalogInv` has three parts: `Shape` (what the columns and requests
  range over), `ReviewInv` (a product that is approved or published passed a review, and so did
  each that a writer is about to publish: a stale writer sends only the columns it
  changed) and `PublicInv` (what is live, what a reader holds, and what is cached was public
  at some time; `public` never shrinks).
* `CatalogProofs!WithdrawnOnlyDrains`: the safety half of `WithdrawnLeaves`. Reads look at the row afresh, so
  the reads of a withdrawn product only get fewer, and each stores one page at most.
* `SessionsProofs`: `ResetsOnce` and `SignedOutStaysOut` for any number of requests, `RotatesOneForOne`
  and `ExchangedOnce` for one refreshing request (`OneRefresher`) and tokens that are not in their final second. Four invariants on top of each
  other: `Typed`; `ResetInv` (a reset token is stored for one account, or carried by one
  request, or spent, never two of these); `SignOutInv` (who signed out is blacklisted, and so is
  whoever is about to be); `RotationInv` (the row a refresh is about to replace is the only live one of
  its sign-in, and a token about to be exchanged was not exchanged since the last restart).

### Attendance

A request's writes stand only while what it read does, so the invariants say of each request under way
that its proposal is right over the tables as they are now; the hypotheses name the requests for which another
one's commit would spoil that, and section 6 what happens then.

* `DaysCountPunches` (`Settling`: what the desk enters is no bare leave day; `BacklogFits`: punches fall on no more days
  than a new PIN recomputes; `DaysApart`: no two requests that write days overlap): a day with
  punches has a record, and one the machines wrote counts every tap of it. `DaysOK` says so of every day for the
  owners that punches have now, so that a PIN that moves takes its days along.
* `LeaveDaysStand` (`OneDecision`: no two leave decisions overlap): a day that the roster shows as leave, unless the
  desk entered it, belongs to a leave that stands (`LeaveBacked`). Pushes, punches, corrections, deletions
  and submissions overlap the decision freely.
* `StandingLeaveUntouched` (`OneDecision`, `OneSubmission`: nor two submissions): an action property. No decision takes
  away the days of another leave that stands, because open leaves of one employee, with the one about to be
  submitted, share no day, and a decision under way is one its leave still allows.

### Staff and the back office

* `DomainKept`, `GrantsTraced`, `OwnersUntouched`. `StaffInv` is
  `TypeOK`, `AccountSound` (an account below ADMIN from the start holds no more than such accounts may, and
  nobody more than was handed out), the same of cached grants, and `RequestSound` (of the grants
  a request was admitted with, of the row it is about to write, and whose row it is).
* The parts of `Office`. `PartsMoveAlone` says that a step of the office is one of the part that the behaviour is
  about; each theorem below rests on an inductive invariant of its part.

| Theorem | Assumes | The invariant adds |
|---|---|---|
| `OneRewardPerOrder` | `OneRewardDesk`: one review at a time | `RewardInv`: approved claims are those with the coupon issued for them, one to an order; a review that holds its claim's lock found a status that allows the step, and no other approved claim before it approves |
| `OffersStaySound` | `OneOfferDesk`: one edit at a time | `OffersInv`: rows are sound, and a patch under way, over the row as it is now, leaves a sound row and holds no use counter |
| `NamesStayTogether` | `OneLabeller`: one request at a time changes labels | `TaxonomyInv`: an edit under way holds references that belong together in the rows as they are now, unless a bulk edit left one. `IdentityInv`: what a request that no other overlapped has looked up is still free |
| `ChartStaysConsistent` | | `ChartInv`: rows refer to rows; what requests decided earlier need not hold any more, the foreign keys decide |
| `ProfileStaysSound` | `OneEditor`: one address request at a time | `ProfileInv`: what a request demotes is still the set of defaults |
| `GalleryStaysIntact` | `OneMediaRequest`: one upload or deletion at a time | `MediaInv`: an object about to be attached is there, one about to go is used by nobody |
| `ManifestStaysTrue` | | `ImportInv`: what is reported, in memory or in the manifest, is in the store, and nothing there is overwritten |
| `ListingsAddUp` | | `FrontInv`: rows are rows, and the list of viewed products names none twice |

`ListingsAddUp` is about what several queries compute from one state. A facet's count is a sum of occurrences over the
products that the other filters leave; choosing its value filters by the folded spelling, and every product counted is shown,
so that the count is the same sum over the products shown (`Sums!SumRestrict`: those left out add nothing). It is *not* the number of products
shown when a list repeats a value or spells it in another way (section 6). Sort keys end in
the id, so that a product's rank is the same whatever order the rows come in, and pages cut the ranks without overlap.
The seams of the home page reserve what they show: the reserved set only grows, and a seam shows nothing of it. A picture
may be reserved under two keys, and the statement is about each key.

`NamesStayTogether` says of collections what `ShelvesAgree` spells out, for every rule and spelling: for manual ones and
those with a rule that is set, list pages name what the product's own page names and, if a rule decides, the explicit products; what the
collection lists is named; and what is named and public is listed unless only a label in another case names it.

`OfficeAssumption`, which the run evaluates, says that the value that stands for "none" is no row, that
amounts are numbers, that there is a file, that ids are no slugs, and that the catalogue is what its columns allow
(`CatalogueTyped`: finitely many products with numbers for ids and prices, sorts that exist, pages of one row or more).

### Sums

`StockConserved`, `UnitsAccounted`, `CouponLimitsKept`, `LedgerExplainsStock` and the worth of a cart are sums over a
set, which the community modules define as folds by recursion over `CHOOSE`. `Sums` proves what such
a sum is without the induction theorems of the library, whose operator parameter no
installed prover can instantiate: induction is about a *set* instead (`SuccessorInduction`: a set
of naturals that contains 0 and successors is all of them; `RestInduction`: the same for the finite
subsets of a set), from which the recursive definition is shown to have a solution. `SumChange`
(changing one summand changes the sum by as much), `SumInsert`, `SumAtMost`, `SumZero`, `SumPick` and `SumRestrict`
are what the proofs use. `Recursion` is the same for recursive functions on numbers: the definition has a solution, so
its equation may be used. The two of `Storefront` (`Kept`, `Reserved`) are unfolded with it.

### Only model-checked

The two liveness properties, `CaptureIsRecorded` and `WithdrawnLeaves`: the prover has no rules for ENABLED, on which
fairness rests. Their safety halves (`CaptureAccepted`, `CaptureWaits`, `WithdrawnDrains`, defined beside their
proofs) are proved and in no run; TLC finds them true of the instances of `payments_concurrent` and `catalog_pages`.
Every other property that a passing run checks is stated by a theorem.

## 5. How to read a property

A property says what holds *given the restrictions of its run*; its comment
quotes the code or the document that promises it. Where two requests at once break
the promise and the code has no protection, the run keeps requests apart and the race is
listed in section 6, so that the property still guards everything else: crashes, late
messages, orders of operations, and requests of the other kinds.

## 6. Known disagreements

Two are runs of their own (section 3) and findings in `PROJECT.json`. The others were
met while modelling: widening the named constant shows those that have one, the rest follow
from reading the code.

Payments and orders (`services/payments/payment_service.py`, `services/orders/`):

* `cancel_session` overwrites a session paid since it was read (`payment_service.py:735`), and
  a payment captured on a cancelled session is then refused on every redelivery (`:1098`),
  although `:298` says the webhook "will eventually recover the session".
* `order.paid` handled before `payment.captured` leaves a paid session without its
  payment id for good (`:1173`, `:1178`).
* A webhook between two refund requests with one idempotency key lets the refund run
  twice (`:1300`, `api/v1/payments.py:76`).
* Overlapping `create_session` calls both create a session (`:514`).
* Customer and admin cancel at once: the units return twice (`order_service.py:823`;
  `Cancellers <- {r1, r2}`). `cancel_order` also releases the reservation of an order paid since it was read
  (`:850`), and a desk step validated earlier overwrites CANCELLED (`:1173`).
* A return form that names a line twice returns more than was bought (`:937`, `:945`;
  `Forms <- RepeatedLine`). A desk step validated earlier overwrites a later return status
  (`return_service.py:204`).
* Overlapping operations lose events of the timeline, a JSON column rewritten whole
  (`order_service.py:337-350`); the status history keeps all.

Prices and coupons:

* A pricing block without a selling price is priced differently by cart and order
  (`order_service.py:170-175`; `Pricings <- Incomplete`).
* `POST /offers/validate` is documented as the gate for discounts; cart and order
  compute their own.
* Two desks may approve two claims of one order (`instagram_reward_service.py:265`, `:581`; more `Desks`).

Catalogue:

* `status` and `published` may disagree after two overlapping lifecycle writes
  (`product_service.py:2271-2280`); what is live was still approved.
* Cached pages are dropped before the commit, and never under an earlier slug or the
  label (`:1486`), so an old page may return until it expires.
* `bulk_update` stores category and subcategory unchecked and unresolved (`:2528-2590`),
  although `:924-945` calls the resolver the only place and says that other values are never stored.
* Two overlapping edits, one of the category and one of the subcategory, store a pair that
  does not belong together. A renamed slug makes text references to an archived category
  visible again. A subcategory's id is made of the slugs of its first day
  (`category_service.py:500`): reusing a freed slug clashes. `productCount` of a subcategory is keyed by slug
  while products store the id (`:155-184`). A subcategory's slug may equal another row's id, and one
  status map serves both (`product_service.py:817-845`).
* `get_next_id` looks at ids only: after a label was changed to the next id, every employee
  draft of that category fails on the unique label (`:2651-2686`, `:2384`). `change_product_id` says that
  no constraint keeps labels unique; the table has one. `_get_or_404` takes an id, slug or
  label (`:285`) while a slug may equal another product's id or label. A blank slug is stored as it is (`:1934-1945`).
* Collections. A comment says that an empty rule is "never a member" with the "same semantics as the batch path"
  (`product_service.py:534-535`). It is so on a product's own page; the batch path (`:449-461`) names every
  published product, and the collection itself lists its explicit and labelled products. A rule with keys but without
  flag, occasion or fabric lists every published product and names none on its own page. A RULE_BASED collection's explicit products (left from
  its time as MANUAL) are named by list pages only, although the docstring says that the two match exactly.
  Labels name a collection in any case, and list products in the exact case only (`_label_matches`). `ShelvesAgree` therefore says nothing of rules that are
  empty or blank, and excepts the other two by name. Pages name archived and draft collections; overlapping writes may
  activate an archived collection or store an end before its start.
* Facets are keyed by exact spelling and count repetitions (`product_service.py:1351-1358`), filters fold case (`:1257`,
  `:1384`): for a product with colours `red, red` the facet says 2 where choosing it shows 1, and choosing "Red" also shows
  what is counted under "red". `StorefrontSound` compares the counts with the same sum over what is shown.
* The collection facet counts a product twice whose label equals its membership
  (`:1417-1421`); the rating facet counts whole numbers where the filter says "at
  least" (`:1422-1426`, `:1303-1306`); the filter value "none" is known to one of the two matchers.
* `explore_service.py` says that no plate appears twice on the page. Hero plates are reserved by object key and URL,
  registered products by media id (`:476-478`, `:369-371`), so a registered hero plate does. The property is about
  pictures reserved under one key; the explore stream's offset and promo
  index restart with each page (`:226-262`). A recently viewed list that has expired is
  revived by the next push (`lru_cache_store.py:116-164`).

Accounts:

* Two bootstraps may create two owners, and an owner may suspend itself
  (`auth_service.py:476-492`, `employee_service.py:575`).
* Two requests rotating one refresh token at once get two sessions (more `Refreshers`).
* A refresh token in its final second gets a time to live of 0 and with it no blacklist entry (`auth_service.py:242-248`,
  `security.py:114`), and an earlier entry ends as that second begins; the decoder accepts the token through the
  second of `exp`, so it can be exchanged again. The properties speak of tokens before that second.
* The creator's permissions are expanded when they are resolved and again by `check_delegation` (`rbac.py:604`), so that a legacy code
  may hand out a capability's other codes: slightly more than the creator's "own effective set"
  (`employee_service.py`). `NothingFromNothing` is about what follows from roles and owners by any number of expansions.
* A customer's email edit stores capitals as typed, sign-in and staff edits lower them
  (`customer_service.py:141-155`, `auth_service.py:796-820`): such an account cannot sign in
  any more, and two emails may differ in case only.
* Two overlapping changes of the default address leave two (`address_service.py:50-58`; more `Editors`).
  A product clicked twice at once is saved once, the second click fails with 500.
* Settings are merged and written back whole (`notification_service.py:108-140`,
  `super_admin.py:115-129`): overlapping patches lose keys.

Attendance:

* Nothing keeps apart requests that read one day and write it at their commit. TLC (`Overlaps` with the pair added)
  finds that a day's record is lost, or counts too few taps, or is flagged although it has a check-out, when these overlap: a push with
  another push, a PIN change, the sweep, a correction, a deletion or a leave decision; a PIN change with the sweep, a
  correction, a deletion or a decision; the sweep with a web punch or a correction. So two pushes of one day leave the record at what the later one had
  read (`attendance_ingest_service.py:154-185`), a push overwrites columns of a row the desk has just made final, a push's
  `PUNCH_ON_LEAVE` goes with the leave row that a withdrawal deletes and leaves a hole, and a correction keeps the sweep's `ODD_PUNCHES` flag. `recompute_day` repairs most
  of it at the day's next punch.
* Two overlapping decisions on one leave may leave days of a leave that does not stand, or take days of another one
  that does. `create_leave` reads the open leaves and inserts (`workforce_service.py:396-421`) without lock or constraint,
  so two submissions make open leaves of the same days, and withdrawing one removes days of the other.
* A new PIN attaches all its punches and recomputes the newest 62 days only (`attendance_ingest_service.py:365`): days
  of an older backlog have punches and no record. The sweep flags no day older than that either (`:271`).
* Debouncing merges taps of all machines, where the comment says "on the same machine" (`workforce_rules.py:42`).
* Refusing or withdrawing a leave also deletes a LEAVE day that the desk entered by hand
  (`workforce_service.py:593-616`, "removes ONLY derived rows"), and leaves a hole if punches came to that
  day later (`Corrections <- Confirming`). A PIN mapped while a push is under way leaves its punches without owner
  (`attendance_ingest_service.py:141`, `:323`).
* Performance reviews have two writers, and only one checks the period the other filters by
  (`employee_service.py:1079`, `workforce_service.py:622-700`).

Media and inventory:

* Two overlapping primary registrations leave two primaries; a registration beside a
  deletion leaves a row without object, and so does a crash inside a deletion, although the
  register "can never hold a dangling key". The resolver's caches
  (`product_media_resolver.py:63-66`, `:135-216`) are never cleared.
* Uploads during an import may be overwritten (look-up, then put); a temporary file left by a kill in a subfolder is
  listed as an object.
* Overlapping adjustments lose an amount (the ledger keeps both); overlapping creates make two rows for
  one product and warehouse; transfers leave DRAFT only by cancelling.

## 7. Not modelled

* Notification, audit log and analytics: one row appended or overwritten, and reports.
* The checkout-session stub, AI, RAG, chatbot and worker stubs: they keep nothing.
* Schemas, migrations, serialisation, validation of images: wording and
  declarations; where a validator decides what may be stored (a pricing block, a
  coupon, a form), it is a guard of the operation it belongs to.
* `generate_otp` and `verify_otp`, which no endpoint calls; the providers' token checks (external).
* Products' images, materials and prose, duplicates' copies of them; ratings; relevance and
  personalisation scores; the search's stripping of diacritics; names, notes and preferences of customers and employees; targets and
  performance reviews: rows or columns that one owner writes and nothing else relates to.
* Two payments captured for one order (two sessions both paid) are reachable in
  `Payments`, but nothing in the code or its documents says what should happen then,
  so no property speaks of it.

## 8. What could follow

1. `Payments` and `Checkout` over one order: reservation, payment and cancellation
   together. Each now sees the other as an operation that may happen at any time.
2. Weaker hypotheses: which pairs of overlapping requests `Serial`, `DaysApart`, `OneOfferDesk` or `OneRewardDesk` could
   allow without losing the promise.
3. The two liveness properties, with a prover that knows ENABLED: `CapturesAccepted`, `CapturesWait` and
   `DeliveryCloses` are what is needed of the first.
