# Verification of the e-commerce system

TLA+ models, TLC runs and TLAPS proofs kept beside the FastAPI/PostgreSQL
backend in `src/backend` and the three Next.js front ends in
`src/frontend-user-web`, `src/frontend-merchant` and `src/frontend-admin`. The
modules cover checkout, payment, the order state machine, stock, time-outs,
aftersales and refunds, first one request at a time and then (for orders) with
overlapping transactions; and on the other side of the wire what the web apps
make of them: sign-in sessions, the cart and the checkout, every page that
works on one row, lists, forms, uploads and the product wizard. `PROJECT.json`
lists for every definition the source lines it stands for, and every hazard at
the line where it bites.

## The system

All services are `async` functions over one SQLAlchemy `AsyncSession`.
`core/database.py:get_db` gives each HTTP request one session and one
transaction: commit when the handler returns, rollback when it raises. The engine
uses PostgreSQL's default isolation (READ COMMITTED), `autoflush=False`,
`expire_on_commit=False`; no service uses `SELECT ... FOR UPDATE` or a version
column. Cron runs `scripts/process_timeouts.py`, which runs the time-out scans,
each batch a transaction of its own. There is no message queue: the components
of the backend interact through shared tables and direct calls inside one
transaction.

The front ends are clients of one HTTP API. Each keeps its token pair in a zustand
store that is copied to `localStorage` (shared by the tabs of a browser), reads
through the query cache of `@tanstack/react-query`, and changes things by
mutations whose `onSuccess` names the cached reads that are now stale. The guards of
a command exist twice, in the page that offers it and in the service that takes it.

| Component | State it keeps | Operations | Interacts with | What is hard | What makes it correct |
|---|---|---|---|---|---|
| Cart (`cart_service`) | `cart_items`: quantity and selected mark per user and SKU | add, update, delete, batch delete, clear invalid, select | reads SKU stock and sale status; emptied by checkout | two adds at once; quantities that go stale against stock | limits hold; a checkout takes exactly what it ordered out of the cart |
| Checkout and orders (`order_service`) | `orders`, `order_items`, `order_status_history`, shipment columns, `idempotency_key` | create, cancel (buyer, merchant, admin), ship, confirm receipt, detail and list (with lazy expiry), two scans | locks, releases and finalizes stock; read by payments, aftersales, reviews | retried and concurrent checkouts; an order paid, cancelled and timed out at once; partial checkouts; scans with a batch limit | one order per key; every status change legal and recorded; stock follows orders; nothing pending or shipped for ever |
| Payments (`payment_service`) | `payment_sessions` | create session, mock succeed, mock fail | moves the order to paid in the same transaction | several sessions per order, answered late; payment against cancellation | an order is paid exactly when one session succeeded, once |
| Inventory (`inventory_service`, `skus`) | `stock`, `locked_stock`, `sold_count`, `inventory_logs` | adjust; lock, release, finalize from orders | written by every checkout, cancel and completion | read-modify-write without locks; `max(0, ...)` that hides errors | units conserved; log and columns agree with orders |
| Aftersales and refunds (`aftersales_service`, `refund_service`, `risk_service`) | `aftersales` rows, deadlines, appeals, amounts; the order's `total_refunded_cents`, `has_partial_refund` | 5 buyer, 5 merchant, 3 admin operations that change the status, four scans | refunds write the order and may close it | many paths to a refund, appeals that revive a rejected case, several cases per order, scans racing people | one active case per order; refunds add up and match the order; goods back before money; no stage for ever |
| Time-out scanner (`process_timeouts.py`, `admin/tasks.py`) | none | six scans | orders, aftersales | batches read once, then worked through; overlap with users | all overdue rows are reached; a scan breaks no rule a user must keep |
| Transactions (`core/database.py`) | the transaction | begin, commit, rollback | every component | stale reads, lock waits, deadlocks, crashes between writes | a request is all or nothing; every request ends |
| Catalog (`product_service`, `sku_service`, `category_service`, `brand_service`) | SPU status and price range, SKUs, trees | edit, submit, approve, reject, shelve, force off shelf | orders read sale status and price; merchant and admin pages | forced off-shelf against merchant shelving; SKUs that come and go under review | shelf state machine; a product in review has what was entered |
| Merchant applications (`merchant_application_service`) | `merchant_applications`, shops, merchant accounts | apply, withdraw, approve, reject | creates shop and account | approval against withdrawal; an applicant left without a way on | one shop per approved application; nobody stuck |
| Tokens (`auth_service`) | refresh tokens, reset codes in Redis | login, refresh (rotation), logout, reset password | token stores of the web apps | two refreshes with one token; Redis and database apart | a session is lost only for a reason |
| Reviews (`review_*_service`) | reviews, replies, reports, shop rating | write, edit, append, reply, report, moderate | needs shipped or completed orders | roles working on one review at once | what a page offers the service takes |
| Notifications (`notification_service`) | rows with a read mark | read, read all, delete, clear | written by every other component | counts and rows in two cached reads | what was read shows as read |
| Sign-in sessions and HTTP clients (`lib/api.ts`, `lib/auth-store.ts`) | token pair per tab and in `localStorage`, the refresh under way | request, 401, refresh, replay, sign in, sign out | tokens | several 401s at once, tabs racing for one refresh token, sign-out during a refresh, a refresh never answered | no request waits in vain or is replayed in a circle; no session lost by 401s |
| Shopping pages (`app/cart`, `app/checkout`, `app/products/[id]`, `lib/idempotency.ts`) | cached cart, preview, idempotency key in `sessionStorage` | add, buy, quantities, selection, removal, submit | cart, orders | overlapping, lost and late calls; a retry | the cart shown is the cart stored; a retry finds its order |
| Pages that work on one row (orders, cases, products, reviews, applications, notifications; buyer, merchant, four staff roles) | cached list and detail reads, dialogs, the command under way | some sixty commands | their services | guards written twice; reads named by hand as stale; changes by others | a refusal has a cause; one's own work is seen; no offer without a way through; no row stuck |
| List pages (22) | filters, search box, page, address, debounce timer | filter, search, page, reset, back, link | services, browser history | timer, effects, history and late answers touch one query | rows, address, box and page speak of one query |
| Forms (48) | text, row it is open for, request under way | open, type, submit, close | services and their schemas | kept between openings; closed by late answers; limits written twice | text goes to its row, is taken and stored |
| Image lists (evidence, gallery) | items, uploads under way | choose, finish, fail, remove, submit | object storage | uploads end in any order | nothing removed returns; all is sent; limit holds |
| Product wizard (`products/new`) | three steps, local SKUs, one save of many calls | fill, next, back, add and remove SKU, save | catalog | calls that fail one by one | what goes to review is whole |
| Public catalog, addresses, accounts, storage, configuration, audit, routes, layout, Android app, e2e tests | see `PROJECT.json` | | | | |

## Modules

| Module | Models | State and code |
|---|---|---|
| `OrderLifecycle` | the abstract contract of an order | `state` is `orders.status`, `charged` the orders with a succeeded payment session; sets of orders move together because a checkout over shops, or a batch, is one transaction |
| `Scans` | what one transaction of a scan takes on | `Batches(S)`: `LIMIT batch` without `ORDER BY` is any `ScanBatch` of the rows, or all of them when there are fewer |
| `Orders` | cart, checkout, payment, orders, stock, two time-outs, and closing by a full refund; one action per request or batch | `cart`, `skus`, `orders`, `sessions` are the tables; `overdue` and `autoDue` say which deadline columns lie in the past; `conflicts` records checkouts answered with `ORDER_IDEMPOTENCY_CONFLICT`. Actions carry the names of the service functions |
| `OrderTxns` | the same requests statement by statement, any number of them overlapping | extends `Orders`, whose variables are the committed rows; `cur` holds the newest row versions, `txns` each transaction's remaining statements, locks and the SKU rows it has read |
| `Aftersales` | cases from request to refund or exchange, four time-outs, what a refund does to the order | `cases` are the rows; `refunded` and `partial` the refund columns of the order; the orders' own steps are `Serve` of `OrderLifecycle` |
| `Session` | the tabs of one browser with any of the three apps, and the token endpoints | `mem[t]` and `disk` are the zustand store of a tab and its copy in `localStorage`; `req`, `refresh` the requests and the one refresh of a tab; `pairs` the rows of `refresh_tokens` with their access tokens. The apps differ in `OnRefused`-style operators that name their client |
| `Storefront` | cart, checkout and product page of one visitor, and the cart and order endpoints behind them | `view`, `fetch` are the cached cart and its read; `calls` the mutations; `key` the idempotency key; `cart`, `orders` the tables. `Serve` runs a request on the backend, `ServeRaced` one that read before another committed, `NeverCame` and `Failed` lose it on the way there or back |
| `Desk` | one tab working on one row while everybody else does too | `row` is the database row, `view[p]` what the cache holds for page p, `call` the command under way; `old[p]` records whose change a page has not seen. All that differs from page to page is a parameter |
| `ProductPages`, `OrderPages`, `CasePages`, `ReviewPages`, `ApplicationPages`, `NoticePages`, `Permissions`, `Pages`, `AppDesks` | the parameters of `Desk` for every page of the three apps | per domain: the rows, what each page offers for a row, what a form lets pass, which reads a command makes stale, what the service accepts and makes of the row; `Permissions` is `core/rbac.py` and the admin app's copy of it; `Pages` puts them together, `AppDesks` says that `Desk` is given them |
| `Lists`, `ListPages` | a list page with filters, search, pages and address; the 22 pages of this kind | `at` is the query the page asks with, `url` the address, `words` the search box, `timer`, `due` debounce and effect, `rows` what is shown |
| `Forms`, `FormPages` | a form from opening to the stored row; the 48 forms with the limits of their text fields, in the form and in the schema | `box` is the text, `origin` the row it was typed for, `lastKey` the key of the last reset, `calls` the requests; `uploads` holds for each image upload the texts its captured `onChange` will set, `putBack` that one has done so |
| `Uploads` | evidence uploader and product gallery | `value` is the form's list, `shown` the rendered one, `ref` the ref that outlives a render, `net` the uploads |
| `Wizard` | the product wizard | `saving` is the mutation: product, SKUs one by one, review |
| `Screens` | a tab that shows one of a list, a form, an image list and the wizard | `screen` says which; the four modules above are instances (`INSTANCE`) under one next-state relation, and the variables of those not shown rest |
| `DataProofs` | lemmas on induction, sums over finite sets and flattened sequences | |
| `OrdersProofs`, `OrderTxnsProofs`, `AftersalesProofs`, `SessionProofs`, `StorefrontProofs`, `DeskProofs`, `ScreensProofs` | theorems | |
| `MC*` | constants, symmetry and instances for TLC | |

How they fit: orders and aftersales write the same order rows and meet in
`OrderLifecycle`, whose step is either one of the orders' own (`Serve`) or the
closing of a paid order by refunds (`Close`). Each side takes the other's steps as
given and owes the contract for its own: `Orders` runs with `CloseRefunded` at
any moment, `Aftersales` with any `Serve` step, and both implement the whole
contract (checked and proved), so that they do so together. `OrderTxns` with one
transaction at a time implements `Orders` (checked). `Desk` composes
each page with the service behind it; `Storefront` does so for the cart, where
calls overlap, and `Session` for the tokens. `Screens` brings four independent
specifications under one next-state relation.

### Choices worth knowing

Backend:

* A refused request (an error response) rolls back and is no step. The one
  refusal with a trace is the key conflict, because a document makes a claim
  about it.
* `create` filters the requested items (`ValidItems`), and orders what is left,
  one order per shop, all with the one key. `CreateConflict` is the same request
  when the unique constraint refuses the insert.
* `LazyExpire` is inside `get_detail` and the buyer's list, where the code has it:
  reading an order may cancel it.
* Being on sale belongs to the catalog, so in `Orders` the set of SKUs on sale is
  an input.
* In `OrderTxns` the SELECTs a handler begins with are one step: orders only move
  forward, so what passes the checks on rows read at several moments passes them
  on those of the first. Writes are separate statements in flush order: the mappers
  flush in table order, rows of one table by primary key; where the service
  flushes row by row, in the order of the rows. An UPDATE waits for the row lock,
  then overwrites the columns that changed in memory with values computed from the
  version read, whatever version it finds. An INSERT waits for a transaction that
  holds the unique-index entry it needs. `Rollback` at any statement stands for an
  exception, a killed process or a lost connection; `DeadlockVictim` for
  PostgreSQL's deadlock detection. `ExecDeleteCart` names rows by buyer and SKU
  rather than by row id.
* Cart requests of `OrderTxns` are single steps: each has one write, and a
  checkout checks quantities against stock again.
* The status `refunding` exists only inside a request, so a refund is one action
  of `Aftersales` that ends in `completed_refunded` and updates the order.
* The risk check counts refunds of the last thirty days. The model leaves open how
  many of the buyer's refunds are that recent: a request may be flagged as soon
  as there are `RiskThreshold` refunds at all.

Front ends:

* JavaScript runs one handler at a time, so a handler up to its next `await`, and
  an `onSuccess` with everything it calls, is one action. What can come between is
  what the browser can put between: another event, an answer, a timer, a storage
  event of another tab.
* A request is served at some moment between sending and answer, may be lost on
  either way, and its time limit may end it while the backend still works on it.
* The query cache is modelled by what its version in the three apps does: a
  read under way is cancelled and asked again by `invalidateQueries`, joined by a
  mount; a stale read is repeated on mount; inactive reads are only marked.
* `Session` names a pair by one number because access and refresh token are issued,
  stored and cleared together.
* A form is modelled by its texts. An image upload is there for what its end does to them
  (`ChooseImage`, `UploadEnds`: `ImageUpload` awaits and then calls the `onChange` of
  the render in which the file was chosen; in the brand and category dialogs that sets all
  values). The image itself is not: in a dialog whose `onChange` sets one field, the
  image of a late upload still lands in whichever row is open by then.
* `Storefront` sells everything from one shop, so that a checkout makes one order
  and the multi-shop conflict (below) does not drown the rest.
* Parameters name where page and service are known to differ, so that the
  property speaks about all other cases, and about these until they are repaired:
  `PMisjudged` (the scan offered to customer service, the forced refund of a
  rejected case), `PLags` (detail pages that are not read again), `LaxFields` (form
  fields that let pass what the schema refuses), `Asks` (forms that leave a
  condition to the backend). An entry that the code no longer needs shows as a
  run that passes without it.

## Runs

Row ids, units, clicks and time-outs are bounded, so every system comes to rest;
that is why the configurations switch the deadlock check off.

| Run | Question | Instance |
|---|---|---|
| `orders` | Do checkout, payment, cancellation, time-out, completion and full refunds keep rows, stock and keys right, and implement the contract? | two buyers, two SKUs of two shops with one unit each, two orders, one session, one key, batches of two |
| `orders_live` | Is an order charged once and its history unbroken; does every pending or shipped order get resolved? | one buyer, one SKU with two units, quantities up to two, two orders, two sessions, two keys, batches of one (so that the scan has to come back) |
| `txns_serial` | Do the statements of each handler add up to its action of `Orders`? | one transaction at a time, two SKUs (orders with two items, stock locked and released in either order), two orders, batches of two |
| `txns` | Do payments, sessions, keys and histories survive overlap, rollback and deadlines that pass mid-request? | two transactions at a time on one order with two sessions, or on two orders with two keys, which cancellations give back |
| `txns_deadlock` | Does each request end, deadlocks included? | two buyers, two SKUs, two orders, two keys, two transactions at a time, checkouts only (`Statements`), which lock the SKUs of their carts in any order |
| `aftersales` | Do cases, amounts and orders stay consistent, do refunds keep the order contract, and does every stage with a deadline end? | one order with a total of two (so that it can be refunded in parts), two cases, batches of two |
| `session` | Are requests replayed once, sessions kept but for the reasons named, refreshes ended where the app limits their time, whatever tabs and network do? | one tab with two requests, two tabs with one each, or one tab where two accounts take turns; three pairs |
| `storefront` | Is the cart shown the cart stored, and does a retried checkout find its order? | two items, two calls at a time, two cart rows, up to three keys, quantities up to two; each plan says which controls the visitor uses and whether others cancel orders and change the catalog |
| `desk` | Is every command that a page offers taken, seen and possible, and no row stuck? | every desk of every role from every row its pages tell apart, with one command and one failure; a row in the middle of its life also with somebody else's change, and for buyers with two commands |
| `screens` | Do lists, forms, image lists and the wizard keep their parts together? | every list with three pages, three clicks and one change; every form and field with two openings, two texts, one fault and one image upload; three images in lists of two; two SKUs, two products, one lost answer |

The bounds are the smallest at which each hazard still shows: competition needs
two buyers and one unit; a key conflict two orders; a late or double payment two
sessions of one order; a partial batch two orders with a batch of one; a joint
one two orders with a batch of two; overlap two transactions (three add longer
chains of waits, but each property is about two rows or two writers at a time);
revival by appeal, and adding up of refunds, two cases. The deadlock of two checkouts
needs two SKUs that both of them buy; `txns_deadlock` keeps its liveness graph small
by the bound `Statements`, the kinds of statement its requests may issue, which leaves
the checkouts and drops payments, cancellations and scans (`txns` has them, without
liveness). `BoundedTxnSpec` keeps `txns` from opening sessions beside a second order. An upload that ends late needs one upload and two openings. Two tabs race for one
refresh token and two requests share one refresh; a third pair is what a tab has
after both. A late answer needs two calls, and a third key the case where the
first answer clears the key of the second checkout. A stale page needs one command
and one change by others. A middle page needs three, a box that belongs to another
row two openings, a collision of uploads three files for a list of two. For each
property a mutant of the code (a definition commented "Mutant" in the modules)
shows that the instance reaches the case the property is about: TLC refutes the
property when that definition takes the place of the faithful one. State counts
of the passing runs go up to 950,000 (`storefront`).

Symmetry is used where only invariants and action properties are checked, over
identifiers the modules never compare other than for equality, and never in a run
with liveness.

What the properties say:

* Orders: `StockLedger` and `UnitsConserved` (stock columns equal what orders say,
  and units only move; an order that a refund closed keeps its goods where they were); `KeyNamesOneOrder`, `OneOrderPerKey` (idempotency);
  `PaidOnce` (sessions and orders agree in every sequence of sessions, answers and
  cancellations); `HistoryTellsStatus` (the time line is a chain
  that ends in the status, `closed` aside, which has no row);
  `ImplementsLifecycle`, `RunsAsOrders` (refinements); `OnePendingSession`,
  `ChargeLeavesTrace`, `LogsFollowHistory` (what overlapping transactions cannot
  break: unique indexes, atomic requests, and the inventory log, which agrees with
  the history even after lost updates have made the stock columns wrong);
  `PendingResolves`, `ShippedCompletes` (liveness of orders), `RequestsEnd` (liveness of
  requests: two that hold what the other waits for do not hang).
* Aftersales: `OneActiveCase`, `RefundLedger`, `RefundsMatchOrders`,
  `ReturnBeforeRefund`, `KeepsOrderContract` (refinement: only paid orders are
  closed, and nothing else happens to an order), `StagesEnd` (liveness).
* Sessions: `NobodyWaitsInVain` and `ReplayedOnce` (requests parked behind a
  refresh), `KeepsSession` (a tab loses a token that is still good only when its user signs
  out, its refresh's answer is lost, the refresh of a session it has left comes in late, its replay
  is refused, or it is reloaded while another tab is open, which may have cleared the
  store they share), `RefreshEnds` (liveness: of the apps that limit the time of a
  refresh, and of every refresh that has broken off).
* Shopping: `CartShown` (when all is quiet the cached cart is the stored one, unless
  since its last read a call was lost, answered too late or failed half-way, or a change
  ended while the first read of the cart, already answered, was on its way back); `KeyUnseen` and
  `RetryFindsOrders` (a key stands for an answer not seen yet; a
  submission that is tried again is not refused over rows that its own order took,
  unless the two overlapped, the visitor was shown that order, or its key was cleared by
  the late answer of another checkout).
* Pages of a row: `RefusedOnlyByOthers` (a command is refused only after somebody
  else changed the row), `SeesOwnWork` (after a command every open page shows its
  result), `OffersPassable` (no button whose dialog cannot be confirmed),
  `NoDeadEnd` (in every row somebody can do something, or time will).
* Screens: `ListsAgree`; `OwnRow` (a form sends what was typed for its row, but for what a
  late upload has put back into a form that reverts: brands and categories);
  `TypingKept` (only the user takes away what is being typed, except in forms that
  can be left while busy, that follow their row, or that revert when an upload ends);
  `FormsAgree` (no refusal by the schema, lax fields aside); `SavesTyped` (what is said to be
  saved is stored, but for an emptied field of an edit that goes as null or is ignored when
  empty); `ImagesKept`, `SendsAll`, `ReviewsWhole`.

Where the code and its comments disagree, the exception is also left out in a
definition that TLC refutes (`StoreKeepsSession`, `CartAskedAgain`, `RetryKeepsKey`,
`ResetForItsRow`, `EmptiedIsEmpty`; see below).

The type invariants of the components are stated in every module; runs repeat
that of `Orders`, theorems prove those of `Orders`, `Aftersales`, `Session` and
`Desk`, and the invariants of `ScreensProofs` contain those of the screens.

### Fairness

* Clocks run: weak fairness of each deadline passing.
* Cron starts `process_timeouts` over and over: weak fairness of each scan. No
  request of a buyer, merchant or admin is ever assumed to happen.
* In `OrderTxns`: the event loop runs on each request (weak fairness of commit);
  PostgreSQL grants a row lock to its waiters in their order, so a statement that
  can run again and again is not overtaken for ever (strong fairness of the next
  statement); the deadlock detector wakes up (weak fairness of the victim's abort).
* In `Session`: in the buyers' and the admin app the refresh call has a time limit of ten
  seconds (`lib/api.ts:64`, `:26`), so weak fairness of its end, lost or answered
  (`TimeLimited`). The merchants' app refreshes with a bare `fetch`
  (`lib/api.ts:51`): nothing ends it while the connection hangs, and the
  requests parked behind it wait that long. In all three apps the event loop runs
  the handler of a refresh that was answered or has broken off. Nothing is assumed of the network or of the user.

`txns_deadlock` lets deadlines pass only while no request runs
(`DeadlinesPassMidRequest = FALSE`), which keeps its liveness graph small;
`txns` lets them pass at any time. The pages have no liveness of their own: what
they wait for is the network and the user.

### Where code and documents part

Each of these runs checks a sentence of the repository and ends in a counterexample:

| Run | Counterexample |
|---|---|
| `txns_oversell` | Two overlapping checkouts of the last unit both succeed: `_lock_stock` compares a stock it read without a lock (`docs/API/phase-3-contracts.md:689` says the direct decrement avoids overselling) |
| `desk_exchange` | The buyer's page opens an exchange with the amount zero and the merchant's approve dialog wants more than zero: the button is shown and can never be confirmed (`ApproveModal.tsx:120` against its lines 8 and 11). Admin's forced refund cannot be confirmed for it either, so the exchange of the web apps always ends in a rejection or an arbitration |

The modules also state what documents and comments promise and the code does not
keep. These definitions are in no run of `PROJECT.json`; TLC refuted each one while the modules were
written (for the first five, `MCSessionTabs.cfg`, `MCStorefrontJoined.cfg`, `MCStorefrontRetry.cfg`,
`MCScreensUpload.cfg` and `MCScreensEmptied.cfg` show it), and the README of a repaired program would list them as runs that pass:

* `Session.StoreKeepsSession`: two tabs refresh with one token; the slower one is refused
  and clears `localStorage` over the live pair of the faster, which is then signed
  out at its next reload (`lib/api.ts:72` of the buyers' app;
  `lib/auth-store.ts:7-8`: a page that is reloaded stays signed in).
* `Storefront.CartAskedAgain`: the invalidation after a change joins the first read of
  the cart, which was answered before the change: the old cart stays on the page
  though no call was lost (`hooks/useCart.ts:48`, against its line 45).
* `Storefront.RetryKeepsKey`: the late answer of one checkout clears the key of the next,
  whose retry is refused over the rows of its own order (`app/checkout/page.tsx:155`;
  `lib/idempotency.ts:9`: a checkout keeps its key over retries).
* `Forms.ResetForItsRow`: an icon chosen in the dialog of category A and uploaded late
  puts the texts of A into the dialog of B, which saves them to B
  (`categories/page.tsx:389` and `ImageUpload.tsx:69-70`, against
  `categories/page.tsx:271`; brands alike, `brands/page.tsx:441`). Text typed while
  the upload runs is lost in the same way. The service refuses a slug that is still A's
  as taken; one that was changed goes through.
* `Forms.EmptiedIsEmpty`: an emptied shop description or announcement is sent as null,
  which `update_shop` ignores, and the page says that it has saved
  (`ShopHomepageEditor.tsx:41`; `merchant_service.py:71`: empty clears).
* `Orders.MultiShopCheckoutSucceeds`: a first checkout over two shops is always
  answered with an idempotency conflict, because both orders carry the request's key,
  which is unique per user (`order_service.py:657`; `models/order.py:3-4` promises
  one order per shop).
* `Orders.RefundedGoodsSettled`: an order closed by a refund while it is paid or
  shipped keeps its goods in `locked_stock` for ever (`aftersales_service.py:525`;
  `phase-3-contracts.md:689` calls that column the part that waits to be shipped).
* `OrderTxns.HistoryConsistent`: a payment and a cancellation that overlap both
  leave `pending_payment`; the history no longer joins up (`order_service.py:3-5`).
* `Aftersales.RefundsWithinTotal`, `RefundsDecidedAmount`: refunds of an order add up
  to more than its total (cases are checked one by one, a forced refund may be doubled,
  a verdict has no cap; `phase-4-contracts.md:65`), and a case approved with the
  amount zero pays the full requested amount (`aftersales_service.py:519`).
* `Session.LogoutRevokes`: signing out of the admin app while a refresh is under way
  revokes the old token and leaves the new one alive (`lib/auth-api.ts:47-49`).
  `Session.WhoMatchesToken`: the account shown may not be the owner of the token.
* `Storefront.SubmitsOrderable`: the checkout submits although a row cannot be
  ordered (`app/checkout/page.tsx:122-127`; `phase-3-contracts.md:429`), and the
  backend drops it. `Storefront.OwnOrders`: leaving a checkout and coming back with
  other rows under the old key shows the orders of the first (`lib/idempotency.ts:10`).
* `Lists.KeepsLink`: on eight console pages the debounce effect runs on mount
  and takes `?page=` off a copied link (`merchants/applications/page.tsx:15`).
* `Uploads.KeepsUploads`: two gallery uploads that end in one render lose one
  (`MultiImageUpload.tsx:81`), and a gallery mounted again knows nothing of the
  uploads of the one before.
* `Wizard.LandsOnProduct`: a save that created the product and then failed stays on
  the wizard, where a retry creates a second product (`products/new/page.tsx:15`).

Met while modelling and visible in the definitions; the backend:

* `create` drops items in short supply and orders the rest (`order_service.py:516`);
  `phase-3-contracts.md:469` says the whole batch is rolled back.
* A concurrent retry is answered with a conflict (`order_service.py:664`);
  `core/idempotency.py:6-7` says the prior order is returned.
* A scan updates by primary key rows it selected earlier (`order_service.py:1534`),
  so a payment in between is overwritten; `process_timeouts.py:17-18` claims guards.
* A full refund closes the order without a history row (`aftersales_service.py:525`);
  `phase-4-contracts.md:597` says one is written.
* `admin_resolve` does not ask who took the case over (`aftersales_service.py:1533`);
  `phase-4-contracts.md:488` says the present admin must have. Only the page asks.
* The merchant's list shows overdue orders as pending; `phase-3-contracts.md:671`
  asks for lazy expiry there too.
* `off_shelf` does not say who took a product off: what the platform forced off the
  shelf looks like the merchant's own doing (`product_service.py:477`).
* Brands, categories and shops ignore `null` in an update, so an emptied field stays
  (`brand_service.py:108-114`, `category_service.py:153`; `EmptiedIsEmpty`).

The front ends:

* A refresh in the merchants' app has no time limit (`lib/api.ts:51`), unlike in the
  other two.
* The write-review page takes shipped orders and offers items that are reviewed
  already (`reviews/new/page.tsx:94-95`).
* Force refund is offered for rejected cases (`console/aftersales/[id]/page.tsx:156`
  against `aftersales_service.py:145-153`), and the scan to customer service
  (`console/orders/page.tsx:261-277` against `tasks.py:28`).
* The buyer's case page reads under a numeric key and the mutations invalidate the
  string key (`hooks/useAftersales.ts:82`), so it shows the case as it was; the review
  pages of the admin app lag in the same way.
* The mock payment page sends the payer to an address that does not exist
  (`mock-payment/[sessionId]/page.tsx:52` against `schemas/payment.py:36-42`).
* Items of the aftersales list lack order, shop and items (`AftersalesListItemOut`), so
  rows link to `/orders/undefined`; the merchant's badge reads a count under another name.
* Reject and approve dialogs and forms with `lastKey` open again with abandoned
  text; a form that can be left while it is busy is closed by the late success of
  another opening; the basic info tab and the reply editor start over when their row
  is read again; the brand and category dialogs take back old texts when an image
  upload ends (`ResetForItsRow`). `OwnRow` and `TypingKept` hold with these named.
* Several forms let pass what the schema refuses: untrimmed blanks (nickname,
  receiver, address, shop and contact name), an empty merchant note, ten blanks for a licence
  number (`account/merchant-apply/page.tsx:277-280` against `:309`), and longer notes
  (1000 against 500).
* No client clears the query cache on sign-out; `clearAllIdempotencyKeys` and the
  reset of the cart badge are never called.

## Proofs

The theorems hold for any sets of users, shops, SKUs, rows, keys, transactions,
tabs, items or pages and any amounts. What a module assumes of its constants
(`ConstantsAssumption`, `TxnAssumption`, `AftersalesAssumption`,
`SessionAssumption`, `StorefrontAssumption`, and in `Screens` one assumption per
screen: sets of rows are finite, each SKU has a shop, each order a buyer and a
positive total, NULLs are not values, limits are natural numbers, plans and list
pages are of the kinds the apps have) TLC evaluates in each run.

`DataProofs`. Stock, refunds and requests are sums over finite sets and
concatenations of sequences. The library states induction with an operator as a
parameter, which the provers cannot instantiate, so the lemmas here take a set in
place of a predicate (`NatInductionSet`, `SubsetInduction`). The folds of the
community modules are `CHOOSE`s of a recursive function; `SumEquationExists` and
`SumEquationUnique` show that there is one to choose, `SumStep`, `SumTakeOut`,
`SumSplit`, `SumSame` what a sum does when its set or its function changes, and
`FlattenType` that what a handler builds from lists of statements is a list of
statements.

`OrdersProofs`. Every action is first shown to be one of nine row steps
(`RowStep`: place, cancel, complete, ship, close, open a session, pay, fail, none), which
drops carts, stock, pages and batches from the rest of the argument. The
inductive invariant `IInv` adds to the properties what they do not say on their
own: rows have their types, a session names an order
(`SessionsLinked`), the history of each row determines its reason, its key and
whether it was paid, even after a refund has closed it (`RowOK`, stated of the
`Stage` the history ends in), and sessions tell the same story as the history
(`SessionsTell`). A session may still be pending after its order was cancelled, and only the
order's status keeps it from being charged then, which is why
`PaidOnce` alone is not inductive. From it follow
`PaymentsCorrect` (`PaidOnce`), `TimelineCorrect` (`HistoryTellsStatus`),
`KeysCorrect` (`KeyNamesOneOrder`) and `LifecycleCorrect`
(`Spec => ImplementsLifecycle`, the refinement). For the stock, a row step moves
the items of a set of orders from one stage to another, so that the sums over the
orders of each stage change by just what the SKU's columns change by:
`StockCorrect` (`StockLedger`), `UnitsCorrect` (`UnitsConserved`) and, because a
release never takes more than is locked, `TypesCorrect` (`TypeOK`), whose conjuncts
`CartOK` and `ClocksOK` have arguments of their own.

`OrderTxnsProofs` is about the same requests statement by statement, in any
number at once, with rollbacks and deadlock victims anywhere. The argument is who
owns what: no lock has two holders, and a row version that differs from the
committed one belongs to the holder of its lock, who also holds the index entries
of both versions where they differ in an indexed column (`OrdersOwned`,
`SessionsOwned`). So two uncommitted versions cannot meet in one index entry, and
committing one transaction or rolling it back leaves the rest in place. From
this, `OneOrderPerKeyCorrect` and `OnePendingSessionCorrect`. For
`ChargeLeavesTraceCorrect` the invariant speaks about statements to come: a session
is set to succeeded only right after its order was set to paid (`PaidFirst`), and
who has done so holds the paid order until the commit (`ChargeOwned`). Nothing here
needs the rows a request read to be current, which under READ COMMITTED they
need not be.

`LogsFollowHistoryCorrect` (`LogsFollowHistory`) is an argument about what a
transaction owes. For each SKU, `Gain` is what a statement adds to the balance of the
history rows or takes from the inventory log, and `Ahead` by how much the
uncommitted history rows of a transaction are ahead of its uncommitted log rows. The
invariant `LogInv` (`Balanced`) says that what is ahead and the gains of the
statements still to come cancel out. A request begins with statements
that cancel out (`CreateAdds`: each order takes what the locks of its shop log, with
the SKUs in any order; `CancelAdds`: the items given back are those released), each statement
does what its gain says although it writes onto rows that others have changed since they were
read (`ExecUpdateSkuLog`: a log row adds its quantity to whatever the log has become,
while the stock columns are set to what was computed), and at the commit nothing is to come. Two facts about
rows are needed besides: an order's items never change (`LinesKept`), and its history
starts with it (`HistoryBegun`). The sums over lists of statements in any order are
lemmas of `DataProofs` (`Leads`, `Adds`, `AddsOnce`). An adjustment by an administrator
logs goods without an order, which is why it is excepted (`Adjusting`) and why the
property speaks of steps that change orders.

`AftersalesProofs`. Every action is a change of rows followed by the refund of a
set of them, empty for most (`RefundOrders`, `RefundCases`, `SoundKeepsIInv`). The
invariant has four parts that need each other: what holds of each row (a case in arbitration has
an escalation, one past the return has tracking); that no order has two active
cases, so a batch refunds each order at most once; that orders agree with
their refunds, for which orders beyond payment must be known to be charged; and
the ledger, a sum to which a step adds at most one case of each order.
From it: `TypeCorrect`, `OneActiveCaseCorrect`, `RefundsMatchOrdersCorrect`,
`ReturnBeforeRefundCorrect`, `RefundLedgerCorrect`, and `ContractKept`
(`KeepsOrderContract`): all a case ever does to orders is to close some, and the
invariant says of those that they had been paid.

`SessionProofs`. `SInv`: whatever a tab, the disk, a request or a refresh holds names
an issued pair; a refresh under way presents one; a request is parked only behind a
refresh, and only before its replay. `SessionTypes`, `WaitersAreServed`
(`NobodyWaitsInVain`), `OneReplay` (`ReplayedOnce`). For `SessionIsKept`
(`KeepsSession`) two facts are added: a refresh whose user has not left is about
the pair the tab holds, and one that was refused had presented a pair that is
revoked, which is for good (`Known`, `NoneRevived`). The attempt at this proof showed
a gap that the run's bounds hid: with two tabs, three requests and four pairs,
signing in while a refresh was under way, started after a late answer had stored
a pair on the login page, did not count as leaving the old session. `SignIn` now
records it. A reload reads what any tab has left on the disk, so it is excepted when
another tab is open; `StoreKeepsSession` shows that this happens.

`StorefrontProofs`. `KInv`: the key in use was never told of; every submission and
every open order carries a key that was told, has gone astray or is in use. A
submission that meets an open order under a key neither told nor astray therefore
carries that order's key and finds it. `KeysAreUnseen` (`KeyUnseen`),
`RetriesFindOrders` (`RetryFindsOrders`). `FInv`, for `CartIsShown` (`CartShown`):
a loss or a joined first read is on record (`missed`), or a call is under way whose end asks for the cart again
(`Owes`), or a read is asked for, or the read that has been answered, or else the
copy, holds what the cart holds.

`DeskProofs` is about any pages and services: `RowsClosed(Rows)` (effects stay among
the rows), `OffersHonoured(Rows)` (what a page offers for a row it has just read,
the service takes, the named exceptions aside) and `BudgetsAreNumbers` are
hypotheses. The invariant says that a read without an owner in `old` shows the row
as it is, and that a command carries what its page showed. `RefusalsAreOthers` says that
then late reads, late commands and navigation can never bring about a refusal: only
a change by somebody else can. `OwnWorkIsSeen` (`SeesOwnWork`) needs no honest
offers but that each command invalidates what its work changes on pages that do not lag
(`WorkIsRefreshed`) and that rows that are gone stay so (`EndedForGood`): what is
out of date by one's own work is then marked as such, is being read, or waits for
the answer whose `onSuccess` will mark it.

The second half takes the desks of the apps (`DesksOfTheApps`: the parameters are
the tables of `Pages`; desks, rows found and bounds are free) and proves these
hypotheses from the tables, domain by domain and app by app: for orders, for
instance, that a page offers only what `order_service.py` accepts in that status. What follows has no assumption on pages or services left:
`AppsAreRefusedByOthers` (`RefusedOnlyByOthers`), `AppsShowOwnWork` (`SeesOwnWork`),
`AppsNeverStuck` (`NoDeadEnd`: for each status a witness, the page and command that
move it, or the time-out), and `AppsOfferWhatPasses` (`OffersPassable`), for cases that
ask for an amount (`AskingRows`); `desk_exchange` shows that this is needed. TLC evaluates
`DesksOfTheApps` and `BudgetsAreNumbers` in the desk runs (`DesksAssumption`).

`ScreensProofs`. Each screen has an invariant of its own, and the others rest.
Lists: the rows are those asked for unless a read is under way; the address follows but
for a due effect or a detour, the box but for edited words, and a page number was
chosen for its query, opened with it, or is about to be reset (`ListsAgreeCorrect`). Forms: the
text in the box belongs to the row of the last reset unless an upload has put back older
ones (`putBack`), an answer ends the opening that sent it (`OwnRowCorrect`, `TypingKeptCorrect`), and what is sent is what was typed, cut as
the form cuts it (`SavesTypedCorrect`). For `FormsAgree`, every copy of a text (typed,
stored, sent) stays within what the input or the schema allows, so that limits which agree
(`LimitsAgree`) refuse nothing (`FormsAgreeCorrect`). Limits agree in three ways
(`Agrees`): both sides measure the same text; or what is sent is trimmed and may be empty; or it
is sent with blanks that were not counted, and the input stops in time. Each field of
the 48 forms is of one of these ways or in `LaxFields` (`AppFormsAgree`), for texts of
any length and any blanks. The licence number was found by this proof: the run had tried two blanks
at most, and now tries as many as the form wants. Image lists: every copy of the list (value, rendered,
ref) holds no image that was taken out and all that were chosen, kept and uploaded, each as
of its own moment (`ImagesKeptCorrect`, `SendsAllCorrect`). Wizard: a save accounts for each SKU
of its list as stored, to do or failed, and products in review beyond the first each
cost a lost answer (`ReviewsWholeCorrect`).

Only model-checked: the refinement `RunsAsOrders`, whose mapping goes through the logs of
every open transaction, and liveness, which is outside the proof system.

## Not modelled

* The six scans of `admin/tasks.py` in one transaction; `Aftersales` under overlapping
  transactions.
* In the catalog: price ranges, the category tree, brands beyond their forms; in
  reviews: ratings; in applications: shop and account; in accounts: password reset,
  where Redis and the database part.
* `spu.sales_count`, logistics events, notes, aftersales messages, evidence rows,
  nudges and the audit log: nothing modelled reads them.
* Addresses, profiles, the public catalog, storage, configuration, routes, layout
  components: single-row updates, read-only queries, I/O or static data;
  `PROJECT.json` gives the reason for each. The Android app sends the same requests,
  in orders that the backend models allow.

## Plan

1. Done: the order core with its transactions, aftersales composed with it by
   the order contract, and the web apps.
2. `AftersalesTxns`, cases statement by statement
   (merchant's approval, forced refund and scan of one case at once, lost updates of
   `total_refunded_cents`), serial refinement to `Aftersales` as in `txns_serial`.
3. Merchant applications with overlapping approval and withdrawal; password reset with
   Redis apart from the database; derived price ranges and ratings under overlap.
4. Proofs: the refinement `RunsAsOrders`, with the effects of the statements already
   issued as the invariant.
