------------------------------- MODULE Orders -------------------------------
(***************************************************************************)
(* The order core of the backend: the cart, the checkout, the payment      *)
(* sessions, the order state machine, the stock columns of the SKUs, the   *)
(* two time-outs of an order, and the end a full refund puts to it.        *)
(*                                                                         *)
(* One action is one request (or one batch of a time-out scan): get_db     *)
(* gives every request one database transaction, committed when the        *)
(* handler returns and rolled back when it raises, so a request that is    *)
(* refused is no step at all.  This module is the system as its services   *)
(* are written to be read, one transaction after the other; what becomes   *)
(* of it when transactions overlap is module OrderTxns.                    *)
(***************************************************************************)
EXTENDS Integers, FiniteSets, Sequences, FiniteSetsExt, Scans

CONSTANTS
    User,          \* buyers
    Shop,          \* shops
    Sku,           \* stock-keeping units
    ShopOf,        \* [Sku -> Shop], the shop of the SKU's SPU
    Order,         \* row ids of table orders
    Session,       \* row ids of table payment_sessions
    Key,           \* values of the Idempotency-Key header
    NoUser, NoShop, NoKey, NoOrder,   \* NULL of the column types
    InitialStock,  \* stock of a SKU at creation
    MaxUnits,      \* bound: units of a SKU the merchant ever brings in
    MaxCartItemQuantity,  \* settings.MAX_CART_ITEM_QUANTITY
    MaxCartItemsPerUser   \* settings.MAX_CART_ITEMS_PER_USER

ASSUME ConstantsAssumption ==
    /\ ShopOf \in [Sku -> Shop]
    /\ IsFiniteSet(Sku) /\ IsFiniteSet(Order)
    /\ NoUser \notin User /\ NoShop \notin Shop
    /\ NoKey \notin Key /\ NoOrder \notin Order
    /\ InitialStock \in Nat /\ MaxUnits \in Nat
    /\ MaxCartItemQuantity \in Nat \ {0}
    /\ MaxCartItemsPerUser \in Nat \ {0}

VARIABLES
    cart,      \* cart[u][s]: quantity of the cart_items row, 0 when none
    skus,      \* skus[s]: the stock columns, and the sum of its inventory_logs
    orders,    \* orders[o]: the row, its order_items and its history rows
    sessions,  \* sessions[p]: the payment_sessions row
    overdue,   \* the orders whose payment_deadline_at has passed
    autoDue,   \* the orders whose auto_complete_at has passed
    conflicts  \* the checkouts answered with ORDER_IDEMPOTENCY_CONFLICT

vars == <<cart, skus, orders, sessions, overdue, autoDue, conflicts>>

-----------------------------------------------------------------------------
(* Rows.                                                                   *)

OrderStatus ==
    {"pending_payment", "paid", "shipped", "completed", "cancelled", "closed"}

\* Without "out_of_stock", which no code sets.
CancelReason ==
    {"user_cancel", "payment_timeout", "merchant_cancel", "admin_intervene"}

\* Without "expired", which no code sets.
PaymentStatus == {"pending", "succeeded", "failed"}

\* An unused row id carries status "none".  history is the list of
\* order_status_history rows, oldest first.
OrderRow ==
    [status  : OrderStatus \cup {"none"},
     user    : User \cup {NoUser},
     shop    : Shop \cup {NoShop},
     key     : Key \cup {NoKey},
     items   : [Sku -> Nat],
     reason  : CancelReason \cup {"none"},
     history : Seq([from : OrderStatus \cup {"none"}, to : OrderStatus])]

SessionRow ==
    [order : Order \cup {NoOrder}, status : PaymentStatus \cup {"none"}]

SkuRow == [stock : Nat, locked : Nat, sold : Nat, logged : Int]

UnusedOrder ==
    [status |-> "none", user |-> NoUser, shop |-> NoShop, key |-> NoKey,
     items |-> [s \in Sku |-> 0], reason |-> "none", history |-> <<>>]

UnusedSession == [order |-> NoOrder, status |-> "none"]

NewSku == [stock |-> InitialStock, locked |-> 0, sold |-> 0, logged |-> InitialStock]

Unused == {o \in Order : orders[o].status = "none"}

Pending == {o \in Order : orders[o].status = "pending_payment"}

PendingSessions(o) ==
    {p \in Session : sessions[p].order = o /\ sessions[p].status = "pending"}

SuccessfulSessions(o) ==
    {p \in Session : sessions[p].order = o /\ sessions[p].status = "succeeded"}

\* The rows the fast path of a checkout finds.
PriorOrders(u, k) == {o \in Order : orders[o].user = u /\ orders[o].key = k}

\* UNIQUE (user_id, idempotency_key): NULL keys are never equal.
UniqueUserKey(table) ==
    \A o1, o2 \in Order :
        /\ o1 # o2
        /\ table[o1].key # NoKey
        /\ table[o1].user = table[o2].user
        => table[o1].key # table[o2].key

WasPaid(row) == \E i \in DOMAIN row.history : row.history[i].to = "paid"

Paid(o) == WasPaid(orders[o])

\* The last status the history tells of: a refund that closes an order leaves
\* no history row.
Stage(row) == IF row.history = <<>> THEN "none" ELSE row.history[Len(row.history)].to

-----------------------------------------------------------------------------
(* Helpers of the services.                                                *)

\* The order row after _transition: the new status and its history row.
Moved(row, to) ==
    [row EXCEPT !.status  = to,
                !.history = Append(@, [from |-> row.status, to |-> to])]

\* The order row after _cancel_common: the idempotency key is released.
Cancelled(row, why) ==
    [Moved(row, "cancelled") EXCEPT !.reason = why, !.key = NoKey]

\* Units of SKU s in a set of orders.
Units(S, s) == SumFunctionOnSet([o \in Order |-> orders[o].items[s]], S)

Minus(a, b) == IF a >= b THEN a - b ELSE 0

\* What _lock_stock, _release_stock and _finalize_sale do to a SKU for q units,
\* the inventory_logs row of the first two included.
Locked(row, q) ==
    [row EXCEPT !.stock = @ - q, !.locked = @ + q, !.logged = @ - q]

Released(row, q) ==
    [row EXCEPT !.stock = @ + q, !.locked = Minus(@, q), !.logged = @ + q]

\* Mutant: the sale is counted and the lock stays.
FinalizedKeepsLock(row, q) == [row EXCEPT !.sold = @ + q]

Finalized(row, q) == [row EXCEPT !.locked = Minus(@, q), !.sold = @ + q]

Adjusted(row, d) == [row EXCEPT !.stock = @ + d, !.logged = @ + d]

ReleaseStock(S) == skus' = [s \in Sku |-> Released(skus[s], Units(S, s))]

FinalizeSale(S) == skus' = [s \in Sku |-> Finalized(skus[s], Units(S, s))]

\* Mutant: a cancelled order's goods are not given back.
CancelCommonKeepsStock(S, why) ==
    /\ orders' = [o \in Order |->
                    IF o \in S THEN Cancelled(orders[o], why) ELSE orders[o]]
    /\ UNCHANGED <<cart, skus, sessions, overdue, autoDue, conflicts>>

\* _cancel_common of every order of S.
CancelCommon(S, why) ==
    /\ orders' = [o \in Order |->
                    IF o \in S THEN Cancelled(orders[o], why) ELSE orders[o]]
    /\ ReleaseStock(S)
    /\ UNCHANGED <<cart, sessions, overdue, autoDue, conflicts>>

\* confirm_receipt and _system_complete of every order of S.
Complete(S) ==
    /\ orders' = [o \in Order |->
                    IF o \in S THEN Moved(orders[o], "completed") ELSE orders[o]]
    /\ FinalizeSale(S)
    /\ UNCHANGED <<cart, sessions, overdue, autoDue, conflicts>>

-----------------------------------------------------------------------------
(* The cart.                                                               *)

CartItems(u) == {s \in Sku : cart[u][s] > 0}

CartAdd(u, s, q) ==
    /\ cart[u][s] + q <= MaxCartItemQuantity
    /\ cart[u][s] + q <= skus[s].stock
    /\ cart[u][s] = 0 => Cardinality(CartItems(u)) < MaxCartItemsPerUser
    /\ cart' = [cart EXCEPT ![u][s] = @ + q]
    /\ UNCHANGED <<skus, orders, sessions, overdue, autoDue, conflicts>>

CartUpdate(u, s, q) ==
    /\ cart[u][s] > 0
    /\ q <= MaxCartItemQuantity
    /\ q <= skus[s].stock
    /\ cart' = [cart EXCEPT ![u][s] = q]
    /\ UNCHANGED <<skus, orders, sessions, overdue, autoDue, conflicts>>

CartDelete(u, s) ==
    /\ cart[u][s] > 0
    /\ cart' = [cart EXCEPT ![u][s] = 0]
    /\ UNCHANGED <<skus, orders, sessions, overdue, autoDue, conflicts>>

\* The rows of S leave the cart of u.
Removed(u, S) ==
    /\ S # {}
    /\ cart' = [cart EXCEPT ![u] = [s \in Sku |-> IF s \in S THEN 0 ELSE @[s]]]
    /\ UNCHANGED <<skus, orders, sessions, overdue, autoDue, conflicts>>

CartBatchDelete(u, ids) == Removed(u, ids \cap CartItems(u))

\* clear_invalid: the items that are not on sale or out of stock.
CartClearInvalid(u, onSale) ==
    Removed(u, {s \in CartItems(u) : s \notin onSale \/ skus[s].stock < 1})

-----------------------------------------------------------------------------
(* Checkout.                                                               *)

\* Mutant: the stock is not looked at again since the item went into the cart.
ValidItemsAnyStock(u, ids, onSale) == ids \cap onSale

\* The cart items a checkout really orders: on sale, and in stock in full.
ValidItems(u, ids, onSale) ==
    {s \in ids \cap onSale : cart[u][s] <= skus[s].stock}

\* A freshly inserted order of shop h for the items of V it sells.
NewOrder(u, h, k, V) ==
    [status  |-> "pending_payment", user |-> u, shop |-> h, key |-> k,
     items   |-> [s \in Sku |-> IF s \in V /\ ShopOf[s] = h THEN cart[u][s] ELSE 0],
     reason  |-> "none",
     history |-> <<[from |-> "none", to |-> "pending_payment"]>>]

\* Table orders with one new row per shop of V, id[h] being shop h's row.
WithNewOrders(u, k, V, id) ==
    [o \in Order |->
        IF \E h \in DOMAIN id : id[h] = o
        THEN NewOrder(u, CHOOSE h \in DOMAIN id : id[h] = o, k, V)
        ELSE orders[o]]

\* What create checks before it inserts anything.
CheckoutReady(u, k, ids, onSale) ==
    /\ ids # {}
    /\ ids \subseteq CartItems(u)
    /\ PriorOrders(u, k) = {}
    /\ ValidItems(u, ids, onSale) # {}

RowsFor(V) ==
    LET shops == {ShopOf[s] : s \in V}
    IN  {id \in [shops -> Unused] : \A g, h \in shops : id[g] = id[h] => g = h}

\* Mutant: a database without uq_orders_user_idempotency.
CreateNoUnique(u, k, ids, onSale) ==
    LET V == ValidItems(u, ids, onSale) IN
    /\ CheckoutReady(u, k, ids, onSale)
    /\ \E id \in RowsFor(V) : orders' = WithNewOrders(u, k, V, id)
    /\ skus' = [s \in Sku |-> IF s \in V THEN Locked(skus[s], cart[u][s]) ELSE skus[s]]
    /\ cart' = [cart EXCEPT ![u] = [s \in Sku |-> IF s \in V THEN 0 ELSE @[s]]]
    /\ UNCHANGED <<sessions, overdue, autoDue, conflicts>>

\* create: one order per shop of the valid items, all with the key of the
\* request, in one transaction.
Create(u, k, ids, onSale) ==
    LET V == ValidItems(u, ids, onSale) IN
    /\ CheckoutReady(u, k, ids, onSale)
    /\ \E id \in RowsFor(V) :
         /\ UniqueUserKey(WithNewOrders(u, k, V, id))
         /\ orders' = WithNewOrders(u, k, V, id)
    /\ skus' = [s \in Sku |-> IF s \in V THEN Locked(skus[s], cart[u][s]) ELSE skus[s]]
    /\ cart' = [cart EXCEPT ![u] = [s \in Sku |-> IF s \in V THEN 0 ELSE @[s]]]
    /\ UNCHANGED <<sessions, overdue, autoDue, conflicts>>

\* create, when an insert hits uq_orders_user_idempotency: the request is
\* answered with ORDER_IDEMPOTENCY_CONFLICT and everything is rolled back.
CreateConflict(u, k, ids, onSale) ==
    LET V == ValidItems(u, ids, onSale) IN
    /\ CheckoutReady(u, k, ids, onSale)
    /\ \E id \in RowsFor(V) : ~UniqueUserKey(WithNewOrders(u, k, V, id))
    /\ conflicts' = conflicts \cup {<<u, k>>}
    /\ UNCHANGED <<cart, skus, orders, sessions, overdue, autoDue>>

-----------------------------------------------------------------------------
(* Payment.                                                                *)

CreateSession(o, p) ==
    /\ orders[o].status = "pending_payment"
    /\ o \notin overdue
    /\ PendingSessions(o) = {}
    /\ sessions[p].status = "none"
    /\ sessions' = [sessions EXCEPT ![p] = [order |-> o, status |-> "pending"]]
    /\ UNCHANGED <<cart, skus, orders, overdue, autoDue, conflicts>>

\* Mutant: only the session's own status is looked at.
MockSucceedAnyOrder(p) ==
    LET o == sessions[p].order IN
    /\ sessions[p].status = "pending"
    /\ sessions' = [sessions EXCEPT ![p].status = "succeeded"]
    /\ orders' = [orders EXCEPT ![o] = Moved(@, "paid")]
    /\ UNCHANGED <<cart, skus, overdue, autoDue, conflicts>>

MockSucceed(p) ==
    LET o == sessions[p].order IN
    /\ sessions[p].status = "pending"
    /\ orders[o].status = "pending_payment"
    /\ o \notin overdue
    /\ sessions' = [sessions EXCEPT ![p].status = "succeeded"]
    /\ orders' = [orders EXCEPT ![o] = Moved(@, "paid")]
    /\ UNCHANGED <<cart, skus, overdue, autoDue, conflicts>>

\* The order's own status is not looked at.
MockFail(p) ==
    /\ sessions[p].status = "pending"
    /\ sessions' = [sessions EXCEPT ![p].status = "failed"]
    /\ UNCHANGED <<cart, skus, orders, overdue, autoDue, conflicts>>

-----------------------------------------------------------------------------
(* The order's later life.                                                 *)

\* Mutant: the buyer may cancel what is on its way.
CancelByUserShipped(o) ==
    /\ orders[o].status \in {"pending_payment", "shipped"}
    /\ CancelCommon({o}, "user_cancel")

CancelByUser(o) ==
    /\ orders[o].status = "pending_payment"
    /\ CancelCommon({o}, "user_cancel")

CancelByMerchant(o) ==
    /\ orders[o].status = "paid"
    /\ CancelCommon({o}, "merchant_cancel")

CancelByAdmin(o) ==
    /\ orders[o].status \in {"pending_payment", "paid"}
    /\ CancelCommon({o}, "admin_intervene")

\* Mutant: the status is set without its history row.
ShipSilently(o) ==
    /\ orders[o].status = "paid"
    /\ orders' = [orders EXCEPT ![o].status = "shipped"]
    /\ UNCHANGED <<cart, skus, sessions, overdue, autoDue, conflicts>>

ShipByMerchant(o) ==
    /\ orders[o].status = "paid"
    /\ orders' = [orders EXCEPT ![o] = Moved(@, "shipped")]
    /\ UNCHANGED <<cart, skus, sessions, overdue, autoDue, conflicts>>

ConfirmReceipt(o) ==
    /\ orders[o].status = "shipped"
    /\ Complete({o})

\* _order_side_link of a refund that brings total_refunded_cents to the total.
\* A case is opened on an order that is paid, shipped or completed and outlives
\* a cancellation of the order (module Aftersales).  The status is set without
\* _transition: no history row tells of it, and no stock column moves.
CloseRefunded(o) ==
    /\ orders[o].status \in {"paid", "shipped", "completed", "cancelled"}
    /\ Paid(o)
    /\ orders' = [orders EXCEPT ![o].status = "closed"]
    /\ UNCHANGED <<cart, skus, sessions, overdue, autoDue, conflicts>>

\* Every request that ends in get_detail, or lists a page of its user's
\* orders, cancels the overdue ones among the orders it shows.
LazyExpire(page) ==
    /\ page \cap Pending \cap overdue # {}
    /\ CancelCommon(page \cap Pending \cap overdue, "payment_timeout")

GetDetail(o) == LazyExpire({o})

ListByUser(u, page) ==
    /\ \A o \in page : orders[o].user = u
    /\ LazyExpire(page)

\* Mutant: the scan leaves orders alone whose payment seems to be under way.
ScanSparesSessions ==
    \E B \in Batches({o \in Pending \cap overdue : PendingSessions(o) = {}}) :
        CancelCommon(B, "payment_timeout")

ScanAndExpirePayments ==
    \E B \in Batches(Pending \cap overdue) : CancelCommon(B, "payment_timeout")

\* Mutant: the wrong deadline column.
ScanWrongDeadline ==
    \E B \in Batches({o \in overdue : orders[o].status = "shipped"}) : Complete(B)

ScanAndAutoComplete ==
    \E B \in Batches({o \in autoDue : orders[o].status = "shipped"}) : Complete(B)

\* The merchant's inventory adjustment, within the bound MaxUnits.
Adjust(s, d) ==
    /\ d # 0
    /\ skus[s].stock + d >= 0
    /\ skus[s].stock + skus[s].locked + skus[s].sold + d <= MaxUnits
    /\ skus' = [skus EXCEPT ![s] = Adjusted(@, d)]
    /\ UNCHANGED <<cart, orders, sessions, overdue, autoDue, conflicts>>

\* Time: payment_deadline_at (a column of every order from its creation) and
\* auto_complete_at (set when it ships) come to lie before now().
PaymentDeadlinePasses(o) ==
    /\ orders[o].status = "pending_payment"
    /\ o \notin overdue
    /\ overdue' = overdue \cup {o}
    /\ UNCHANGED <<cart, skus, orders, sessions, autoDue, conflicts>>

AutoCompletePasses(o) ==
    /\ orders[o].status = "shipped"
    /\ o \notin autoDue
    /\ autoDue' = autoDue \cup {o}
    /\ UNCHANGED <<cart, skus, orders, sessions, overdue, conflicts>>

-----------------------------------------------------------------------------
Init ==
    /\ cart = [u \in User |-> [s \in Sku |-> 0]]
    /\ skus = [s \in Sku |-> NewSku]
    /\ orders = [o \in Order |-> UnusedOrder]
    /\ sessions = [p \in Session |-> UnusedSession]
    /\ overdue = {}
    /\ autoDue = {}
    /\ conflicts = {}

CartStep ==
    \/ \E u \in User, s \in Sku :
         \/ \E q \in 1..MaxCartItemQuantity : CartAdd(u, s, q) \/ CartUpdate(u, s, q)
         \/ CartDelete(u, s)
    \/ \E u \in User, S \in SUBSET Sku : CartBatchDelete(u, S) \/ CartClearInvalid(u, S)

CheckoutStep ==
    \E u \in User, k \in Key, ids \in SUBSET Sku, onSale \in SUBSET Sku :
        Create(u, k, ids, onSale) \/ CreateConflict(u, k, ids, onSale)

PaymentStep ==
    \E p \in Session :
        \/ \E o \in Order : CreateSession(o, p)
        \/ MockSucceed(p)
        \/ MockFail(p)

OrderStep ==
    \/ \E o \in Order :
         \/ CancelByUser(o) \/ CancelByMerchant(o) \/ CancelByAdmin(o)
         \/ ShipByMerchant(o) \/ ConfirmReceipt(o)
         \/ CloseRefunded(o)
         \/ GetDetail(o)
    \/ \E u \in User, page \in SUBSET Order : ListByUser(u, page)

StockStep == \E s \in Sku, d \in -MaxUnits..MaxUnits : Adjust(s, d)

TimeStep == \E o \in Order : PaymentDeadlinePasses(o) \/ AutoCompletePasses(o)

Next ==
    \/ CartStep
    \/ CheckoutStep
    \/ PaymentStep
    \/ OrderStep
    \/ StockStep
    \/ TimeStep
    \/ ScanAndExpirePayments
    \/ ScanAndAutoComplete

Spec == Init /\ [][Next]_vars

\* Clocks run, and cron starts process_timeouts again and again.
Fairness ==
    /\ \A o \in Order : WF_vars(PaymentDeadlinePasses(o) \/ AutoCompletePasses(o))
    /\ WF_vars(ScanAndExpirePayments)
    /\ WF_vars(ScanAndAutoComplete)

FairSpec == Spec /\ Fairness

-----------------------------------------------------------------------------
(* Properties.                                                             *)

\* Every table holds rows of its type, whatever the requests did (order
\* core: order_service.py, payment_service.py, cart_service.py).
OrdersOK == orders \in [Order -> OrderRow]

SessionsOK == sessions \in [Session -> SessionRow]

CartOK == cart \in [User -> [Sku -> 0..MaxCartItemQuantity]]

ClocksOK ==
    /\ overdue \subseteq Order
    /\ autoDue \subseteq Order
    /\ conflicts \subseteq User \X Key

SkusOK == skus \in [Sku -> SkuRow]

TypeOK == OrdersOK /\ SessionsOK /\ CartOK /\ ClocksOK /\ SkusOK

\* The orders whose goods are locked: placed and neither cancelled nor handed
\* over, those among them that a refund closed included.
Open == {o \in Order : Stage(orders[o]) \in {"pending_payment", "paid", "shipped"}}

\* locked_stock is exactly the goods of the open orders, sold_count those of
\* the completed ones, and inventory_logs add up to the stock: no path of
\* checkout, cancel, time-out, completion and refund forgets a row or counts it
\* twice, and the max(0, ...) of _release_stock and _finalize_sale never hides
\* one.
StockLedger ==
    \A s \in Sku :
        /\ skus[s].locked = Units(Open, s)
        /\ skus[s].sold = Units({o \in Order : Stage(orders[o]) = "completed"}, s)
        /\ skus[s].stock = skus[s].logged

\* A step that changes orders moves units between stock, locked_stock and
\* sold_count and neither loses nor invents any.
UnitsConserved ==
    [][orders' # orders =>
         \A s \in Sku : skus'[s].stock + skus'[s].locked + skus'[s].sold
                        = skus[s].stock + skus[s].locked + skus[s].sold]_vars

\* An order was paid if and only if one of its payment sessions succeeded, and
\* then only one ever did; at most one session is open for it at a time, and
\* only a paid order is closed by a refund.  It takes create_session, mock_succeed and mock_fail in any order, on several
\* sessions, with cancellations in between.
PaidOnce ==
    \A o \in Order :
        /\ Paid(o) <=> SuccessfulSessions(o) # {}
        /\ \A p, q \in SuccessfulSessions(o) : p = q
        /\ \A p, q \in PendingSessions(o) : p = q
        /\ orders[o].status \in {"paid", "shipped", "completed", "closed"} => Paid(o)
        /\ orders[o].reason \in {"user_cancel", "payment_timeout"} => ~Paid(o)
        /\ orders[o].reason = "merchant_cancel" => Paid(o)

\* The history rows tell how the row came to its status.
Told(row) ==
    LET h == row.history
        n == Len(h)
    IN  IF row.status = "none" THEN n = 0
        ELSE /\ n > 0
             /\ h[1].from = "none"
             /\ h[n].to = row.status \/ row.status = "closed"
             /\ \A i \in 1..(n-1) : h[i].to = h[i+1].from

\* The time line of an order (order_status_history) starts with its creation,
\* each row continues the one before it, and the last row is its status or, for
\* an order closed by a refund, the one it was closed in.
HistoryTellsStatus == \A o \in Order : Told(orders[o])

\* An Idempotency-Key names at most one order of a buyer that is not
\* cancelled, and a cancelled order has given its key back.
KeyNamesOneOrder ==
    /\ UniqueUserKey(orders)
    /\ \A o \in Order :
         orders[o].key = NoKey <=> Stage(orders[o]) \in {"none", "cancelled"}

\* phase-3-contracts.md: locked_stock tracks "the part that waits to be shipped",
\* so the goods of a refunded order do not stay locked.
RefundedGoodsSettled == \A o \in Open : orders[o].status # "closed"

\* models/order.py: "multi-shop carts fan out into one Order per shop at
\* checkout time".  So no checkout whose key was never used is refused for a
\* key conflict.
MultiShopCheckoutSucceeds == conflicts = {}

\* An order is not left waiting for its payment for ever, and a shipped one
\* is completed at last, by its buyer or by the scan, unless it is refunded.
PendingResolves ==
    \A o \in Order : orders[o].status = "pending_payment"
                       ~> orders[o].status # "pending_payment"

ShippedCompletes ==
    \A o \in Order : orders[o].status = "shipped"
                       ~> orders[o].status \in {"completed", "closed"}

\* The order core implements the order contract: whatever carts, sessions,
\* keys, pages and batches do, each order walks the state machine and is
\* charged exactly in the step that makes it paid.
Lifecycle ==
    INSTANCE OrderLifecycle WITH
        state   <- [o \in Order |-> orders[o].status],
        charged <- {o \in Order : SuccessfulSessions(o) # {}}

ImplementsLifecycle == Lifecycle!Spec
=============================================================================
