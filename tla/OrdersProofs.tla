---------------------------- MODULE OrdersProofs ----------------------------
(***************************************************************************)
(* Theorems about Orders, for every number of users, shops, SKUs, rows and *)
(* keys.                                                                   *)
(***************************************************************************)
EXTENDS Orders, DataProofs

-----------------------------------------------------------------------------
(* What a step does to the order, session and SKU rows.                    *)

NoRowStep ==
    /\ UNCHANGED <<orders, sessions>>
    /\ UNCHANGED skus \/ StockStep

PlaceStep ==
    \E u \in User, k \in Key, V \in SUBSET Sku :
        /\ V # {}
        /\ \A s \in V : cart[u][s] \in Nat /\ cart[u][s] <= skus[s].stock
        /\ \E id \in RowsFor(V) :
             /\ UniqueUserKey(WithNewOrders(u, k, V, id))
             /\ orders' = WithNewOrders(u, k, V, id)
        /\ skus' = [s \in Sku |-> IF s \in V THEN Locked(skus[s], cart[u][s]) ELSE skus[s]]
        /\ UNCHANGED sessions

CancelFrom(why) ==
    CASE why = "user_cancel"     -> {"pending_payment"}
      [] why = "payment_timeout" -> {"pending_payment"}
      [] why = "merchant_cancel" -> {"paid"}
      [] why = "admin_intervene" -> {"pending_payment", "paid"}

CancelStep ==
    \E S \in SUBSET Order, why \in CancelReason :
        /\ S # {}
        /\ \A o \in S : orders[o].status \in CancelFrom(why)
        /\ orders' = [o \in Order |->
                        IF o \in S THEN Cancelled(orders[o], why) ELSE orders[o]]
        /\ ReleaseStock(S)
        /\ UNCHANGED sessions

CompleteStep ==
    \E S \in SUBSET Order :
        /\ S # {}
        /\ \A o \in S : orders[o].status = "shipped"
        /\ orders' = [o \in Order |->
                        IF o \in S THEN Moved(orders[o], "completed") ELSE orders[o]]
        /\ FinalizeSale(S)
        /\ UNCHANGED sessions

ShipStep ==
    \E o \in Order :
        /\ orders[o].status = "paid"
        /\ orders' = [orders EXCEPT ![o] = Moved(@, "shipped")]
        /\ UNCHANGED <<sessions, skus>>

CloseStep ==
    \E o \in Order :
        /\ orders[o].status \in {"paid", "shipped", "completed", "cancelled"}
        /\ WasPaid(orders[o])
        /\ orders' = [orders EXCEPT ![o].status = "closed"]
        /\ UNCHANGED <<sessions, skus>>

OpenStep ==
    \E o \in Order, p \in Session :
        /\ PendingSessions(o) = {}
        /\ sessions[p].status = "none"
        /\ sessions' = [sessions EXCEPT ![p] = [order |-> o, status |-> "pending"]]
        /\ UNCHANGED <<orders, skus>>

PayStep ==
    \E p \in Session :
        /\ sessions[p].status = "pending"
        /\ orders[sessions[p].order].status = "pending_payment"
        /\ sessions' = [sessions EXCEPT ![p].status = "succeeded"]
        /\ orders' = [orders EXCEPT ![sessions[p].order] = Moved(@, "paid")]
        /\ UNCHANGED skus

FailStep ==
    \E p \in Session :
        /\ sessions[p].status = "pending"
        /\ sessions' = [sessions EXCEPT ![p].status = "failed"]
        /\ UNCHANGED <<orders, skus>>

RowStep ==
    \/ NoRowStep \/ PlaceStep \/ CancelStep \/ CompleteStep
    \/ ShipStep \/ CloseStep \/ OpenStep \/ PayStep \/ FailStep

-----------------------------------------------------------------------------
(* The cart and the clocks.                                                *)

\* The cart never holds more of a SKU than settings.MAX_CART_ITEM_QUANTITY,
\* through add, update_item, delete_ and create (cart_service.py).
THEOREM CartCorrect == Spec => []CartOK
<1>1. Init => CartOK
  BY ConstantsAssumption DEF Init, CartOK
<1>2. CartOK /\ [Next]_vars => CartOK'
  <2> SUFFICES ASSUME CartOK, [Next]_vars PROVE CartOK'
    OBVIOUS
  <2>1. CASE UNCHANGED cart
    BY <2>1 DEF CartOK
  <2>2. CASE CartStep
    <3>1. ASSUME NEW u \in User, NEW s \in Sku, NEW q \in 1..MaxCartItemQuantity,
                 CartAdd(u, s, q)
          PROVE  CartOK'
      BY <3>1, ConstantsAssumption DEF CartOK, CartAdd
    <3>2. ASSUME NEW u \in User, NEW s \in Sku, NEW q \in 1..MaxCartItemQuantity,
                 CartUpdate(u, s, q)
          PROVE  CartOK'
      BY <3>2, ConstantsAssumption DEF CartOK, CartUpdate
    <3>3. ASSUME NEW u \in User, NEW s \in Sku, CartDelete(u, s) PROVE CartOK'
      BY <3>3, ConstantsAssumption DEF CartOK, CartDelete
    <3>4. ASSUME NEW u \in User, NEW S, Removed(u, S) PROVE CartOK'
      BY <3>4, ConstantsAssumption DEF CartOK, Removed
    <3> QED
      BY <2>2, <3>1, <3>2, <3>3, <3>4 DEF CartStep, CartBatchDelete, CartClearInvalid
  <2>3. CASE CheckoutStep
    <3>1. PICK u \in User, k \in Key, ids \in SUBSET Sku, onSale \in SUBSET Sku :
            Create(u, k, ids, onSale) \/ CreateConflict(u, k, ids, onSale)
      BY <2>3 DEF CheckoutStep
    <3>2. CASE Create(u, k, ids, onSale)
      BY <3>2, ConstantsAssumption DEF CartOK, Create
    <3>3. CASE CreateConflict(u, k, ids, onSale)
      BY <3>3, <2>1 DEF CreateConflict
    <3> QED
      BY <3>1, <3>2, <3>3
  <2>4. CASE PaymentStep
    BY <2>4, <2>1 DEF PaymentStep, CreateSession, MockSucceed, MockFail
  <2>5. CASE OrderStep
    BY <2>5, <2>1 DEF OrderStep, CancelByUser, CancelByMerchant, CancelByAdmin, CancelCommon,
                      ShipByMerchant, ConfirmReceipt, Complete, CloseRefunded,
                      GetDetail, ListByUser, LazyExpire
  <2>6. CASE StockStep \/ TimeStep
    BY <2>6, <2>1 DEF StockStep, TimeStep, Adjust, PaymentDeadlinePasses, AutoCompletePasses
  <2>7. CASE ScanAndExpirePayments \/ ScanAndAutoComplete
    BY <2>7, <2>1 DEF ScanAndExpirePayments, ScanAndAutoComplete, CancelCommon, Complete
  <2>8. CASE UNCHANGED vars
    BY <2>8, <2>1 DEF vars
  <2> QED
    BY <2>2, <2>3, <2>4, <2>5, <2>6, <2>7, <2>8 DEF Next
<1> QED
  BY <1>1, <1>2, PTL DEF Spec

-----------------------------------------------------------------------------
(* Every step is a row step.                                               *)

LEMMA CartNat == ASSUME CartOK PROVE \A u \in User, s \in Sku : cart[u][s] \in Nat
BY ConstantsAssumption DEF CartOK

LEMMA CreateIsRowStep ==
  ASSUME CartOK, NEW u \in User, NEW k \in Key, NEW ids \in SUBSET Sku,
         NEW onSale \in SUBSET Sku, Create(u, k, ids, onSale)
  PROVE  RowStep
<1> DEFINE V == ValidItems(u, ids, onSale)
<1>1. V \in SUBSET Sku /\ V # {}
  BY DEF Create, CheckoutReady, ValidItems
<1>2. \A s \in V : cart[u][s] \in Nat /\ cart[u][s] <= skus[s].stock
  BY <1>1, CartNat DEF ValidItems
<1>3. \E id \in RowsFor(V) : /\ UniqueUserKey(WithNewOrders(u, k, V, id))
                             /\ orders' = WithNewOrders(u, k, V, id)
  BY DEF Create
<1>4. /\ UNCHANGED sessions
      /\ skus' = [s \in Sku |-> IF s \in V THEN Locked(skus[s], cart[u][s]) ELSE skus[s]]
  BY DEF Create
<1> HIDE DEF V
<1>5. PlaceStep
  BY <1>1, <1>2, <1>3, <1>4 DEF PlaceStep
<1> QED
  BY <1>5 DEF RowStep

LEMMA CancelIsRowStep ==
  ASSUME NEW S \in SUBSET Order, NEW why \in CancelReason, S # {},
         \A o \in S : orders[o].status \in CancelFrom(why), CancelCommon(S, why)
  PROVE  RowStep
BY DEF CancelCommon, CancelStep, RowStep

LEMMA CompleteIsRowStep ==
  ASSUME NEW S \in SUBSET Order, S # {},
         \A o \in S : orders[o].status = "shipped", Complete(S)
  PROVE  RowStep
BY DEF Complete, CompleteStep, RowStep

LEMMA LazyExpireIsRowStep ==
  ASSUME NEW page \in SUBSET Order, LazyExpire(page)
  PROVE  RowStep
<1> DEFINE S == page \cap Pending \cap overdue
<1>1. S \in SUBSET Order /\ S # {} /\ \A o \in S : orders[o].status = "pending_payment"
  BY DEF LazyExpire, Pending
<1>2. CancelCommon(S, "payment_timeout")
  BY DEF LazyExpire
<1>3. /\ "payment_timeout" \in CancelReason
      /\ CancelFrom("payment_timeout") = {"pending_payment"}
  BY DEF CancelReason, CancelFrom
<1> QED
  BY <1>1, <1>2, <1>3, CancelIsRowStep

LEMMA OrderStepIsRowStep ==
  ASSUME OrderStep
  PROVE  RowStep
<1>1. ASSUME NEW o \in Order, CancelByUser(o) PROVE RowStep
  <2>1. "user_cancel" \in CancelReason /\ CancelFrom("user_cancel") = {"pending_payment"}
    BY DEF CancelReason, CancelFrom
  <2> QED
    BY <1>1, <2>1, CancelIsRowStep DEF CancelByUser
<1>2. ASSUME NEW o \in Order, CancelByMerchant(o) PROVE RowStep
  <2>1. "merchant_cancel" \in CancelReason /\ CancelFrom("merchant_cancel") = {"paid"}
    BY DEF CancelReason, CancelFrom
  <2> QED
    BY <1>2, <2>1, CancelIsRowStep DEF CancelByMerchant
<1>3. ASSUME NEW o \in Order, CancelByAdmin(o) PROVE RowStep
  <2>1. /\ "admin_intervene" \in CancelReason
        /\ CancelFrom("admin_intervene") = {"pending_payment", "paid"}
    BY DEF CancelReason, CancelFrom
  <2> QED
    BY <1>3, <2>1, CancelIsRowStep DEF CancelByAdmin
<1>4. ASSUME NEW o \in Order, ShipByMerchant(o) PROVE RowStep
  BY <1>4 DEF ShipByMerchant, ShipStep, RowStep
<1>5. ASSUME NEW o \in Order, ConfirmReceipt(o) PROVE RowStep
  BY <1>5, CompleteIsRowStep DEF ConfirmReceipt
<1>6. ASSUME NEW o \in Order, GetDetail(o) PROVE RowStep
  BY <1>6, LazyExpireIsRowStep DEF GetDetail
<1>7. ASSUME NEW u \in User, NEW page \in SUBSET Order, ListByUser(u, page) PROVE RowStep
  BY <1>7, LazyExpireIsRowStep DEF ListByUser
<1>8. ASSUME NEW o \in Order, CloseRefunded(o) PROVE RowStep
  BY <1>8 DEF CloseRefunded, Paid, CloseStep, RowStep
<1> QED
  BY <1>1, <1>2, <1>3, <1>4, <1>5, <1>6, <1>7, <1>8 DEF OrderStep

LEMMA ScanIsRowStep ==
  ASSUME ClocksOK, ScanAndExpirePayments \/ ScanAndAutoComplete
  PROVE  RowStep
<1>1. CASE ScanAndExpirePayments
  <2>1. PICK B \in Batches(Pending \cap overdue) : CancelCommon(B, "payment_timeout")
    BY <1>1 DEF ScanAndExpirePayments
  <2>2. B \in SUBSET Order /\ B # {} /\ \A o \in B : orders[o].status = "pending_payment"
    BY DEF Batches, Pending
  <2>3. /\ "payment_timeout" \in CancelReason
        /\ CancelFrom("payment_timeout") = {"pending_payment"}
    BY DEF CancelReason, CancelFrom
  <2> QED
    BY <2>1, <2>2, <2>3, CancelIsRowStep
<1>2. CASE ScanAndAutoComplete
  <2> DEFINE Due == {o \in autoDue : orders[o].status = "shipped"}
  <2>1. PICK B \in Batches(Due) : Complete(B)
    BY <1>2 DEF ScanAndAutoComplete
  <2>2. B \subseteq Due /\ B # {}
    BY DEF Batches
  <2>3. B \in SUBSET Order
    BY <2>2 DEF ClocksOK
  <2> QED
    BY <2>1, <2>2, <2>3, CompleteIsRowStep
<1> QED
  BY <1>1, <1>2

LEMMA PaymentStepIsRowStep ==
  ASSUME PaymentStep
  PROVE  RowStep
<1>1. ASSUME NEW o \in Order, NEW p \in Session, CreateSession(o, p) PROVE RowStep
  BY <1>1 DEF CreateSession, OpenStep, RowStep
<1>2. ASSUME NEW p \in Session, MockSucceed(p) PROVE RowStep
  BY <1>2 DEF MockSucceed, PayStep, RowStep
<1>3. ASSUME NEW p \in Session, MockFail(p) PROVE RowStep
  BY <1>3 DEF MockFail, FailStep, RowStep
<1> QED
  BY <1>1, <1>2, <1>3 DEF PaymentStep

LEMMA NextIsRowStep ==
  ASSUME CartOK, ClocksOK, [Next]_vars
  PROVE  RowStep
<1>1. CASE CheckoutStep
  BY <1>1, CreateIsRowStep DEF CheckoutStep, CreateConflict, NoRowStep, RowStep
<1>2. CASE CartStep \/ StockStep \/ TimeStep \/ UNCHANGED vars
  BY <1>2 DEF CartStep, CartAdd, CartUpdate, CartDelete, CartBatchDelete,
              CartClearInvalid, Removed, StockStep, Adjust, TimeStep,
              PaymentDeadlinePasses, AutoCompletePasses, vars, NoRowStep, RowStep
<1> QED
  BY <1>1, <1>2, PaymentStepIsRowStep, OrderStepIsRowStep, ScanIsRowStep DEF Next

\* The deadlines the clock has passed are those of rows, and the checkouts
\* refused are those of buyers and keys.
THEOREM ClocksCorrect == Spec => []ClocksOK
<1>1. Init => ClocksOK
  BY DEF Init, ClocksOK
<1>2. ClocksOK /\ [Next]_vars => ClocksOK'
  <2> SUFFICES ASSUME ClocksOK, [Next]_vars PROVE ClocksOK'
    OBVIOUS
  <2>1. CASE UNCHANGED <<overdue, autoDue, conflicts>>
    BY <2>1 DEF ClocksOK
  <2>2. CASE CheckoutStep
    BY <2>2, <2>1 DEF CheckoutStep, Create, CreateConflict, ClocksOK
  <2>3. CASE TimeStep
    BY <2>3 DEF TimeStep, PaymentDeadlinePasses, AutoCompletePasses, ClocksOK
  <2>4. CASE CartStep \/ StockStep
    BY <2>4, <2>1 DEF CartStep, CartAdd, CartUpdate, CartDelete, CartBatchDelete,
                      CartClearInvalid, Removed, StockStep, Adjust
  <2>5. CASE PaymentStep
    BY <2>5, <2>1 DEF PaymentStep, CreateSession, MockSucceed, MockFail
  <2>6. CASE OrderStep
    BY <2>6, <2>1 DEF OrderStep, CancelByUser, CancelByMerchant, CancelByAdmin, CancelCommon,
                      ShipByMerchant, ConfirmReceipt, Complete, CloseRefunded,
                      GetDetail, ListByUser, LazyExpire
  <2>7. CASE ScanAndExpirePayments \/ ScanAndAutoComplete
    BY <2>7, <2>1 DEF ScanAndExpirePayments, ScanAndAutoComplete, CancelCommon, Complete
  <2>8. CASE UNCHANGED vars
    BY <2>8, <2>1 DEF vars
  <2> QED
    BY <2>2, <2>3, <2>4, <2>5, <2>6, <2>7, <2>8 DEF Next
<1> QED
  BY <1>1, <1>2, PTL DEF Spec

-----------------------------------------------------------------------------
(* The rows.                                                               *)

LEMMA NewOrderType ==
  ASSUME NEW u \in User, NEW h \in Shop, NEW k \in Key, NEW V \in SUBSET Sku,
         \A s \in V : cart[u][s] \in Nat
  PROVE  NewOrder(u, h, k, V) \in OrderRow
<1>1. [s \in Sku |-> IF s \in V /\ ShopOf[s] = h THEN cart[u][s] ELSE 0] \in [Sku -> Nat]
  OBVIOUS
<1>2. <<[from |-> "none", to |-> "pending_payment"]>>
        \in Seq([from : OrderStatus \cup {"none"}, to : OrderStatus])
  BY DEF OrderStatus
<1> QED
  BY <1>1, <1>2 DEF NewOrder, OrderRow, OrderStatus

LEMMA Statuses ==
  /\ "pending_payment" \in OrderStatus /\ "paid" \in OrderStatus
  /\ "shipped" \in OrderStatus /\ "completed" \in OrderStatus
  /\ "cancelled" \in OrderStatus
BY DEF OrderStatus

LEMMA MovedType ==
  ASSUME NEW row \in OrderRow, NEW to \in OrderStatus
  PROVE  /\ Moved(row, to) \in OrderRow
         /\ Moved(row, to).status = to
         /\ Moved(row, to).key = row.key
         /\ Moved(row, to).user = row.user
         /\ Moved(row, to).reason = row.reason
         /\ Moved(row, to).history = Append(row.history, [from |-> row.status, to |-> to])
<1>1. Append(row.history, [from |-> row.status, to |-> to])
        \in Seq([from : OrderStatus \cup {"none"}, to : OrderStatus])
  BY DEF OrderRow
<1> QED
  BY <1>1 DEF Moved, OrderRow

LEMMA CancelledType ==
  ASSUME NEW row \in OrderRow, NEW why \in CancelReason
  PROVE  /\ Cancelled(row, why) \in OrderRow
         /\ Cancelled(row, why).status = "cancelled"
         /\ Cancelled(row, why).key = NoKey
         /\ Cancelled(row, why).user = row.user
         /\ Cancelled(row, why).reason = why
         /\ Cancelled(row, why).history
              = Append(row.history, [from |-> row.status, to |-> "cancelled"])
<1> DEFINE m == Moved(row, "cancelled")
<1>1. /\ m \in OrderRow
      /\ m.status = "cancelled" /\ m.user = row.user
      /\ m.history = Append(row.history, [from |-> row.status, to |-> "cancelled"])
  BY MovedType DEF OrderStatus
<1>2. Cancelled(row, why) = [m EXCEPT !.reason = why, !.key = NoKey]
  BY DEF Cancelled
<1> HIDE DEF m
<1> QED
  BY <1>1, <1>2 DEF OrderRow

\* The row of an order that a refund closes.
Closed(row) == [row EXCEPT !.status = "closed"]

LEMMA ClosedType ==
  ASSUME NEW row \in OrderRow
  PROVE  /\ Closed(row) \in OrderRow
         /\ Closed(row).status = "closed"
         /\ Closed(row).key = row.key
         /\ Closed(row).user = row.user
         /\ Closed(row).reason = row.reason
         /\ Closed(row).history = row.history
BY DEF Closed, OrderRow, OrderStatus

\* A row after a checkout: one that was unused and is an order now, or the
\* one it was.
LEMMA PlacedRow ==
  ASSUME NEW u \in User, NEW k \in Key, NEW V \in SUBSET Sku, NEW id \in RowsFor(V),
         NEW o \in Order
  PROVE  \/ /\ o \in Unused
            /\ \E h \in Shop : WithNewOrders(u, k, V, id)[o] = NewOrder(u, h, k, V)
         \/ WithNewOrders(u, k, V, id)[o] = orders[o]
<1> DEFINE shops == {ShopOf[s] : s \in V}
<1>1. id \in [shops -> Unused] /\ shops \subseteq Shop
  BY ConstantsAssumption DEF RowsFor
<1>2. CASE \E h \in DOMAIN id : id[h] = o
  <2> DEFINE h == CHOOSE h \in DOMAIN id : id[h] = o
  <2>1. h \in DOMAIN id /\ id[h] = o
    BY <1>2
  <2>2. h \in Shop /\ o \in Unused
    BY <2>1, <1>1
  <2>3. WithNewOrders(u, k, V, id)[o] = NewOrder(u, h, k, V)
    BY <1>2 DEF WithNewOrders
  <2> HIDE DEF h
  <2> QED
    BY <2>2, <2>3
<1>3. CASE ~ \E h \in DOMAIN id : id[h] = o
  BY <1>3 DEF WithNewOrders
<1> QED
  BY <1>2, <1>3

\* Every session belongs to an order.
SessionsLinked ==
    \A p \in Session : sessions[p].status # "none" => sessions[p].order \in Order

\* What a step may do to the row of one order.
RowEffect(o) ==
    \/ orders'[o] = orders[o]
    \/ /\ orders[o].status = "none"
       /\ \E u \in User, h \in Shop, k \in Key, V \in SUBSET Sku :
            /\ \A s \in V : cart[u][s] \in Nat
            /\ orders'[o] = NewOrder(u, h, k, V)
    \/ \E why \in CancelReason :
            /\ orders[o].status \in CancelFrom(why)
            /\ orders'[o] = Cancelled(orders[o], why)
    \/ orders[o].status = "pending_payment" /\ orders'[o] = Moved(orders[o], "paid")
    \/ orders[o].status = "paid" /\ orders'[o] = Moved(orders[o], "shipped")
    \/ orders[o].status = "shipped" /\ orders'[o] = Moved(orders[o], "completed")
    \/ /\ orders[o].status \in {"paid", "shipped", "completed", "cancelled"}
       /\ WasPaid(orders[o])
       /\ orders'[o] = Closed(orders[o])

LEMMA RowStepEffect ==
  ASSUME OrdersOK, SessionsLinked, RowStep
  PROVE  /\ \A o \in Order : RowEffect(o)
         /\ orders' = [o \in Order |-> orders'[o]]
<1>1. orders = [o \in Order |-> orders[o]]
  BY DEF OrdersOK
<1>2. CASE NoRowStep \/ OpenStep \/ FailStep
  BY <1>1, <1>2 DEF NoRowStep, OpenStep, FailStep, RowEffect
<1>3. CASE PlaceStep
  <2>1. PICK u \in User, k \in Key, V \in SUBSET Sku :
          /\ \A s \in V : cart[u][s] \in Nat
          /\ \E id \in RowsFor(V) : orders' = WithNewOrders(u, k, V, id)
    BY <1>3 DEF PlaceStep
  <2>2. PICK id \in RowsFor(V) : orders' = WithNewOrders(u, k, V, id)
    BY <2>1
  <2>3. ASSUME NEW o \in Order PROVE RowEffect(o)
    BY <2>1, <2>2, PlacedRow DEF RowEffect, Unused
  <2> QED
    BY <2>2, <2>3 DEF WithNewOrders
<1>4. CASE CancelStep
  BY <1>4 DEF CancelStep, RowEffect
<1>5. CASE CompleteStep
  BY <1>5 DEF CompleteStep, RowEffect
<1>6. CASE ShipStep
  <2>1. PICK o \in Order : /\ orders[o].status = "paid"
                           /\ orders' = [orders EXCEPT ![o] = Moved(orders[o], "shipped")]
    BY <1>6 DEF ShipStep
  <2> QED
    BY <1>1, <2>1 DEF RowEffect
<1>7. CASE PayStep
  <2>1. PICK p \in Session :
          /\ sessions[p].status = "pending"
          /\ orders[sessions[p].order].status = "pending_payment"
          /\ orders' = [orders EXCEPT ![sessions[p].order]
                                        = Moved(orders[sessions[p].order], "paid")]
    BY <1>7 DEF PayStep
  <2>2. sessions[p].order \in Order
    BY <2>1 DEF SessionsLinked
  <2> QED
    BY <1>1, <2>1, <2>2 DEF RowEffect
<1>8. CASE CloseStep
  <2>1. PICK o \in Order :
          /\ orders[o].status \in {"paid", "shipped", "completed", "cancelled"}
          /\ WasPaid(orders[o])
          /\ orders' = [orders EXCEPT ![o] = Closed(orders[o])]
    BY <1>8 DEF CloseStep, Closed
  <2> QED
    BY <1>1, <2>1 DEF RowEffect
<1> QED
  BY <1>2, <1>3, <1>4, <1>5, <1>6, <1>7, <1>8 DEF RowStep

LEMMA RowStepOrdersOK ==
  ASSUME OrdersOK, SessionsLinked, RowStep
  PROVE  OrdersOK'
<1>1. ASSUME NEW o \in Order PROVE orders'[o] \in OrderRow
  <2>1. orders[o] \in OrderRow
    BY DEF OrdersOK
  <2>2. RowEffect(o)
    BY RowStepEffect
  <2>3. ASSUME NEW u \in User, NEW h \in Shop, NEW k \in Key, NEW V \in SUBSET Sku,
               \A s \in V : cart[u][s] \in Nat, orders'[o] = NewOrder(u, h, k, V)
        PROVE  orders'[o] \in OrderRow
    BY <2>3, NewOrderType
  <2>4. ASSUME NEW why \in CancelReason, orders'[o] = Cancelled(orders[o], why)
        PROVE  orders'[o] \in OrderRow
    BY <2>1, <2>4, CancelledType
  <2>5. ASSUME NEW to \in {"paid", "shipped", "completed"}, orders'[o] = Moved(orders[o], to)
        PROVE  orders'[o] \in OrderRow
    <3>1. to \in OrderStatus
      BY DEF OrderStatus
    <3> QED
      BY <2>1, <2>5, <3>1, MovedType
  <2> QED
    BY <2>1, <2>2, <2>3, <2>4, <2>5, ClosedType DEF RowEffect
<1> QED
  BY <1>1, RowStepEffect DEF OrdersOK

LEMMA RowStepSessionsOK ==
  ASSUME SessionsOK, SessionsLinked, RowStep
  PROVE  SessionsOK' /\ SessionsLinked'
<1>1. CASE UNCHANGED sessions
  BY <1>1 DEF SessionsOK, SessionsLinked
<1>2. CASE OpenStep
  <2>1. PICK o \in Order, p \in Session :
          sessions' = [sessions EXCEPT ![p] = [order |-> o, status |-> "pending"]]
    BY <1>2 DEF OpenStep
  <2>2. [order |-> o, status |-> "pending"] \in SessionRow
    BY DEF SessionRow, PaymentStatus
  <2> QED
    BY <2>1, <2>2 DEF SessionsOK, SessionsLinked
<1>3. ASSUME NEW p \in Session, NEW st \in PaymentStatus, sessions[p].status = "pending",
             sessions' = [sessions EXCEPT ![p].status = st]
      PROVE  SessionsOK' /\ SessionsLinked'
  <2>1. sessions[p] \in SessionRow
    BY DEF SessionsOK
  <2>2. [sessions[p] EXCEPT !.status = st] \in SessionRow
    BY <2>1 DEF SessionRow
  <2>3. sessions' = [sessions EXCEPT ![p] = [sessions[p] EXCEPT !.status = st]]
    BY <1>3
  <2>4. [sessions[p] EXCEPT !.status = st].order = sessions[p].order
    BY <2>1 DEF SessionRow
  <2>5. sessions[p].order \in Order
    BY <1>3 DEF SessionsLinked
  <2> QED
    BY <2>2, <2>3, <2>4, <2>5 DEF SessionsOK, SessionsLinked
<1>4. "succeeded" \in PaymentStatus /\ "failed" \in PaymentStatus
  BY DEF PaymentStatus
<1> QED
  BY <1>1, <1>2, <1>3, <1>4 DEF RowStep, NoRowStep, PlaceStep, CancelStep, CompleteStep,
                                ShipStep, CloseStep, PayStep, FailStep

-----------------------------------------------------------------------------
(* The time line.                                                          *)

\* A history row appended to a telling history leaves it telling.
LEMMA ToldNext ==
  ASSUME NEW row \in OrderRow, NEW new \in OrderRow, Told(row),
         row.status \notin {"none", "closed"}, new.status # "none",
         new.history = Append(row.history, [from |-> row.status, to |-> new.status])
  PROVE  /\ Told(new)
         /\ WasPaid(new) <=> WasPaid(row) \/ new.status = "paid"
<1> DEFINE h == row.history
           e == [from |-> row.status, to |-> new.status]
           n == Len(h)
<1>1. /\ h \in Seq([from : OrderStatus \cup {"none"}, to : OrderStatus])
      /\ new.history = Append(h, e)
      /\ e.from = row.status /\ e.to = new.status
  BY DEF OrderRow
<1>2. n \in Nat /\ n > 0 /\ h[1].from = "none" /\ h[n].to = row.status
      /\ \A i \in 1..(n-1) : h[i].to = h[i+1].from
  BY <1>1 DEF Told
<1> HIDE DEF e, h, n
<1>3. /\ Len(Append(h, e)) = n + 1
      /\ Append(h, e)[n+1] = e
      /\ \A i \in 1..n : Append(h, e)[i] = h[i]
      /\ DOMAIN Append(h, e) = 1..(n+1)
      /\ DOMAIN h = 1..n
  BY <1>1 DEF n
<1>4. Told(new)
  <2>1. ASSUME NEW i \in 1..n PROVE Append(h, e)[i].to = Append(h, e)[i+1].from
    <3>1. CASE i = n
      BY <1>1, <1>2, <1>3, <3>1
    <3>2. CASE i < n
      <4>1. i \in 1..(n-1) /\ i + 1 \in 1..n
        BY <1>2, <3>2
      <4> QED
        BY <4>1, <1>2, <1>3
    <3>3. i = n \/ i < n
      BY <1>2
    <3> QED
      BY <3>1, <3>2, <3>3, Zenon
  <2> QED
    BY <1>1, <1>2, <1>3, <2>1, SMTT(30) DEF Told
<1>5. WasPaid(new) <=> WasPaid(row) \/ new.status = "paid"
  <2>1. WasPaid(row) <=> \E i \in 1..n : h[i].to = "paid"
    BY <1>3 DEF WasPaid, h
  <2>2. WasPaid(new) <=> \E i \in 1..(n+1) : Append(h, e)[i].to = "paid"
    BY <1>1, <1>3 DEF WasPaid
  <2> QED
    BY <2>1, <2>2, <1>1, <1>2, <1>3
<1> QED
  BY <1>4, <1>5

LEMMA ToldFirst ==
  ASSUME NEW u \in User, NEW h \in Shop, NEW k \in Key, NEW V \in SUBSET Sku
  PROVE  Told(NewOrder(u, h, k, V)) /\ ~WasPaid(NewOrder(u, h, k, V))
BY DEF NewOrder, Told, WasPaid

\* An order that no refund has closed is at the stage its history tells of.
LEMMA StageIsStatus ==
  ASSUME NEW row \in OrderRow, Told(row), row.status # "closed"
  PROVE  Stage(row) = row.status
<1>1. row.history \in Seq([from : OrderStatus \cup {"none"}, to : OrderStatus])
  BY DEF OrderRow
<1>2. CASE row.status = "none"
  BY <1>1, <1>2 DEF Told, Stage
<1>3. CASE row.status # "none"
  BY <1>1, <1>3 DEF Told, Stage
<1> QED
  BY <1>2, <1>3

\* What each row owes to its own past alone.
RowOK(row) ==
    /\ Told(row)
    /\ row.status \in {"none", "pending_payment"} => ~WasPaid(row)
    /\ row.status \in {"paid", "shipped", "completed", "closed"} => WasPaid(row)
    /\ row.reason # "none" => row.status \in {"cancelled", "closed"}
    /\ row.reason \in {"user_cancel", "payment_timeout"} => ~WasPaid(row)
    /\ row.reason = "merchant_cancel" => WasPaid(row)
    /\ row.key = NoKey <=> Stage(row) \in {"none", "cancelled"}

LEMMA MovedOK ==
  ASSUME NEW row \in OrderRow, NEW to \in OrderStatus, RowOK(row),
         \/ row.status = "pending_payment" /\ to = "paid"
         \/ row.status = "paid" /\ to = "shipped"
         \/ row.status = "shipped" /\ to = "completed"
  PROVE  RowOK(Moved(row, to))
<1> DEFINE new == Moved(row, to)
<1>1. /\ new \in OrderRow
      /\ new.status = to /\ new.key = row.key /\ new.reason = row.reason
      /\ new.history = Append(row.history, [from |-> row.status, to |-> to])
  BY MovedType
<1> HIDE DEF new
<1>2. new.history = Append(row.history, [from |-> row.status, to |-> new.status])
  BY <1>1
<1>3. Told(row) /\ row.status \notin {"none", "closed"} /\ new.status \notin {"none", "closed"}
  BY <1>1 DEF RowOK
<1>4. Told(new) /\ (WasPaid(new) <=> WasPaid(row) \/ new.status = "paid")
  BY <1>1, <1>2, <1>3, ToldNext
<1>5. WasPaid(new)
  BY <1>1, <1>4 DEF RowOK
<1>6. row.reason = "none"
  BY DEF RowOK
<1>7. Stage(row) = row.status /\ Stage(new) = new.status
  BY <1>1, <1>3, <1>4, StageIsStatus
<1> QED
  BY <1>1, <1>4, <1>5, <1>6, <1>7 DEF RowOK, new

LEMMA CancelledOK ==
  ASSUME NEW row \in OrderRow, NEW why \in CancelReason, RowOK(row),
         row.status \in CancelFrom(why)
  PROVE  RowOK(Cancelled(row, why))
<1> DEFINE new == Cancelled(row, why)
<1>1. /\ new \in OrderRow
      /\ new.status = "cancelled" /\ new.key = NoKey /\ new.reason = why
      /\ new.history = Append(row.history, [from |-> row.status, to |-> "cancelled"])
  BY CancelledType
<1> HIDE DEF new
<1>2. new.history = Append(row.history, [from |-> row.status, to |-> new.status])
  BY <1>1
<1>3. /\ row.status \in {"pending_payment", "paid"}
      /\ why \in {"user_cancel", "payment_timeout"} => row.status = "pending_payment"
      /\ why = "merchant_cancel" => row.status = "paid"
  BY DEF CancelFrom, CancelReason
<1>4. Told(row) /\ row.status \notin {"none", "closed"} /\ new.status # "none"
  BY <1>1, <1>3 DEF RowOK
<1>5. Told(new) /\ (WasPaid(new) <=> WasPaid(row) \/ new.status = "paid")
  BY <1>1, <1>2, <1>4, ToldNext
<1>6. WasPaid(new) <=> WasPaid(row)
  BY <1>1, <1>5
<1>7. why \in {"user_cancel", "payment_timeout"} => ~WasPaid(new)
  BY <1>3, <1>6 DEF RowOK
<1>8. why = "merchant_cancel" => WasPaid(new)
  BY <1>3, <1>6 DEF RowOK
<1>9. Stage(new) = "cancelled"
  BY <1>1, <1>5, StageIsStatus
<1> QED
  BY <1>1, <1>5, <1>7, <1>8, <1>9 DEF RowOK, new

LEMMA ClosedOK ==
  ASSUME NEW row \in OrderRow, RowOK(row), WasPaid(row),
         row.status \in {"paid", "shipped", "completed", "cancelled"}
  PROVE  RowOK(Closed(row)) /\ (WasPaid(Closed(row)) <=> WasPaid(row))
<1> DEFINE new == Closed(row)
<1>1. /\ new.status = "closed" /\ new.key = row.key /\ new.reason = row.reason
      /\ new.history = row.history
  BY ClosedType
<1> HIDE DEF new
<1>2. WasPaid(new) /\ Stage(new) = Stage(row)
  BY <1>1 DEF WasPaid, Stage
<1>3. Told(new)
  BY <1>1 DEF RowOK, Told
<1> QED
  BY <1>1, <1>2, <1>3 DEF RowOK, new

LEMMA PlacedOK ==
  ASSUME NEW u \in User, NEW h \in Shop, NEW k \in Key, NEW V \in SUBSET Sku
  PROVE  RowOK(NewOrder(u, h, k, V))
<1>1. /\ NewOrder(u, h, k, V).status = "pending_payment"
      /\ NewOrder(u, h, k, V).reason = "none"
      /\ NewOrder(u, h, k, V).key # NoKey
  BY ConstantsAssumption DEF NewOrder
<1>2. Stage(NewOrder(u, h, k, V)) = "pending_payment"
  BY DEF NewOrder, Stage
<1> QED
  BY <1>1, <1>2, ToldFirst DEF RowOK

LEMMA RowEffectOK ==
  ASSUME OrdersOK, NEW o \in Order, RowEffect(o), RowOK(orders[o])
  PROVE  RowOK(orders'[o])
<1>1. orders[o] \in OrderRow /\ {"paid", "shipped", "completed"} \subseteq OrderStatus
  BY DEF OrdersOK, OrderStatus
<1>2. CASE orders'[o] = orders[o]
  BY <1>2
<1>3. ASSUME NEW u \in User, NEW h \in Shop, NEW k \in Key, NEW V \in SUBSET Sku,
             orders'[o] = NewOrder(u, h, k, V)
      PROVE  RowOK(orders'[o])
  BY <1>3, PlacedOK
<1>4. ASSUME NEW why \in CancelReason, orders[o].status \in CancelFrom(why),
             orders'[o] = Cancelled(orders[o], why)
      PROVE  RowOK(orders'[o])
  BY <1>1, <1>4, CancelledOK
<1>5. CASE orders[o].status = "pending_payment" /\ orders'[o] = Moved(orders[o], "paid")
  BY <1>1, <1>5, MovedOK
<1>6. CASE orders[o].status = "paid" /\ orders'[o] = Moved(orders[o], "shipped")
  BY <1>1, <1>6, MovedOK
<1>7. CASE orders[o].status = "shipped" /\ orders'[o] = Moved(orders[o], "completed")
  BY <1>1, <1>7, MovedOK
<1>8. ASSUME orders[o].status \in {"paid", "shipped", "completed", "cancelled"},
             WasPaid(orders[o]), orders'[o] = Closed(orders[o])
      PROVE  RowOK(orders'[o])
  BY <1>1, <1>8, ClosedOK
<1> QED
  BY <1>2, <1>3, <1>4, <1>5, <1>6, <1>7, <1>8 DEF RowEffect

-----------------------------------------------------------------------------
(* Keys and payments: what rows owe to each other.                         *)

LEMMA RowStepUniqueKeys ==
  ASSUME OrdersOK, SessionsLinked, RowStep, UniqueUserKey(orders)
  PROVE  UniqueUserKey(orders')
<1>1. CASE PlaceStep
  BY <1>1 DEF PlaceStep
<1>2. ASSUME \A o \in Order : /\ orders'[o].user = orders[o].user
                              /\ orders'[o].key \in {orders[o].key, NoKey}
      PROVE  UniqueUserKey(orders')
  BY <1>2 DEF UniqueUserKey
<1>3. CASE NoRowStep \/ OpenStep \/ FailStep
  BY <1>3 DEF NoRowStep, OpenStep, FailStep
<1>4. \A o \in Order : orders[o] \in OrderRow
  BY DEF OrdersOK
<1>5. CASE CancelStep
  <2>1. PICK S \in SUBSET Order, why \in CancelReason :
          orders' = [o \in Order |-> IF o \in S THEN Cancelled(orders[o], why) ELSE orders[o]]
    BY <1>5 DEF CancelStep
  <2>2. ASSUME NEW o \in Order
        PROVE  /\ orders'[o].user = orders[o].user
               /\ orders'[o].key \in {orders[o].key, NoKey}
    BY <1>4, <2>1, CancelledType
  <2> QED
    BY <1>2, <2>2
<1>6. ASSUME NEW to \in OrderStatus,
             \A o \in Order : orders'[o] \in {orders[o], Moved(orders[o], to)}
      PROVE  UniqueUserKey(orders')
  <2>1. ASSUME NEW o \in Order
        PROVE  /\ orders'[o].user = orders[o].user
               /\ orders'[o].key \in {orders[o].key, NoKey}
    <3>1. /\ Moved(orders[o], to).user = orders[o].user
          /\ Moved(orders[o], to).key = orders[o].key
      BY <1>4, MovedType
    <3> QED
      BY <1>6, <3>1
  <2> QED
    BY <1>2, <2>1
<1>7. {"paid", "shipped", "completed"} \subseteq OrderStatus
  BY DEF OrderStatus
<1>8. CASE CompleteStep
  <2>1. \A o \in Order : orders'[o] \in {orders[o], Moved(orders[o], "completed")}
    BY <1>8 DEF CompleteStep
  <2> QED
    BY <1>6, <1>7, <2>1
<1>9. CASE ShipStep
  <2>1. \A o \in Order : orders'[o] \in {orders[o], Moved(orders[o], "shipped")}
    BY <1>9 DEF ShipStep, OrdersOK
  <2> QED
    BY <1>6, <1>7, <2>1
<1>10. CASE PayStep
  <2>1. \A o \in Order : orders'[o] \in {orders[o], Moved(orders[o], "paid")}
    BY <1>10 DEF PayStep, OrdersOK
  <2> QED
    BY <1>6, <1>7, <2>1
<1>11. CASE CloseStep
  <2>1. \A o \in Order : orders'[o] \in {orders[o], Closed(orders[o])}
    BY <1>11 DEF CloseStep, Closed, OrdersOK
  <2> QED
    BY <1>2, <1>4, <2>1, ClosedType
<1> QED
  BY <1>1, <1>3, <1>5, <1>8, <1>9, <1>10, <1>11 DEF RowStep

LEMMA MovedPaid ==
  ASSUME NEW row \in OrderRow, NEW to \in OrderStatus \ {"paid"}, RowOK(row),
         row.status \notin {"none", "closed"}
  PROVE  WasPaid(Moved(row, to)) <=> WasPaid(row)
<1> DEFINE new == Moved(row, to)
<1>1. /\ new \in OrderRow /\ new.status = to
      /\ new.history = Append(row.history, [from |-> row.status, to |-> to])
  BY MovedType
<1>2. to # "none" /\ Told(row)
  BY DEF OrderStatus, RowOK
<1> HIDE DEF new
<1>3. new.history = Append(row.history, [from |-> row.status, to |-> new.status])
  BY <1>1
<1>4. WasPaid(new) <=> WasPaid(row) \/ new.status = "paid"
  BY <1>1, <1>2, <1>3, ToldNext
<1> QED
  BY <1>1, <1>4 DEF new

LEMMA CancelledPaid ==
  ASSUME NEW row \in OrderRow, NEW why \in CancelReason, RowOK(row),
         row.status \notin {"none", "closed"}
  PROVE  WasPaid(Cancelled(row, why)) <=> WasPaid(row)
<1>1. Cancelled(row, why).history = Moved(row, "cancelled").history
  <2>1. Cancelled(row, why).history
          = Append(row.history, [from |-> row.status, to |-> "cancelled"])
    BY CancelledType
  <2>2. Moved(row, "cancelled").history
          = Append(row.history, [from |-> row.status, to |-> "cancelled"])
    BY Statuses, MovedType
  <2> QED
    BY <2>1, <2>2
<1>2. WasPaid(Cancelled(row, why)) <=> WasPaid(Moved(row, "cancelled"))
  BY <1>1 DEF WasPaid
<1>3. "cancelled" \in OrderStatus \ {"paid"}
  BY Statuses
<1> QED
  BY <1>2, <1>3, MovedPaid

\* A row that does not become paid in this step keeps its answer to whether it
\* was ever paid.
LEMMA PaidKept ==
  ASSUME OrdersOK, NEW o \in Order, RowOK(orders[o]), RowEffect(o),
         orders'[o].status = "paid" => orders[o].status = "paid"
  PROVE  WasPaid(orders'[o]) <=> WasPaid(orders[o])
<1>1. orders[o] \in OrderRow /\ {"shipped", "completed"} \subseteq OrderStatus \ {"paid"}
  BY DEF OrdersOK, OrderStatus
<1>2. CASE orders'[o] = orders[o]
  BY <1>2
<1>3. ASSUME orders[o].status = "none",
             NEW u \in User, NEW h \in Shop, NEW k \in Key, NEW V \in SUBSET Sku,
             orders'[o] = NewOrder(u, h, k, V)
      PROVE  WasPaid(orders'[o]) <=> WasPaid(orders[o])
  <2>1. ~WasPaid(orders[o])
    BY <1>3 DEF RowOK
  <2>2. ~WasPaid(orders'[o])
    BY <1>3, ToldFirst
  <2> QED
    BY <2>1, <2>2
<1>4. ASSUME NEW why \in CancelReason, orders[o].status \in CancelFrom(why),
             orders'[o] = Cancelled(orders[o], why)
      PROVE  WasPaid(orders'[o]) <=> WasPaid(orders[o])
  <2>1. orders[o].status \notin {"none", "closed"}
    BY <1>4 DEF CancelFrom, CancelReason
  <2> QED
    BY <1>1, <1>4, <2>1, CancelledPaid
<1>5. CASE orders[o].status = "pending_payment" /\ orders'[o] = Moved(orders[o], "paid")
  <2>1. orders'[o].status = "paid"
    <3>1. Moved(orders[o], "paid").status = "paid"
      BY <1>1, Statuses, MovedType
    <3> QED
      BY <1>5, <3>1
  <2> QED
    BY <1>5, <2>1
<1>6. CASE orders[o].status = "paid" /\ orders'[o] = Moved(orders[o], "shipped")
  BY <1>1, <1>6, MovedPaid
<1>7. CASE orders[o].status = "shipped" /\ orders'[o] = Moved(orders[o], "completed")
  BY <1>1, <1>7, MovedPaid
<1>8. ASSUME orders[o].status \in {"paid", "shipped", "completed", "cancelled"},
             WasPaid(orders[o]), orders'[o] = Closed(orders[o])
      PROVE  WasPaid(orders'[o]) <=> WasPaid(orders[o])
  BY <1>1, <1>8, ClosedOK
<1> QED
  BY <1>2, <1>3, <1>4, <1>5, <1>6, <1>7, <1>8 DEF RowEffect

\* Successful sessions and paid orders, and no two sessions of a kind.
SessionsTell ==
    \A o \in Order :
        /\ WasPaid(orders[o]) <=> SuccessfulSessions(o) # {}
        /\ \A p, q \in SuccessfulSessions(o) : p = q
        /\ \A p, q \in PendingSessions(o) : p = q

LEMMA RowStepSessionsTell ==
  ASSUME OrdersOK, SessionsOK, SessionsLinked, RowStep, SessionsTell,
         \A o \in Order : RowOK(orders[o])
  PROVE  SessionsTell'
<1>1. \A o \in Order : orders[o] \in OrderRow
  BY DEF OrdersOK
<1>2. \A o \in Order : RowEffect(o)
  BY RowStepEffect
<1>3. ASSUME UNCHANGED sessions,
             \A o \in Order : orders'[o].status = "paid" => orders[o].status = "paid"
      PROVE  SessionsTell'
  <2>1. \A o \in Order : WasPaid(orders'[o]) <=> WasPaid(orders[o])
    BY <1>2, <1>3, PaidKept
  <2>2. \A o \in Order : /\ SuccessfulSessions(o)' = SuccessfulSessions(o)
                         /\ PendingSessions(o)' = PendingSessions(o)
    BY <1>3 DEF SuccessfulSessions, PendingSessions
  <2> QED
    BY <2>1, <2>2 DEF SessionsTell
<1>4. CASE NoRowStep
  BY <1>3, <1>4 DEF NoRowStep
<1>5. CASE PlaceStep
  <2>1. PICK u \in User, k \in Key, V \in SUBSET Sku :
          /\ \E id \in RowsFor(V) : orders' = WithNewOrders(u, k, V, id)
          /\ UNCHANGED sessions
    BY <1>5 DEF PlaceStep
  <2>2. PICK id \in RowsFor(V) : orders' = WithNewOrders(u, k, V, id)
    BY <2>1
  <2>3. ASSUME NEW o \in Order, orders'[o].status = "paid" PROVE orders[o].status = "paid"
    <3>1. ASSUME NEW h \in Shop PROVE NewOrder(u, h, k, V).status # "paid"
      BY DEF NewOrder
    <3> QED
      BY <2>2, <2>3, <3>1, PlacedRow
  <2> QED
    BY <1>3, <2>1, <2>3
<1>6. CASE CancelStep
  <2>1. PICK S \in SUBSET Order, why \in CancelReason :
          /\ orders' = [o \in Order |-> IF o \in S THEN Cancelled(orders[o], why) ELSE orders[o]]
          /\ UNCHANGED sessions
    BY <1>6 DEF CancelStep
  <2>2. ASSUME NEW o \in Order, orders'[o].status = "paid" PROVE orders[o].status = "paid"
    <3>1. Cancelled(orders[o], why).status = "cancelled"
      BY <1>1, CancelledType
    <3> QED
      BY <2>1, <2>2, <3>1
  <2> QED
    BY <1>3, <2>1, <2>2
<1>7. CASE CompleteStep
  <2>1. PICK S \in SUBSET Order :
          /\ orders' = [o \in Order |-> IF o \in S THEN Moved(orders[o], "completed") ELSE orders[o]]
          /\ UNCHANGED sessions
    BY <1>7 DEF CompleteStep
  <2>2. ASSUME NEW o \in Order, orders'[o].status = "paid" PROVE orders[o].status = "paid"
    <3>1. Moved(orders[o], "completed").status = "completed"
      BY <1>1, Statuses, MovedType
    <3> QED
      BY <2>1, <2>2, <3>1
  <2> QED
    BY <1>3, <2>1, <2>2
<1>8. CASE ShipStep
  <2>1. PICK x \in Order :
          /\ orders' = [orders EXCEPT ![x] = Moved(orders[x], "shipped")]
          /\ UNCHANGED sessions
    BY <1>8 DEF ShipStep
  <2>2. ASSUME NEW o \in Order, orders'[o].status = "paid" PROVE orders[o].status = "paid"
    <3>1. Moved(orders[o], "shipped").status = "shipped"
      BY <1>1, Statuses, MovedType
    <3> QED
      BY <2>1, <2>2, <3>1 DEF OrdersOK
  <2> QED
    BY <1>3, <2>1, <2>2
<1>9. CASE OpenStep
  BY <1>9 DEF OpenStep, SessionsTell, SuccessfulSessions, PendingSessions, SessionsOK
<1>10. CASE FailStep
  BY <1>10 DEF FailStep, SessionsTell, SuccessfulSessions, PendingSessions, SessionsOK, SessionRow
<1>11. CASE PayStep
  <2>1. PICK p \in Session :
          /\ sessions[p].status = "pending"
          /\ orders[sessions[p].order].status = "pending_payment"
          /\ sessions' = [sessions EXCEPT ![p].status = "succeeded"]
          /\ orders' = [orders EXCEPT ![sessions[p].order]
                                        = Moved(orders[sessions[p].order], "paid")]
    BY <1>11 DEF PayStep
  <2>2. PICK x \in Order : x = sessions[p].order
    BY <2>1 DEF SessionsLinked
  <2>3. ~WasPaid(orders[x])
    BY <2>1, <2>2 DEF RowOK
  <2>4. WasPaid(orders'[x])
    <3>1. RowOK(Moved(orders[x], "paid"))
      BY <1>1, <2>1, <2>2, Statuses, MovedOK
    <3>2. Moved(orders[x], "paid").status = "paid"
      BY <1>1, <2>2, Statuses, MovedType
    <3>3. WasPaid(Moved(orders[x], "paid"))
      BY <3>1, <3>2 DEF RowOK
    <3> QED
      BY <2>1, <2>2, <3>3 DEF OrdersOK
  <2>5. \A q \in Session : /\ sessions'[q].order = sessions[q].order
                           /\ q # p => sessions'[q].status = sessions[q].status
    BY <2>1 DEF SessionsOK, SessionRow
  <2>6. sessions'[p].status = "succeeded"
    BY <2>1 DEF SessionsOK, SessionRow
  <2>7. SuccessfulSessions(x) = {}
    BY <2>2, <2>3 DEF SessionsTell
  <2>8. SuccessfulSessions(x)' = {p}
    BY <2>2, <2>5, <2>6, <2>7 DEF SuccessfulSessions
  <2>9. ASSUME NEW o \in Order, o # x
        PROVE  SuccessfulSessions(o)' = SuccessfulSessions(o) /\ orders'[o] = orders[o]
    BY <2>1, <2>2, <2>5, <2>9 DEF SuccessfulSessions, OrdersOK
  <2>10. \A o \in Order : PendingSessions(o)' \subseteq PendingSessions(o)
    BY <2>5, <2>6 DEF PendingSessions
  <2> DEFINE Tell(o) == /\ WasPaid(orders[o]) <=> SuccessfulSessions(o) # {}
                        /\ \A q, r \in SuccessfulSessions(o) : q = r
                        /\ \A q, r \in PendingSessions(o) : q = r
  <2>11. Tell(x)'
    BY <2>2, <2>4, <2>8, <2>10 DEF SessionsTell
  <2>12. ASSUME NEW o \in Order, o # x PROVE Tell(o)'
    <3>1. SuccessfulSessions(o)' = SuccessfulSessions(o) /\ orders'[o] = orders[o]
      BY <2>9, <2>12
    <3>2. Tell(o) /\ PendingSessions(o)' \subseteq PendingSessions(o)
      BY <2>10 DEF SessionsTell
    <3> QED
      BY <3>1, <3>2
  <2> QED
    BY <2>11, <2>12 DEF SessionsTell
<1>12. CASE CloseStep
  <2>1. PICK x \in Order :
          /\ orders' = [orders EXCEPT ![x] = Closed(orders[x])]
          /\ UNCHANGED sessions
    BY <1>12 DEF CloseStep, Closed
  <2>2. ASSUME NEW o \in Order, orders'[o].status = "paid" PROVE orders[o].status = "paid"
    BY <1>1, <2>1, <2>2, ClosedType DEF OrdersOK
  <2> QED
    BY <1>3, <2>1, <2>2
<1> QED
  BY <1>4, <1>5, <1>6, <1>7, <1>8, <1>9, <1>10, <1>11, <1>12 DEF RowStep

-----------------------------------------------------------------------------
(* The stock ledger.                                                       *)

\* Who holds how much of a SKU, and which orders have come how far.
Amounts(table, s) == [o \in Order |-> table[o].items[s]]

AtStage(table, T) == {o \in Order : Stage(table[o]) \in T}

OpenStages == {"pending_payment", "paid", "shipped"}

\* StockLedger, of any tables of orders and SKUs.
Ledger(table, rows) ==
    \A s \in Sku :
        /\ rows[s].locked = SumFunctionOnSet(Amounts(table, s), AtStage(table, OpenStages))
        /\ rows[s].sold = SumFunctionOnSet(Amounts(table, s), AtStage(table, {"completed"}))
        /\ rows[s].stock = rows[s].logged

Conserved(old, new) ==
    \A s \in Sku : new[s].stock + new[s].locked + new[s].sold
                   = old[s].stock + old[s].locked + old[s].sold

LEMMA LedgerIsStockLedger ==
  /\ StockLedger <=> Ledger(orders, skus)
  /\ StockLedger' <=> Ledger(orders', skus')
<1>1. Open = AtStage(orders, OpenStages) /\ Open' = AtStage(orders', OpenStages)
  BY DEF Open, AtStage, OpenStages, Stage
<1>2. /\ {o \in Order : Stage(orders[o]) = "completed"} = AtStage(orders, {"completed"})
      /\ {o \in Order : Stage(orders'[o]) = "completed"} = AtStage(orders', {"completed"})
  BY DEF AtStage
<1>3. StockLedger <=> Ledger(orders, skus)
  BY <1>1, <1>2 DEF StockLedger, Ledger, Units, Amounts
<1>4. StockLedger' <=> Ledger(orders', skus')
  BY <1>1, <1>2 DEF StockLedger, Ledger, Units, Amounts, Stage
<1> QED  BY <1>3, <1>4

LEMMA AmountsType ==
  ASSUME NEW table \in [Order -> OrderRow], NEW s \in Sku, NEW S \in SUBSET Order
  PROVE  /\ Summable(Amounts(table, s), S)
         /\ \A o \in Order : Amounts(table, s)[o] = table[o].items[s] /\ table[o].items[s] \in Nat
         /\ SumFunctionOnSet(Amounts(table, s), S) \in Nat
<1>1. \A o \in Order : Amounts(table, s)[o] = table[o].items[s] /\ table[o].items[s] \in Nat
  BY DEF Amounts, OrderRow
<1>2. IsFiniteSet(S)
  BY ConstantsAssumption, FS_Subset
<1>3. SumFunctionOnSet(Amounts(table, s), S) \in Nat
  BY <1>1, <1>2, SumNat
<1> QED  BY <1>1, <1>2, <1>3 DEF Summable

\* Orders that keep their items count for the same.
LEMMA AmountsSame ==
  ASSUME NEW A \in [Order -> OrderRow], NEW B \in [Order -> OrderRow], NEW s \in Sku,
         NEW S \in SUBSET Order, \A o \in S : B[o].items = A[o].items
  PROVE  SumFunctionOnSet(Amounts(B, s), S) = SumFunctionOnSet(Amounts(A, s), S)
<1>1. Summable(Amounts(B, s), S)
  BY AmountsType
<1>2. \A o \in S : Amounts(B, s)[o] = Amounts(A, s)[o]
  BY DEF Amounts
<1> QED  BY <1>1, <1>2, SumSame

\* The orders of S leave their stage: what was counted there is counted now
\* without them.
LEMMA AmountsLeave ==
  ASSUME NEW A \in [Order -> OrderRow], NEW B \in [Order -> OrderRow], NEW s \in Sku,
         \A o \in Order : B[o].items = A[o].items,
         NEW O \in SUBSET Order, NEW S \in SUBSET O
  PROVE  /\ SumFunctionOnSet(Amounts(A, s), O)
              = SumFunctionOnSet(Amounts(A, s), S) + SumFunctionOnSet(Amounts(B, s), O \ S)
         /\ SumFunctionOnSet(Amounts(A, s), O) \in Nat
         /\ SumFunctionOnSet(Amounts(A, s), S) \in Nat
         /\ SumFunctionOnSet(Amounts(B, s), O \ S) \in Nat
<1>1. Summable(Amounts(A, s), O)
  BY AmountsType
<1>2. SumFunctionOnSet(Amounts(A, s), O)
        = SumFunctionOnSet(Amounts(A, s), S) + SumFunctionOnSet(Amounts(A, s), O \ S)
  BY <1>1, SumSplit
<1>3. SumFunctionOnSet(Amounts(B, s), O \ S) = SumFunctionOnSet(Amounts(A, s), O \ S)
  BY AmountsSame
<1> QED  BY <1>2, <1>3, AmountsType

\* An SKU row with some of its columns overwritten.
Restocked(row, a, b, c) == [row EXCEPT !.stock = a, !.locked = b, !.logged = c]

Resold(row, a, b) == [row EXCEPT !.locked = a, !.sold = b]

LEMMA RestockedType ==
  ASSUME NEW row \in SkuRow, NEW a \in Nat, NEW b \in Nat, NEW c \in Int
  PROVE  /\ Restocked(row, a, b, c) \in SkuRow
         /\ Restocked(row, a, b, c).stock = a /\ Restocked(row, a, b, c).locked = b
         /\ Restocked(row, a, b, c).sold = row.sold /\ Restocked(row, a, b, c).logged = c
<1> DEFINE m == [row EXCEPT !.stock = a]
           n == [m EXCEPT !.locked = b]
           l == [n EXCEPT !.logged = c]
<1>1. m \in SkuRow /\ m.stock = a /\ m.sold = row.sold
  BY DEF SkuRow
<1>2. Restocked(row, a, b, c) = l
  BY DEF Restocked
<1> HIDE DEF m
<1>3. n \in SkuRow /\ n.stock = a /\ n.locked = b /\ n.sold = row.sold
  BY <1>1 DEF SkuRow
<1> HIDE DEF n
<1>4. l \in SkuRow /\ l.stock = a /\ l.locked = b /\ l.sold = row.sold /\ l.logged = c
  BY <1>3 DEF SkuRow
<1> HIDE DEF l
<1> QED  BY <1>2, <1>4

LEMMA ResoldType ==
  ASSUME NEW row \in SkuRow, NEW a \in Nat, NEW b \in Nat
  PROVE  /\ Resold(row, a, b) \in SkuRow
         /\ Resold(row, a, b).stock = row.stock /\ Resold(row, a, b).locked = a
         /\ Resold(row, a, b).sold = b /\ Resold(row, a, b).logged = row.logged
<1> DEFINE k == [row EXCEPT !.locked = a]
           j == [k EXCEPT !.sold = b]
<1>1. k \in SkuRow /\ k.locked = a /\ k.stock = row.stock /\ k.logged = row.logged
  BY DEF SkuRow
<1>2. Resold(row, a, b) = j
  BY DEF Resold
<1> HIDE DEF k
<1>3. /\ j \in SkuRow /\ j.locked = a /\ j.stock = row.stock /\ j.logged = row.logged
      /\ j.sold = b
  BY <1>1 DEF SkuRow
<1> HIDE DEF j
<1> QED  BY <1>2, <1>3

LEMMA ReleasedType ==
  ASSUME NEW row \in SkuRow, NEW q \in Nat, q <= row.locked
  PROVE  /\ Released(row, q) \in SkuRow
         /\ Released(row, q).stock = row.stock + q
         /\ Released(row, q).locked = row.locked - q
         /\ Released(row, q).sold = row.sold
         /\ Released(row, q).logged = row.logged + q
<1>1. /\ row.stock + q \in Nat /\ row.locked - q \in Nat /\ row.logged + q \in Int
      /\ Minus(row.locked, q) = row.locked - q
  BY DEF SkuRow, Minus
<1>2. PICK a \in Nat, b \in Nat, c \in Int :
        a = row.stock + q /\ b = row.locked - q /\ c = row.logged + q
  BY <1>1
<1>3. Released(row, q) = Restocked(row, a, b, c)
  BY <1>1, <1>2 DEF Released, Restocked
<1>4. /\ Restocked(row, a, b, c) \in SkuRow
      /\ Restocked(row, a, b, c).stock = a /\ Restocked(row, a, b, c).locked = b
      /\ Restocked(row, a, b, c).sold = row.sold /\ Restocked(row, a, b, c).logged = c
  BY RestockedType
<1> QED  BY <1>2, <1>3, <1>4

LEMMA FinalizedType ==
  ASSUME NEW row \in SkuRow, NEW q \in Nat, q <= row.locked
  PROVE  /\ Finalized(row, q) \in SkuRow
         /\ Finalized(row, q).stock = row.stock
         /\ Finalized(row, q).locked = row.locked - q
         /\ Finalized(row, q).sold = row.sold + q
         /\ Finalized(row, q).logged = row.logged
<1>1. /\ row.locked - q \in Nat /\ row.sold + q \in Nat
      /\ Minus(row.locked, q) = row.locked - q
  BY DEF SkuRow, Minus
<1>2. PICK a \in Nat, b \in Nat : a = row.locked - q /\ b = row.sold + q
  BY <1>1
<1>3. Finalized(row, q) = Resold(row, a, b)
  BY <1>1, <1>2 DEF Finalized, Resold
<1>4. /\ Resold(row, a, b) \in SkuRow
      /\ Resold(row, a, b).stock = row.stock /\ Resold(row, a, b).locked = a
      /\ Resold(row, a, b).sold = b /\ Resold(row, a, b).logged = row.logged
  BY ResoldType
<1> QED  BY <1>2, <1>3, <1>4

LEMMA LockedType ==
  ASSUME NEW row \in SkuRow, NEW q \in Nat, q <= row.stock
  PROVE  /\ Locked(row, q) \in SkuRow
         /\ Locked(row, q).stock = row.stock - q
         /\ Locked(row, q).locked = row.locked + q
         /\ Locked(row, q).sold = row.sold
         /\ Locked(row, q).logged = row.logged - q
<1>1. row.stock - q \in Nat /\ row.locked + q \in Nat /\ row.logged - q \in Int
  BY DEF SkuRow
<1>2. PICK a \in Nat, b \in Nat, c \in Int :
        a = row.stock - q /\ b = row.locked + q /\ c = row.logged - q
  BY <1>1
<1>3. Locked(row, q) = Restocked(row, a, b, c)
  BY <1>2 DEF Locked, Restocked
<1>4. /\ Restocked(row, a, b, c) \in SkuRow
      /\ Restocked(row, a, b, c).stock = a /\ Restocked(row, a, b, c).locked = b
      /\ Restocked(row, a, b, c).sold = row.sold /\ Restocked(row, a, b, c).logged = c
  BY RestockedType
<1> QED  BY <1>2, <1>3, <1>4

\* _cancel_common of the orders of S.
LEMMA CancelLedger ==
  ASSUME NEW A \in [Order -> OrderRow], NEW B \in [Order -> OrderRow],
         NEW x \in [Sku -> SkuRow], Ledger(A, x), NEW S \in SUBSET Order,
         \A o \in S : Stage(A[o]) \in OpenStages /\ Stage(B[o]) = "cancelled",
         \A o \in Order : B[o].items = A[o].items,
         \A o \in Order \ S : Stage(B[o]) = Stage(A[o]),
         NEW y, \A s \in Sku : y[s] = Released(x[s], SumFunctionOnSet(Amounts(A, s), S))
  PROVE  (\A s \in Sku : y[s] \in SkuRow) /\ Ledger(B, y) /\ Conserved(x, y)
<1> DEFINE O == AtStage(A, OpenStages)
           C == AtStage(A, {"completed"})
<1>1. O \in SUBSET Order /\ C \in SUBSET Order /\ S \in SUBSET O
  BY DEF AtStage
<1>2. AtStage(B, OpenStages) = O \ S /\ AtStage(B, {"completed"}) = C
  BY DEF AtStage, OpenStages
<1> HIDE DEF O, C
<1>3. ASSUME NEW s \in Sku
      PROVE  /\ y[s] \in SkuRow
             /\ y[s].locked = SumFunctionOnSet(Amounts(B, s), O \ S)
             /\ y[s].sold = SumFunctionOnSet(Amounts(B, s), C)
             /\ y[s].stock = y[s].logged
             /\ y[s].stock + y[s].locked + y[s].sold = x[s].stock + x[s].locked + x[s].sold
  <2>1. PICK q : q = SumFunctionOnSet(Amounts(A, s), S)
    OBVIOUS
  <2>2. x[s] \in SkuRow /\ x[s].locked = SumFunctionOnSet(Amounts(A, s), O)
        /\ x[s].sold = SumFunctionOnSet(Amounts(A, s), C) /\ x[s].stock = x[s].logged
    BY DEF Ledger, O, C
  <2>3. /\ x[s].locked = q + SumFunctionOnSet(Amounts(B, s), O \ S)
        /\ q \in Nat /\ SumFunctionOnSet(Amounts(B, s), O \ S) \in Nat
    <3>1. SumFunctionOnSet(Amounts(A, s), O)
            = SumFunctionOnSet(Amounts(A, s), S) + SumFunctionOnSet(Amounts(B, s), O \ S)
      BY <1>1, AmountsLeave
    <3>2. SumFunctionOnSet(Amounts(A, s), S) \in Nat
      BY AmountsType
    <3>3. O \ S \in SUBSET Order
      BY <1>1
    <3>4. SumFunctionOnSet(Amounts(B, s), O \ S) \in Nat
      BY <3>3, AmountsType
    <3> QED  BY <2>1, <2>2, <3>1, <3>2, <3>4
  <2>4. SumFunctionOnSet(Amounts(B, s), C) = x[s].sold
    BY <1>1, <2>2, AmountsSame
  <2>5. y[s] = Released(x[s], q)
    BY <2>1
  <2>6. /\ y[s] \in SkuRow /\ y[s].stock = x[s].stock + q
        /\ y[s].locked = x[s].locked - q /\ y[s].sold = x[s].sold
        /\ y[s].logged = x[s].logged + q
    BY <2>2, <2>3, <2>5, ReleasedType
  <2>7. x[s].stock \in Nat /\ x[s].locked \in Nat /\ x[s].sold \in Nat
    BY <2>2 DEF SkuRow
  <2> QED  BY <2>2, <2>3, <2>4, <2>6, <2>7
<1> QED  BY <1>2, <1>3 DEF Ledger, Conserved

\* confirm_receipt and _system_complete of the orders of S.
LEMMA CompleteLedger ==
  ASSUME NEW A \in [Order -> OrderRow], NEW B \in [Order -> OrderRow],
         NEW x \in [Sku -> SkuRow], Ledger(A, x), NEW S \in SUBSET Order,
         \A o \in S : Stage(A[o]) \in OpenStages /\ Stage(B[o]) = "completed",
         \A o \in Order : B[o].items = A[o].items,
         \A o \in Order \ S : Stage(B[o]) = Stage(A[o]),
         NEW y, \A s \in Sku : y[s] = Finalized(x[s], SumFunctionOnSet(Amounts(A, s), S))
  PROVE  (\A s \in Sku : y[s] \in SkuRow) /\ Ledger(B, y) /\ Conserved(x, y)
<1> DEFINE O == AtStage(A, OpenStages)
           C == AtStage(A, {"completed"})
           D == AtStage(B, {"completed"})
<1>1. /\ O \in SUBSET Order /\ C \in SUBSET Order /\ S \in SUBSET O
      /\ D \in SUBSET Order /\ S \in SUBSET D /\ D \ S = C
  BY DEF AtStage, OpenStages
<1>2. AtStage(B, OpenStages) = O \ S
  BY DEF AtStage, OpenStages
<1> HIDE DEF O, C, D
<1>3. ASSUME NEW s \in Sku
      PROVE  /\ y[s] \in SkuRow
             /\ y[s].locked = SumFunctionOnSet(Amounts(B, s), O \ S)
             /\ y[s].sold = SumFunctionOnSet(Amounts(B, s), D)
             /\ y[s].stock = y[s].logged
             /\ y[s].stock + y[s].locked + y[s].sold = x[s].stock + x[s].locked + x[s].sold
  <2>1. PICK q : q = SumFunctionOnSet(Amounts(A, s), S)
    OBVIOUS
  <2>2. x[s] \in SkuRow /\ x[s].locked = SumFunctionOnSet(Amounts(A, s), O)
        /\ x[s].sold = SumFunctionOnSet(Amounts(A, s), C) /\ x[s].stock = x[s].logged
    BY DEF Ledger, O, C
  <2>3. /\ x[s].locked = q + SumFunctionOnSet(Amounts(B, s), O \ S)
        /\ q \in Nat /\ SumFunctionOnSet(Amounts(B, s), O \ S) \in Nat
    <3>1. SumFunctionOnSet(Amounts(A, s), O)
            = SumFunctionOnSet(Amounts(A, s), S) + SumFunctionOnSet(Amounts(B, s), O \ S)
      BY <1>1, AmountsLeave
    <3>2. SumFunctionOnSet(Amounts(A, s), S) \in Nat
      BY AmountsType
    <3>3. O \ S \in SUBSET Order
      BY <1>1
    <3>4. SumFunctionOnSet(Amounts(B, s), O \ S) \in Nat
      BY <3>3, AmountsType
    <3> QED  BY <2>1, <2>2, <3>1, <3>2, <3>4
  <2>4. SumFunctionOnSet(Amounts(B, s), D) = q + x[s].sold
    <3>1. SumFunctionOnSet(Amounts(B, s), D)
            = SumFunctionOnSet(Amounts(B, s), S) + SumFunctionOnSet(Amounts(A, s), D \ S)
      BY <1>1, AmountsLeave
    <3>2. SumFunctionOnSet(Amounts(B, s), S) = q
      BY <2>1, AmountsSame
    <3> QED  BY <1>1, <2>2, <3>1, <3>2
  <2>5. y[s] = Finalized(x[s], q)
    BY <2>1
  <2>6. /\ y[s] \in SkuRow /\ y[s].stock = x[s].stock
        /\ y[s].locked = x[s].locked - q /\ y[s].sold = x[s].sold + q
        /\ y[s].logged = x[s].logged
    BY <2>2, <2>3, <2>5, FinalizedType
  <2>7. x[s].stock \in Nat /\ x[s].locked \in Nat /\ x[s].sold \in Nat
    BY <2>2 DEF SkuRow
  <2> QED  BY <2>2, <2>3, <2>4, <2>6, <2>7
<1> QED  BY <1>2, <1>3 DEF Ledger, Conserved, D

\* Orders that move among the stages that hold goods.
LEMMA SameLedger ==
  ASSUME NEW A \in [Order -> OrderRow], NEW B \in [Order -> OrderRow],
         NEW x, Ledger(A, x),
         \A o \in Order : /\ B[o].items = A[o].items
                          /\ Stage(B[o]) \in OpenStages <=> Stage(A[o]) \in OpenStages
                          /\ Stage(B[o]) = "completed" <=> Stage(A[o]) = "completed"
  PROVE  Ledger(B, x)
<1>1. /\ AtStage(B, OpenStages) = AtStage(A, OpenStages)
      /\ AtStage(B, {"completed"}) = AtStage(A, {"completed"})
      /\ AtStage(A, OpenStages) \in SUBSET Order
      /\ AtStage(A, {"completed"}) \in SUBSET Order
  BY DEF AtStage
<1> QED  BY <1>1, AmountsSame DEF Ledger

LEMMA NewOrderStage ==
  ASSUME NEW u, NEW h, NEW k, NEW V
  PROVE  /\ Stage(NewOrder(u, h, k, V)) = "pending_payment"
         /\ \A s \in Sku : NewOrder(u, h, k, V).items[s]
                            = IF s \in V /\ ShopOf[s] = h THEN cart[u][s] ELSE 0
<1> DEFINE e == [from |-> "none", to |-> "pending_payment"]
<1>1. /\ NewOrder(u, h, k, V).history = <<e>>
      /\ NewOrder(u, h, k, V).items
           = [s \in Sku |-> IF s \in V /\ ShopOf[s] = h THEN cart[u][s] ELSE 0]
  BY DEF NewOrder
<1>2. e.to = "pending_payment"
  OBVIOUS
<1> HIDE DEF e
<1>3. <<e>> # <<>> /\ <<e>>[Len(<<e>>)] = e
  OBVIOUS
<1> QED  BY <1>1, <1>2, <1>3 DEF Stage

\* The rows a checkout inserts, and what they order of each SKU.
LEMMA PlacedAmounts ==
  ASSUME OrdersOK, NEW u \in User, NEW k \in Key, NEW V \in SUBSET Sku, NEW id \in RowsFor(V),
         \A s \in V : cart[u][s] \in Nat,
         \A o \in Order : RowOK(orders[o]),
         NEW B, B = WithNewOrders(u, k, V, id), B \in [Order -> OrderRow]
  PROVE  \E R \in SUBSET Order :
            /\ \A o \in R : Stage(orders[o]) = "none" /\ Stage(B[o]) = "pending_payment"
            /\ \A o \in Order \ R : B[o] = orders[o]
            /\ \A s \in Sku : SumFunctionOnSet(Amounts(B, s), R)
                                = IF s \in V THEN cart[u][s] ELSE 0
<1> DEFINE shops == {ShopOf[s] : s \in V}
           R == {id[h] : h \in shops}
<1>1. /\ id \in [shops -> Unused]
      /\ \A g, h \in shops : id[g] = id[h] => g = h
  BY DEF RowsFor
<1>2. R \in SUBSET Order /\ \A o \in R : orders[o].status = "none"
  BY <1>1 DEF Unused
<1>3. ASSUME NEW h \in shops PROVE B[id[h]] = NewOrder(u, h, k, V)
  <2>1. id[h] \in Order /\ h \in DOMAIN id
    BY <1>1, <1>2
  <2>2. (CHOOSE g \in DOMAIN id : id[g] = id[h]) = h
    BY <1>1, <2>1
  <2> QED  BY <2>1, <2>2 DEF WithNewOrders
<1>4. ASSUME NEW o \in Order \ R PROVE B[o] = orders[o]
  <2>1. ~ \E h \in DOMAIN id : id[h] = o
    BY <1>1
  <2> QED  BY <2>1 DEF WithNewOrders
<1>5. ASSUME NEW o \in R PROVE Stage(orders[o]) = "none" /\ Stage(B[o]) = "pending_payment"
  <2>1. PICK h \in shops : o = id[h]
    OBVIOUS
  <2>2. Stage(B[o]) = "pending_payment"
    BY <1>3, <2>1, NewOrderStage
  <2>3. Told(orders[o]) /\ orders[o] \in OrderRow /\ orders[o].status = "none"
    BY <1>2 DEF RowOK, OrdersOK
  <2> QED  BY <2>2, <2>3, StageIsStatus
<1>6. ASSUME NEW s \in Sku
      PROVE  SumFunctionOnSet(Amounts(B, s), R) = IF s \in V THEN cart[u][s] ELSE 0
  <2>1. Summable(Amounts(B, s), R) /\ IsFiniteSet(R)
    BY <1>2, AmountsType DEF Summable
  <2>2. ASSUME NEW h \in shops
        PROVE  Amounts(B, s)[id[h]] = IF s \in V /\ ShopOf[s] = h THEN cart[u][s] ELSE 0
    <3>1. id[h] \in Order
      BY <1>1, <1>2
    <3>2. Amounts(B, s)[id[h]] = NewOrder(u, h, k, V).items[s]
      BY <1>3, <3>1 DEF Amounts
    <3> QED  BY <3>2, NewOrderStage
  <2>3. CASE s \in V
    <3>1. PICK r : r = id[ShopOf[s]]
      OBVIOUS
    <3>2. r \in R /\ Amounts(B, s)[r] = cart[u][s]
      BY <2>2, <2>3, <3>1
    <3>3. \A o \in R \ {r} : Amounts(B, s)[o] = 0
      BY <2>2, <3>1
    <3> HIDE DEF R
    <3>4. SumFunctionOnSet(Amounts(B, s), R) = Amounts(B, s)[r]
      BY <2>1, <3>2, <3>3, SumOne
    <3> QED  BY <2>3, <3>2, <3>4
  <2>4. CASE s \notin V
    <3>1. \A o \in R : Amounts(B, s)[o] = 0
      BY <2>2, <2>4
    <3> HIDE DEF R
    <3> QED  BY <2>1, <2>4, <3>1, SumZero
  <2> QED  BY <2>3, <2>4
<1> HIDE DEF R
<1> QED  BY <1>2, <1>4, <1>5, <1>6

\* create: the goods of the new orders are locked.
LEMMA PlaceLedger ==
  ASSUME OrdersOK, NEW u \in User, NEW k \in Key, NEW V \in SUBSET Sku, NEW id \in RowsFor(V),
         NEW x \in [Sku -> SkuRow], Ledger(orders, x),
         \A s \in V : cart[u][s] \in Nat /\ cart[u][s] <= x[s].stock,
         \A o \in Order : RowOK(orders[o]),
         NEW B, B = WithNewOrders(u, k, V, id), B \in [Order -> OrderRow],
         NEW y, y = [s \in Sku |-> IF s \in V THEN Locked(x[s], cart[u][s]) ELSE x[s]]
  PROVE  y \in [Sku -> SkuRow] /\ Ledger(B, y) /\ Conserved(x, y)
<1> DEFINE O == AtStage(orders, OpenStages)
           C == AtStage(orders, {"completed"})
<1>1. PICK R \in SUBSET Order :
            /\ \A o \in R : Stage(orders[o]) = "none" /\ Stage(B[o]) = "pending_payment"
            /\ \A o \in Order \ R : B[o] = orders[o]
            /\ \A s \in Sku : SumFunctionOnSet(Amounts(B, s), R)
                                = IF s \in V THEN cart[u][s] ELSE 0
  BY PlacedAmounts
<1> DEFINE P == O \cup R
<1>2. /\ O \in SUBSET Order /\ C \in SUBSET Order /\ P \in SUBSET Order
      /\ O \cap R = {} /\ C \cap R = {}
      /\ AtStage(B, OpenStages) = P /\ AtStage(B, {"completed"}) = C
  BY <1>1 DEF AtStage, OpenStages
<1>3. P \ R = O /\ R \in SUBSET P
  BY <1>2
<1> HIDE DEF O, C, P
<1>4. orders \in [Order -> OrderRow]
  BY DEF OrdersOK
<1>5. ASSUME NEW s \in Sku
      PROVE  /\ y[s] \in SkuRow
             /\ y[s].locked = SumFunctionOnSet(Amounts(B, s), P)
             /\ y[s].sold = SumFunctionOnSet(Amounts(B, s), C)
             /\ y[s].stock = y[s].logged
             /\ y[s].stock + y[s].locked + y[s].sold = x[s].stock + x[s].locked + x[s].sold
  <2>1. PICK q : q = SumFunctionOnSet(Amounts(B, s), R)
    OBVIOUS
  <2>2. /\ x[s] \in SkuRow /\ x[s].locked = SumFunctionOnSet(Amounts(orders, s), O)
        /\ x[s].sold = SumFunctionOnSet(Amounts(orders, s), C) /\ x[s].stock = x[s].logged
    BY DEF Ledger, O, C
  <2>3. /\ SumFunctionOnSet(Amounts(B, s), O) = x[s].locked
        /\ SumFunctionOnSet(Amounts(B, s), C) = x[s].sold
    <3>1. \A o \in O : B[o].items = orders[o].items
      BY <1>1, <1>2
    <3>2. \A o \in C : B[o].items = orders[o].items
      BY <1>1, <1>2
    <3>3. SumFunctionOnSet(Amounts(B, s), O) = SumFunctionOnSet(Amounts(orders, s), O)
      BY <1>2, <1>4, <3>1, AmountsSame
    <3>4. SumFunctionOnSet(Amounts(B, s), C) = SumFunctionOnSet(Amounts(orders, s), C)
      BY <1>2, <1>4, <3>2, AmountsSame
    <3> QED  BY <2>2, <3>3, <3>4
  <2>4. SumFunctionOnSet(Amounts(B, s), P) = q + x[s].locked
    <3>1. Summable(Amounts(B, s), P)
      BY <1>2, AmountsType
    <3>2. SumFunctionOnSet(Amounts(B, s), P)
            = SumFunctionOnSet(Amounts(B, s), R) + SumFunctionOnSet(Amounts(B, s), P \ R)
      BY <1>3, <3>1, SumSplit
    <3> QED  BY <1>3, <2>1, <2>3, <3>2
  <2>5. /\ x[s].stock \in Nat /\ x[s].locked \in Nat /\ x[s].sold \in Nat /\ x[s].logged \in Int
    BY <2>2 DEF SkuRow
  <2>6. CASE s \in V
    <3>1. q = cart[u][s] /\ q \in Nat /\ q <= x[s].stock
      BY <1>1, <2>1, <2>6
    <3>2. y[s] = Locked(x[s], q)
      BY <2>6, <3>1
    <3>3. /\ y[s] \in SkuRow /\ y[s].stock = x[s].stock - q
          /\ y[s].locked = x[s].locked + q /\ y[s].sold = x[s].sold
          /\ y[s].logged = x[s].logged - q
      BY <2>2, <3>1, <3>2, LockedType
    <3> QED  BY <2>2, <2>3, <2>4, <2>5, <3>1, <3>3
  <2>7. CASE s \notin V
    <3>1. q = 0 /\ y[s] = x[s]
      BY <1>1, <2>1, <2>7
    <3> QED  BY <2>2, <2>3, <2>4, <2>5, <3>1
  <2> QED  BY <2>6, <2>7
<1> QED  BY <1>2, <1>5 DEF Ledger, Conserved

\* adjust: the stock and its log move together.
LEMMA AdjustLedger ==
  ASSUME SkusOK, StockLedger, StockStep, UNCHANGED orders
  PROVE  SkusOK' /\ StockLedger'
<1>1. PICK s \in Sku, d \in -MaxUnits..MaxUnits :
        /\ skus[s].stock + d >= 0
        /\ skus' = [skus EXCEPT ![s] = Adjusted(skus[s], d)]
  BY DEF StockStep, Adjust
<1>2. PICK row : row = skus[s]
  OBVIOUS
<1>3. row \in SkuRow /\ d \in Int
  BY <1>2, ConstantsAssumption DEF SkusOK
<1>4. PICK a \in Nat, b \in Nat, c \in Int :
        a = row.stock + d /\ b = row.locked /\ c = row.logged + d
  BY <1>1, <1>2, <1>3 DEF SkuRow
<1>5. Adjusted(row, d) = Restocked(row, a, b, c)
  <2>1. row = [row EXCEPT !.locked = b]
    BY <1>3, <1>4 DEF SkuRow
  <2> QED  BY <1>3, <1>4, <2>1 DEF Adjusted, Restocked, SkuRow
<1>6. PICK new : new = Adjusted(row, d)
  OBVIOUS
<1>7. /\ new \in SkuRow /\ new.stock = row.stock + d /\ new.logged = row.logged + d
      /\ new.locked = row.locked /\ new.sold = row.sold
  <2>1. /\ Restocked(row, a, b, c) \in SkuRow
        /\ Restocked(row, a, b, c).stock = a /\ Restocked(row, a, b, c).locked = b
        /\ Restocked(row, a, b, c).sold = row.sold /\ Restocked(row, a, b, c).logged = c
    BY <1>3, RestockedType
  <2> QED  BY <1>4, <1>5, <1>6, <2>1
<1>8. Ledger(orders, skus) /\ skus \in [Sku -> SkuRow] /\ skus' = [skus EXCEPT ![s] = new]
  BY <1>1, <1>2, <1>6, LedgerIsStockLedger DEF SkusOK
<1>9. SkusOK'
  BY <1>7, <1>8 DEF SkusOK
<1>10. Ledger(orders', skus')
  BY <1>2, <1>3, <1>7, <1>8 DEF Ledger, SkuRow
<1> QED  BY <1>9, <1>10, LedgerIsStockLedger

\* A history row tells of a new stage.
LEMMA StageNext ==
  ASSUME NEW row \in OrderRow, NEW new, NEW e,
         e \in [from : OrderStatus \cup {"none"}, to : OrderStatus],
         new.history = Append(row.history, e)
  PROVE  Stage(new) = e.to
<1> DEFINE H == [from : OrderStatus \cup {"none"}, to : OrderStatus]
           h == row.history
           k == Append(h, e)
<1>1. h \in Seq(H) /\ e \in H
  BY DEF OrderRow
<1> HIDE DEF H, h
<1>2. k # <<>> /\ k[Len(k)] = e
  BY <1>1
<1> QED  BY <1>2 DEF Stage, h

LEMMA MovedStage ==
  ASSUME NEW row \in OrderRow, NEW to \in OrderStatus
  PROVE  Stage(Moved(row, to)) = to /\ Moved(row, to).items = row.items
<1>1. PICK e : e = [from |-> row.status, to |-> to]
  OBVIOUS
<1>2. e \in [from : OrderStatus \cup {"none"}, to : OrderStatus] /\ e.to = to
  BY <1>1 DEF OrderRow
<1>3. Moved(row, to).history = Append(row.history, e)
  BY <1>1, MovedType
<1>4. Moved(row, to).items = row.items
  BY DEF Moved, OrderRow
<1> QED  BY <1>2, <1>3, <1>4, StageNext

LEMMA CancelledStage ==
  ASSUME NEW row \in OrderRow, NEW why \in CancelReason
  PROVE  Stage(Cancelled(row, why)) = "cancelled" /\ Cancelled(row, why).items = row.items
<1>1. PICK e : e = [from |-> row.status, to |-> "cancelled"]
  OBVIOUS
<1>2. e \in [from : OrderStatus \cup {"none"}, to : OrderStatus] /\ e.to = "cancelled"
  BY <1>1 DEF OrderRow, OrderStatus
<1>3. Cancelled(row, why).history = Append(row.history, e)
  BY <1>1, CancelledType
<1>4. Cancelled(row, why).items = row.items
  <2>1. PICK m : m = Moved(row, "cancelled")
    OBVIOUS
  <2>2. m \in OrderRow /\ m.items = row.items
    BY <2>1, MovedType, MovedStage, Statuses
  <2>3. Cancelled(row, why) = [m EXCEPT !.reason = why, !.key = NoKey]
    BY <2>1 DEF Cancelled
  <2> QED  BY <2>2, <2>3 DEF OrderRow
<1> QED  BY <1>2, <1>3, <1>4, StageNext

\* Every step keeps the ledger, and one that changes orders moves units
\* between the columns of a SKU only.
LEMMA RowStepStock ==
  ASSUME OrdersOK, OrdersOK', SkusOK, StockLedger, SessionsLinked,
         \A o \in Order : RowOK(orders[o]), RowStep
  PROVE  SkusOK' /\ StockLedger' /\ (orders' # orders => Conserved(skus, skus'))
<1>1. /\ orders \in [Order -> OrderRow] /\ orders' \in [Order -> OrderRow]
      /\ skus \in [Sku -> SkuRow] /\ Ledger(orders, skus)
  BY LedgerIsStockLedger DEF OrdersOK, SkusOK
<1>2. ASSUME skus' \in [Sku -> SkuRow], Ledger(orders', skus'), Conserved(skus, skus')
      PROVE  SkusOK' /\ StockLedger' /\ (orders' # orders => Conserved(skus, skus'))
  BY <1>2, LedgerIsStockLedger DEF SkusOK
<1>3. ASSUME UNCHANGED skus, Ledger(orders', skus)
      PROVE  SkusOK' /\ StockLedger' /\ (orders' # orders => Conserved(skus, skus'))
  BY <1>1, <1>3, LedgerIsStockLedger DEF SkusOK, Conserved
<1>4. \A o \in Order : orders[o] \in OrderRow /\ RowOK(orders[o])
  BY <1>1
<1>5. \A o \in Order : orders[o].status # "closed" => Stage(orders[o]) = orders[o].status
  BY <1>4, StageIsStatus DEF RowOK
<1>6. CASE NoRowStep
  BY <1>1, <1>3, <1>6, AdjustLedger DEF NoRowStep
<1>7. CASE OpenStep \/ FailStep
  BY <1>1, <1>3, <1>7 DEF OpenStep, FailStep
<1>8. CASE PlaceStep
  <2>1. PICK u \in User, k \in Key, V \in SUBSET Sku :
          /\ \A s \in V : cart[u][s] \in Nat /\ cart[u][s] <= skus[s].stock
          /\ \E id \in RowsFor(V) : orders' = WithNewOrders(u, k, V, id)
          /\ skus' = [s \in Sku |-> IF s \in V THEN Locked(skus[s], cart[u][s]) ELSE skus[s]]
    BY <1>8 DEF PlaceStep
  <2>2. PICK id \in RowsFor(V) : orders' = WithNewOrders(u, k, V, id)
    BY <2>1
  <2>3. PICK B, y : B = orders' /\ y = skus'
    OBVIOUS
  <2>4. /\ B = WithNewOrders(u, k, V, id) /\ B \in [Order -> OrderRow]
        /\ y = [s \in Sku |-> IF s \in V THEN Locked(skus[s], cart[u][s]) ELSE skus[s]]
    BY <1>1, <2>1, <2>2, <2>3
  <2>5. y \in [Sku -> SkuRow] /\ Ledger(B, y) /\ Conserved(skus, y)
    BY <1>1, <1>4, <2>1, <2>4, PlaceLedger
  <2> QED  BY <1>2, <2>3, <2>5
<1>9. CASE CancelStep
  <2>1. PICK S \in SUBSET Order, why \in CancelReason :
          /\ \A o \in S : orders[o].status \in CancelFrom(why)
          /\ orders' = [o \in Order |->
                          IF o \in S THEN Cancelled(orders[o], why) ELSE orders[o]]
          /\ skus' = [s \in Sku |-> Released(skus[s], Units(S, s))]
    BY <1>9 DEF CancelStep, ReleaseStock
  <2>2. \A o \in S : orders[o].status \in {"pending_payment", "paid"}
    BY <2>1 DEF CancelFrom, CancelReason
  <2>3. PICK A, B, x, y : A = orders /\ B = orders' /\ x = skus /\ y = skus'
    OBVIOUS
  <2>4. /\ \A o \in S : Stage(A[o]) \in OpenStages /\ Stage(B[o]) = "cancelled"
        /\ \A o \in Order : B[o].items = A[o].items
        /\ \A o \in Order \ S : Stage(B[o]) = Stage(A[o])
    BY <1>4, <1>5, <2>1, <2>2, <2>3, CancelledStage DEF OpenStages
  <2>5. /\ y = [s \in Sku |-> y[s]]
        /\ \A s \in Sku : y[s] = Released(x[s], SumFunctionOnSet(Amounts(A, s), S))
    BY <2>1, <2>3 DEF Units, Amounts
  <2>6. (\A s \in Sku : y[s] \in SkuRow) /\ Ledger(B, y) /\ Conserved(x, y)
    <3>1. /\ A \in [Order -> OrderRow] /\ B \in [Order -> OrderRow]
          /\ x \in [Sku -> SkuRow] /\ Ledger(A, x)
      BY <1>1, <2>3
    <3> QED  BY <2>4, <2>5, <3>1, CancelLedger
  <2> QED  BY <1>2, <2>1, <2>3, <2>6
<1>10. CASE CompleteStep
  <2>1. PICK S \in SUBSET Order :
          /\ \A o \in S : orders[o].status = "shipped"
          /\ orders' = [o \in Order |->
                          IF o \in S THEN Moved(orders[o], "completed") ELSE orders[o]]
          /\ skus' = [s \in Sku |-> Finalized(skus[s], Units(S, s))]
    BY <1>10 DEF CompleteStep, FinalizeSale
  <2>2. PICK A, B, x, y : A = orders /\ B = orders' /\ x = skus /\ y = skus'
    OBVIOUS
  <2>3. /\ \A o \in S : Stage(A[o]) \in OpenStages /\ Stage(B[o]) = "completed"
        /\ \A o \in Order : B[o].items = A[o].items
        /\ \A o \in Order \ S : Stage(B[o]) = Stage(A[o])
    BY <1>4, <1>5, <2>1, <2>2, MovedStage, Statuses DEF OpenStages
  <2>4. /\ y = [s \in Sku |-> y[s]]
        /\ \A s \in Sku : y[s] = Finalized(x[s], SumFunctionOnSet(Amounts(A, s), S))
    BY <2>1, <2>2 DEF Units, Amounts
  <2>5. (\A s \in Sku : y[s] \in SkuRow) /\ Ledger(B, y) /\ Conserved(x, y)
    <3>1. /\ A \in [Order -> OrderRow] /\ B \in [Order -> OrderRow]
          /\ x \in [Sku -> SkuRow] /\ Ledger(A, x)
      BY <1>1, <2>2
    <3> QED  BY <2>3, <2>4, <3>1, CompleteLedger
  <2> QED  BY <1>2, <2>1, <2>2, <2>5
<1>11. ASSUME NEW o \in Order, NEW new, orders' = [orders EXCEPT ![o] = new], UNCHANGED skus,
              new.items = orders[o].items,
              \/ Stage(new) = Stage(orders[o])
              \/ Stage(new) \in OpenStages /\ Stage(orders[o]) \in OpenStages
       PROVE  SkusOK' /\ StockLedger' /\ (orders' # orders => Conserved(skus, skus'))
  <2>1. PICK A, B, x : A = orders /\ B = orders' /\ x = skus
    OBVIOUS
  <2>2. \A y \in Order : B[y] = IF y = o THEN new ELSE A[y]
    BY <1>1, <1>11, <2>1
  <2>3. \A y \in Order : /\ B[y].items = A[y].items
                         /\ Stage(B[y]) \in OpenStages <=> Stage(A[y]) \in OpenStages
                         /\ Stage(B[y]) = "completed" <=> Stage(A[y]) = "completed"
    BY <1>11, <2>1, <2>2 DEF OpenStages
  <2>4. Ledger(B, x)
    BY <1>1, <2>1, <2>3, SameLedger
  <2> QED  BY <1>3, <1>11, <2>1, <2>4
<1>12. CASE ShipStep
  <2>1. PICK o \in Order : /\ orders[o].status = "paid" /\ UNCHANGED skus
                           /\ orders' = [orders EXCEPT ![o] = Moved(orders[o], "shipped")]
    BY <1>12 DEF ShipStep
  <2>2. /\ Stage(Moved(orders[o], "shipped")) = "shipped" /\ Stage(orders[o]) = "paid"
        /\ Moved(orders[o], "shipped").items = orders[o].items
    BY <1>4, <1>5, <2>1, MovedStage, Statuses
  <2> QED  BY <1>11, <2>1, <2>2 DEF OpenStages
<1>13. CASE PayStep
  <2>1. PICK p \in Session :
          /\ sessions[p].status = "pending"
          /\ orders[sessions[p].order].status = "pending_payment"
          /\ orders' = [orders EXCEPT ![sessions[p].order]
                                        = Moved(orders[sessions[p].order], "paid")]
          /\ UNCHANGED skus
    BY <1>13 DEF PayStep
  <2>2. PICK o \in Order : o = sessions[p].order
    BY <2>1 DEF SessionsLinked
  <2>3. /\ Stage(Moved(orders[o], "paid")) = "paid" /\ Stage(orders[o]) = "pending_payment"
        /\ Moved(orders[o], "paid").items = orders[o].items
    BY <1>4, <1>5, <2>1, <2>2, MovedStage, Statuses
  <2> QED  BY <1>11, <2>1, <2>2, <2>3 DEF OpenStages
<1>14. CASE CloseStep
  <2>1. PICK o \in Order : orders' = [orders EXCEPT ![o] = Closed(orders[o])] /\ UNCHANGED skus
    BY <1>14 DEF CloseStep, Closed
  <2>2. /\ Stage(Closed(orders[o])) = Stage(orders[o])
        /\ Closed(orders[o]).items = orders[o].items
    BY <1>4 DEF Closed, Stage, OrderRow
  <2> QED  BY <1>11, <2>1, <2>2
<1> QED
  BY <1>6, <1>7, <1>8, <1>9, <1>10, <1>12, <1>13, <1>14 DEF RowStep

-----------------------------------------------------------------------------
(* The inductive invariant.                                                *)

IInv ==
    /\ CartOK
    /\ ClocksOK
    /\ OrdersOK
    /\ SessionsOK
    /\ SessionsLinked
    /\ \A o \in Order : RowOK(orders[o])
    /\ UniqueUserKey(orders)
    /\ SessionsTell
    /\ SkusOK
    /\ StockLedger

LEMMA InitIInv == Init => IInv
<1> SUFFICES ASSUME Init PROVE IInv
  OBVIOUS
<1>1. CartOK /\ ClocksOK
  BY ConstantsAssumption DEF Init, CartOK, ClocksOK
<1>2. /\ UnusedOrder.status = "none" /\ UnusedOrder.key = NoKey
      /\ UnusedOrder.reason = "none" /\ UnusedOrder.history = <<>>
      /\ UnusedOrder \in OrderRow
  BY DEF UnusedOrder, OrderRow
<1>3. Told(UnusedOrder) /\ ~WasPaid(UnusedOrder)
  BY <1>2 DEF Told, WasPaid
<1>4. RowOK(UnusedOrder)
  BY <1>2, <1>3 DEF RowOK, Stage
<1>5. \A o \in Order : orders[o] = UnusedOrder
  BY DEF Init
<1>6. OrdersOK
  BY <1>2 DEF Init, OrdersOK
<1>7. UniqueUserKey(orders)
  BY <1>2, <1>5 DEF UniqueUserKey
<1>8. SessionsOK /\ \A p \in Session : sessions[p].status = "none"
  BY DEF Init, SessionsOK, SessionRow, UnusedSession
<1>9. SessionsLinked /\ SessionsTell
  BY <1>3, <1>5, <1>8 DEF SessionsLinked, SessionsTell, SuccessfulSessions, PendingSessions
<1>10. SkusOK
  BY ConstantsAssumption DEF Init, SkusOK, SkuRow, NewSku
<1>11. StockLedger
  <2>1. Open = {} /\ {o \in Order : Stage(orders[o]) = "completed"} = {}
    BY <1>2, <1>5 DEF Open, Stage
  <2>2. \A s \in Sku : Units({}, s) = 0
    BY SumEmpty DEF Units
  <2> QED  BY <2>1, <2>2 DEF StockLedger, Init, NewSku
<1> QED
  BY <1>1, <1>4, <1>5, <1>6, <1>7, <1>8, <1>9, <1>10, <1>11 DEF IInv

LEMMA NextIInv ==
  ASSUME IInv, [Next]_vars, CartOK', ClocksOK'
  PROVE  IInv'
<1>1. RowStep
  BY NextIsRowStep DEF IInv
<1>2. OrdersOK'
  BY <1>1, RowStepOrdersOK DEF IInv
<1>3. SessionsOK' /\ SessionsLinked'
  BY <1>1, RowStepSessionsOK DEF IInv
<1>4. \A o \in Order : RowOK(orders'[o])
  BY <1>1, RowStepEffect, RowEffectOK DEF IInv
<1>5. UniqueUserKey(orders')
  BY <1>1, RowStepUniqueKeys DEF IInv
<1>6. SessionsTell'
  BY <1>1, RowStepSessionsTell DEF IInv
<1>7. SkusOK' /\ StockLedger'
  BY <1>1, <1>2, RowStepStock DEF IInv
<1> QED
  BY <1>2, <1>3, <1>4, <1>5, <1>6, <1>7 DEF IInv, UniqueUserKey

THEOREM IInvCorrect == Spec => []IInv
<1>1. IInv /\ CartOK' /\ ClocksOK' /\ [Next]_vars => IInv'
  BY NextIInv
<1> QED
  BY InitIInv, <1>1, CartCorrect, ClocksCorrect, PTL DEF Spec

\* An order was paid exactly when one payment session of it succeeded, never
\* two (payment_service.py: create_session, mock_succeed, mock_fail).
THEOREM PaymentsCorrect == Spec => []PaidOnce
<1>1. IInv => PaidOnce
  BY DEF IInv, SessionsTell, PaidOnce, Paid, RowOK
<1> QED
  BY <1>1, IInvCorrect, PTL

\* The rows of order_status_history tell how each order came to its status
\* (order_service.py: _transition, _write_history).
THEOREM TimelineCorrect == Spec => []HistoryTellsStatus
<1>1. IInv => HistoryTellsStatus
  BY DEF IInv, HistoryTellsStatus, RowOK
<1> QED
  BY <1>1, IInvCorrect, PTL

\* An Idempotency-Key names at most one live order of a buyer, and only
\* cancelled orders have given theirs back (order_service.py: create,
\* _insert_order_with_unique_no, _cancel_common).
THEOREM KeysCorrect == Spec => []KeyNamesOneOrder
<1>1. IInv => KeyNamesOneOrder
  BY DEF IInv, KeyNamesOneOrder, RowOK
<1> QED
  BY <1>1, IInvCorrect, PTL

\* Every column of every table keeps its type; above all, no stock column goes
\* below zero, although checkout and time-outs take from them unasked
\* (order_service.py: _lock_stock, _release_stock, _finalize_sale).
THEOREM TypesCorrect == Spec => []TypeOK
<1>1. IInv => TypeOK
  BY DEF IInv, TypeOK
<1> QED
  BY <1>1, IInvCorrect, PTL

\* locked_stock, sold_count and the inventory log account for every open and
\* completed order, so the max(0, ...) of _release_stock and _finalize_sale
\* never hides a missing unit (order_service.py).
THEOREM StockCorrect == Spec => []StockLedger
<1>1. IInv => StockLedger
  BY DEF IInv
<1> QED
  BY <1>1, IInvCorrect, PTL

\* A step that changes orders moves units between stock, locked_stock and
\* sold_count and neither loses nor invents any (order_service.py: create,
\* _cancel_common, _system_complete).
THEOREM UnitsCorrect == Spec => UnitsConserved
<1>1. IInv /\ CartOK' /\ ClocksOK' /\ [Next]_vars
        => [orders' # orders =>
              \A s \in Sku : skus'[s].stock + skus'[s].locked + skus'[s].sold
                             = skus[s].stock + skus[s].locked + skus[s].sold]_vars
  <2> SUFFICES ASSUME IInv, CartOK', ClocksOK', [Next]_vars, orders' # orders
               PROVE  Conserved(skus, skus')
    BY DEF Conserved
  <2>1. RowStep
    BY NextIsRowStep DEF IInv
  <2>2. OrdersOK'
    BY NextIInv DEF IInv
  <2> QED  BY <2>1, <2>2, RowStepStock DEF IInv
<1> QED
  BY <1>1, IInvCorrect, CartCorrect, ClocksCorrect, PTL DEF Spec, UnitsConserved

-----------------------------------------------------------------------------
(* The order core implements the order contract.                           *)

LEMMA StepImplements ==
  ASSUME IInv, [Next]_vars
  PROVE  [Lifecycle!Next]_(Lifecycle!lvars)
<1> DEFINE state  == [o \in Order |-> orders[o].status]
           charged == {o \in Order : SuccessfulSessions(o) # {}}
<1> USE DEF IInv
<1>1. RowStep
  BY NextIsRowStep
<1>2. \A o \in Order : orders[o] \in OrderRow
  BY DEF OrdersOK
<1>3. UNCHANGED sessions => charged' = charged
  BY DEF SuccessfulSessions
<1>4. CASE NoRowStep
  BY <1>3, <1>4 DEF NoRowStep, Lifecycle!lvars
<1>5. CASE OpenStep \/ FailStep
  <2>1. \A o \in Order : SuccessfulSessions(o)' = SuccessfulSessions(o)
    BY <1>5 DEF OpenStep, FailStep, SuccessfulSessions, SessionsOK, SessionRow
  <2>2. charged' = charged /\ state' = state
    BY <1>5, <2>1 DEF OpenStep, FailStep
  <2> QED
    BY <2>2 DEF Lifecycle!lvars
<1>6. CASE PlaceStep
  <2>1. PICK u \in User, k \in Key, V \in SUBSET Sku :
          /\ V # {}
          /\ \E id \in RowsFor(V) : orders' = WithNewOrders(u, k, V, id)
          /\ UNCHANGED sessions
    BY <1>6 DEF PlaceStep
  <2>2. PICK id \in RowsFor(V) : orders' = WithNewOrders(u, k, V, id)
    BY <2>1
  <2> DEFINE S == {id[h] : h \in DOMAIN id}
  <2>3. S \in SUBSET Order /\ S # {} /\ \A o \in S : orders[o].status = "none"
    BY <2>1 DEF RowsFor, Unused
  <2>4. ASSUME NEW o \in Order
        PROVE  orders'[o].status = IF o \in S THEN "pending_payment" ELSE orders[o].status
    BY <2>2 DEF WithNewOrders, NewOrder
  <2>5. state' = [o \in Order |-> IF o \in S THEN "pending_payment" ELSE state[o]]
    BY <2>4
  <2> HIDE DEF S
  <2>6. Lifecycle!Place(S)
    BY <1>3, <2>1, <2>3, <2>5 DEF Lifecycle!Place, Lifecycle!Move
  <2> QED
    BY <2>3, <2>6 DEF Lifecycle!Next, Lifecycle!Serve
<1>7. CASE CancelStep
  <2>1. PICK S \in SUBSET Order, why \in CancelReason :
          /\ S # {}
          /\ \A o \in S : orders[o].status \in CancelFrom(why)
          /\ orders' = [o \in Order |-> IF o \in S THEN Cancelled(orders[o], why) ELSE orders[o]]
          /\ UNCHANGED sessions
    BY <1>7 DEF CancelStep
  <2>2. \A o \in S : orders[o].status \in {"pending_payment", "paid"}
    BY <2>1 DEF CancelFrom, CancelReason
  <2>3. \A o \in Order : Cancelled(orders[o], why).status = "cancelled"
    BY <1>2, CancelledType
  <2>4. state' = [o \in Order |-> IF o \in S THEN "cancelled" ELSE state[o]]
    BY <2>1, <2>3
  <2>5. Lifecycle!Cancel(S)
    BY <1>3, <2>1, <2>2, <2>4 DEF Lifecycle!Cancel, Lifecycle!Move
  <2> QED
    BY <2>5 DEF Lifecycle!Next, Lifecycle!Serve
<1>8. CASE CompleteStep
  <2>1. PICK S \in SUBSET Order :
          /\ S # {}
          /\ \A o \in S : orders[o].status = "shipped"
          /\ orders' = [o \in Order |-> IF o \in S THEN Moved(orders[o], "completed") ELSE orders[o]]
          /\ UNCHANGED sessions
    BY <1>8 DEF CompleteStep
  <2>2. \A o \in Order : Moved(orders[o], "completed").status = "completed"
    BY <1>2, Statuses, MovedType
  <2>3. state' = [o \in Order |-> IF o \in S THEN "completed" ELSE state[o]]
    BY <2>1, <2>2
  <2>4. Lifecycle!Complete(S)
    BY <1>3, <2>1, <2>3 DEF Lifecycle!Complete, Lifecycle!Move
  <2> QED
    BY <2>4 DEF Lifecycle!Next, Lifecycle!Serve
<1>9. CASE ShipStep
  <2>1. PICK x \in Order :
          /\ orders[x].status = "paid"
          /\ orders' = [orders EXCEPT ![x] = Moved(orders[x], "shipped")]
          /\ UNCHANGED sessions
    BY <1>9 DEF ShipStep
  <2>2. Moved(orders[x], "shipped").status = "shipped"
    BY <1>2, Statuses, MovedType
  <2>3. state' = [o \in Order |-> IF o \in {x} THEN "shipped" ELSE state[o]]
    BY <2>1, <2>2 DEF OrdersOK
  <2>4. Lifecycle!Ship(x)
    BY <1>3, <2>1, <2>3 DEF Lifecycle!Ship, Lifecycle!Move
  <2> QED
    BY <2>4 DEF Lifecycle!Next, Lifecycle!Serve
<1>10. CASE PayStep
  <2>1. PICK p \in Session :
          /\ sessions[p].status = "pending"
          /\ orders[sessions[p].order].status = "pending_payment"
          /\ sessions' = [sessions EXCEPT ![p].status = "succeeded"]
          /\ orders' = [orders EXCEPT ![sessions[p].order]
                                        = Moved(orders[sessions[p].order], "paid")]
    BY <1>10 DEF PayStep
  <2>2. PICK x \in Order : x = sessions[p].order
    BY <2>1 DEF SessionsLinked
  <2>3. Moved(orders[x], "paid").status = "paid"
    BY <1>2, Statuses, MovedType
  <2>4. state' = [o \in Order |-> IF o \in {x} THEN "paid" ELSE state[o]]
    BY <2>1, <2>2, <2>3 DEF OrdersOK
  <2>5. /\ \A q \in Session : /\ sessions'[q].order = sessions[q].order
                              /\ q # p => sessions'[q].status = sessions[q].status
        /\ sessions'[p].status = "succeeded"
    BY <2>1 DEF SessionsOK, SessionRow
  <2>6. charged' = charged \cup {x}
    BY <2>1, <2>2, <2>5 DEF SuccessfulSessions
  <2>7. Lifecycle!Pay(x)
    BY <2>1, <2>2, <2>4, <2>6 DEF Lifecycle!Pay, Lifecycle!Move
  <2> QED
    BY <2>7 DEF Lifecycle!Next, Lifecycle!Serve
<1>11. CASE CloseStep
  <2>1. PICK x \in Order :
          /\ orders[x].status \in {"paid", "shipped", "completed", "cancelled"}
          /\ WasPaid(orders[x])
          /\ orders' = [orders EXCEPT ![x] = Closed(orders[x])]
          /\ UNCHANGED sessions
    BY <1>11 DEF CloseStep, Closed
  <2>2. Closed(orders[x]).status = "closed"
    BY <1>2, ClosedType
  <2>3. state' = [o \in Order |-> IF o \in {x} THEN "closed" ELSE state[o]]
    BY <2>1, <2>2 DEF OrdersOK
  <2>4. {x} \subseteq charged
    BY <2>1 DEF SessionsTell
  <2>5. Lifecycle!Close({x})
    BY <1>3, <2>1, <2>3, <2>4 DEF Lifecycle!Close, Lifecycle!Move
  <2> QED
    BY <2>5 DEF Lifecycle!Next
<1> QED
  BY <1>1, <1>4, <1>5, <1>6, <1>7, <1>8, <1>9, <1>10, <1>11 DEF RowStep

\* Each order walks the state machine of the order contract and is charged in
\* the step that makes it paid, whatever the size of carts, pages and batches.
THEOREM LifecycleCorrect == Spec => ImplementsLifecycle
<1>1. Init => Lifecycle!Init
  <2> SUFFICES ASSUME Init PROVE Lifecycle!Init
    OBVIOUS
  <2>1. \A o \in Order : orders[o].status = "none" /\ SuccessfulSessions(o) = {}
    BY DEF Init, UnusedOrder, UnusedSession, SuccessfulSessions
  <2> QED
    BY <2>1 DEF Lifecycle!Init
<1>2. IInv /\ [Next]_vars => [Lifecycle!Next]_(Lifecycle!lvars)
  BY StepImplements
<1> QED
  BY <1>1, <1>2, IInvCorrect, PTL DEF Spec, ImplementsLifecycle, Lifecycle!Spec
=============================================================================
