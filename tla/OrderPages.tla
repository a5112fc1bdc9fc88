----------------------------- MODULE OrderPages -----------------------------
(* Order pages of the buyer, the merchant and the platform, and what the    *)
(* order service takes from them.                                          *)
EXTENDS Permissions

\* An order: its status, and a payment session that waits for the buyer.
OrderStatuses == {"pending_payment", "paid", "shipped", "completed", "cancelled", "closed"}
OrderRows ==
    {[st |-> s, paying |-> FALSE] : s \in OrderStatuses}
    \cup {[st |-> s, paying |-> TRUE] : s \in {"pending_payment", "cancelled"}}

-----------------------------------------------------------------------------
(* Buyer: the list shows orders and links to them, the detail has buttons,  *)
(* the pay page opens a session and the mock cashier ends it.              *)

BuyerOrderDetail(c, v) ==
    \/ c = "cancel" /\ v.st = "pending_payment"
    \/ c = "confirm" /\ v.st = "shipped"

PayPage(c, v) == c = "start_pay" /\ v.st = "pending_payment"

\* The cashier offers its two buttons while the session is pending.
MockPayment(c, v) == c \in {"pay_succeeds", "pay_fails"} /\ v.paying

BuyerOrderOffers(p, c, v) == p = "detail" /\ BuyerOrderDetail(c, v)

BuyerOrderRefreshes(c) == {"list", "detail"}

\* Paying leads over the pay page, which shows the cached order, and the
\* cashier; "nowhere" is the page of an order without a number.
PayerPages == {"pay", "cashier", "nowhere"}

PayerSees(p, row) ==
    CASE p = "cashier" -> [paying |-> row.paying]
      [] p = "nowhere" -> "no order"
      [] OTHER -> [st |-> row.st]

PayerOffers(p, c, v) ==
    CASE p = "pay" -> PayPage(c, v)
      [] p = "cashier" -> MockPayment(c, v)
      [] OTHER -> FALSE

\* A payment opened anew has a read of its own; the cashier reads payment and
\* orders again.
PayerRefreshes(c) == IF c = "start_pay" THEN {"cashier"} ELSE {"pay", "cashier"}

\* handleSucceed goes to the order number of an answer that has none.
PayerNext(p, c) ==
    CASE c = "start_pay" -> "cashier"
      [] c = "pay_succeeds" -> "nowhere"
      [] OTHER -> "pay"

-----------------------------------------------------------------------------
(* Merchant. *)

\* Mutant: the list offers to cancel what is not paid yet.
SellerOrderRowUnpaid(c, v) ==
    \/ c \in {"ship", "seller_cancel"} /\ v.st = "paid"
    \/ c = "seller_cancel" /\ v.st = "pending_payment"

\* OrderRow of the list: ship and cancel a paid order in a dialog.
SellerOrderRow(c, v) == c \in {"ship", "seller_cancel"} /\ v.st = "paid"

\* OrderDetailBody: canShip, canCancel; the note editor is always there.
SellerOrderDetail(c, v) ==
    \/ c \in {"ship", "seller_cancel"} /\ v.st = "paid"
    \/ c = "seller_note"

SellerOrderOffers(p, c, v) ==
    IF p = "list" THEN SellerOrderRow(c, v) ELSE SellerOrderDetail(c, v)

SellerOrderRefreshes(c) == {"list", "detail"}

-----------------------------------------------------------------------------
(* Platform. *)

\* AdminOrdersInner: the button that runs the time-out scan.
StaffOrderList(role, c) == c = "scan" /\ Can(role, "order:intervene")

\* OrderDetailInner: cancellable, canSimulate and canAddNote.
StaffOrderDetail(role, c, v) ==
    \/ /\ Can(role, "order:intervene")
       /\ \/ c = "staff_cancel" /\ v.st \in {"pending_payment", "paid"}
          \/ c = "simulate" /\ v.st = "shipped"
    \/ c = "staff_note" /\ Can(role, "order:add_note")

StaffOrderOffers(role, p, c, v) ==
    IF p = "list" THEN StaffOrderList(role, c) ELSE StaffOrderDetail(role, c, v)

\* The scan reads the lists again.
StaffOrderRefreshes(c) == IF c = "scan" THEN {"list"} ELSE {"list", "detail"}

-----------------------------------------------------------------------------
(* order_service.py and payment_service.py. *)

BuyerOrderControls == {"cancel", "confirm"}
PayerControls == {"start_pay", "pay_succeeds", "pay_fails"}
SellerOrderControls == {"ship", "seller_cancel", "seller_note"}
StaffOrderControls == {"staff_cancel", "simulate", "staff_note", "scan"}

StaffOrderNeeds(c) ==
    CASE c = "staff_note" -> "order:add_note"
      [] c = "scan" -> "task:run"
      [] OTHER -> "order:intervene"

OrderAccepts(c, row) ==
    CASE c \in {"cancel", "start_pay"} -> row.st = "pending_payment"
      [] c = "pay_succeeds" -> row.paying /\ row.st = "pending_payment"
      [] c = "pay_fails" -> row.paying
      [] c \in {"confirm", "simulate"} -> row.st = "shipped"
      [] c \in {"ship", "seller_cancel"} -> row.st = "paid"
      [] c = "staff_cancel" -> row.st \in {"pending_payment", "paid"}
      [] OTHER -> TRUE

\* A cancelled order leaves its payment session as it is.  What a scan does to
\* the order is the work of time, OrderDrifts.
OrderEffect(c, row) ==
    {CASE c \in {"cancel", "seller_cancel", "staff_cancel"} -> [row EXCEPT !.st = "cancelled"]
       [] c = "start_pay" -> [row EXCEPT !.paying = TRUE]
       [] c = "pay_succeeds" -> [st |-> "paid", paying |-> FALSE]
       [] c = "pay_fails" -> [row EXCEPT !.paying = FALSE]
       [] c = "confirm" -> [row EXCEPT !.st = "completed"]
       [] c = "ship" -> [row EXCEPT !.st = "shipped"]
       [] OTHER -> row}

\* Payment and receipt run into their time limits; a refund of all of it closes
\* a paid, shipped or completed order.
OrderDrifts(row) ==
    {[row EXCEPT !.st = st] : st \in
        CASE row.st = "pending_payment" -> {"cancelled"}
          [] row.st = "shipped" -> {"completed", "closed"}
          [] row.st \in {"paid", "completed"} -> {"closed"}
          [] OTHER -> {}}

OrderFinal(row) == row.st \in {"completed", "cancelled", "closed"}
=============================================================================
