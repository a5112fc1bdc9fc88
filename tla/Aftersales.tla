----------------------------- MODULE Aftersales -----------------------------
(***************************************************************************)
(* The aftersales cases of an order, from the buyer's request over the     *)
(* merchant's review, the return of the goods and the platform's           *)
(* arbitration to the refund or the exchange, with their four time-outs    *)
(* and what a refund does to its order.                                    *)
(*                                                                         *)
(* The orders themselves are those of OrderLifecycle, which Orders         *)
(* implements: they are paid, shipped, completed and cancelled whatever    *)
(* becomes of their cases, and closed by refunds here, which Orders takes  *)
(* as a step of its own.  One action is one request or one batch of a    *)
(* scan, as in Orders.  The status refunding exists only inside a request: *)
(* _trigger_refund, which every request that sets it calls, goes on to     *)
(* completed_refunded in the same transaction.                             *)
(***************************************************************************)
EXTENDS Integers, FiniteSets, FiniteSetsExt, Scans

CONSTANTS
    Order,         \* row ids of table orders
    Case,          \* row ids of table aftersales
    Admin,         \* admin users
    User,          \* buyers
    BuyerOf,       \* [Order -> User]
    Total,         \* [Order -> Nat \ {0}], orders.total_cents
    NoOrder, NoAdmin, NoAmount,   \* NULL of the column types
    RiskThreshold, \* settings.AFTERSALES_RISK_THRESHOLD
    MaxVerdict     \* bound: the most an arbitration grants

ASSUME AftersalesAssumption ==
    /\ IsFiniteSet(Case)
    /\ BuyerOf \in [Order -> User]
    /\ Total \in [Order -> Nat \ {0}]
    /\ NoOrder \notin Order /\ NoAdmin \notin Admin /\ NoAmount \notin Int
    /\ RiskThreshold \in Nat /\ MaxVerdict \in Nat

VARIABLES
    state,     \* state[o]: orders.status
    charged,   \* the orders their buyers have paid for
    refunded,  \* refunded[o]: orders.total_refunded_cents
    partial,   \* the orders with has_partial_refund
    cases      \* cases[c]: the aftersales row

vars == <<state, charged, refunded, partial, cases>>

-----------------------------------------------------------------------------
(* Rows.                                                                   *)

CaseType == {"refund_only", "return_refund", "exchange"}

\* FINAL_STATUSES, and the statuses the unique index on order_id leaves out.
FinalStatus ==
    {"completed_refunded", "completed_exchanged", "user_cancelled",
     "system_closed", "merchant_rejected"}

ActiveStatus ==
    {"pending_merchant_review", "merchant_agreed_waiting_return",
     "return_shipped_waiting_receive", "merchant_agreed_waiting_ship",
     "exchange_shipped_waiting_receive", "admin_arbitrating"}

Escalation ==
    {"merchant_timeout", "user_appeal", "risk_flagged", "manual",
     "merchant_refuse_receive"}

\* An unused row id carries status "none".  late: the deadline column of the
\* present status lies in the past.
CaseRow ==
    [status     : FinalStatus \cup ActiveStatus \cup {"none"},
     order      : Order \cup {NoOrder},
     type       : CaseType \cup {"none"},
     requested  : Nat,
     actual     : Nat \cup {NoAmount},
     tracked    : BOOLEAN,
     escalation : Escalation \cup {"none"},
     appeals    : Nat,
     arbitrator : Admin \cup {NoAdmin},
     late       : BOOLEAN]

UnusedCase ==
    [status |-> "none", order |-> NoOrder, type |-> "none", requested |-> 0,
     actual |-> NoAmount, tracked |-> FALSE, escalation |-> "none",
     appeals |-> 0, arbitrator |-> NoAdmin, late |-> FALSE]

ActiveCases(o) ==
    {c \in Case : cases[c].order = o /\ cases[c].status \in ActiveStatus}

RefundedCases(o) ==
    {c \in Case : cases[c].order = o /\ cases[c].status = "completed_refunded"}

-----------------------------------------------------------------------------
(* Helpers of the service.                                                 *)

\* Mutant: the status of the order is not looked at.
OrderStatusIgnored(ty) == {"pending_payment", "paid", "shipped", "completed"}

\* _ORDER_STATUS_ALLOWED.
OrderStatusAllowed(ty) ==
    IF ty = "refund_only" THEN {"paid", "shipped"} ELSE {"shipped", "completed"}

\* The row after _transition, with the deadline of its new status ahead.
Moved(row, to) == [row EXCEPT !.status = to, !.late = FALSE]

Escalated(row, why) == [Moved(row, "admin_arbitrating") EXCEPT !.escalation = why]

\* actual_refund_cents or refund_amount_cents: zero counts as missing.
PaidOut(row) == IF row.actual \in {NoAmount, 0} THEN row.requested ELSE row.actual

\* Mutant: the order is told the requested amount.
LinkCountsRequested(o, row) == row.requested

\* What _order_side_link adds to the order.
LinkAmount(o, row) == PaidOut(row)

\* Mutant: a refund of exactly the total is not a full one.
FullyRefundedAbove(o, sum) == sum > Total[o]

FullyRefunded(o, sum) == sum >= Total[o]

\* What the refund of the cases R, as in table new, adds to order o.  No two of
\* them share an order, because no two active cases do.
Granted(R, new, o) ==
    LET mine == {c \in R : new[c].order = o}
    IN  IF mine = {} THEN 0 ELSE LinkAmount(o, new[CHOOSE c \in mine : TRUE])

\* _order_side_link of the cases R.
LinkOrders(R, new) ==
    LET Sum(o)  == refunded[o] + Granted(R, new, o)
        Hit     == {o \in Order : Granted(R, new, o) > 0}
    IN
    /\ refunded' = [o \in Order |-> Sum(o)]
    /\ state' = [o \in Order |->
                   IF o \in Hit /\ FullyRefunded(o, Sum(o)) THEN "closed" ELSE state[o]]
    /\ partial' = partial \cup {o \in Hit : ~FullyRefunded(o, Sum(o))}
    /\ UNCHANGED charged

\* _trigger_refund of the cases R, as in table new.
Refund(R, new) ==
    /\ cases' = [c \in Case |->
                   IF c \in R THEN Moved(new[c], "completed_refunded") ELSE new[c]]
    /\ LinkOrders(R, new)

\* A request that touches nothing but case c.
Update(c, row) ==
    /\ cases' = [cases EXCEPT ![c] = row]
    /\ UNCHANGED <<state, charged, refunded, partial>>

RefundCase(c, row) == Refund({c}, [cases EXCEPT ![c] = row])

-----------------------------------------------------------------------------
(* The buyer.                                                              *)

\* assess_aftersales_request counts the refunds of the last thirty days; how
\* many of the buyer's refunds are that recent is left open.
MayBeFlagged(u) ==
    Cardinality(UNION {RefundedCases(o) : o \in {x \in Order : BuyerOf[x] = u}})
        >= RiskThreshold

UserCreate(c, o, ty, q, flagged) ==
    /\ cases[c].status = "none"
    /\ state[o] \in OrderStatusAllowed(ty)
    /\ ActiveCases(o) = {}
    /\ q <= Total[o]
    /\ flagged => MayBeFlagged(BuyerOf[o])
    /\ LET row == [UnusedCase EXCEPT !.status = "pending_merchant_review",
                                     !.order = o, !.type = ty, !.requested = q]
       IN  Update(c, IF flagged THEN Escalated(row, "risk_flagged") ELSE row)

UserCancel(c) ==
    /\ cases[c].status \in
         {"pending_merchant_review", "merchant_agreed_waiting_return", "merchant_rejected"}
    /\ Update(c, Moved(cases[c], "user_cancelled"))

UserSubmitTracking(c) ==
    /\ cases[c].status = "merchant_agreed_waiting_return"
    /\ ~cases[c].tracked
    /\ Update(c, [Moved(cases[c], "return_shipped_waiting_receive") EXCEPT !.tracked = TRUE])

UserConfirmExchange(c) ==
    /\ cases[c].status = "exchange_shipped_waiting_receive"
    /\ Update(c, Moved(cases[c], "completed_exchanged"))

\* Mutant: an appeal looks at no other case of the order.
UserAppealNoIndex(c) ==
    /\ cases[c].status = "merchant_rejected"
    /\ cases[c].appeals < 1
    /\ Update(c, [Escalated(cases[c], "user_appeal") EXCEPT !.appeals = @ + 1])

\* The service itself looks at no other case of the order; the unique index
\* refuses the update when the order has an active one.
UserAppeal(c) ==
    /\ cases[c].status = "merchant_rejected"
    /\ cases[c].appeals < 1
    /\ ActiveCases(cases[c].order) = {}
    /\ Update(c, [Escalated(cases[c], "user_appeal") EXCEPT !.appeals = @ + 1])

-----------------------------------------------------------------------------
(* The merchant.                                                           *)

\* Mutant: every approval refunds at once.
MerchantApproveRefundsAll(c, a) ==
    /\ cases[c].status = "pending_merchant_review"
    /\ a <= cases[c].requested
    /\ RefundCase(c, [cases[c] EXCEPT !.actual = a])

MerchantApprove(c, a) ==
    LET row == [cases[c] EXCEPT !.actual = a] IN
    /\ cases[c].status = "pending_merchant_review"
    /\ a <= cases[c].requested
    /\ IF row.type = "refund_only"
       THEN RefundCase(c, row)
       ELSE Update(c, Moved(row, "merchant_agreed_waiting_return"))

MerchantReject(c) ==
    /\ cases[c].status = "pending_merchant_review"
    /\ Update(c, Moved(cases[c], "merchant_rejected"))

\* What follows the receipt of the goods of the cases B: a refund, or the
\* second parcel of an exchange.
Received(B) ==
    Refund({c \in B : cases[c].type = "return_refund"},
           [c \in Case |-> IF c \in B /\ cases[c].type # "return_refund"
                           THEN Moved(cases[c], "merchant_agreed_waiting_ship")
                           ELSE cases[c]])

MerchantConfirmReceived(c) ==
    /\ cases[c].status = "return_shipped_waiting_receive"
    /\ Received({c})

MerchantRefuseReceive(c) ==
    /\ cases[c].status = "return_shipped_waiting_receive"
    /\ Update(c, Escalated(cases[c], "merchant_refuse_receive"))

MerchantShipExchange(c) ==
    /\ cases[c].status = "merchant_agreed_waiting_ship"
    /\ Update(c, Moved(cases[c], "exchange_shipped_waiting_receive"))

-----------------------------------------------------------------------------
(* The platform.                                                           *)

AdminTakeOver(c, m) ==
    /\ cases[c].status = "admin_arbitrating"
    /\ Update(c, [cases[c] EXCEPT !.arbitrator = m])

\* The verdict for the merchant closes the case, any other grants an amount.
AdminResolve(c, m, amount) ==
    LET row == [cases[c] EXCEPT !.arbitrator = m] IN
    /\ cases[c].status = "admin_arbitrating"
    /\ \/ /\ amount = NoAmount
          /\ Update(c, Moved(row, "system_closed"))
       \/ /\ amount \in 1..MaxVerdict
          /\ RefundCase(c, [row EXCEPT !.actual = amount])

AdminForceRefund(c, m, amount) ==
    /\ cases[c].status \in ActiveStatus
    /\ amount \in 1..(2 * cases[c].requested)
    /\ RefundCase(c, [cases[c] EXCEPT
                        !.actual = amount,
                        !.arbitrator = m,
                        !.escalation = IF @ = "none" THEN "manual" ELSE @])

-----------------------------------------------------------------------------
(* Time.                                                                   *)

\* The statuses with a deadline column.
TimedStatus ==
    {"pending_merchant_review", "merchant_agreed_waiting_return",
     "return_shipped_waiting_receive", "exchange_shipped_waiting_receive"}

DeadlinePasses(c) ==
    /\ cases[c].status \in TimedStatus
    /\ ~cases[c].late
    /\ Update(c, [cases[c] EXCEPT !.late = TRUE])

Late(status) == {c \in Case : cases[c].status = status /\ cases[c].late}

\* Every case of B as Row makes it.
UpdateAll(B, Row(_)) ==
    /\ cases' = [c \in Case |-> IF c \in B THEN Row(cases[c]) ELSE cases[c]]
    /\ UNCHANGED <<state, charged, refunded, partial>>

ScanMerchantReview ==
    \E B \in Batches(Late("pending_merchant_review")) :
        UpdateAll(B, LAMBDA row : Escalated(row, "merchant_timeout"))

ScanUserReturn ==
    \E B \in Batches(Late("merchant_agreed_waiting_return")) :
        UpdateAll(B, LAMBDA row : Moved(row, "system_closed"))

\* Mutant: only the returns that are to be refunded are received.
ScanMerchantReceiveRefunds ==
    \E B \in Batches({c \in Late("return_shipped_waiting_receive") :
                        cases[c].type = "return_refund"}) : Received(B)

ScanMerchantReceive ==
    \E B \in Batches(Late("return_shipped_waiting_receive")) : Received(B)

ScanExchangeConfirm ==
    \E B \in Batches(Late("exchange_shipped_waiting_receive")) :
        UpdateAll(B, LAMBDA row : Moved(row, "completed_exchanged"))

-----------------------------------------------------------------------------
Lifecycle == INSTANCE OrderLifecycle

Init ==
    /\ Lifecycle!Init
    /\ refunded = [o \in Order |-> 0]
    /\ partial = {}
    /\ cases = [c \in Case |-> UnusedCase]

\* The order core's own steps.
OrderStep ==
    /\ Lifecycle!Serve
    /\ UNCHANGED <<refunded, partial, cases>>

UserStep ==
    \E c \in Case :
        \/ \E o \in Order, ty \in CaseType, flagged \in BOOLEAN :
             \E q \in 0..Total[o] : UserCreate(c, o, ty, q, flagged)
        \/ UserCancel(c) \/ UserSubmitTracking(c)
        \/ UserConfirmExchange(c) \/ UserAppeal(c)

MerchantStep ==
    \E c \in Case :
        \/ \E a \in 0..cases[c].requested : MerchantApprove(c, a)
        \/ MerchantReject(c)
        \/ MerchantConfirmReceived(c) \/ MerchantRefuseReceive(c)
        \/ MerchantShipExchange(c)

AdminStep ==
    \E c \in Case, m \in Admin :
        \/ AdminTakeOver(c, m)
        \/ \E amount \in 1..MaxVerdict \cup {NoAmount} : AdminResolve(c, m, amount)
        \/ \E amount \in 1..(2 * cases[c].requested) : AdminForceRefund(c, m, amount)

ScanStep ==
    \/ ScanMerchantReview \/ ScanUserReturn
    \/ ScanMerchantReceive \/ ScanExchangeConfirm

Next ==
    \/ OrderStep
    \/ UserStep
    \/ MerchantStep
    \/ AdminStep
    \/ ScanStep
    \/ \E c \in Case : DeadlinePasses(c)

Spec == Init /\ [][Next]_vars

\* Clocks run, and cron starts process_timeouts again and again.
Fairness ==
    /\ \A c \in Case : WF_vars(DeadlinePasses(c))
    /\ WF_vars(ScanMerchantReview)
    /\ WF_vars(ScanUserReturn)
    /\ WF_vars(ScanMerchantReceive)
    /\ WF_vars(ScanExchangeConfirm)

FairSpec == Spec /\ Fairness

-----------------------------------------------------------------------------
(* Properties.                                                             *)

\* Every table holds rows of its type, and no case is left in refunding, the
\* status that lasts only while _trigger_refund runs (aftersales_service.py).
CasesOK == cases \in [Case -> CaseRow]

TypeOK ==
    /\ CasesOK
    /\ state \in [Order -> {"none", "pending_payment", "paid", "shipped",
                            "completed", "cancelled", "closed"}]
    /\ refunded \in [Order -> Nat]
    /\ charged \subseteq Order
    /\ partial \subseteq Order

\* An order has at most one case under way at a time, although rejected cases
\* can be revived by an appeal after a new one was opened.
OneActiveCase == \A o \in Order : \A c, d \in ActiveCases(o) : c = d

\* total_refunded_cents of an order is what its refunded cases paid out, over
\* merchants' approvals, receipts, scans, verdicts and forced refunds.
RefundLedger ==
    \A o \in Order :
        refunded[o] = SumFunctionOnSet([c \in Case |-> PaidOut(cases[c])], RefundedCases(o))

\* Money goes back only to who has paid; an order is closed exactly when all
\* of it went back, and carries the partial mark when only some of it did,
\* whatever the order core and its cases do to it in turns.
RefundsMatchOrders ==
    \A o \in Order :
        /\ refunded[o] > 0 => o \in charged
        /\ state[o] = "closed" <=> refunded[o] >= Total[o]
        /\ o \in partial => refunded[o] > 0
        /\ refunded[o] > 0 => o \in partial \/ state[o] = "closed"

\* No refund for goods that were to be sent back unless they were, and none
\* for an exchange, except where the platform decided it.
ReturnBeforeRefund ==
    \A c \in Case :
        cases[c].status = "completed_refunded" =>
            \/ cases[c].type = "refund_only"
            \/ cases[c].type = "return_refund" /\ cases[c].tracked
            \/ cases[c].escalation # "none"

\* What cases and refunds do to orders is what the order contract allows: an
\* order is closed only when it has been paid, and from no other status than
\* those it can reach then.  Orders closes its orders on that promise.
KeepsOrderContract == Lifecycle!Spec

\* A case does not stay for ever in a status that has a deadline, whoever of
\* buyer and merchant never acts again.
StagesEnd ==
    \A c \in Case, st \in TimedStatus :
        cases[c].status = st ~> cases[c].status # st

-----------------------------------------------------------------------------
(* What the documents say and the code does not do.                        *)

\* phase-4-contracts.md, error 15006: "the refund exceeds what can be refunded
\* of the order".
RefundsWithinTotal == \A o \in Order : refunded[o] <= Total[o]

\* phase-4-contracts.md: actual_refund_cents is the "amount finally decided by
\* merchant or arbitration (may be less than requested)".
RefundsDecidedAmount ==
    \A c \in Case : cases[c].status = "completed_refunded"
                      => PaidOut(cases[c]) = cases[c].actual
=============================================================================
