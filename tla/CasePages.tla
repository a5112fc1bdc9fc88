----------------------------- MODULE CasePages ------------------------------
(* Aftersales pages of the buyer, the merchant and the platform, and what   *)
(* the aftersales service, module Aftersales, takes from them.             *)
EXTENDS Permissions

\* A case: status, type, whether any money was asked for, whether the buyer has
\* appealed, and which administrator has taken the arbitration over.
CaseRow(st, ty, amount, appealed, claimed) ==
    [st |-> st, type |-> ty, amount |-> amount, appealed |-> appealed, claimed |-> claimed]

\* The statuses a case of each type goes through.
CaseStatusesOf(ty) ==
    {"pending", "rejected", "arbitrating", "refunded", "cancelled", "closed"}
    \cup (IF ty = "refund_only" THEN {} ELSE {"waiting_return", "return_shipped"})
    \cup (IF ty = "exchange" THEN {"waiting_ship", "exchange_shipped", "exchanged"} ELSE {})

CaseTypes == {"refund_only", "return_refund", "exchange"}

CaseRowsOf(ty, amounts) ==
    {CaseRow(st, ty, a, FALSE, "none") : st \in CaseStatusesOf(ty), a \in amounts}
    \cup {CaseRow("arbitrating", ty, a, TRUE, who) : a \in amounts, who \in {"none", "me", "other"}}

\* The apply page asks for no money back for an exchange.
AppliedCases ==
    UNION {CaseRowsOf(ty, {IF ty = "exchange" THEN "zero" ELSE "some"}) : ty \in CaseTypes}

CaseRows ==
    [st : UNION {CaseStatusesOf(ty) : ty \in CaseTypes}, type : CaseTypes,
     amount : {"zero", "some"}, appealed : BOOLEAN, claimed : {"none", "me", "other"}]

\* Cases with an amount, as every client but that page may open them.
PricedCases == UNION {CaseRowsOf(ty, {"some"}) : ty \in CaseTypes}

CaseFinal(row) ==
    row.st \in {"rejected", "refunded", "exchanged", "cancelled", "closed"}

-----------------------------------------------------------------------------
(* Buyer.                                                                  *)

\* The header of the detail page, with the USER_CAN_ sets.
BuyerCaseActions(c, v) ==
    \/ c = "cancel" /\ v.st \in {"pending", "waiting_return", "rejected"}
    \/ c = "nudge" /\ v.st = "pending"
    \/ c = "appeal" /\ v.st = "rejected" /\ ~ v.appealed
    \/ c = "track_return" /\ v.st = "waiting_return"
    \/ c = "confirm_exchange" /\ v.st = "exchange_shipped"

\* canAddEvidenceFor.
CanAddEvidence(c, v) ==
    c = "add_evidence" /\ v.st \notin {"refunded", "exchanged", "cancelled", "closed"}

BuyerCaseOffers(p, c, v) ==
    p = "detail" /\ (BuyerCaseActions(c, v) \/ CanAddEvidence(c, v))

\* The mutations ask for the detail under the number of the case; the page has
\* read it under the text of its address, and only the list is read again.
BuyerCaseRefreshes(c) == IF c \in {"nudge", "add_evidence"} THEN {} ELSE {"list"}

-----------------------------------------------------------------------------
(* Merchant.                                                               *)

\* ActionsPanel: one block of buttons per status the merchant answers for.
SellerCaseActions(c, v) ==
    \/ c \in {"approve", "reject"} /\ v.st = "pending"
    \/ c \in {"confirm_received", "refuse_receive"} /\ v.st = "return_shipped"
    \/ c = "ship_exchange" /\ v.st = "waiting_ship"

\* Mutant: the dialog takes the amount of refunds only.
ApproveFormPassesRefunds(v) == v.amount # "zero" /\ v.type # "exchange"

\* ApproveModal: validate wants more than zero and at most the amount asked.
ApproveFormPasses(v) == v.amount # "zero"

SellerCaseOffers(p, c, v) == p = "detail" /\ (SellerCaseActions(c, v) \/ c = "case_note")

SellerCaseRefreshes(c) == {"list", "detail"}

-----------------------------------------------------------------------------
(* Platform.                                                               *)

\* The header of the detail page: canResolve and canDoForceRefund.
StaffCaseActions(role, c, v) ==
    \/ /\ Can(role, "aftersales:arbitrate")
       /\ v.st = "arbitrating"
       /\ \/ c = "take_over" /\ v.claimed = "none"
          \/ c = "resolve" /\ v.claimed = "me"
    \/ /\ c = "force_refund"
       /\ Can(role, "aftersales:force_refund")
       /\ v.st \notin {"arbitrating", "refunded", "exchanged", "cancelled", "closed"}
    \/ c = "staff_note" /\ Can(role, "aftersales:add_note")

\* ForceRefundModal: more than zero, at most twice the amount asked.
ForceRefundFormPasses(v) == v.amount # "zero"

StaffCaseOffers(role, p, c, v) == p = "detail" /\ StaffCaseActions(role, c, v)

StaffCaseRefreshes(c) == {"list", "detail"}

-----------------------------------------------------------------------------
(* aftersales_service.py.                                                  *)

BuyerCaseControls ==
    {"cancel", "nudge", "appeal", "track_return", "confirm_exchange", "add_evidence"}
SellerCaseControls ==
    {"approve", "reject", "confirm_received", "refuse_receive", "ship_exchange", "case_note"}
StaffCaseControls == {"take_over", "resolve", "force_refund", "staff_note"}

StaffCaseNeeds(c) ==
    CASE c = "force_refund" -> "aftersales:force_refund"
      [] c = "staff_note" -> "aftersales:add_note"
      [] OTHER -> "aftersales:arbitrate"

\* What the service checks of the case itself.
CaseAccepts(c, row) ==
    CASE c = "cancel" -> row.st \in {"pending", "waiting_return", "rejected"}
      [] c \in {"nudge", "approve", "reject"} -> row.st = "pending"
      [] c = "appeal" -> row.st = "rejected" /\ ~ row.appealed
      [] c = "track_return" -> row.st = "waiting_return"
      [] c = "confirm_exchange" -> row.st = "exchange_shipped"
      [] c \in {"confirm_received", "refuse_receive"} -> row.st = "return_shipped"
      [] c = "ship_exchange" -> row.st = "waiting_ship"
      [] c \in {"take_over", "resolve"} -> row.st = "arbitrating"
      [] c = "force_refund" ->
           row.st \notin {"rejected", "refunded", "exchanged", "cancelled", "closed"}
      [] OTHER -> TRUE

\* The status the goods' receipt leads to.
StatusReceived(row) == IF row.type = "return_refund" THEN "refunded" ELSE "waiting_ship"

CaseStatusesAfter(c, row) ==
    CASE c = "cancel" -> {"cancelled"}
      [] c = "appeal" -> {"arbitrating"}
      [] c = "track_return" -> {"return_shipped"}
      [] c = "confirm_exchange" -> {"exchanged"}
      [] c = "approve" -> {IF row.type = "refund_only" THEN "refunded" ELSE "waiting_return"}
      [] c = "reject" -> {"rejected"}
      [] c = "confirm_received" -> {StatusReceived(row)}
      [] c = "refuse_receive" -> {"arbitrating"}
      [] c = "ship_exchange" -> {"exchange_shipped"}
      [] c = "resolve" -> {"refunded", "closed"}
      [] c = "force_refund" -> {"refunded"}
      [] OTHER -> {row.st}

CaseEffect(c, row) ==
    {[row EXCEPT !.st = st,
                 !.appealed = @ \/ c = "appeal",
                 !.claimed = IF c \in {"take_over", "resolve", "force_refund"} THEN "me" ELSE @]
       : st \in CaseStatusesAfter(c, row)}

\* The scans of the deadlines, and another administrator.
CaseDrifts(row) ==
    {[row EXCEPT !.st = st] : st \in
        CASE row.st = "pending" -> {"arbitrating"}
          [] row.st = "waiting_return" -> {"closed"}
          [] row.st = "return_shipped" -> {StatusReceived(row)}
          [] row.st = "exchange_shipped" -> {"exchanged"}
          [] OTHER -> {}}
    \cup {[row EXCEPT !.st = st, !.claimed = "other"] : st \in
            IF row.st = "arbitrating" THEN {"arbitrating", "refunded", "closed"} ELSE {}}
=============================================================================
