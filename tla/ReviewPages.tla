---------------------------- MODULE ReviewPages -----------------------------
(* Review pages: the buyer's own reviews, other buyers' reports, the        *)
(* merchant's replies, the platform's moderation, and their services.      *)
EXTENDS Permissions

\* A review: not yet written (its order's status instead), shown, hidden or
\* deleted; still editable; replied to; its report.
ReviewRow(st, editable, replied, report) ==
    [st |-> st, editable |-> editable, replied |-> replied, report |-> report]

ReviewRows ==
    {ReviewRow(st, e, r, p) : st \in {"shown", "hidden", "deleted"}, e \in BOOLEAN, r \in BOOLEAN,
                              p \in {"none", "pending", "upheld", "dismissed"}}
UnwrittenReviews ==
    {ReviewRow(st, TRUE, FALSE, "none") : st \in {"order_paid", "order_shipped", "order_completed"}}

ReviewWritten(row) == row.st \in {"shown", "hidden"}

-----------------------------------------------------------------------------
(* Buyer.                                                                  *)

\* MyReviewsContent: canEditReview, and deletion at any time.
MyReviews(c, v) ==
    /\ ReviewWritten(v)
    /\ c = "delete_review" \/ (c = "edit_review" /\ v.editable)

\* The page for writing reads the order, which a review does not change.
OrderOfReview(row) ==
    IF ReviewWritten(row) \/ row.st = "deleted" THEN "order_completed" ELSE row.st

\* WriteReviewsContent: canReview.
WriteReviews(c, st) == c = "write_review" /\ st \in {"order_shipped", "order_completed"}

WriteReviewRefreshes(c) == {"list"}

MyReviewRefreshes(c) == {"list"}

\* ReviewCard on a product's page: a button that stays disabled once used.
ReaderReview(c, v) == c = "report" /\ v.st = "shown" /\ v.report = "none"

-----------------------------------------------------------------------------
(* Merchant.                                                               *)

\* ReplyEditor: a form while there is no reply, two buttons under one.
ReplyEditor(c, v) ==
    /\ ReviewWritten(v)
    /\ IF v.replied THEN c \in {"update_reply", "delete_reply"} ELSE c = "create_reply"

SellerReviewRefreshes(c) == {"list"}

-----------------------------------------------------------------------------
(* Platform.                                                               *)

\* AdminReviewsInner: one button per row.
StaffReviewRow(c, v) ==
    \/ c = "hide" /\ v.st = "shown"
    \/ c = "restore" /\ v.st = "hidden"

\* AdminReviewDetailInner: the card with the same two buttons.
StaffReviewDetail(c, v) ==
    \/ c = "hide" /\ v.st = "shown"
    \/ c = "restore" /\ v.st = "hidden"

StaffReviewOffers(p, c, v) ==
    IF p = "list" THEN StaffReviewRow(c, v) ELSE StaffReviewDetail(c, v)

\* The list does not ask for the review's own page again.
StaffReviewRefreshes(p) == IF p = "list" THEN {"list"} ELSE {"list", "detail"}

\* AdminReviewReportsInner: a pending report is upheld or dismissed.
StaffReports(c, v) == c \in {"uphold", "dismiss"} /\ v.report = "pending"

\* The reports, and the list of reviews, but not the page of the review.
StaffReportsRefreshes(c) == {"reports"}

-----------------------------------------------------------------------------
(* review_service.py, review_reply_service.py, review_report_service.py.    *)

MyReviewControls == {"edit_review", "delete_review"}
WriteReviewControls == {"write_review"}
SellerReviewControls == {"create_reply", "update_reply", "delete_reply"}
StaffReviewControls == {"hide", "restore"}
StaffReportControls == {"uphold", "dismiss"}

StaffReviewNeeds(c) ==
    IF c \in StaffReportControls THEN "review_report:handle" ELSE "review:moderate"

ReviewAccepts(c, row) ==
    CASE c = "write_review" -> row.st \in {"order_completed", "deleted"}
      [] c = "edit_review" -> ReviewWritten(row) /\ row.editable
      [] c = "report" -> ReviewWritten(row) /\ row.report = "none"
      [] c = "create_reply" -> ReviewWritten(row) /\ ~ row.replied
      [] c \in {"update_reply", "delete_reply"} -> ReviewWritten(row) /\ row.replied
      [] c \in {"uphold", "dismiss"} -> row.report = "pending"
      [] OTHER -> ReviewWritten(row)

ReviewAfter(c, row) ==
    CASE c = "write_review" -> ReviewRow("shown", TRUE, FALSE, "none")
      [] c = "edit_review" -> [row EXCEPT !.editable = FALSE]
      [] c = "delete_review" -> [row EXCEPT !.st = "deleted"]
      [] c = "report" -> [row EXCEPT !.report = "pending"]
      [] c = "create_reply" -> [row EXCEPT !.replied = TRUE]
      [] c = "delete_reply" -> [row EXCEPT !.replied = FALSE]
      [] c = "hide" -> [row EXCEPT !.st = "hidden"]
      [] c = "restore" -> [row EXCEPT !.st = "shown"]
      [] c = "uphold" -> [row EXCEPT !.report = "upheld",
                                     !.st = IF @ = "shown" THEN "hidden" ELSE @]
      [] c = "dismiss" -> [row EXCEPT !.report = "dismissed"]
      [] OTHER -> row

\* The window for editing closes; an order goes on; somebody reports the review.
ReviewDrifts(row) ==
    (CASE row.st \in {"order_paid", "order_shipped"} ->
            {[row EXCEPT !.st = IF @ = "order_paid" THEN "order_shipped" ELSE "order_completed"]}
       [] ReviewWritten(row) /\ row.editable -> {[row EXCEPT !.editable = FALSE]}
       [] OTHER -> {})
    \cup {ReviewAfter(c, row) : c \in {x \in {"report"} : ReaderReview(x, row)}}
=============================================================================
