------------------------------- MODULE Pages -------------------------------
(* The desks of the three web apps: which page tables a desk uses.  A desk  *)
(* is named by its app, its domain and, in the console, the administrator's *)
(* role; the desks of one domain work on the same row.                     *)
EXTENDS ProductPages, OrderPages, CasePages, ReviewPages, ApplicationPages, NoticePages

DeskOf(app, domain, role) == [app |-> app, domain |-> domain, role |-> role]

\* The permission that opens the pages of a domain to an administrator.
PageGate(domain) ==
    CASE domain = "product" -> "spu:read_all"
      [] domain = "order" -> "order:read_all"
      [] domain = "case" -> "aftersales:read_all"
      [] domain = "review" -> "review:moderate"
      [] domain = "report" -> "review_report:handle"
      [] domain = "application" -> "application:read"
      [] domain = "notice" -> "notification:read"

Gated(role, domain) == Can(role, PageGate(domain))

StaffDomains == {"product", "order", "case", "review", "application", "notice"}
ShopDomains == {"product", "order", "case", "review", "notice"}
BuyerDomains == {"order", "case", "review", "application", "notice"}

AllDesks ==
    {DeskOf("user", x, "any") : x \in BuyerDomains}
    \cup {DeskOf("cashier", "order", "any"), DeskOf("writer", "review", "any")}
    \cup {DeskOf("merchant", x, "any") : x \in ShopDomains}
    \cup {DeskOf("admin", g[2], g[1]) : g \in {h \in Roles \X StaffDomains : Gated(h[1], h[2])}}
    \cup {DeskOf("reports", "review", role) : role \in {r \in Roles : Gated(r, "report")}}

Is(d, app, domain) == d.app = app /\ d.domain = domain
OfStaff(d) == d.app \in {"admin", "reports"}

\* The desks whose commands make up the work of the others on a row.
Colleagues(d) == {e \in AllDesks : e.domain = d.domain /\ e.role \in {"any", "super"}}

PPagesOf(d) ==
    CASE d.app = "cashier" -> PayerPages
      [] d.app = "writer" -> {"list", "new"}
      [] d.app = "reports" -> {"reports", "detail"}
      [] Is(d, "user", "review") \/ Is(d, "merchant", "review") -> {"list"}
      [] Is(d, "user", "application") -> {"apply"}
      [] d.domain = "notice" -> {"list", "bell"}
      [] OTHER -> {"list", "detail"}

PControlsOf(d) ==
    CASE d.app = "cashier" -> PayerControls
      [] d.app = "writer" -> WriteReviewControls
      [] d.app = "reports" -> StaffReportControls
      [] Is(d, "user", "order") -> BuyerOrderControls
      [] Is(d, "user", "case") -> BuyerCaseControls
      [] Is(d, "user", "review") -> MyReviewControls
      [] Is(d, "user", "application") -> ApplicantControls
      [] Is(d, "merchant", "product") -> SellerProductControls
      [] Is(d, "merchant", "order") -> SellerOrderControls
      [] Is(d, "merchant", "case") -> SellerCaseControls
      [] Is(d, "merchant", "review") -> SellerReviewControls
      [] Is(d, "admin", "product") -> StaffProductControls
      [] Is(d, "admin", "order") -> StaffOrderControls
      [] Is(d, "admin", "case") -> StaffCaseControls
      [] Is(d, "admin", "review") -> StaffReviewControls
      [] Is(d, "admin", "application") -> StaffApplicationControls
      [] d.domain = "notice" -> NoticeControls

\* A list of products, orders or cases shows the status.
PSees(d, p, row) ==
    CASE d.app = "cashier" -> PayerSees(p, row)
      [] d.app = "writer" /\ p = "new" -> OrderOfReview(row)
      [] Is(d, "merchant", "notice") -> SellerNoticeSees(row)
      [] d.app # "merchant" /\ d.domain = "notice" -> BuyerNoticeSees(row)
      [] d.domain = "product" /\ p = "list" -> ProductListed(row)
      [] d.domain \in {"order", "case"} /\ p = "list" -> [st |-> row.st]
      [] OTHER -> row

POffers(d, p, c, v) ==
    CASE d.app = "cashier" -> PayerOffers(p, c, v)
      [] d.app = "writer" -> p = "new" /\ WriteReviews(c, v)
      [] d.app = "reports" -> p = "reports" /\ StaffReports(c, v)
      [] Is(d, "user", "order") -> BuyerOrderOffers(p, c, v)
      [] Is(d, "user", "case") -> BuyerCaseOffers(p, c, v)
      [] Is(d, "user", "review") -> MyReviews(c, v)
      [] Is(d, "user", "application") -> ApplyPage(c, v)
      [] Is(d, "user", "notice") -> BuyerNotices(p, c, v)
      [] Is(d, "merchant", "product") -> SellerProductOffers(p, c, v)
      [] Is(d, "merchant", "order") -> SellerOrderOffers(p, c, v)
      [] Is(d, "merchant", "case") -> SellerCaseOffers(p, c, v)
      [] Is(d, "merchant", "review") -> ReplyEditor(c, v)
      [] Is(d, "merchant", "notice") -> SellerNotices(p, c, v)
      [] Is(d, "admin", "product") -> StaffProductOffers(d.role, p, c, v)
      [] Is(d, "admin", "order") -> StaffOrderOffers(d.role, p, c, v)
      [] Is(d, "admin", "case") -> StaffCaseOffers(d.role, p, c, v)
      [] Is(d, "admin", "review") -> StaffReviewOffers(p, c, v)
      [] Is(d, "admin", "application") -> StaffApplicationOffers(d.role, p, c, v)
      [] Is(d, "admin", "notice") -> StaffNotices(p, c, v)

PPasses(d, c, v) ==
    CASE Is(d, "merchant", "case") /\ c = "approve" -> ApproveFormPasses(v)
      [] Is(d, "admin", "case") /\ c = "force_refund" -> ForceRefundFormPasses(v)
      [] OTHER -> TRUE

\* The pages do not look for active SKUs, whether the order of a payment still
\* waits for it, how often the buyer has nudged, whether the order has another
\* case, or how many pictures a stage of a case has.  The page for writing reviews
\* takes shipped orders too, and does not know what has been reviewed.
PAsks(d, c) ==
    \/ Is(d, "merchant", "product") /\ c = "submit_review"
    \/ d.app = "cashier" /\ c = "pay_succeeds"
    \/ d.app = "writer" /\ c = "write_review"
    \/ Is(d, "user", "case") /\ c \in {"nudge", "appeal", "add_evidence"}

PRefreshes(d, p, c) ==
    CASE d.app = "cashier" -> PayerRefreshes(c)
      [] d.app = "writer" -> WriteReviewRefreshes(c)
      [] d.app = "reports" -> StaffReportsRefreshes(c)
      [] Is(d, "user", "order") -> BuyerOrderRefreshes(c)
      [] Is(d, "user", "case") -> BuyerCaseRefreshes(c)
      [] Is(d, "user", "review") -> MyReviewRefreshes(c)
      [] Is(d, "user", "application") -> ApplicantRefreshes(c)
      [] Is(d, "user", "notice") -> BuyerNoticeRefreshes(c)
      [] Is(d, "merchant", "product") -> SellerProductRefreshes(c)
      [] Is(d, "merchant", "order") -> SellerOrderRefreshes(c)
      [] Is(d, "merchant", "case") -> SellerCaseRefreshes(c)
      [] Is(d, "merchant", "review") -> SellerReviewRefreshes(c)
      [] Is(d, "merchant", "notice") -> SellerNoticeRefreshes(c)
      [] Is(d, "admin", "product") -> StaffProductRefreshes(c)
      [] Is(d, "admin", "order") -> StaffOrderRefreshes(c)
      [] Is(d, "admin", "case") -> StaffCaseRefreshes(c)
      [] Is(d, "admin", "review") -> StaffReviewRefreshes(p)
      [] Is(d, "admin", "application") -> StaffApplicationRefreshes(c)
      [] Is(d, "admin", "notice") -> StaffNoticeRefreshes(c)

PNextPage(d, p, c) ==
    CASE d.app = "cashier" -> PayerNext(p, c)
      [] d.app = "writer" -> "list"
      [] Is(d, "merchant", "product") -> IF c = "delete" THEN "list" ELSE p
      [] Is(d, "admin", "product") -> StaffProductNext(p, c)
      [] Is(d, "admin", "application") -> StaffApplicationNext(p, c)
      [] OTHER -> p

\* The permission an administrator's endpoint wants.
PNeeds(domain, c) ==
    CASE domain = "product" -> StaffProductNeeds(c)
      [] domain = "order" -> StaffOrderNeeds(c)
      [] domain = "case" -> StaffCaseNeeds(c)
      [] domain = "review" -> StaffReviewNeeds(c)
      [] domain = "application" -> StaffApplicationNeeds(c)
      [] domain = "notice" -> "notification:read"

PAccepts(d, c, row) ==
    /\ OfStaff(d) => Allowed(d.role, PNeeds(d.domain, c))
    /\ CASE d.domain = "product" -> ProductAccepts(c, row)
         [] d.domain = "order" -> OrderAccepts(c, row)
         [] d.domain = "case" -> CaseAccepts(c, row)
         [] d.domain = "review" -> ReviewAccepts(c, row)
         [] d.domain = "application" -> ApplicationAccepts(c, row)
         [] d.domain = "notice" -> NoticeAccepts(c, row)

PEffect(d, c, row) ==
    CASE d.domain = "product" -> ProductEffect(c, row)
      [] d.domain = "order" -> OrderEffect(c, row)
      [] d.domain = "case" -> CaseEffect(c, row)
      [] d.domain = "review" -> {ReviewAfter(c, row)}
      [] d.domain = "application" -> ApplicationEffect(c, row)
      [] d.domain = "notice" -> {NoticeAfter(c, row)}

\* Where the guards of a page and of its service are known to differ: customer
\* service may not run the scan, and a rejected case may not be refunded.
PMisjudged(d, c, v) ==
    \/ Is(d, "admin", "order") /\ d.role = "service" /\ c = "scan"
    \/ Is(d, "admin", "case") /\ c = "force_refund" /\ v.st = "rejected"

\* Detail pages that a command leaves as they were: the buyer's case, read under
\* another key, and the review, from the lists of reviews and of reports.
PLags(d, p) ==
    /\ p = "detail"
    /\ Is(d, "user", "case") \/ Is(d, "admin", "review") \/ d.app = "reports"

PDrifts(d, row) ==
    CASE d.domain = "order" -> OrderDrifts(row)
      [] d.domain = "case" -> CaseDrifts(row)
      [] d.domain = "review" -> ReviewDrifts(row)
      [] OTHER -> {}

\* A final row waits for nobody.
PFinal(d, row) ==
    CASE d.domain = "order" -> OrderFinal(row)
      [] d.domain = "case" -> CaseFinal(row)
      [] d.domain = "application" -> row.st = "approved"
      [] OTHER -> row.st = "deleted"

PGone(d, row) == row.st = "deleted"

RowsOf(domain) ==
    CASE domain = "product" -> ProductRows
      [] domain = "order" -> OrderRows
      [] domain = "case" -> CaseRows
      [] domain = "review" -> ReviewRows \cup UnwrittenReviews
      [] domain = "application" -> ApplicationRows
      [] domain = "notice" -> NoticeRows

\* What any desk of the domain may send, whatever its pages show.
Work(d, row) ==
    UNION {UNION {PEffect(e, c, row) : c \in {x \in PControlsOf(e) : PAccepts(e, x, row)}}
              : e \in Colleagues(d)}

\* Work that some page offers, with a form that can be filled in.
WorkOffered(d, row) ==
    UNION {UNION {PEffect(e, c, row) :
                    c \in {x \in PControlsOf(e) :
                             /\ PAccepts(e, x, row)
                             /\ \E p \in PPagesOf(e) :
                                  /\ POffers(e, p, x, PSees(e, p, row))
                                  /\ PPasses(e, x, PSees(e, p, row))}}
              : e \in Colleagues(d)}

\* Both tabulated, with what time does, for every desk and row.
AllWork == [d \in AllDesks |-> [r \in RowsOf(d.domain) |-> PDrifts(d, r) \cup Work(d, r)]]
AllWorkOffered ==
    [d \in AllDesks |-> [r \in RowsOf(d.domain) |-> PDrifts(d, r) \cup WorkOffered(d, r)]]

POthers(d, row) == AllWork[d][row]
PMoves(d, row) == AllWorkOffered[d][row]
=============================================================================
