---------------------------- MODULE ProductPages ----------------------------
(* Product pages: the merchant's product list and editor, the platform's    *)
(* review queue, and the product and SKU services behind them.             *)
EXTENDS Permissions

\* A product: its review status and whether it has SKUs, some of them active.
ProductRows ==
    [st : {"draft", "pending_review", "approved", "rejected", "off_shelf"},
     skus : {"none", "inactive", "active"}]
    \cup {[st |-> "deleted", skus |-> k] : k \in {"none", "inactive", "active"}}

-----------------------------------------------------------------------------
(* Merchant. *)

\* A list row shows the status; deleted products are not listed.
ProductListed(row) == row.st

\* ProductRow: canDelete.
SellerProductRow(c, st) ==
    c = "delete" /\ st \in {"draft", "off_shelf", "rejected"}

\* actionsForStatus and EditHeader.
EditHeader(c, v) ==
    \/ c = "submit_review" /\ v.st \in {"draft", "rejected"}
    \/ c = "withdraw_review" /\ v.st = "pending_review"
    \/ c = "offshelf" /\ v.st = "approved"
    \/ c = "onshelf" /\ v.st = "off_shelf"
    \/ c = "delete" /\ v.st \in {"draft", "rejected", "off_shelf"}

\* BasicInfoTab: read-only while the product is under review.
BasicInfoTab(c, v) ==
    c \in {"save_key", "save_text"} /\ v.st \notin {"pending_review", "deleted"}

\* SKUManagementTab: open in every status.
SKUManagementTab(c, v) ==
    /\ v.st # "deleted"
    /\ \/ c \in {"add_sku"}
       \/ c \in {"toggle_sku", "delete_sku"} /\ v.skus # "none"

SellerProductOffers(p, c, v) ==
    CASE p = "list" -> SellerProductRow(c, v)
      [] OTHER -> EditHeader(c, v) \/ BasicInfoTab(c, v) \/ SKUManagementTab(c, v)

\* Mutant: the header's actions read only the lists again.
SellerProductRefreshesLists(c) ==
    IF c \in {"add_sku", "toggle_sku", "delete_sku"} THEN {"detail"} ELSE {"list"}

\* EditHeader invalidates the detail and the lists, a deletion the lists only;
\* the SKU tab the SKUs and the detail.
SellerProductRefreshes(c) ==
    CASE c = "delete" -> {"list"}
      [] c \in {"add_sku", "toggle_sku", "delete_sku"} -> {"detail"}
      [] OTHER -> {"list", "detail"}

-----------------------------------------------------------------------------
(* Platform. *)

\* SPUDetailInner: canReview, canForceOffshelf.
StaffProductOffers(role, p, c, v) ==
    /\ p = "detail"
    /\ \/ /\ c \in {"approve", "reject"}
          /\ v.st = "pending_review"
          /\ Can(role, "spu:review")
       \/ /\ c = "force_offshelf"
          /\ v.st = "approved"
          /\ Can(role, "spu:force_offshelf")

\* invalidate: the product and the queue.
StaffProductRefreshes(c) == {"list", "detail"}

\* A rejected or withdrawn product sends the reviewer back to the queue.
StaffProductNext(p, c) == IF c \in {"reject", "force_offshelf"} THEN "list" ELSE p

-----------------------------------------------------------------------------
(* product_service.py and sku_service.py. *)

SellerProductControls ==
    {"submit_review", "withdraw_review", "offshelf", "onshelf", "delete",
     "save_key", "save_text", "add_sku", "toggle_sku", "delete_sku"}
StaffProductControls == {"approve", "reject", "force_offshelf"}

StaffProductNeeds(c) ==
    IF c = "force_offshelf" THEN "spu:force_offshelf" ELSE "spu:review"

ProductAccepts(c, row) ==
    /\ row.st # "deleted"
    /\ CASE c = "submit_review" -> row.st \in {"draft", "rejected"} /\ row.skus = "active"
         [] c \in {"withdraw_review", "approve", "reject"} -> row.st = "pending_review"
         [] c = "offshelf" -> row.st = "approved"
         [] c = "onshelf" -> row.st = "off_shelf"
         [] c = "delete" -> row.st # "approved"
         [] c \in {"save_key", "save_text"} -> row.st # "pending_review"
         [] c = "force_offshelf" -> row.st \in {"approved", "off_shelf"}
         [] c \in {"toggle_sku", "delete_sku"} -> row.skus # "none"
         [] OTHER -> TRUE

\* A saved key field sends a product on or off the shelf back to review.
ProductStatusAfter(c, st) ==
    CASE c = "submit_review" -> "pending_review"
      [] c = "withdraw_review" -> "draft"
      [] c \in {"approve", "onshelf"} -> "approved"
      [] c = "reject" -> "rejected"
      [] c \in {"offshelf", "force_offshelf"} -> "off_shelf"
      [] c = "delete" -> "deleted"
      [] c = "save_key" /\ st \in {"approved", "off_shelf"} -> "pending_review"
      [] OTHER -> st

\* Adding, switching or deleting one of the SKUs.
SkusAfter(c, k) ==
    CASE c = "add_sku" -> IF k = "active" THEN {"active"} ELSE {"inactive", "active"}
      [] c = "toggle_sku" -> {"inactive", "active"}
      [] c = "delete_sku" -> {"none", "inactive"} \cup {k}
      [] OTHER -> {k}

ProductEffect(c, row) ==
    {[st |-> ProductStatusAfter(c, row.st), skus |-> k] : k \in SkusAfter(c, row.skus)}
=============================================================================
