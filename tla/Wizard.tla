------------------------------- MODULE Wizard -------------------------------
(***************************************************************************)
(* The merchant's wizard for a new product: three steps that are filled in *)
(* locally, and one save that calls the backend once for the product, once *)
(* for every SKU of the list and, on its way to review, once more.  Each   *)
(* call may be refused, or done while its answer is lost.                  *)
(***************************************************************************)
EXTENDS Naturals, FiniteSets, Sequences

CONSTANTS
    Skus,         \* SKUs the merchant may enter
    Enabled,      \* those among them that are entered as enabled
    MaxProducts,  \* bound: products the backend takes
    MaxLost       \* bound: lost answers

VARIABLES
    page,      \* 0: the wizard; p: the page of product p
    step,      \* the step of the wizard that is shown
    filled,    \* the required fields of step 1 pass
    local,     \* the list of SKUs that are not saved yet
    saving,    \* the save under way, or NoSave
    products,  \* the products of the backend
    lost       \* answers lost so far

vars == <<page, step, filled, local, saving, products, lost>>

NoSave == [at |-> "idle", toReview |-> FALSE, of |-> 0, todo |-> {}, failed |-> {}]
Saves == [at : {"idle", "product", "skus", "review", "saved"}, toReview : BOOLEAN,
          of : 0..MaxProducts, todo : SUBSET Skus, failed : SUBSET Skus]

Init ==
    /\ page = 0
    /\ step = 1
    /\ filled = FALSE
    /\ local = {}
    /\ saving = NoSave
    /\ products = <<>>
    /\ lost = 0

-----------------------------------------------------------------------------
(* The merchant. *)

Submitting == saving # NoSave

\* The fields of step 1 are filled in, or emptied again.
Fill ==
    /\ page = 0 /\ step = 1
    /\ filled' = ~ filled
    /\ UNCHANGED <<page, step, local, saving, products, lost>>

GoNext ==
    /\ page = 0
    /\ \/ step = 1 /\ filled
       \/ step = 2
    /\ step' = step + 1
    /\ UNCHANGED <<page, filled, local, saving, products, lost>>

GoPrev ==
    /\ page = 0 /\ step > 1
    /\ ~ Submitting
    /\ step' = step - 1
    /\ UNCHANGED <<page, filled, local, saving, products, lost>>

\* The list can be edited while the save is under way.
AddSku(s) ==
    /\ page = 0 /\ step = 3
    /\ local' = local \cup {s}
    /\ local' # local
    /\ UNCHANGED <<page, step, filled, saving, products, lost>>

RemoveSku(s) ==
    /\ page = 0 /\ step = 3
    /\ s \in local
    /\ local' = local \ {s}
    /\ UNCHANGED <<page, step, filled, saving, products, lost>>

\* Review asks for an enabled SKU in the list.
Submit(toReview) ==
    /\ page = 0 /\ step = 3
    /\ ~ Submitting
    /\ IF ~ filled THEN step' = 1 /\ UNCHANGED saving
       ELSE /\ toReview => local \cap Enabled # {}
            /\ saving' = [NoSave EXCEPT !.at = "product", !.toReview = toReview, !.todo = local]
            /\ UNCHANGED step
    /\ UNCHANGED <<page, filled, local, products, lost>>

-----------------------------------------------------------------------------
(* The save: its calls one after another. *)

\* A call that failed for the page: refused, or its answer lost.
Lose == lost < MaxLost /\ lost' = lost + 1

CreateSpu ==
    /\ saving.at = "product"
    /\ LET created == Append(products, [st |-> "draft", skus |-> {}, wanted |-> saving.todo])
       IN \/ /\ Len(products) < MaxProducts
             /\ products' = created
             /\ \/ saving' = [saving EXCEPT !.at = "skus", !.of = Len(created)] /\ UNCHANGED lost
                \/ saving' = NoSave /\ Lose
          \/ saving' = NoSave /\ UNCHANGED <<products, lost>>
    /\ UNCHANGED <<page, step, filled, local>>

\* One that fails is only noted.
CreateSku(s) ==
    /\ saving.at = "skus"
    /\ s \in saving.todo
    /\ LET rest == [saving EXCEPT !.todo = @ \ {s}]
           made == [products EXCEPT ![saving.of].skus = @ \cup {s}]
       IN \/ products' = made /\ saving' = rest /\ UNCHANGED lost
          \/ products' = made /\ saving' = [rest EXCEPT !.failed = @ \cup {s}] /\ Lose
          \/ saving' = [rest EXCEPT !.failed = @ \cup {s}] /\ UNCHANGED <<products, lost>>
    /\ UNCHANGED <<page, step, filled, local>>

\* Mutant: failed SKUs are only noted, on the way to review as for a draft.
AllCreatedAnyway ==
    /\ saving.at = "skus"
    /\ saving.todo = {}
    /\ saving' = [saving EXCEPT !.at = IF saving.toReview THEN "review" ELSE "saved"]
    /\ UNCHANGED <<page, step, filled, local, products, lost>>

\* A draft is saved whatever failed; with a failed SKU nothing goes to review,
\* and the save has failed.
AllCreated ==
    /\ saving.at = "skus"
    /\ saving.todo = {}
    /\ saving' = IF ~ saving.toReview THEN [saving EXCEPT !.at = "saved"]
                 ELSE IF saving.failed = {} THEN [saving EXCEPT !.at = "review"]
                 ELSE NoSave
    /\ UNCHANGED <<page, step, filled, local, products, lost>>

SubmitReview ==
    /\ saving.at = "review"
    /\ \/ /\ products[saving.of].st = "draft"
          /\ products[saving.of].skus \cap Enabled # {}
          /\ products' = [products EXCEPT ![saving.of].st = "pending_review"]
          /\ \/ saving' = [saving EXCEPT !.at = "saved"] /\ UNCHANGED lost
             \/ saving' = NoSave /\ Lose
       \/ saving' = NoSave /\ UNCHANGED <<products, lost>>
    /\ UNCHANGED <<page, step, filled, local>>

\* onSuccess: on to the page of the product.
Saved ==
    /\ saving.at = "saved"
    /\ page' = saving.of
    /\ saving' = NoSave
    /\ UNCHANGED <<step, filled, local, products, lost>>

Next ==
    \/ Fill \/ GoNext \/ GoPrev
    \/ \E s \in Skus : AddSku(s) \/ RemoveSku(s) \/ CreateSku(s)
    \/ \E r \in BOOLEAN : Submit(r)
    \/ CreateSpu \/ AllCreated \/ SubmitReview \/ Saved

Spec == Init /\ [][Next]_vars

-----------------------------------------------------------------------------
(* Properties. *)

TypeOK ==
    /\ page \in 0..MaxProducts
    /\ step \in 1..3
    /\ filled \in BOOLEAN
    /\ local \subseteq Skus
    /\ saving \in Saves
    /\ products \in Seq([st : {"draft", "pending_review"}, skus : SUBSET Skus,
                         wanted : SUBSET Skus])
    /\ lost \in 0..MaxLost

InReview == {p \in DOMAIN products : products[p].st = "pending_review"}

\* What goes to review is the whole product: every SKU that was in the list when
\* the save was pressed, whatever was refused, lost or edited meanwhile.
ReviewedWhole == \A p \in InReview : products[p].skus = products[p].wanted

\* A product goes to review twice only when an answer was lost: pressing again,
\* on either button, sends nothing while a save is under way.
ReviewedOnce == Cardinality(InReview) <= 1 + lost

\* The comment of the page says that a save which got as far as the product ends
\* on its page, so that what failed is repaired there.  It does so for drafts.
LandsOnProduct ==
    [][saving.of # 0 /\ saving' = NoSave => page' = saving.of]_vars

=============================================================================
