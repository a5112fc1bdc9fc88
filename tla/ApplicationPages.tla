-------------------------- MODULE ApplicationPages --------------------------
(* Merchant applications: the buyer's page, the platform's pages, and the   *)
(* application service.                                                    *)

EXTENDS Permissions

\* A user's applications, by the one that counts.
ApplicationRows ==
    [st : {"none", "pending", "approved", "rejected", "withdrawn"}]

\* Mutant: the form is shown to those who have never applied.
ApplyPageOnce(c, v) ==
    \/ c = "apply" /\ v.st = "none"
    \/ c = "withdraw" /\ v.st = "pending"

\* MerchantApplyContent: one of three cards.
ApplyPage(c, v) ==
    \/ c = "apply" /\ v.st \notin {"pending", "approved"}
    \/ c = "withdraw" /\ v.st = "pending"

\* ApplicationDetailInner: showActionBar.
StaffApplication(role, c, v) ==
    /\ c \in {"approve_merchant", "reject_merchant"}
    /\ v.st = "pending"
    /\ Can(role, "application:review")

StaffApplicationOffers(role, p, c, v) == p = "detail" /\ StaffApplication(role, c, v)

ApplicantRefreshes(c) == {"apply"}

StaffApplicationRefreshes(c) == {"list", "detail"}

\* A rejection leads back to the list; an approval first shows the password.
StaffApplicationNext(p, c) == "list"

ApplicantControls == {"apply", "withdraw"}
StaffApplicationControls == {"approve_merchant", "reject_merchant"}

StaffApplicationNeeds(c) == "application:review"

ApplicationAccepts(c, row) ==
    IF c = "apply" THEN row.st \notin {"pending", "approved"} ELSE row.st = "pending"

ApplicationEffect(c, row) ==
    {[st |-> CASE c = "apply" -> "pending"
               [] c = "withdraw" -> "withdrawn"
               [] c = "approve_merchant" -> "approved"
               [] OTHER -> "rejected"]}
=============================================================================
