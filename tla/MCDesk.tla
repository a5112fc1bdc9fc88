------------------------------- MODULE MCDesk -------------------------------
(* Desk with the desks of the web apps, on small budgets.                  *)
EXTENDS AppDesks

\* What the theorems about the apps' desks assume holds of these instances.
ASSUME DesksAssumption == DesksOfTheApps /\ BudgetsAreNumbers

\* A desk finds every row that its pages tell apart; the roles below the highest
\* a row of every status.
MCStarts(d) ==
    CASE d.domain = "product" -> {r \in ProductRows : d.app = "admin" => r.skus = "active"}
      [] d.domain = "order" -> OrderRows
      [] d.domain = "case" ->
           {r \in PricedCases : d.role \in {"any", "super"} \/ r.type = "exchange"}
      [] d.domain = "review" /\ d.app = "writer" -> UnwrittenReviews
      [] d.domain = "review" /\ OfStaff(d) -> {r \in ReviewRows : ~ r.editable /\ ~ r.replied}
      [] d.domain = "review" /\ d.app # "writer" /\ ~ OfStaff(d) -> ReviewRows
      [] d.domain = "application" -> ApplicationRows
      [] d.domain = "notice" -> NoticeRows

\* The merchant's desk with the cases that the buyer's apply page opens.
MCSellerCase == {DeskOf("merchant", "case", "any")}
MCApplied(d) == AppliedCases

\* Every row with one command and one failure; one row in the middle of its life
\* also with somebody else's change, and for buyers with a second command.
MCMiddle ==
    {[st |-> "approved", skus |-> "active"],
     [st |-> "paid", paying |-> FALSE],
     CaseRow("return_shipped", "exchange", "some", FALSE, "none"),
     ReviewRow("shown", TRUE, FALSE, "none"),
     ReviewRow("shown", FALSE, FALSE, "pending"),
     [st |-> "order_shipped"],
     [st |-> "rejected"],
     [st |-> "unread"]}

MCBudget(calls, changes, faults) == [calls |-> calls, changes |-> changes, faults |-> faults]

MCBudgets(d, r) ==
    {MCBudget(1, 0, 1)}
    \cup (IF r \in MCMiddle /\ d.role \in {"any", "super"} THEN {MCBudget(1, 1, 0)} ELSE {})
    \cup (IF r \in MCMiddle /\ d.app = "user" THEN {MCBudget(2, 0, 0)} ELSE {})
=============================================================================
