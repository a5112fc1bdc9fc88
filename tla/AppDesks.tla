------------------------------ MODULE AppDesks ------------------------------
(* Desk with the desks of the three web apps: its parameters are the tables *)
(* of Pages.                                                               *)
EXTENDS Desk, Pages

\* The bounds of the instance are numbers.
BudgetsAreNumbers ==
    \A d \in Desks : \A r \in Starts(d) : \A b \in Budgets(d, r) :
        b \in [calls : Nat, changes : Nat, faults : Nat]

\* The parameters of Desk are the tables of Pages; the desks, the rows they find
\* and the bounds are free.
DesksOfTheApps ==
    /\ Desks \subseteq AllDesks
    /\ \A d \in Desks :
          /\ PagesOf(d) = PPagesOf(d)
          /\ ControlsOf(d) = PControlsOf(d)
          /\ Starts(d) \subseteq RowsOf(d.domain)
          /\ \A r \in RowsOf(d.domain) :
                /\ Others(d, r) = POthers(d, r)
                /\ Moves(d, r) = PMoves(d, r)
                /\ Final(d, r) <=> PFinal(d, r)
                /\ Gone(d, r) <=> PGone(d, r)
          /\ \A p \in PPagesOf(d) :
                /\ Lags(d, p) <=> PLags(d, p)
                /\ \A r \in RowsOf(d.domain) : Sees(d, p, r) = PSees(d, p, r)
          /\ \A c \in PControlsOf(d) :
                /\ Asks(d, c) <=> PAsks(d, c)
                /\ \A r \in RowsOf(d.domain) :
                      /\ Accepts(d, c, r) <=> PAccepts(d, c, r)
                      /\ Effect(d, c, r) = PEffect(d, c, r)
          /\ \A p \in PPagesOf(d), c \in PControlsOf(d) :
                /\ NextPage(d, p, c) = PNextPage(d, p, c)
                /\ Refreshes(d, p, c) = PRefreshes(d, p, c)
                /\ \A r \in RowsOf(d.domain) :
                      LET v == PSees(d, p, r) IN
                      /\ Offers(d, p, c, v) <=> POffers(d, p, c, v)
                      /\ POffers(d, p, c, v) =>
                            /\ Passes(d, c, v) <=> PPasses(d, c, v)
                            /\ Misjudged(d, c, v) <=> PMisjudged(d, c, v)
=============================================================================
