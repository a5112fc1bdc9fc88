----------------------------- MODULE MCSession -----------------------------
(* Session on small instances. *)
EXTENDS Session

CONSTANTS t1, t2, r1, r2, a1, a2

MCTabs == {t1, t2}
MCRequests == {r1, r2}
MCAccounts == {a1, a2}
\* One tab with two requests, two tabs with one each, or one tab with one request
\* where two accounts take turns.
MCPlan(slots, who) == [slots |-> slots, who |-> who, signsOut |-> TRUE]
TwoTabs == [t \in MCTabs |-> {r1}]
MCPlans ==
    {MCPlan([t \in MCTabs |-> IF t = t1 THEN {r1, r2} ELSE {}], {a1}),
     MCPlan(TwoTabs, {a1}),
     MCPlan([t \in MCTabs |-> IF t = t1 THEN {r1} ELSE {}], {a1, a2})}

\* Two tabs of one account that never signs out.
TabsPlans == {[slots |-> TwoTabs, who |-> {a1}, signsOut |-> FALSE]}
=============================================================================
