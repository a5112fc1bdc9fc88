---------------------------- MODULE MCStorefront ----------------------------
(* Storefront on small instances. *)
EXTENDS Storefront, TLC

CONSTANTS i1, i2, s1, s2

MCItems == {i1, i2}
MCSlots == {s1, s2}
\* Visitors who edit the cart, and visitors who buy: two items with one call at a
\* time, or one item with two calls; and one who buys it again, to come to a second
\* checkout before the first has ended.
MCPlan(u, is, ss, n) ==
    [use |-> u, items |-> is, slots |-> ss, keys |-> n,
     others |-> u \cap {"create", "clear"} # {} /\ n < 3]
MCPlans ==
    {MCPlan(u, MCItems, MCSlots, 0) :
        u \in {{"group"}, {"select"}, {"quantity"}, {"clear"}, {"all", "dropSome"}}}
    \cup {MCPlan({"add", "drop"}, {i}, MCSlots, 0) : i \in MCItems}
    \cup {MCPlan({"create"}, {i}, MCSlots, 2) : i \in MCItems}
    \cup {MCPlan({"create"}, MCItems, {s}, 1) : s \in MCSlots}
    \cup {MCPlan({"buy", "create"}, {i}, {s}, 1) : i \in MCItems, s \in MCSlots}
    \cup {MCPlan({"buy", "create"}, {i}, MCSlots, 3) : i \in MCItems}
Symmetric == Permutations(MCItems) \cup Permutations(MCSlots)
=============================================================================
