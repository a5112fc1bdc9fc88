--------------------------- MODULE OrderLifecycle ---------------------------
(***************************************************************************)
(* What the order core promises to its actors, with no cart, stock,        *)
(* sessions, keys or scans: every order walks the state machine of the     *)
(* order contract (models/order.py points to it), it is charged exactly in *)
(* the step that makes it paid, and only what was charged is closed by a   *)
(* refund.  Steps that handle several orders in one                        *)
(* transaction (a checkout over several shops, a batch of a time-out scan) *)
(* take a set of them.                                                     *)
(***************************************************************************)
CONSTANT Order

VARIABLES
    state,    \* state[o]: the order's status, "none" before it is placed
    charged   \* the orders their buyers have paid for

lvars == <<state, charged>>

Move(S, from, to) ==
    /\ S # {}
    /\ \A o \in S : state[o] \in from
    /\ state' = [o \in Order |-> IF o \in S THEN to ELSE state[o]]

Place(S) == Move(S, {"none"}, "pending_payment") /\ UNCHANGED charged

Pay(o) == Move({o}, {"pending_payment"}, "paid") /\ charged' = charged \cup {o}

Ship(o) == Move({o}, {"paid"}, "shipped") /\ UNCHANGED charged

Complete(S) == Move(S, {"shipped"}, "completed") /\ UNCHANGED charged

Cancel(S) == Move(S, {"pending_payment", "paid"}, "cancelled") /\ UNCHANGED charged

\* A refund of all that was paid ends an order wherever it stands.
Close(S) ==
    /\ S \subseteq charged
    /\ Move(S, {"paid", "shipped", "completed", "cancelled"}, "closed")
    /\ UNCHANGED charged

Init ==
    /\ state = [o \in Order |-> "none"]
    /\ charged = {}

\* The steps of the order core itself.
Serve ==
    \/ \E S \in SUBSET Order : Place(S) \/ Complete(S) \/ Cancel(S)
    \/ \E o \in Order : Pay(o) \/ Ship(o)

Next == Serve \/ \E S \in SUBSET Order : Close(S)

Spec == Init /\ [][Next]_lvars
=============================================================================
