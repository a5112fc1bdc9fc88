---------------------------- MODULE MCOrderTxns ----------------------------
(* OrderTxns on small instances: the constants the .cfg files cannot write. *)
EXTENDS OrderTxns, TLC

CONSTANTS s1, s2, h1, h2

OneShop == [s \in Sku |-> h1]

TwoShops == [s \in Sku |-> IF s = s1 THEN h1 ELSE h2]

EveryStatement ==
    {"insert_order", "update_order", "close_order", "fetch_sku", "update_sku",
     "insert_session", "update_session", "delete_cart"}

RowSymmetry ==
    Permutations(Order) \cup Permutations(Session)
        \cup Permutations(User) \cup Permutations(Key) \cup Permutations(Txn)

\* Bound: sessions are opened while there is one order, and a second order is
\* placed while there are none.
SecondOrderOrSessions ==
    \/ Cardinality(Order \ FreeOrders) + Cardinality(Inserting("insert_order")) <= 1
    \/ FreeSessions = Session /\ Inserting("insert_session") = {}

BoundedTxnSpec == TxnInit /\ [][TxnNext /\ SecondOrderOrSessions']_tvars
=============================================================================
