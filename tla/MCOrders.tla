------------------------------ MODULE MCOrders ------------------------------
(* Orders on small instances: the constants the .cfg files cannot write.   *)
EXTENDS Orders, TLC

CONSTANTS s1, s2, h1, h2

OneShop == [s \in Sku |-> h1]

TwoShops == [s \in Sku |-> IF s = s1 THEN h1 ELSE h2]

RowSymmetry ==
    Permutations(Order) \cup Permutations(Session)
        \cup Permutations(User) \cup Permutations(Key)

=============================================================================
