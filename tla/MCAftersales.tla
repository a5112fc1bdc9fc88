--------------------------- MODULE MCAftersales -----------------------------
(* Aftersales on small instances: the constants the .cfg files cannot      *)
(* write.                                                                  *)
EXTENDS Aftersales

CONSTANTS u1, o1

SameBuyer == [o \in Order |-> u1]

\* Every order can be refunded in parts.
TotalTwo == [o \in Order |-> 2]
=============================================================================
