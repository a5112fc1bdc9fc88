------------------------------- MODULE Scans --------------------------------
(* The time-out scans: what one transaction of a scan takes on.            *)
EXTENDS Integers, FiniteSets

CONSTANT ScanBatch   \* rows one transaction of a time-out scan takes

ASSUME ScanAssumption == ScanBatch \in Nat \ {0}

\* SELECT ... LIMIT ScanBatch: any ScanBatch of the matching rows, or all.
Batches(S) ==
    {B \in SUBSET S :
        /\ B # {}
        /\ \/ Cardinality(B) = ScanBatch
           \/ B = S /\ Cardinality(S) <= ScanBatch}
=============================================================================
