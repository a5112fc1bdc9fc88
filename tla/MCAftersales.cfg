\* One order that can be refunded in parts, two cases of it one after the other or in one
\* batch, and the scans against buyers and merchants who do not act again.
CONSTANTS
    u1 = u1
    o1 = o1
    Order = {o1}
    Case = {c1, c2}
    Admin = {m1}
    User = {u1}
    BuyerOf <- SameBuyer
    Total <- TotalTwo
    NoOrder = NoOrder
    NoAdmin = NoAdmin
    NoAmount = NoAmount
    RiskThreshold = 1
    MaxVerdict = 1
    ScanBatch = 2
SPECIFICATION FairSpec
INVARIANTS
    OneActiveCase
    RefundLedger
    RefundsMatchOrders
    ReturnBeforeRefund
PROPERTIES
    StagesEnd
    KeepsOrderContract
\* Row ids are bounded: the system comes to rest.
CHECK_DEADLOCK FALSE
