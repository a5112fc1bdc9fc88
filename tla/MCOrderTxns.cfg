\* Two requests at a time on one order and its payments, or on two orders.
CONSTANTS
    s1 = s1
    s2 = s2
    h1 = h1
    h2 = h2
    User = {u1}
    Shop = {h1}
    Sku = {s1}
    ShopOf <- OneShop
    Order = {o1, o2}
    Session = {p1, p2}
    Key = {k1, k2}
    NoUser = NoUser
    NoShop = NoShop
    NoKey = NoKey
    NoOrder = NoOrder
    InitialStock = 1
    MaxUnits = 0
    MaxCartItemQuantity = 1
    MaxCartItemsPerUser = 2
    ScanBatch = 2
    Txn = {t1, t2}
    MaxActive = 2
    Statements <- EveryStatement
    DeadlinesPassMidRequest = TRUE
SPECIFICATION BoundedTxnSpec
SYMMETRY RowSymmetry
INVARIANTS
    OnePendingSession
    ChargeLeavesTrace
    OneOrderPerKey
PROPERTIES
    LogsFollowHistory
\* Row ids, units and time-outs are bounded: the system comes to rest.
CHECK_DEADLOCK FALSE
