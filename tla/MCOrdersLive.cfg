\* Two payment sessions, two keys, quantities up to two; the scans take one row.
CONSTANTS
    s1 = s1
    s2 = s2
    h1 = h1
    h2 = h2
    User = {u1}
    Shop = {h1}
    Sku = {s1}
    ShopOf <- OneShop
    Order = {o1, o2}
    Session = {p1, p2}
    Key = {k1, k2}
    NoUser = NoUser
    NoShop = NoShop
    NoKey = NoKey
    NoOrder = NoOrder
    InitialStock = 2
    MaxUnits = 2
    MaxCartItemQuantity = 2
    MaxCartItemsPerUser = 2
    ScanBatch = 1
SPECIFICATION FairSpec
INVARIANTS
    PaidOnce
    HistoryTellsStatus
PROPERTIES
    PendingResolves
    ShippedCompletes
\* Row ids, units and time-outs are bounded: the system comes to rest.
CHECK_DEADLOCK FALSE
