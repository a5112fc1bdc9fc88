\* One request at a time.
CONSTANTS
    s1 = s1
    s2 = s2
    h1 = h1
    h2 = h2
    User = {u1}
    Shop = {h1}
    Sku = {s1, s2}
    ShopOf <- OneShop
    Order = {o1, o2}
    Session = {p1}
    Key = {k1}
    NoUser = NoUser
    NoShop = NoShop
    NoKey = NoKey
    NoOrder = NoOrder
    InitialStock = 1
    MaxUnits = 2
    MaxCartItemQuantity = 1
    MaxCartItemsPerUser = 2
    ScanBatch = 2
    Txn = {t1}
    MaxActive = 1
    Statements <- EveryStatement
    DeadlinesPassMidRequest = FALSE
SPECIFICATION TxnSpec
SYMMETRY RowSymmetry
PROPERTIES
    RunsAsOrders
\* Row ids, units and time-outs are bounded: the system comes to rest.
CHECK_DEADLOCK FALSE
