\* phase-3-contracts.md:689: two checkouts of the last unit.
CONSTANTS
    s1 = s1
    s2 = s2
    h1 = h1
    h2 = h2
    User = {u1}
    Shop = {h1}
    Sku = {s1}
    ShopOf <- OneShop
    Order = {o1, o2}
    Session = {}
    Key = {k1, k2}
    NoUser = NoUser
    NoShop = NoShop
    NoKey = NoKey
    NoOrder = NoOrder
    InitialStock = 1
    MaxUnits = 0
    MaxCartItemQuantity = 1
    MaxCartItemsPerUser = 2
    ScanBatch = 1
    Txn = {t1, t2}
    MaxActive = 2
    Statements <- EveryStatement
    DeadlinesPassMidRequest = TRUE
SPECIFICATION TxnSpec
SYMMETRY RowSymmetry
INVARIANTS
    NoOversell
\* Row ids, units and time-outs are bounded: the system comes to rest.
CHECK_DEADLOCK FALSE
