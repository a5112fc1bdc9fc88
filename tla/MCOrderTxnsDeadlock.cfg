\* Two checkouts at a time, each of two SKUs that it locks in either order.
CONSTANTS
    s1 = s1
    s2 = s2
    h1 = h1
    h2 = h2
    User = {u1, u2}
    Shop = {h1}
    Sku = {s1, s2}
    ShopOf <- OneShop
    Order = {o1, o2}
    Session = {}
    Key = {k1, k2}
    NoUser = NoUser
    NoShop = NoShop
    NoKey = NoKey
    NoOrder = NoOrder
    InitialStock = 1
    MaxUnits = 0
    MaxCartItemQuantity = 1
    MaxCartItemsPerUser = 2
    ScanBatch = 2
    Txn = {t1, t2}
    MaxActive = 2
    Statements = {"insert_order", "update_sku", "delete_cart"}
    DeadlinesPassMidRequest = FALSE
SPECIFICATION FairTxnSpec
PROPERTIES
    RequestsEnd
\* Row ids, units and time-outs are bounded: the system comes to rest.
CHECK_DEADLOCK FALSE
