\* Two buyers, two SKUs of two shops with one unit each, and one key.
CONSTANTS
    s1 = s1
    s2 = s2
    h1 = h1
    h2 = h2
    User = {u1, u2}
    Shop = {h1, h2}
    Sku = {s1, s2}
    ShopOf <- TwoShops
    Order = {o1, o2}
    Session = {p1}
    Key = {k1}
    NoUser = NoUser
    NoShop = NoShop
    NoKey = NoKey
    NoOrder = NoOrder
    InitialStock = 1
    MaxUnits = 1
    MaxCartItemQuantity = 1
    MaxCartItemsPerUser = 2
    ScanBatch = 2
SPECIFICATION Spec
SYMMETRY RowSymmetry
INVARIANTS
    TypeOK
    StockLedger
    KeyNamesOneOrder
PROPERTIES
    UnitsConserved
    ImplementsLifecycle
\* Row ids, units and time-outs are bounded: the system comes to rest.
CHECK_DEADLOCK FALSE
