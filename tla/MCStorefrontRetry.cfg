SPECIFICATION Spec
CONSTANTS
    i1 = i1
    i2 = i2
    s1 = s1
    s2 = s2
    Items <- MCItems
    Slots <- MCSlots
    Plans <- MCPlans
    MaxIds = 2
    MaxKeys = 3
    MaxQty = 2
PROPERTY RetryKeepsKey
SYMMETRY Symmetric
CHECK_DEADLOCK FALSE
