SPECIFICATION Spec
CONSTANTS
    f1 = f1
    f2 = f2
    f3 = f3
    k1 = k1
    k2 = k2
    PageShapes <- MCLists
    MaxTotal = 3
    MaxClicks = 1
    MaxChanges = 1
    AllForms <- ShopForms
    Lax <- LaxFields
    MaxOpenings = 2
    MaxTypings = 2
    MaxFaults = 1
    MaxUploads = 1
    Files <- MCFiles
    Cases <- MCCases
    MaxImages = 2
    Skus <- MCSkus
    Enabled <- MCEnabled
    MaxProducts = 2
    MaxLost = 1
PROPERTIES
    EmptiedIsEmpty
\* Each screen is taken a bounded number of steps.
CHECK_DEADLOCK FALSE
