SPECIFICATION FairSpec
CONSTANTS
    t1 = t1
    t2 = t2
    r1 = r1
    r2 = r2
    a1 = a1
    a2 = a2
    Nobody = Nobody
    Tabs <- MCTabs
    Requests <- MCRequests
    Accounts <- MCAccounts
    Plans <- MCPlans
    MaxPairs = 3
INVARIANTS
    NobodyWaitsInVain
    ReplayedOnce
PROPERTIES
    KeepsSession
    RefreshEnds
CHECK_DEADLOCK FALSE
