SPECIFICATION Spec
CONSTANTS
    a1 = a1
    a2 = a2
    x1 = x1
    x2 = x2
    x3 = x3
    Accounts <- MCAccounts
    Conns <- MCConns
    Limit <- MCLimit
    Lists <- MCLists
    MaxEntries = 3
INVARIANTS
    ConnectionLimit
    RegisteredAreActive
    SyncedUsers
SYMMETRY MCSymmetry
