CONSTANTS
    ga = ga
    gb = gb
    a1 = a1
    a2 = a2
    a3 = a3
    b1 = b1
    b2 = b2
    Groups <- MCGroups
    Callers <- MCCallers
    GroupOf <- MCGroupOf
    Minimum <- MCMinimum
    Limit = 3

SPECIFICATION FairSpec

INVARIANTS
    Books
    NoStrandedLease
    Served

PROPERTIES
    GrantsInOrder
    PromiseSpec
    WaiterServed
