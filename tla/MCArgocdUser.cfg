SPECIFICATION FairMCSpec
CONSTANTS
    a = a
    b = b
    long = long
    u = u
    v = v
    Absent = Absent
    Roles <- TwoRoles
    Passwords = {a, b, long}
    TooLong = {long}
    Users = {u, v}
    Specs <- SomeSpecs
    MaxChanges = 2
    MaxTroubles = 1
INVARIANTS TypeOK InOrderOrPending
PROPERTIES KeepsPromise MergedMembersStay FinalizerLast ProvidedStays SettledStays DeletionCompletes Converges
CHECK_DEADLOCK FALSE
