SPECIFICATION AnySpec
CONSTANTS
    n1 = n1
    n2 = n2
    p1 = p1
    p0 = p0
    Namespaces = {n1, n2}
    Projects = {p1}
    DefaultProject = p0
    Absent = Absent
    Edits <- SomeEdits
    MaxChanges = 1
    MaxRestarts = 1
    MaxNsFaults = 0
    MaxAuFaults = 0
SYMMETRY Names
INVARIANTS TypeOK CacheInverse SettledNamespace InSyncOrPending
PROPERTY ArrivedStays
CHECK_DEADLOCK FALSE
