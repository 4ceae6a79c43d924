SPECIFICATION FairUnsettledSpec
CONSTANTS
    n1 = n1
    p1 = p1
    p0 = p0
    Namespaces = {n1}
    Projects = {p1}
    DefaultProject = p0
    Absent = Absent
    Edits <- SomeEdits
    MaxChanges = 1
    MaxRestarts = 1
    MaxNsFaults = 1
    MaxAuFaults = 1
INVARIANTS SettledNamespace RolesOrPending
PROPERTIES CreatedUnderFinalizer Converges
CHECK_DEADLOCK FALSE
