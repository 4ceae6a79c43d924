SPECIFICATION NoDefaultSpec
CONSTANTS
    a = a
    b = b
    Namespaces = {a}
    Projects = {a, b}
    DefaultProject = b
    Absent = Absent
    Edits <- FewEdits
    MaxChanges = 1
    MaxRestarts = 1
    MaxNsFaults = 0
    MaxAuFaults = 0
INVARIANTS SettledNamespace InSyncOrPending
PROPERTY PublishesRecord
CHECK_DEADLOCK FALSE
