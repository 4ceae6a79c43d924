SPECIFICATION UnusedSpec
CONSTANTS
    a = a
    p1 = p1
    p0 = p0
    Namespaces = {a}
    Projects = {p1}
    DefaultProject = p0
    Absent = Absent
    Edits = {}
    MaxChanges = 2
    MaxRestarts = 0
    MaxNsFaults = 0
    MaxAuFaults = 0
PROPERTY CleanedUp
CHECK_DEADLOCK FALSE
