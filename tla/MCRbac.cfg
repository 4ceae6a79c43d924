SPECIFICATION FairSpec
CONSTANTS
    Admins = {NoAdmins, a1}
    NoAdmins = NoAdmins
    a1 = a1
    Absent = Absent
    Edits <- Edited
    MaxChanges = 3
    MaxRestarts = 1
    MaxFaults = 1
INVARIANTS TypeOK InOrderOrPending
PROPERTIES SettledStays Converges Collected
CHECK_DEADLOCK FALSE
