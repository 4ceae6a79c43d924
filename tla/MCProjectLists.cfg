SPECIFICATION MCSpec
CONSTANTS
    Namespaces = {"m", "n"}
    Repos = {1, 2, 3}
    Sorted <- InOrder
    Absent = Absent
    Envs <- SomeEnvs
    Edits <- SomeEdits
    MaxChanges = 3
    MaxTroubles = 1
INVARIANTS TypeOK InOrderOrPending
PROPERTIES OthersKept SettledStays Rests
CHECK_DEADLOCK FALSE
