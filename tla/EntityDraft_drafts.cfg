SPECIFICATION Spec
CONSTANTS
    Rows = {"a", "b", "c"}
    Typed = {"a", "b~", "bad"}
    Foreign = {"c"}
    Normal <- Polished
    Invalid = {"bad"}
    Forced = FALSE
    MaxEdits = 2
    MaxForeign = 1
    MaxSaves = 1
    MaxFaults = 1
    MaxVisits = 2
    MaxRestarts = 1
    MaxEvents = 2
    MaxQueued = 1
CHECK_DEADLOCK FALSE
INVARIANTS UnsavedIsKept StorageFollows
PROPERTIES ConflictStands EditsSettle
