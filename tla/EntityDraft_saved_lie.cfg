SPECIFICATION Spec
CONSTANTS
    Rows = {"a", "b", "c"}
    Typed = {"a", "b~", "bad"}
    Foreign = {"c"}
    Normal <- Polished
    Invalid = {"bad"}
    Forced = FALSE
    MaxEdits = 2
    MaxForeign = 1
    MaxSaves = 0
    MaxFaults = 0
    MaxVisits = 1
    MaxRestarts = 0
    MaxEvents = 1
    MaxQueued = 1
CHECK_DEADLOCK FALSE
INVARIANTS SavedMeansSaved
