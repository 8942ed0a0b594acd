SPECIFICATION Spec
CONSTANTS
    Flights = {"f1", "f2"}
    Calls = {"c1", "c2"}
    Replace = FALSE
    MaxLogins = 2
    MaxPairs = 4
    MaxQueued = 2
    MaxFaults = 1
    MaxRestarts = 1
CHECK_DEADLOCK FALSE
INVARIANTS TypeOK ChosenSessionStands DiskAgreesWhenQuiet RotatedTokenNotReused
PROPERTIES EveryCallEnds
