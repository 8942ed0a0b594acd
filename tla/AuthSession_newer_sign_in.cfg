SPECIFICATION Spec
CONSTANTS
    Flights = {"f1", "f2"}
    Calls = {"c1"}
    Replace = TRUE
    MaxLogins = 2
    MaxPairs = 3
    MaxQueued = 0
    MaxFaults = 0
    MaxRestarts = 0
CHECK_DEADLOCK FALSE
INVARIANTS NewerSignInSurvives
