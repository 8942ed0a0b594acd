SPECIFICATION Spec
CONSTANTS
    Users = {"u1", "u2"}
    Flights = {"f1", "f2"}
    Calls = {"c1", "c2"}
    MaxVersion = 3
    MaxPairs = 3
    MaxFaults = 1
    MaxRestarts = 1
CHECK_DEADLOCK FALSE
INVARIANTS NobodyComesBack StorageAgrees RevokesOwnSession RotatedNotPresented OwnTokenOnly EveryWaiterIsServed
