SPECIFICATION Spec
CONSTANTS
    Teams = {"A", "B"}
    Bases = {"b1"}
    Players = {"pA", "pB"}
    TeamOf <- TeamOfPlayer
    Creator = "nobody"
    Keys = {"kA"}
    SpotOf <- SpotOfKey
    MarkKeys = {}
    Requests = {r1, r2, r3}
    Work <- Contention
    Joined = {"pA", "pB"}
    Practice = FALSE
    MaxChanges = 4
CHECK_DEADLOCK FALSE
SYMMETRY AnyOrder
INVARIANTS TypeOK CycleMatchesStatus OneCurrentCycle CheckInBehindAward NeverOverdrawn
PROPERTIES NoLostReview
