SPECIFICATION Spec
CONSTANTS
    Teams = {"A", "B"}
    Bases = {"b1"}
    Players = {"pA", "pB"}
    TeamOf <- TeamOfPlayer
    Creator = "nobody"
    Keys = {"kA"}
    SpotOf <- SpotOfKey
    MarkKeys = {}
    Requests = {r1, r2}
    Work <- Contention
    Joined = {"pA", "pB"}
    Practice = FALSE
    MaxChanges = 3
CHECK_DEADLOCK FALSE
PROPERTIES ReviewsFrozenWhenEnded
