SPECIFICATION Spec
CONSTANTS
    Teams = {"A", "B"}
    Bases = {"b1"}
    Players = {"pA", "pB"}
    TeamOf <- TeamOfPlayer
    Creator = "pB"
    Keys = {"mA"}
    SpotOf <- SpotOfKey
    MarkKeys = {"mA"}
    Requests = {r1, r2, r3}
    Work <- Rescues
    Joined = {"pA"}
    Practice = TRUE
    MaxChanges = 2
CHECK_DEADLOCK FALSE
PROPERTIES PaidIsFinal EndsWhatIsDue
