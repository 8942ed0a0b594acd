SPECIFICATION Spec
CONSTANTS
    CheckIns = {"c1", "c2"}
    Submissions = {"s1"}
    Bases <- BasesAB
    BaseOf <- BaseOfId
    Instances = {"app"}
    Calls = {"k1"}
    Home <- HomeOf
    EnforceOrder = TRUE
    MaxFaults = 1
    MaxCrashes = 1
    MaxTaps = 0
    MaxUploads = 1
CHECK_DEADLOCK FALSE
PROPERTIES NeverAheadOfPrereq CheckpointsSurvive Settles
