SPECIFICATION Spec
CONSTANTS
    CheckIns = {"c1", "c3"}
    Submissions = {"s1"}
    Bases <- BasesAB
    BaseOf <- BaseOfId
    Instances = {"app"}
    Calls = {"k1","k2"}
    Home <- HomeOf
    EnforceOrder = FALSE
    MaxFaults = 1
    MaxCrashes = 0
    MaxTaps = 1
    MaxUploads = 1
CHECK_DEADLOCK FALSE
INVARIANTS TypeOK NothingDropped SyncedIsOnServer
PROPERTIES SubmissionBehindCheckIn
