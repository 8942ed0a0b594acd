SPECIFICATION Spec
CONSTANTS
    Events = {"operator", "team", "single"}
    Txs = {"t1", "t2"}
    TxOf <- TxOfEvent
    FirstOf <- FirstRow
    Transient = {"single"}
    Games = {"g1"}
    GameOf <- OneGame
    Instances = {"n1"}
    Batch = 2
    Retention = 0
    Grace = 1
    MaxClock = 2
    MaxFaults = 1
    MaxCrashes = 1
CHECK_DEADLOCK FALSE
INVARIANTS TypeOK CursorCoversTheUnhandled NothingDeletedUnhandled HigherIdHigherVersion
PROPERTIES DeliversEveryEvent
