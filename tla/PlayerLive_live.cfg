SPECIFICATION Spec
CONSTANTS
    Games = {"g1", "g2"}
    MaxMoves = 3
    MaxFaults = 2
    MaxVersion = 2
CHECK_DEADLOCK FALSE
INVARIANTS TypeOK AlwaysTrying NoForgottenSocket 
 
