SPECIFICATION Spec
CONSTANTS
    NParts = 2
    MinAngle = 0
    MaxAngle = 2
    LowLimit = 0
    HighLimit = 2
    Garbage = {0}
    StuckLimit = 1
    MaxFails = 2
    Commands = {"record", "mode4"}
    MaxCmds = 1
INVARIANTS TypeOK RestAfterRound
CHECK_DEADLOCK FALSE
