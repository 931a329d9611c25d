SPECIFICATION MonSpec
CONSTANTS
    NParts = 1
    MinAngle = 0
    MaxAngle = 6
    LowLimit = 2
    HighLimit = 4
    Garbage = {0}
    StuckLimit = 1
    MaxFails = 1
    Commands = {"record"}
    MaxCmds = 1
    LimitCount = 2
    TurnCount = 2
    MaxLinks = 0
INVARIANTS OvershootBounded
PROPERTIES MotorsStop
CHECK_DEADLOCK FALSE
