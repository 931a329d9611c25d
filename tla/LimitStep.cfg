SPECIFICATION MonSpec
CONSTANTS
    NParts = 1
    MinAngle = 0
    MaxAngle = 6
    LowLimit = 2
    HighLimit = 4
    Garbage = {0}
    StuckLimit = 1
    MaxFails = 2
    Commands = {"mode1", "mode2", "mode3", "step"}
    MaxCmds = 2
    LimitCount = 2
    TurnCount = 2
    MaxLinks = 1
INVARIANTS OvershootBounded
PROPERTIES MotorsStop
CHECK_DEADLOCK FALSE
