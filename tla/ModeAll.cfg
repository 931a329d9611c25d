SPECIFICATION Spec
CONSTANTS
    NParts = 1
    MinAngle = 0
    MaxAngle = 2
    LowLimit = 0
    HighLimit = 2
    Garbage = {0}
    StuckLimit = 1
    MaxFails = 1
    Commands = {"mode0", "mode1", "mode2", "mode3", "turn", "turnstop", "step", "record"}
    MaxCmds = 2
PROPERTIES GotoEnds GotoModeEnds FollowModeEnds
CHECK_DEADLOCK FALSE
