SPECIFICATION Spec
CONSTANTS
    PCs = {1, 2}
    WaitTicks = 1
    LinkTicks = 1
    MaxPackets = 2
    MaxAnswers = 1
    MaxPolls = 2
INVARIANTS TypeOK PcIsWatched CanAskAgain
PROPERTIES RequestEnds SilentPcLosesControl
CHECK_DEADLOCK FALSE
