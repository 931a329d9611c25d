SPECIFICATION Spec
CONSTANTS
    LockTasks = {monitor, oled, track}
    DirectTasks = {}
    Parts = {1}
    LockOps = {"stop"}
    DirectOps = {}
    Lossy = FALSE
    Late = FALSE
    ReplyBytes = 2
    MaxReq = 3
    MaxUrgent = 0
    monitor = monitor
    oled = oled
    track = track
    gps = gps
INVARIANT PduMutex
CHECK_DEADLOCK FALSE
