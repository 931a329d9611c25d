SPECIFICATION Spec
CONSTANTS
    LockTasks = {oled, track}
    DirectTasks = {gps}
    Parts = {1}
    LockOps = {"stop", "ver"}
    DirectOps = {"gps"}
    Lossy = TRUE
    Late = TRUE
    ReplyBytes = 2
    MaxReq = 3
    MaxUrgent = 0
    monitor = monitor
    oled = oled
    track = track
    gps = gps
PROPERTIES CallsReturn
CHECK_DEADLOCK FALSE
