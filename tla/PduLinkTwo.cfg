SPECIFICATION Spec
CONSTANTS
    LockTasks = {oled, track}
    DirectTasks = {gps}
    Parts = {1}
    LockOps = {"start", "stop", "ver"}
    DirectOps = {"gps"}
    Lossy = TRUE
    Late = TRUE
    ReplyBytes = 2
    MaxReq = 3
    MaxUrgent = 1
    monitor = monitor
    oled = oled
    track = track
    gps = gps
INVARIANTS TypeOK PduMutex UartMutex NoLostWakeup AckIsOwn MotorMoveIsTrue LostUnitIsGone
CHECK_DEADLOCK FALSE
