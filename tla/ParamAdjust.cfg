SPECIFICATION Spec
CONSTANTS
    SatMax = 1
    RecMax = 2
    Straddling = {}
    Senders = {"pc"}
    Sessions = {{"rec", "adjust"}}
    MaxCmds = 2
    MaxRestarts = 1
    MaxFails = 0
    MaxMisreads = 0
    MaxBlind = 0
    MaxOverlaps = 0
INVARIANTS NoOldRecords
CHECK_DEADLOCK FALSE
