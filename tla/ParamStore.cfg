SPECIFICATION Spec
CONSTANTS
    SatMax = 3
    RecMax = 2
    Straddling = {2}
    Senders = {"pc", "panel"}
    Sessions = {{"sat", "delsat"}, {"rec", "delrec", "adjust"}, {"rec", "band"}}
    MaxCmds = 3
    MaxRestarts = 2
    MaxFails = 1
    MaxMisreads = 1
    MaxBlind = 1
    MaxOverlaps = 1
INVARIANTS TypeOK SatsKept RecordsKept NumbersAgree
CHECK_DEADLOCK FALSE
