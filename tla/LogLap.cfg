SPECIFICATION Spec
CONSTANTS
    SectorSize = 2
    InfoSectors = 2
    DataSectors = 6
    Sizes = {1, 2}
    TornSlots = {"torn"}
    BadAreas = {"data"}
    MaxSaves = 3
    MaxCrashes = 1
    BootCrashes = 0
    MaxBad = 1
    MaxTimeouts = 2
INVARIANTS TypeOK QueryAnswers
PROPERTIES LogsKeepRecords StartEnds
CHECK_DEADLOCK FALSE
