SPECIFICATION Spec
CONSTANTS
    SectorSize = 2
    InfoSectors = 1
    DataSectors = 2
    Sizes = {1, 2}
    TornSlots = {"torn"}
    BadAreas = {"data"}
    MaxSaves = 4
    MaxCrashes = 0
    BootCrashes = 0
    MaxBad = 0
    MaxTimeouts = 0
INVARIANTS SlotIsErased
CHECK_DEADLOCK FALSE
