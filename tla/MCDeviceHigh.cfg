CONSTANTS
    WordSize = 32
    ArenaHead = 1
    LowTop = 11
    MaxRegions = 2
    Procs = {16}
    Requests = {}
    Methods = {}
    Filters = {}
    Limits = {}
    Extents <- MCExtents
    AllocLim = 9
    MaxDrives = 2
    Lines <- MCLines
    Drivers <- MCDrivers
SPECIFICATION DevSpec
INVARIANTS PolicyOnlyInTransaction LinkedMemoryOwned CursorInBounds NoBlockLost
PROPERTIES LineEnds
CHECK_DEADLOCK FALSE
