CONSTANTS
    WordSize = 32
    ArenaHead = 1
    LowTop = 4
    MaxRegions = 2
    Procs = {16}
    Requests = {1, 31}
    Methods <- MCMethods
    Filters = {{1, 2}}
    Limits = {31}
    Extents <- MCExtents
SPECIFICATION BootSpec
INVARIANTS AllOrNothing RegionsBacked
PROPERTIES AcquireEnds
