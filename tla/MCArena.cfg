CONSTANTS
    WordSize = 32
    ArenaHead = 1
    LowTop = 5
    MaxRegions = 2
    Procs = {16, 17}
    Requests = {1, 2, 31}
    Methods <- MCMethods
    Filters = {{1}, {1, 2}}
    Limits = {31}
    Extents <- MCExtents
SPECIFICATION Spec
INVARIANTS ChainTiles NoBlockCrossesGap RegionInfoSound LinkAlwaysPossible
PROPERTIES BlocksOfOthersUntouched
