CONSTANTS
    WordSize = 32
    ArenaHead = 1
    LowTop = 4
    MaxRegions = 2
    Procs = {16}
    Requests = {2}
    Methods <- MCMethods
    Filters = {}
    Limits = {}
    Extents <- MCExtents
    MaxShells = 2
    Profiles <- MCProfiles
SPECIFICATION HighSpec
PROPERTIES PolicyOnlyWhileChildRuns
