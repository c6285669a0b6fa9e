CONSTANTS
    WordSize = 32
    ArenaHead = 1
    LowTop = 4
    MaxRegions = 2
    Procs = {16}
    Requests = {1, 31}
    Methods <- MCMethods
    Filters = {{2}}
    Limits = {2}
    Extents <- MCExtents
SPECIFICATION ScanSpec
INVARIANTS ReportedMaxIsExact
PROPERTIES ScanIsAtomic AllocReturns
