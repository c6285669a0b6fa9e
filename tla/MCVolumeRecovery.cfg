SPECIFICATION Spec
CONSTANTS
    LastCluster = 8
    RootSectors = 2
    BadCluster = 2
    Cuts = 1
    WeakClusters = {0, 4}
    Disks <- DiskSet
    OptionSets <- OptionSet
    RepairModes <- Autofix
INVARIANTS NeverUnreadable MapsAgree Packed Recovered RepairIsClean
