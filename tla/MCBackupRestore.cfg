SPECIFICATION Spec
CONSTANTS
  Files <- MCFiles
  DirOf <- MCDirOf
  Size <- MCSize
  ClusterUnits = 2
  Jobs <- MCJobs
  Rooms = {6}
  Buffer = 2
  All = All
  NoFile = NoFile
  Detours = 1
INVARIANTS SavedIsRestorable RestoredIsWhole RefusesOnlyBroken
