SPECIFICATION Spec
CONSTANTS
  TotalDisk = 5
  Entries = 3
  Slots = 3
  Faults = 0
  Runs = 2
  Foreign <- MCForeign
INVARIANTS UnchangedKept
