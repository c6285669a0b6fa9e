SPECIFICATION Spec
CONSTANTS
  r = r
  a = a
  b = b
  k1 = k1
  k2 = k2
  Processes = {r, a, b}
  Root = r
  SftCount = 2
  FilPerProc = 2
  MaxHandles = 3
  Blocks = {k1, k2}
  KeepsInherited = FALSE
  ErrorsWhileMarked = FALSE
SYMMETRY MCSymmetry
INVARIANTS CountsAgree NoSftLost TableInPlace
PROPERTIES HandlesKeepFile
