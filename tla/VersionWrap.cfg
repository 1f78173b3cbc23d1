CONSTANTS
  Bits = {1, 2}
  BlockSize = 2
  TextEnds = {{1, 2}}
  Contents <- MCTwoContents
  Base = 3
  MinuteLength = 2
  MaxTime = 3
  Disturbances = {}
  ServerUp = FALSE
  MaxNet = 2
  None = None
SPECIFICATION Spec
INVARIANT RestoreIsCorrect
\* The clock stops at MaxTime.
CHECK_DEADLOCK FALSE
