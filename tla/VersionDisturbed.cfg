CONSTANTS
  Bits = {1, 2}
  BlockSize = 2
  TextEnds = {{1, 2}}
  Contents <- MCTwoContents
  Base = 2
  MinuteLength = 4
  MaxTime = 4
  Disturbances = {"observer", "readd", "edit", "crash"}
  ServerUp = FALSE
  MaxNet = 2
  None = None
SPECIFICATION Spec
INVARIANT HistoryInv
PROPERTIES NoVersionLost RemovesNewest
\* The clock stops at MaxTime.
CHECK_DEADLOCK FALSE
