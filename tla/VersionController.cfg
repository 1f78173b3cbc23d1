CONSTANTS
  Bits = {1, 2}
  BlockSize = 2
  TextEnds = {{1, 2}}
  Contents <- MCContents
  Base = 2
  MinuteLength = 4
  MaxTime = 3
  Disturbances = {"unknown"}
  ServerUp = TRUE
  MaxNet = 1
  None = None
SPECIFICATION Spec
INVARIANTS HistoryInv RestoresAsPromised ServerMirrors
PROPERTIES NoVersionLost RemovesNewest
\* The clock stops at MaxTime.
CHECK_DEADLOCK FALSE
