CONSTANTS
  Bits = {1, 2}
  BlockSize = 2
  MaxLen = 4
  Files <- MCFiles
  TextEnds = {{1, 2}}
  MaxBytes = 2
  MaxBits = 3
SPECIFICATION Spec
INVARIANTS WritesProduct UndoPads UndoStops RunsEncodeFile
\* A call of multiplyFiles_8 ends.
CHECK_DEADLOCK FALSE
