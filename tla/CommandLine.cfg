CONSTANTS
  A = a
  X = x
  Blank = blank
  Quote = quote
  Backslash = backslash
  Slash = slash
  Char = {a, x, blank, quote, backslash, slash}
  MaxLen = 5
  Commands <- MCCommands
  Exit <- MCExit
  Inputs <- MCInputs
  Arguments <- MCArguments
  MaxReads = 4
SPECIFICATION Spec
INVARIANTS SplitInv SplitsAsMeant CalledInOrder NoneLeftOut
\* The loop may end, and the reads are bounded.
CHECK_DEADLOCK FALSE
