CONSTANTS
  Clients = {c1, c2}
  Server = server
  f1 = f1
  f2 = f2
  Files <- MCFiles
  Later <- MCLater
  Missing = Missing
  Partial = Partial
  MaxSaves = 1
  MaxChecks = 2
SPECIFICATION Spec
INVARIANTS IntegrityInv ListedIsThere BlockedWasServedNothing UnblockedAtTheEnd
\* All commands may have been given, and everybody blocked.
CHECK_DEADLOCK FALSE
