CONSTANTS
  Paths = {p1}
  Senders = {t1}
  Idle = Idle
  Chunks = 3
  MaxSends = 1
  MaxNet = 3
  MaxRev = 1
  Unreadable = {}
  NotUtf8 = {p1}
  Cut = {}
SPECIFICATION Spec
INVARIANT LoggedIsWhole
\* All files may have been sent.
CHECK_DEADLOCK FALSE
