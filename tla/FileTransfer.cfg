CONSTANTS
  Paths = {p1, p2, p3}
  Senders = {t1, t2}
  Idle = Idle
  Chunks = 2
  MaxSends = 2
  MaxNet = 3
  MaxRev = 1
  Unreadable = {p1}
  NotUtf8 = {p3}
  Cut = {p3}
SPECIFICATION Spec
SYMMETRY Symmetry
INVARIANTS TransferInv DataIsWhole NothingLeftOpen
\* All files may have been sent.
CHECK_DEADLOCK FALSE
