CONSTANTS
  Producers = {io, peer}
  MaxPushes = 2
  Consumer = worker
  NoThread = NoThread
SPECIFICATION FairSpec
INVARIANT DequeInv
PROPERTIES ImplementsFifo PushReturns PushWakesSleeper
