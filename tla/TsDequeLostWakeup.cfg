CONSTANTS
  Producers = {io}
  MaxPushes = 2
  Consumer = worker
  NoThread = NoThread
SPECIFICATION FairSpec
PROPERTY ItemsAreConsumed
