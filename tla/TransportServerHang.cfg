CONSTANTS
  Clients = {c1, c2}
  Server = server
  ClientMsgs = 0
  ServerMsgs = 0
SPECIFICATION FairSpec
PROPERTY EveryClientIsAccepted
CHECK_DEADLOCK FALSE
