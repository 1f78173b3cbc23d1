CONSTANTS
  Clients = {c1}
  Server = server
  ClientMsgs = 2
  ServerMsgs = 1
SPECIFICATION FairSpec
INVARIANTS SendInv FramesAligned
PROPERTIES ImplementsChannel EveryMessageArrives
\* Everything may have been sent, or everybody may have stopped.
CHECK_DEADLOCK FALSE
