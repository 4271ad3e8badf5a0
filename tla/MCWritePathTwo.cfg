CONSTANTS
  Senders = {a}
  IOThread = io
  NoThread = NoThread
  Ports = {0, 1}
  BufWords = 2
  MaxPacketWords = 3
  MaxAccepted = 3
  MaxQueue = 2
  MaxFaults = 0
SPECIFICATION FairSpec
INVARIANTS
  QueueOrder
PROPERTY
  EveryWordEncoded
CHECK_DEADLOCK FALSE
