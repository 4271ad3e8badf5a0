CONSTANTS
  Ports = {0}
  BufWords = 8
  Packets <- ShortPackets
  MaxPackets = 2
SPECIFICATION FairSpec
PROPERTY PrepareReturns
CHECK_DEADLOCK FALSE
