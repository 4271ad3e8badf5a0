CONSTANTS
  Senders = {a, b}
  IOThread = io
  NoThread = NoThread
  Ports = {0}
  BufWords = 3
  MaxPacketWords = 4
  MaxAccepted = 6
  MaxQueue = 3
  MaxFaults = 2
SPECIFICATION FairSpec
INVARIANTS
  IInv
  NoStrandedPackets
  NoLostWakeup
  PipeOrder
PROPERTIES
  BufferNotReused
  ImplementsPipe
  DeliversAll
CHECK_DEADLOCK FALSE
