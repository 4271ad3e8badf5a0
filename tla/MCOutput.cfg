CONSTANTS
  Ports = {0, 1, 2}
  BufWords = 2
  Packets <- WholePackets
  MaxPackets = 3
SPECIFICATION FairSpec
INVARIANTS
  TypeOK
  RoundTrip
PROPERTY AllPlayed
CHECK_DEADLOCK FALSE
