SPECIFICATION Spec
CONSTANTS
  Services = {1, 2}
  NoService = 0
  InterfaceNumber <- TwoInterfaces
  DesiredInterface = 0
  MaxFaults = 1
  Clients = {"client"}
  IOThread = "io"
  InPipe = "mInPipe"
  OutPipes = {"mOutPipe1", "mOutPipe2"}
  MaxUnplugs = 1
  MaxSends = 1
  MaxParts = 2
CHECK_DEADLOCK FALSE
INVARIANTS TypeOK OneChain ReferencesBalanced
PROPERTIES EntersLive GoneIsClosed
