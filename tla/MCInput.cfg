CONSTANTS
  Devices = {dev}
  NoDevice = NoDevice
  Ports = {0, 1}
  StatusBytes = {144, 192, 240, 242, 247, 248}
  Intrusions = {}
  MaxBytes = 5
  MaxFaults = 1
SPECIFICATION Spec
INVARIANTS
  Synced
  BytesKept
  CompleteIsDelivered
  WholeMessages
  BufferNotShared
  NoOverrun
CHECK_DEADLOCK FALSE
