CONSTANTS
  Devices = {dev}
  NoDevice = NoDevice
  Ports = {0}
  StatusBytes = {144, 248}
  Intrusions = {"message"}
  MaxBytes = 8
  MaxFaults = 0
SPECIFICATION Spec
INVARIANT
  RealTimeTransparent
CHECK_DEADLOCK FALSE
