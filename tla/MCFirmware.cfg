SPECIFICATION FairSpec
CONSTANTS
  d1 = d1
  d2 = d2
  d3 = d3
  Devices = {d1, d2, d3}
  NoDevice = NoDevice
  ColdId <- Cold
  WarmId <- Warm
  Configs <- AllConfigs
  Garbage <- Zero
  LoaderFiles <- LoaderOrDamaged
  FirmwareFiles <- AppOrDamaged
  Loader <- LoaderImage
  Application <- Images
  Addresses <- AddressSpace
  MAX_INTERNAL_ADDRESS <- HighestInternal
  Blank = "blank"
  MaxFaults = 3
  MaxPlugs = 3
CHECK_DEADLOCK FALSE
INVARIANTS TypeOK BootedRunsApplication ConfigurationComplete
PROPERTIES StartsWholeImage ApplicationLeftAlone HeldWhileLoading ImplementsDeviceBoot EveryDeviceBoots
