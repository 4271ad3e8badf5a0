SPECIFICATION Spec
CONSTANTS
  Units = {"unit1", "unit2"}
  Locations = {"l1", "l2"}
  Home <- OwnHome
  Product <- TwoModels
  Configs <- AnyConfig
  Garbage <- Zero
  MaxPlugs = 4
  MaxStarts = 2
  MaxFaults = 1
CHECK_DEADLOCK FALSE
INVARIANTS TypeOK InterfacesFollowBus OnlineIsServed ServedIsOnline PendingIsAnnounced
PROPERTY AlreadyInSetup
