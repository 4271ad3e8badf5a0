SPECIFICATION Spec
CONSTANTS
  Units = {"unit1", "unit2"}
  Locations = {"l1", "l2"}
  Home <- OwnHome
  Product <- OneModel
  Configs <- Shipped
  Garbage <- Zero
  MaxPlugs = 3
  MaxStarts = 1
  MaxFaults = 0
CHECK_DEADLOCK FALSE
PROPERTY AlreadyInSetup
