------------------------------- MODULE MCSetup -------------------------------
(* Two units, of two models or of one, at two locations.  The configuration
   names both models, one of them twice, or one of the two, or it cannot be
   read. *)
EXTENDS DeviceSetup

TwoModels == [u \in Units |-> IF u = "unit1" THEN 4098 ELSE 4129]   \* 2x2, 4x4
OneModel  == [u \in Units |-> 4098]
OwnHome  == [u \in Units |-> IF u = "unit1" THEN {"l1"} ELSE {"l2"}]

Value(type, value) == [type |-> type, value |-> value, fits |-> TRUE]
Dictionary(name, cold, warm, size) ==
  Value("dictionary",
        [DeviceName |-> Value("string", name), FilePath |-> Value("string", "f"),
         ColdBootProductID |-> Value("number", cold),
         WarmFirmwareProductID |-> Value("number", warm),
         ReadBufferSize |-> Value("number", size),
         WriteBufferSize |-> Value("number", size)])

Model2x2 == Dictionary("2x2", 4097, 4098, 32)
Model4x4 == Dictionary("4x4", 4128, 4129, 64)
Model4x4Again == Dictionary("4x4 s", 4144, 4129, 32)

ConfigOf(devices) ==
  Value("dictionary", [HexLoader |-> Value("string", "l"),
                       Devices |-> Value("array", devices)])

Shipped == {ConfigOf(<<Model2x2, Model4x4>>)}
AnyConfig == Shipped \cup {ConfigOf(<<Model4x4Again, Model2x2, Model4x4>>),
                     ConfigOf(<<Model2x2>>), Unreadable}
Zero == {0}
=============================================================================
