SPECIFICATION TransportSpec
CHECK_DEADLOCK FALSE
CONSTANTS
  a = a
  b = b
  Addrs = {a, b}
  Lens = {0, 2, 3}
  MaxDatagramBytes = 2
  Caps = {0, 2}
  ParamSets <- MCParamSets
  MaxSends = 2
  MaxTime = 1
  MaxBinds = 2
  MaxFaults = 1
INVARIANTS
  TypeOK
  BytesAccounted
  DatagramsConserved
  NothingInherited
  DeliveryOrder
PROPERTIES
  StepDrains
  RepliesTell
SYMMETRY Symmetry
