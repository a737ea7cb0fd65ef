SPECIFICATION TransportSpec
CHECK_DEADLOCK FALSE
CONSTANTS
  a = a
  b = b
  Addrs = {a, b}
  Lens = {0, 2, 3}
  MaxDatagramBytes = 2
  Caps = {0, 2}
  ParamSets <- MCCapParamSets
  MaxSends = 2
  MaxTime = 2
  MaxBinds = 3
  MaxFaults = 1
INVARIANT
  CapRespected
