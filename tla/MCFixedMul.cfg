\* The same words; only the fixed point is called.
CONSTANTS
  Bits = 4
  RotBits = 2
  Frac = 2
  Mult = 45
  MaxStride = 1
  Half = 2
  AngleHalf = 4
  AngleBits = 6
  SinLut <- MCSinLut
  AtanLut <- MCAtanLut
  LineMax = 7
  FileMax = 5
  MaxI64 = 127
  MaxU64 = 255
  MaxText = 4
  MaxNumber = 4
  MaxFailAt = 12
  Libraries = {"fixed"}
SPECIFICATION Spec
CHECK_DEADLOCK FALSE
INVARIANT PathsAgree
