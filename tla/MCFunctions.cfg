\* Words of 4 bits for the random numbers and the fx16, 8 for the fx32 and the
\* integers of a configuration: every value of every argument, both ends of
\* every word.
CONSTANTS
  Bits = 4
  RotBits = 2
  Frac = 2
  Mult = 45
  MaxStride = 1
  Half = 2
  AngleHalf = 4
  AngleBits = 6
  SinLut <- MCSinLut
  AtanLut <- MCAtanLut
  LineMax = 7
  FileMax = 5
  MaxI64 = 127
  MaxU64 = 255
  MaxText = 4
  MaxNumber = 4
  MaxFailAt = 12
  Libraries = {"random", "fixed", "angle", "config"}
SPECIFICATION Spec
CHECK_DEADLOCK FALSE
INVARIANTS
  UniformDraws
  ExactArithmetic
  AnglesOrdered
  ConfigFile
  ParsesExact
