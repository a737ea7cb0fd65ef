\* Arena: blocks of 4 bytes and requests of 1 to 6, so that a request fits the
\* current block, the next one, only a grown one, or only one made for it.
\* Tick loop: 6 ns a second; rates that divide it, that do not, 0, and one above
\* a tick per ns. Byte stream: bytes of two values, so that the longest body has
\* 3, in a buffer of 7. Hash: blocks of 5 bytes, the last 2 for the length.
CONSTANTS
  Strategies = {"FIXED", "LINEAR", "EXPONENTIAL"}
  InitialSizes = {4}
  Sizes = {1, 3, 6}
  Aligns = {1, 2}
  MaxBlocks = 4
  MaxAllocs = 5
  MsPerSec = 2
  NsPerMs = 3
  MaxU32 = 3
  AlphaOne = 4
  Rates = {0, 1, 2, 4, 7}
  Clamps = {0, 1, 2}
  Sleeps = {1, 3}
  Readings = {2, 7}
  MaxTime = 9
  MaxAdvances = 4
  Base = 2
  Cap = 7
  Fields <- MCFields
  MaxFields = 2
  MaxBatches = 1
  BlockLen = 5
  DigestLen = 3
  LengthLen = 2
  ByteBase = 256
  KeyLens = {0, 2, 5, 6, 11}
  MaxPiece = 11
  MaxMessage = 16
SPECIFICATION MCSpec
CHECK_DEADLOCK FALSE
INVARIANTS
  ObjectsTypeOK
  AllocsDisjoint
  ResetReclaims
  TimeAccounted
  TroubleReported
  FramesIntact
  DigestOfWhole
PROPERTIES
  RenderForward
  SleepsLongEnough
