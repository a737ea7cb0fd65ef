\* Blocks of 4 bytes and requests of 1 to 6: a request fits the current block,
\* the next one, only a grown one, or only one made for it.
CONSTANTS
  Strategies = {"FIXED", "LINEAR", "EXPONENTIAL"}
  InitialSizes = {4}
  Sizes = {1, 3, 6}
  Aligns = {1, 2}
  MaxBlocks = 4
  MaxAllocs = 5
SPECIFICATION Spec
CHECK_DEADLOCK FALSE
INVARIANT NoBlockLost
