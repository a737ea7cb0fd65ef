\* Two workers and one job through a queue of two slots: the second pill may
\* find the queue full, and main, input and workers wait for each other.
CONSTANTS
  NULL = NULL
  NoThread = NoThread
  Workers = {w1,w2}
  Main = Main
  Input = Input
  Display = Display
  Jobs = {j1}
  JobSeconds = 1
  Capacity = 2
  MaxFaults = 0
SPECIFICATION FairSpec
INVARIANTS
  TypeOK
  EveryJobOnce
  NobodyLeftBehind
  FinalTally
  DrawsLiveSlots
PROPERTIES ShutdownCompletes
