\* The same instance: what render divides by.
CONSTANTS
  NULL = NULL
  NoThread = NoThread
  Workers = {w1,w2}
  Main = Main
  Input = Input
  Display = Display
  Jobs = {j1}
  JobSeconds = 1
  Capacity = 2
  MaxFaults = 0
SPECIFICATION Spec
INVARIANT DividesByJobLength
