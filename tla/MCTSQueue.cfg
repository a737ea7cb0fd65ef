\* Three callers, a ring of two slots, one failing primitive.
CONSTANTS
  NULL = NULL
  NoThread = NoThread
  Threads = {t1, t2, t3}
  Values = {x, NULL}
  Capacity = 2
  MaxFaults = 1
SPECIFICATION Spec
SYMMETRY Symmetry
INVARIANTS
  TypeOK
  MutualExclusion
  RingConsistent
  NoLostWakeup
PROPERTIES
  ImplementsFifo
CHECK_DEADLOCK TRUE
