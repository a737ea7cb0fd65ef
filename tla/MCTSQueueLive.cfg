\* Three callers, a ring of one slot: every operation waits for another.
CONSTANTS
  NULL = NULL
  NoThread = NoThread
  Threads = {t1, t2, t3}
  Values = {NULL}
  Capacity = 1
  MaxFaults = 1
SPECIFICATION FairSpec
PROPERTIES
  CallersProgress
