\* Two threads and one file; the body just fits without a timestamp before it
\* and just does not with one.
CONSTANTS
  NoThread = NoThread
  Threads = {t1, t2}
  NoFile = NoFile
  Files = {f1}
  Levels = {2, 6}
  MinLevels = {6}
  Bodies = {4}
  BufSize = 10
  MarkerLen = 2
  PrefixLen = 3
  StampLen = 1
  MaxLines = 2
  MaxSets = 2
  MaxFaults = 1
SPECIFICATION FairSpec
INVARIANTS
  TypeOK
  InitBeforeUse
  OneConfigPerLine
  SinksAgree
  LinesFit
PROPERTIES
  ErrorSticks
  CallsReturn
CHECK_DEADLOCK FALSE
