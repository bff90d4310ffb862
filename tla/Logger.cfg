SPECIFICATION Spec
CONSTANTS
  Threads = {t1, t2}
  NoThread = NoThread
  Verbosities = {WARN, DEBUG2}
  Groups = {ENCODE}
  UNKNOWN = UNKNOWN
  Slots = {s}
  MaxParts = 2
  MaxSlots = 1
  MaxLine = 2
  MaxThrows = 1
INVARIANTS
  TypeOK
  MutexCoversStatement
  OwnTagOnTop
  LinesWhole
PROPERTIES
  TextKept
  MutexReleased
