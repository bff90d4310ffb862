CONSTANTS
  s = s  t = t  none = none
  Threads = {s, t}
  Oneofs = 2
  Fields <- MCFields
  Plain = none
  Unsigned = 1024
  MaxCalls = 2
SPECIFICATION Spec
SYMMETRY Threads2
INVARIANTS
  TypeOK
  MapHoldsAFieldSize
  AloneIsRight
CHECK_DEADLOCK FALSE
