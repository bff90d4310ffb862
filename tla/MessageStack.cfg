SPECIFICATION Spec
CONSTANTS
  None = None
  Scalar = Scalar
  Root = "Root"
  Fields <- MCFields
  MaxRepeat = 2
INVARIANTS
  CountsMatch
  ThisMessageInWork
  PartOfMessageInWork
