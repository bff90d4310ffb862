SPECIFICATION Spec
CONSTANTS
  Null = Null
  BITS_IN_BYTE = 2
  MAX_STRING_LENGTH = 3
  Fields <- MCFields
  ValuesOf <- MCValuesOf
  Clocks <- MCClocks
INVARIANTS
  ReadsWhatWasWritten
  NextFieldInFront
  SizeWithinBounds
  TimeNearest
CHECK_DEADLOCK FALSE
