CONSTANTS
  Schemas <- MCSchemas
  ValuesOf <- MCValuesOf
SPECIFICATION Spec
INVARIANTS
  TypeOK
  ElementsGetTheirBits
  SizeWithinBounds
  ConsumesWhatWasProduced
PROPERTIES
  StreamSpec
CHECK_DEADLOCK FALSE
