CONSTANTS
  Schemas <- OmitSchemas
  ValuesOf <- MCValuesOf
SPECIFICATION Spec
INVARIANT ConsumesWhatWasProduced
CHECK_DEADLOCK FALSE
