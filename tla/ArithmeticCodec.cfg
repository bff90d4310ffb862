CONSTANTS
  CODE_VALUE_BITS = 6
  Models <- MCModels
  FieldsOf <- MCFieldsOf
  Tails <- MCTails
  MaxMessages = 2
SPECIFICATION Spec
INVARIANTS
  TypeOK
  IntervalHoldsEverySymbol
  ModelsInStep
  DecodesWhatWasEncoded
  ConsumesWhatWasProduced
  SizeWithinBounds
CHECK_DEADLOCK FALSE
