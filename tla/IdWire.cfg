CONSTANTS
  SomeIds <- MCIds
  MaxIds = 3
SPECIFICATION WireSpec
INVARIANTS
  ReadInOrder
  SizeIsConsumption
CHECK_DEADLOCK FALSE
