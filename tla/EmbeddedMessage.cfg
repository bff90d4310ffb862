SPECIFICATION Spec
CONSTANTS
  Scalar = Scalar
  Schemas <- MCSchemas
  MessagesOf <- MCMessagesOf
  MaxMessages = 2
INVARIANTS
  MessageArrives
  NextMessageInFront
  SizeWithinBounds
CHECK_DEADLOCK FALSE
