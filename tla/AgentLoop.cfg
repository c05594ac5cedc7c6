SPECIFICATION Spec
CONSTANTS
  MaxSteps = 3
  MaxBatch = 2
INVARIANTS
  ConversationIsAnswered
  RowTellsResult
PROPERTIES
  ImplementsContract
CHECK_DEADLOCK FALSE
