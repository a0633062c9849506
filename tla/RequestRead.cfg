\* One or two requests on a connection.
SPECIFICATION MCSpec
CONSTANTS
  Plans <- MCPlans
  Keys <- MCKeys
  \* a 4 space % & + = -
  ValueCharacters = {97, 52, 32, 37, 38, 43, 61, 45}
  MaxPairs = 2
  MaxCharacters = 2
INVARIANTS
  DeliveredExactly
  QueryDecoded
PROPERTY EveryRequestDelivered
\* The client sends no more than its plan.
CHECK_DEADLOCK FALSE
