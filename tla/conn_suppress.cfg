SPECIFICATION Spec
CONSTANTS
  MaxInbox = 2
  MaxOutputs = 1
  MaxCalls = 0
CHECK_DEADLOCK FALSE
INVARIANT SuppressionHolds
