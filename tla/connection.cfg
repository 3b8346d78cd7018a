SPECIFICATION FairSpec
CONSTANTS
  MaxInbox = 2
  MaxOutputs = 2
  MaxCalls = 2
CHECK_DEADLOCK FALSE
INVARIANT ConnectionInv
PROPERTIES
  ClientStreams
  LostIsDropped
  StreamingQuitEnds
