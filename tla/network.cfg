SPECIFICATION FairSpec
CONSTANTS
  WireSize = 8
  MaxRequests = 5
  MaxFrames = 3
CHECK_DEADLOCK FALSE
INVARIANT NetworkInv
PROPERTIES
  MeasuresAgain
  OneMeasurement
