SPECIFICATION FairSpec
CONSTANTS
  NoLayout = NoLayout
  Lists <- MCLists
  Pdus <- MCPdus
  MaximumMonitorCount = 3
  MaximumDesktopExtent = 6
  MinSize = 2
  MaxSize = 4
  CanReject = TRUE
  MaxRequests = 4
CHECK_DEADLOCK FALSE
INVARIANTS
  DisplayInv
  AcceptsExactlyValid
PROPERTIES
  AcceptedIsLatest
  RequestAnswered
