SPECIFICATION BridgeSpec
CONSTANTS
  MaxRequests = 2
INVARIANTS
  DeletionsAreNotDenied
CHECK_DEADLOCK FALSE
