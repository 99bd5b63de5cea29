SPECIFICATION CapacitySpec
CONSTANTS
  StaleAfter = 1
  MaxTime = 0
  MaxTurns = 1
  MaxRepairs = 0
PROPERTIES
  RecoveryIsAnnounced
