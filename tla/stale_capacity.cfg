SPECIFICATION CapacitySpec
CONSTANTS
  StaleAfter = 1
  MaxTime = 3
  MaxTurns = 1
  MaxRepairs = 0
PROPERTIES
  StaleCapacityBlocks
