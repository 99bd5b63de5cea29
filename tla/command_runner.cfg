SPECIFICATION FairSpec
CONSTANTS
  leader = leader  p = p  q = q
  Leader = leader
  Others = {p, q}
  Timeout = 2
  Grace = 2
  MaxOutput = 1
  MaxWrites = 2
  MaxTime = 5
INVARIANTS
  SettlesInTime
  NoSurvivors
  AcceptedIsComplete
PROPERTIES
  RunsSettle
CHECK_DEADLOCK FALSE
