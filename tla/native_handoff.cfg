SPECIFICATION FairSpec
CONSTANTS
  c1 = c1  c2 = c2
  Conns = {c1, c2}
  MaxEntries = 2
  Ttl = 1
  MaxTime = 1
  MaxIssued = 3
INVARIANTS
  EvictsOldest
PROPERTIES
  AcceptedOnceInTime
  NoPeerBesideHandoff
  ClaimsAreReleased
