SPECIFICATION FairSpec
CONSTANTS
  r1 = r1  r2 = r2  s1 = s1  s2 = s2  
  Reqs = {r1, r2}
  Scopes = {s1, s2}
  OpenClaw = TRUE
  None = None
  StatusDeadline = 1
  PoolDeadline = 1
  AgentsLimit = 1
  PhaseAllowance = 1
  StatusAllowance = 2
  PoolsAllowance = 4
INVARIANTS
  OneProbePerGate
  PoolsAreOfTheirScope
  AnswersHaveHeadroom
PROPERTIES
  NoStaleAnswer
  HandlersReturn
