SPECIFICATION MCSpec
CONSTANTS
  p1 = p1  p2 = p2  add = add  reauth = reauth
  Procs = {p1, p2}
  Keys = {add}
  ReauthKeys = {}
  ProofResults = {}
  Expiries = {Never, 1}
  Never = Never
  Free = Free  Stale = Stale
  Attempts = 2
  MaxProofAge = 0
  MaxRecords = 1
  MaxChallenges = 2
  MaxTime = 1
  MaxCrashes = 1
INVARIANTS
  OneRequestEndsAChallenge
  AuditsAgree
  OneLiveChallengePerKey
PROPERTIES
  EndedChallengesStay
  AuditKeepsNewest
SYMMETRY Interchangeable
