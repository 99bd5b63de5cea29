SPECIFICATION MCSpec
CONSTANTS
  a = a  b = b  b_alias = b_alias  c = c
  mail_a = mail_a  mail_c = mail_c  main = main  helper = helper
  Accounts = {a, b_alias, c}
  Agents = {main, helper}
  None = None
  Canon <- MCCanon
  Email <- MCEmail
  FirstAccounts <- MCFirstAccounts
  FirstOrder <- MCFirstOrder
  MaxChanges = 1
  StaleAfter = 1
  MaxTime = 3
  MaxTurns = 1
  MaxRepairs = 1
INVARIANTS
  AppliedHeld
  QuietResultsRanNothing
  DeletesTheNamed
  ResumedAfterBlocked
PROPERTIES
  DatedEvidenceIsRecent
CHECK_DEADLOCK FALSE
