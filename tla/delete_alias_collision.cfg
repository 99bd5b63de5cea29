SPECIFICATION Spec
CONSTANTS
  a = a  b = b  b_alias = b_alias  c = c
  mail_a = mail_a  mail_c = mail_c  main = main  helper = helper
  Accounts = {b, b_alias}
  Agents = {main}
  None = None
  Canon <- MCCanon
  Email <- CollidingEmail
  FirstAccounts <- CollidingAccounts
  FirstOrder <- CollidingOrder
  MaxChanges = 0
INVARIANTS
  CollisionsFailClosed
CHECK_DEADLOCK FALSE
