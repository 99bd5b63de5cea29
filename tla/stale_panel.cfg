SPECIFICATION PanelSpec
CONSTANTS
  c1 = c1  c2 = c2  account = account  l1 = l1  l2 = l2  d1 = d1
  Contexts = {c1, c2}
  Accounts = {account}
  Loads = {l1, l2}
  Details = {d1}
  None = None
  MaxChoices = 1
  MaxLoads = 3
PROPERTIES
  ChangesStayInTheScopeShown
CHECK_DEADLOCK FALSE
