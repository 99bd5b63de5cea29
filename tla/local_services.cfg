SPECIFICATION MCSpec
CONSTANTS
  p1 = p1  p2 = p2  s1 = s1  s2 = s2  a1 = a1  a2 = a2
  Procs = {p1, p2}
  Scopes = {s1, s2}
  LegacyScope = s1
  Refs = {a1, a2}
  Free = Free  Stale = Stale
  MaxCrashes = 1
  c1 = c1  c2 = c2  account = account  l1 = l1  l2 = l2  d1 = d1
  Contexts = {c1, c2}  Accounts = {account}  Loads = {l1, l2}  Details = {d1}
  None = None
  MaxChoices = 1
  MaxLoads = 3
  all = all  few = few  filter = filter  Older = Older
  Queries = {all, few}
  Kinds = {{all}, {all, few}}
  Replacers = {filter}
  Window = 3
  Limit = 1
  MaxLog = 5
  MaxRequests = 2
  Originals = {"cli", "core"}
  MaxRuns = 3
  MaxDeaths = 2
INVARIANTS
  DetailsFollowTheSelection
  QuietPanelIsCurrent
  PagesFollowOn
  AppliedMeansDeleted
  UnallowedRequestsChangeNoRuntime
  EveryRequestIsAnswered
  ResultsAreTruthful
  OriginalsSurvive
PROPERTIES
  ImplementsHiddenAccounts
SYMMETRY Interchangeable
CHECK_DEADLOCK FALSE
