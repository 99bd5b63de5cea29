SPECIFICATION FairSpec
CONSTANTS
  p1 = p1  p2 = p2  p3 = p3  k1 = k1  k2 = k2  route = route  delete = delete
  Nothing = Nothing
  Free = Free  Stale = Stale
  ReviewTtl = 1
  Procs = {p1, p2}
  Keys = {k1}
  Requests = {route, delete}
  RouteRequests = {route}
  MaxTime = 1
  MaxCrashes = 1
INVARIANTS
  NoLostUpdate
  RunsAtMostOnce
  ReceiptsAreTruthful
  AnswersMatchReceipts
PROPERTIES
  ConfirmationWindow
  ImplementsAtMostOnce
  ReceiptsAreImmutable
  CommandsEnd
