SPECIFICATION Spec
CONSTANTS
  net = net
  app = app
  tel = tel
  log = log
  p1 = p1
  p2 = p2
  p3 = p3
  NoPid = NoPid
  NoService = NoService
  Services <- FourServices
  Pids = {p1, p2, p3}
  Requires <- NeedsNet
  After <- AfterNet
  Policy <- MixedPolicy
  Type <- Simple
  MaxRetries <- MixedRetry
  Loads = 2
  MaxServices = 3
  ServiceList <- CrowdList
  BootOrder <- CrowdOrder
  Resolved <- AllResolved
  Requests <- StartStop
  Backlog = 1
  RebootFlag = FALSE
  ForkMayFail = FALSE
SYMMETRY PidSymmetry
INVARIANTS
  DependentsStopFirst
  NothingListedLeft
PROPERTIES
  BootRespectsOrder
  LifeGoesOn
