SPECIFICATION HSpec
CONSTANTS
  net = net
  app = app
  tel = tel
  log = log
  p1 = p1
  p2 = p2
  p3 = p3
  NoPid = NoPid
  NoService = NoService
  Services <- TwoServices
  Pids = {p1, p2, p3}
  Requires <- NeedsNet
  After <- AfterNet
  Policy <- MixedPolicy
  Type <- Simple
  MaxRetries <- MixedRetry
  Loads = 1
  MaxServices = 3
  ServiceList <- AppList
  BootOrder <- AppOrder
  Resolved <- AllResolved
  Requests <- NetStop
  Backlog = 1
  RebootFlag = FALSE
  ForkMayFail = FALSE
SYMMETRY PidSymmetry
INVARIANTS
  StoppedMeansStopped
