SPECIFICATION Spec
CONSTANTS
  net = net
  app = app
  tel = tel
  log = log
  p1 = p1
  p2 = p2
  p3 = p3
  NoPid = NoPid
  NoService = NoService
  Services <- ThreeServices
  Pids = {p1, p2, p3}
  Requires <- MutualDeps
  After <- MutualDeps
  Policy <- MixedPolicy
  Type <- Simple
  MaxRetries <- MixedRetry
  Loads = 2
  MaxServices = 3
  ServiceList <- GrowList
  BootOrder <- CycleOrder
  Resolved <- ResolvedOnce
  Requests <- NoRequests
  Backlog = 1
  RebootFlag = FALSE
  ForkMayFail = FALSE
SYMMETRY PidSymmetry
INVARIANTS
  NothingLeftRunning
