SPECIFICATION Spec
CONSTANTS
  net = net
  app = app
  tel = tel
  log = log
  p1 = p1
  p2 = p2
  p3 = p3
  NoPid = NoPid
  NoService = NoService
  Services <- TwoServices
  Pids = {p1, p2}
  Requires <- NeedsNet
  After <- AfterNet
  Policy <- MixedPolicy
  Type <- Forking
  MaxRetries <- MixedRetry
  Loads = 2
  MaxServices = 3
  ServiceList <- LateList
  BootOrder <- LateOrder
  Resolved <- AllResolved
  Requests <- AnyRequest
  Backlog = 1
  RebootFlag = TRUE
  ForkMayFail = TRUE
SYMMETRY PidSymmetry
INVARIANTS
  TypeOK
  PidOwned
  StateMatchesPid
PROPERTIES
  StoppedStaysStopped
