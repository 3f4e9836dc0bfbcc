SPECIFICATION FairSpec
CONSTANTS
  net = net
  app = app
  tel = tel
  log = log
  p1 = p1
  p2 = p2
  p3 = p3
  NoPid = NoPid
  NoService = NoService
  Services <- TwoServices
  Pids = {p1, p2, p3}
  Requires <- NeedsNet
  After <- AfterNet
  Policy <- Always
  Type <- Simple
  MaxRetries <- OneRetry
  Loads = 1
  MaxServices = 3
  ServiceList <- AppList
  BootOrder <- AppOrder
  Resolved <- AllResolved
  Requests <- NoRequests
  Backlog = 1
  RebootFlag = FALSE
  ForkMayFail = FALSE
PROPERTIES
  AlwaysRunsAgain
