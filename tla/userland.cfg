SPECIFICATION MCSpec
CONSTANTS
  MaxCalls = 3
  MaxOwed = 1
  Syscalls = {"mount", "socket"}
  BlockedNormal <- OneBlocked
  BlockedStrict <- AnotherBlocked
  MaxRules = 3
  MaxPaths = 5
  PolicyFiles <- MCPolicyFiles
  FileNames = {"f", "g"}
  Contents <- MCContents
  MaxDeps = 2
  MaxEnv = 1
  MaxLoads = 2
  Kilo = 2
  Half = 16
  IntHalf = 8
  Tables <- MCTables
  Present <- MCPresent
  HostFiles <- MCHostFiles
  Keys = {"a", "b", "c", "d"}
  Vals = {"1", "2"}
  Defaults <- MCDefaults
  PropLines <- MCPropLines
  MaxLines = 2
  MaxProps = 3
  MaxAsked = 4
  Configs <- MCConfigs
  MaxStarts = 2
  Devices = {"imu", "lux", "acc"}
  Raw <- MCRaw
  Hint <- MCHint
  MaxSensors = 2
  MaxReads = 2
  Managers = {"m1", "m2"}
  Pids = {"p1", "p2"}
  NoPid = NoPid
  NoManager = NoManager
  Services = {"s1", "s2", "s3", "s4"}
  ArrayLimit = 3
INVARIANTS
  TypeOK
  
  BelievesWhatIs
  FilterMeansPolicy
  AskedOrReported
  ParsedAsWritten
  EveryGoodFileServed
  NothingBuried
  NodesInPlace
  GetIsLastSet
  PrivilegesDroppedOrSaid
  NoOtherSilentDrop
  OnMeansActive
  EventsAreOwn
  ContainerTypeOK
  KillsItsOwn
  NothingLeft
  NamesNoStranger
  DepsTypeOK
  Promise
  DepthBounded
PROPERTIES
  AirplaneSettles
  GrowsByNewNames
  HostUntouched
  TermEndsTheLoop
  StartAnswered
  HandlerEnds
  WorkShrinks
CHECK_DEADLOCK FALSE
