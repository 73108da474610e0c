SPECIFICATION Spec
CONSTANTS
  Parts = {"files", "gate", "keeper", "life", "wire", "session"}
  FileIds = {1, 2, 3} FileSessions = {s} FileRequests = {x} Drainers = {d} MaxFileRequests = 2
  Executors = {x, y} Ids = {1, 2, 3, 4, 5, 6, 7, 8} MaxFaults = 1
  TTL = 6 Stall = 2
  LifeExecutors = {x} MaxWrites = 1 MaxLifeFaults = 1
  Null = Null WireWorkers = {w1} Calls = {k1} MaxRows = 2 Reclaim = 1 StartupTTL = 1 WireTTL = 1 WindDown = 1
  Threads = {p, c} Primary = p EnvKinds = {"cloud", "self_hosted"} Brains = {b1} Drivers = {d1} MaxSettlementChain = 2 MaxRunTurns = 1 MaxLive = 2 MaxCalls = 2
PROPERTIES
  GateHeals
  KeeperIsHonest
  DeletedIsCollected
  WindDownEnds
  SilenceIsRest
CHECK_DEADLOCK FALSE
