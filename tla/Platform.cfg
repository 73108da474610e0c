SPECIFICATION Spec
CONSTANTS
  Parts = {"files", "exec", "gate", "transfer", "life", "gateway", "catalog", "memory", "cron", "deploy", "lists", "dreams", "agents", "mounts", "egress", "vaults", "skills", "remote", "mcp", "surface"}
  FileIds = {1, 2, 3} FileSessions = {s} FileRequests = {x, y} Drainers = {d} MaxFileRequests = 3
  Deadline = 2 ProbeLead = 1 OverrunSlop = 1 KillGrace = 3 Latency = 1 Horizon = 7
  Executors = {x, y} Ids = {1, 2, 3, 4, 5, 6, 7, 8} MaxFaults = 2
  MaxMember = 2 MaxMeddles = 1
  LifeExecutors = {x, y} MaxWrites = 2 MaxLifeFaults = 1
  MaxAttempts = 2 MaxEvents = 3 MaxHeld = 1
  Providers = {"p"} Credentials = {"c"} Deployments = {"d", "e"} AliasNames = {"a"} Keys = {"k"} Admins = {x, y} Callers = {x, y} Kinds = {"chat", "embedding"} MaxReloads = 2
  AgentShas = {1, 2, 3} ClientShas = {2, 4} Invalid = {3} MaxMemoriesPerStore = 2 MaxIds = 4
  MinutesPerHour = 2 HoursPerDay = 4 DaysPerWeek = 3 SearchYears = 1 AmbiguityMargin = 6 ProbeDistance = 12 Counts = {2} FirstAfter = 18 LastAfter = 42 WindowLength = 12
  Replicas = {x, y} Runner = runner CatchupWindow = 4 LockWait = 1 StartTime = 19 EndTime = 23 MaxDeploymentEdits = 2 MaxFireFaults = 1
  RowIds = {1, 2, 3, 4} Internal = {4} Unnamed = unnamed MaxTableChanges = 2
  Dreams = {d1} Runners = {x, y} Placements = {TRUE} StageCount = 3 StartAttempts = 2
  AgentIds = {1, 2} Tools = {"own", "given"} Self = self Keep = keep Requests = {x, y} MaxVersions = 2
  MountFiles = {"f", "g"} MountStores = {"s1", "s2", "s3"} MemoryNameMax = 2
  Numeric = {"9"} Managers = {"pip"} SecretIds = {1, 2} MaxTokens = 2 MaxChanges = 1
  VaultIds = {"v1", "v2"} CredIds = {"c1", "c2", "c3", "c4"} VaultCredentialsMax = 2 VaultCallers = {1, 2, 3} MaxFresh = 10
  SkillIds = {"pdf", "own"} Imported = {"pdf"} Titles = {"pdf", "tool"} Uploaders = {1, 2} MaxVersion = 3
  Primary = "p" Endpoints = {1, 2, 3} Malformed = {3}
  Limit = 7 HeaderBytes = 1 SniffBytes = 1 ReadBuffer = 2 MaxToolPages = 3
  MaxTools = 3 MaxServers = 2 MaxModelToolName = 6 MaxMCPToolBytes = 4 MaxCatalogTools = 4 MaxOutputBytes = 4 BlockOverhead = 1 Secret = "s"
SYMMETRY Interchangeable
INVARIANTS
  ObjectsFollowRows
  DeadlineIsTold
  GatedRunsBehindGate
  FilesMoveWhole
  WorkspaceSurvives
  AnswersAreTruthful
  CatalogIsWhole
  SyncIsFaithful
  WalkIsExact
  PagesNeitherSkipNorRepeat
  EndedDreamsAreOver
  RostersResolve
  MountsAreApart
  EgressIsAsServed
  SecretsAreCurrent
  SkillsAreWhole
  RemoteToolsSettle
  ConnectionsAreTrue
  ToolSurfaceIsSound
PROPERTIES
  FiresAreExact
CHECK_DEADLOCK FALSE
