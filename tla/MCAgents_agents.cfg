\* Every component within bounds of its own.  Each of them may have nothing left to do.
CHECK_DEADLOCK FALSE
SPECIFICATION AgentsSpec
CONSTANTS
  ScheduleIds = {"t1", "t2"}
  DurableIds = {"t1"}
  ForegroundIds = {"t2"}
  Prompts = {"a", "b"}
  NoSchedule = "none"
  MaxScheduled = 2
  FreshEvery = 2
  MaxWriteFaults = 1
  MaxRestarts = 1
  Commands = {"c"}
  Monitors = {"m"}
  Subagents = {"a1", "a2"}
  MaxConcurrent = 1
  MaxStarted = 2
  HostCalls = 2
  Budgets = {1, 2}
  MaxDrivers = 3
  MaxWfFaults = 2
  MaxWfReloads = 1
  ToolPaths = {"p"}
  NoPath = "none"
  MaxTurns = 2
  RetryLimit = 2
  RateRetryLimit = 1
  SummaryTries = 2
  BatchLimit = 2
  MaxRuns = 2
  MaxNotes = 1
  MaxCalls = 2
  MaxCompactions = 1
  MaxRestores = 1
  c1 = c1
  c2 = c2
  GateCalls = {c1, c2}
  SafeParts = {"ls"}
  PlainParts = {"make"}
  DangerousParts = {"rm"}
  Unparsed = "odd"
  Settings <- ProjectSettings
  MaxGateEvents = 1
  SubRuns = {u1, u2}
  NoRun = none
  MaxRetries = 1
  MaxRounds = 1
  MaxStopped = 1
  MaxVersions = 2
  MaxDrops = 1
  MaxHidings = 1
  MaxTaps = 2
  MaxPending = 3
  MaxIntents = 3
  MaxHostLoss = 1
  TracedCalls = {c1, c2}
  MaxTraced = 2
  MaxSamples = 1
  MaxMishaps = 1
  RestoredCount = 1
  MaxCompacted = 2
  Handlers = {h1, h2}
  SiteHosts = {"here", "there"}
  ListedHosts = {"here"}
  MaxHops = 1
  MaxHandled = 2
  MaxGone = 1
  AgentFiles = {"agent"}
  FlowFiles = {"flow"}
  Publications = {"p1", "p2"}
  Edited = "edited"
  NoFile = "absent"
  MaxSyncs = 2
  MaxEdits = 1
  SettingsTries = 2
  MaxLogins = 2
  MaxClicks = 2
  MaxOutages = 1
  SkillPaths <- PageSkills
  SkillTexts <- PageTexts
  FlowNames = {"deploy", "audit", "plan"}
  Builtins = {"compact", "loop"}
  PagerNames = {"plan", "compact"}
  MaxSkillWrites = 3
VIEW Moving
INVARIANTS
  AgentsTypeOK
  RemovalIsFinal
  EveryEndIsTold
  JournaledIsNotRepeated
  LoopKeepsItsCalls
  ToolsWithinCeilings
  MessengerFollows
  TelemetryIsTrue
  RepliesStayTrue
  PageBeginsWell
PROPERTIES
  RejectedIsAskedFirst
