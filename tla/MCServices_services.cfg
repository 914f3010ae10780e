\* Every component within bounds of its own.  Each of them may have nothing left to do.
CHECK_DEADLOCK FALSE
SPECIFICATION ServicesSpec
CONSTANTS
  ann = ann
  bob = bob
  k1 = k1
  k2 = k2
  k3 = k3
  Users = {ann, bob}
  Chats = {k1, k2, k3}
  Kinds = {"chat", "media"}
  UserOf <- ChatsOf
  GlobalLimit <- SmallGlobal
  UserLimit <- SmallUser
  GlobalConcurrency = 2
  UserConcurrency = 1
  Lease = 4
  GrantDelay = 1
  FetchTimeout = 1
  RefreshTimeout = 1
  MaxDay = 1
  ChatEvents = {"401", "crash"}
  p1 = p1
  p2 = p2
  v1 = v1
  v2 = v2
  Polls = {p1, p2}
  Videos = {v1, v2}
  MaxVideos = 1
  MaxTokens = 4
  MaxEnds = 3
  SessionEvents = {"unreadable", "restart"}
  s1 = s1
  s2 = s2
  Sessions = {s1, s2}
  NoSession = NoSession
  MaxToggles = 3
  MaxChanges = 2
  PatchLog = 2
  MaxRevisions = 2
  MaxMounts = 1
  MaxPushFaults = 1
  r1 = r1
  r2 = r2
  r3 = r3
  Rows = {r1, r2, r3}
  Unborn = {r3}
  NoRow = NoRow
  MaxTaps = 3
  MaxBranches = 1
  MaxEpochs = 1
  t1 = t1
  t2 = t2
  LinkTabs = {t1, t2}
  PendingLimit = 2
  MaxActs = 5
  MaxConnects = 2
  MaxSaves = 1
  MaxOperations = 3
  MaxCuts = 2
  MaxVisits = 2
  MaxAsks = 2
  CaptureLimit = 1
  EventLimit = 1
  MaxNudges = 1
  PhoneSessions = {s1}
  Codes = {"q1", "q2", "q3"}
  NoCode = "none"
  MaxAttempts = 1
  MaxRemoteEvents = 4
  Requests = {r1, r2}
  Clips = {v1, v2}
  NoClip = NoClip
  MaxClips = 1
  DailyLimit = 2
  MaxRedirects = 1
  MaxArrivals = 3
  MaxRouteFaults = 1
  Order <- TwoBrowsers
  Copies = {"old", "updated"}
  Shells = {t1}
  MaxTyped = 3
  MaxFileEdits = 2
VIEW Moving
INVARIANTS
  ServicesTypeOK
  DailyBudget
  FirstAttemptsWithinBudget
  EndedLoginStaysOut
  TokensUsedOnce
  DaemonSettles
  ExtensionTablesTrue
  ClaimHasADownload
PROPERTIES
  RegisteredVideoStays
