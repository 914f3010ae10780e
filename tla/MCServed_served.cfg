\* Every component within bounds of its own.  Each of them may have nothing left to do.
CHECK_DEADLOCK FALSE
SPECIFICATION ServedSpec
CONSTANTS
  ann = ann
  bob = bob
  k1 = k1
  k2 = k2
  k3 = k3
  Users = {ann, bob}
  Chats = {k1, k2}
  Kinds = {"chat"}
  UserOf <- ChatsOf
  GlobalLimit <- SmallGlobal
  UserLimit <- SmallUser
  GlobalConcurrency = 2
  UserConcurrency = 1
  Lease = 4
  GrantDelay = 1
  FetchTimeout = 1
  RefreshTimeout = 1
  MaxDay = 1
  ChatEvents = {"401", "crash"}
  ScheduleIds = {"t1", "t2"}
  DurableIds = {"t1"}
  ForegroundIds = {"t2"}
  Prompts = {"a"}
  NoSchedule = "none"
  MaxScheduled = 2
  FreshEvery = 2
  MaxWriteFaults = 1
  MaxRestarts = 1
  c1 = c1
  c2 = c2
  McpCalls = {c1, c2}
  NoAttempt = NoAttempt
  MaxMcpFaults = 1
  w1 = w1
  w2 = w2
  noActor = noActor
  Wakes = {w1, w2}
  NoActor = noActor
  MaxSamples = 1
  MaxTyped = 1
  MaxScheduledPrompts = 1
  MaxResets = 1
  MaxReloads = 1
PROPERTIES
  SlotComesBack
  OwedTaskIsServed
  EveryCallSettles
  WakeIsServed
