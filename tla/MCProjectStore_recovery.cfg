\* A tab recovers the backup while another saves.
CHECK_DEADLOCK FALSE
SPECIFICATION KeptSpec
CONSTANTS
  tabA = tabA
  tabB = tabB
  starter = starter
  edited = edited
  edited2 = edited2
  q1 = q1
  q2 = q2
  Nothing = Nothing
  Unknown = Unknown
  Tabs = {tabA, tabB}
  Contents = {starter, edited, edited2}
  Starter = starter
  MaxEdits = 2
  MaxDamages = 1
  StoreEvents = {}
  McpRequests = {q1}
  MaxIssued = 1
  MaxAuthFaults = 0
  MaxSeconds = 0
  MaxActive = 1
  MaxFetches = 1
  MaxStops = 1
PROPERTY RecoveryReplacesInvalidOnly
