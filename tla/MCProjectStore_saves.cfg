\* Two tabs that edit, reset, close and reopen, with one damaged value; two calls of an MCP server
\* and a sign-in by the person; a preview whose worker is stopped once.  Calls that were served stop.
CHECK_DEADLOCK FALSE
SPECIFICATION KeptSpec
CONSTANTS
  tabA = tabA
  tabB = tabB
  starter = starter
  edited = edited
  edited2 = edited2
  q1 = q1
  q2 = q2
  Nothing = Nothing
  Unknown = Unknown
  Tabs = {tabA, tabB}
  Contents = {starter, edited}
  Starter = starter
  MaxEdits = 1
  MaxDamages = 1
  StoreEvents = {"failure", "reset", "close"}
  McpRequests = {q1, q2}
  MaxIssued = 2
  MaxAuthFaults = 1
  MaxSeconds = 1
  MaxActive = 1
  MaxFetches = 2
  MaxStops = 1
SYMMETRY Symmetric
INVARIANTS
  KeptTypeOK
  ChangeIsScheduled
  RestsOnCurrentProject
  VerifiedSaveSurvives
  TabsAndFramesAgree
PROPERTIES
  SaveReplacesWhatItKnows
