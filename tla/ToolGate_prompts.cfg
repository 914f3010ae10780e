\* Three commands want a prompt, and one Stop or end of a subagent comes.
CHECK_DEADLOCK FALSE
SPECIFICATION GateSpec
CONSTANTS
  GateCalls = {c1, c2, c3}
  SafeParts = {}
  PlainParts = {"make"}
  DangerousParts = {}
  Unparsed = "odd"
  Settings <- DefaultSettings
  MaxGateEvents = 1
INVARIANTS
  WaitsForADialog
