\* No call is cancelled or times out.
SPECIFICATION ResponsiveSpec
CONSTANTS
  c1 = c1
  c2 = c2
  c3 = c3
  t1 = t1
  t2 = t2
  p1 = p1
  p2 = p2
  o1 = o1
  o2 = o2
  k1 = k1
  NoTask = NoTask
  NoTab = NoTab
  NoPage = NoPage
  Calls = {c1, c2}
  Tabs = {t1}
  Pages = {p1}
  Origins = {o1, o2}
  Tasks = {k1}
  TaskOf <- OneTask
  OriginOf <- OriginPerPage
  ActionOrigin <- OnThePage
  DebuggerPages = {}
  Acting = {c1, c2}
  AcceptsPending = {c1}
  OnceOnly <- NoPairs
  MaxNavigations = 0
  Events = {"card expiry", "tab closes", "port lost"}
INVARIANTS
  BusyCountsWork
PROPERTIES
  TabReleased
CHECK_DEADLOCK FALSE
