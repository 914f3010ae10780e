\* Two acting calls of one task, on two tabs, of which a page navigates.
SPECIFICATION Spec
CONSTANTS
  c1 = c1
  c2 = c2
  c3 = c3
  t1 = t1
  t2 = t2
  p1 = p1
  p2 = p2
  o1 = o1
  o2 = o2
  k1 = k1
  NoTask = NoTask
  NoTab = NoTab
  NoPage = NoPage
  Calls = {c1, c2}
  Tabs = {t1, t2}
  Pages = {p1, p2}
  Origins = {o1, o2}
  Tasks = {k1}
  TaskOf <- OneTask
  OriginOf <- OriginPerPage
  ActionOrigin <- SecondGoesToO2
  DebuggerPages = {p2}
  Acting = {c1, c2}
  AcceptsPending = {c1}
  OnceOnly <- SecondOnP2
  MaxNavigations = 1
  Events = {"unreachable", "card expiry"}
PROPERTIES
  ConsentPromise
INVARIANTS
  TypeOK
  ActsOnlyWithConsent
  GrantFindsItsOffer
SYMMETRY SameTabs
CHECK_DEADLOCK FALSE
