\* Calls the agent, the timer or the companion ends while they are under way.
SPECIFICATION Spec
CONSTANTS
  c1 = c1
  c2 = c2
  c3 = c3
  t1 = t1
  t2 = t2
  p1 = p1
  p2 = p2
  o1 = o1
  o2 = o2
  k1 = k1
  NoTask = NoTask
  NoTab = NoTab
  NoPage = NoPage
  Calls = {c1, c2}
  Tabs = {t1}
  Pages = {p1}
  Origins = {o1, o2}
  Tasks = {k1}
  TaskOf <- OneTask
  OriginOf <- OriginPerPage
  ActionOrigin <- OnThePage
  DebuggerPages = {}
  Acting = {c1}
  AcceptsPending = {c1, c2}
  OnceOnly <- NoPairs
  MaxNavigations = 0
  Events = {"agent stops", "companion timeout", "call timeout"}
INVARIANTS
  AnswersAreTrue
  StoppedCallSendsNoInput
  NothingOutlivesItsCall
CHECK_DEADLOCK FALSE
