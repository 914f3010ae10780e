\* A poll overlaps the logout.
\* The session may be over for good: nothing more has to happen.
CHECK_DEADLOCK FALSE
SPECIFICATION SessionSpec
CONSTANTS
  Polls = {p1, p2}
  Videos = {v1, v2}
  MaxVideos = 1
  MaxTokens = 4
  MaxEnds = 3
  SessionEvents = {"unreadable", "restart"}
INVARIANT NoSignInAfterEnd
