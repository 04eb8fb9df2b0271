SPECIFICATION FairSpec
CONSTANTS
  Wanted = 3
  Timeouts = {0, 3}
  MaxBeats = 5
  MaxBeatClock = 8
  MayFail = TRUE
  Pause = 2
  OffTimeout = 5
  OnTimeout = 7
  MaxClock = 22
  Servers = {s1}
  NoServer = NoServer
  FailoverTimeout = 2
  PagesTimeout = 1
  MaxRecords = 2
  MaxAppClock = 5
  GcfCtls = {g1, g2}
  EndpointCtls = {e1, e2}
  Levels <- Level
  Unread = Unread
  Iterations = {i1, i2}
  MaxAtOnce = 2
  MaxControlCalls = 2
INVARIANTS
  OkMeansCycled
  SuccessWasSeen
  ReadIsCurrent
PROPERTIES
  EnoughBeatsEnd
  FailoverIsSeen
CHECK_DEADLOCK FALSE
