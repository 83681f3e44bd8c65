SPECIFICATION Spec
CONSTANTS
  a = a
  b = b
  e1 = e1
  e2 = e2
  NoPid = NoPid
  Services = {a}
  ExecSlots = {}
  Pids = {1, 2}
  Config <- ConfigPlain
  HaveConsole = TRUE
  CRITICAL_CRASH_THRESHOLD = 1
  CRITICAL_CRASH_WINDOW = 2
  RestartDelay = 2
  Commands <- CommandsOne
  ControlMessages <- NoMessages
  StartOutcomes = {"started", "nofork", "nofile", "nocontext"}
  MaxQueue = 1
  Horizon = 4
  MaxTime = 6
\* init sleeps in epoll_wait without a timeout when it has nothing to do.
CHECK_DEADLOCK FALSE
INVARIANTS StopKills
