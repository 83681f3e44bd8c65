SPECIFICATION Spec
CONSTANTS
  a = a
  b = b
  e1 = e1
  e2 = e2
  NoPid = NoPid
  Services = {a, b}
  ExecSlots = {}
  Pids = {1, 2}
  Config <- ConfigPair
  HaveConsole = TRUE
  CRITICAL_CRASH_THRESHOLD = 1
  CRITICAL_CRASH_WINDOW = 2
  RestartDelay = 1
  Commands <- CommandsPair
  ControlMessages <- ControlPair
  StartOutcomes = {"started", "nofork"}
  MaxQueue = 1
  Horizon = 3
  MaxTime = 5
\* init sleeps in epoll_wait without a timeout when it has nothing to do.
CHECK_DEADLOCK FALSE
INVARIANTS OneProcess SvcProperty
