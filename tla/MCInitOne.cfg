SPECIFICATION Spec
CONSTANTS
  a = a
  b = b
  e1 = e1
  e2 = e2
  NoPid = NoPid
  Services = {a}
  ExecSlots = {}
  Pids = {1, 2}
  Config <- ConfigOne
  HaveConsole = TRUE
  CRITICAL_CRASH_THRESHOLD = 1
  CRITICAL_CRASH_WINDOW = 2
  RestartDelay = 1
  Commands <- CommandsOne
  ControlMessages <- ControlOne
  StartOutcomes = {"started", "nofork", "nofile", "nocontext"}
  MaxQueue = 1
  Horizon = 5
  MaxTime = 7
\* init sleeps in epoll_wait without a timeout when it has nothing to do.
CHECK_DEADLOCK FALSE
INVARIANTS TypeOK RestartExclusive DownStaysDown UpStaysUp RebootJustified
