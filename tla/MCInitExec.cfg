SPECIFICATION FairSpec
CONSTANTS
  a = a
  b = b
  e1 = e1
  e2 = e2
  NoPid = NoPid
  Services = {a}
  ExecSlots = {e1, e2}
  Pids = {1}
  Config <- ConfigExec
  HaveConsole = TRUE
  CRITICAL_CRASH_THRESHOLD = 1
  CRITICAL_CRASH_WINDOW = 2
  RestartDelay = 1
  Commands <- CommandsExec
  ControlMessages <- NoMessages
  StartOutcomes = {"started", "nofork"}
  MaxQueue = 1
  Horizon = 2
  MaxTime = 4
\* init sleeps in epoll_wait without a timeout when it has nothing to do.
CHECK_DEADLOCK FALSE
INVARIANTS WaitsForSomeone ExecBlocks
PROPERTIES EveryZombieReaped EveryRestartHappens ExecEnds
