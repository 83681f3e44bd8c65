SPECIFICATION Spec
CONSTANTS
  t1 = t1
  t2 = t2
  t3 = t3
  Threads = {t1, t2, t3}
  Creator = t1
  INITIAL_STRONG_VALUE = 100
  Lifetimes = {"STRONG", "WEAK"}
  FirstRefs = {"taken", "raw", "none"}
  EarlyPromote = FALSE
  MaxHeld = 2
SYMMETRY OtherThreads
INVARIANTS TypeOK NoUseAfterFree StrongKeepsAlive NoLeak NoUnderflow
\* All references dropped: the threads have nothing left to call.
CHECK_DEADLOCK FALSE
