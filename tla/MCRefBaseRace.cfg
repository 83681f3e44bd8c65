SPECIFICATION Spec
CONSTANTS
  t1 = t1
  t2 = t2
  t3 = t3
  Threads = {t1, t2}
  Creator = t1
  INITIAL_STRONG_VALUE = 100
  Lifetimes = {"STRONG"}
  FirstRefs = {"raw"}
  EarlyPromote = TRUE
  MaxHeld = 2

INVARIANTS NoUnderflow
\* All references dropped: the threads have nothing left to call.
CHECK_DEADLOCK FALSE
