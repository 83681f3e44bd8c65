SPECIFICATION Spec
CONSTANTS
  MaxId = 2
  MaxChunks = 4
  MaxBreaks = 1
  Worlds <- SafetyWorlds
INVARIANTS TypeOK InOrder OneCredit StatusFirst NoNullPeer NoHalfOpen BacklogWritten
\* Without clients both programs sleep in select.
CHECK_DEADLOCK FALSE
