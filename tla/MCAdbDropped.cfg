SPECIFICATION Spec
CONSTANTS
  MaxId = 1
  MaxChunks = 4
  MaxBreaks = 0
  Worlds <- HalfClosed
INVARIANT NoDataDropped
\* Without clients both programs sleep in select.
CHECK_DEADLOCK FALSE
