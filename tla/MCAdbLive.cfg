SPECIFICATION FairSpec
CONSTANTS
  MaxId = 1
  MaxChunks = 4
  MaxBreaks = 1
  Worlds <- LiveWorlds
PROPERTIES CloseReachesPeer DataArrives Answered
\* Without clients both programs sleep in select.
CHECK_DEADLOCK FALSE
