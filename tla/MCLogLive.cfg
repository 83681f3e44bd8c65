SPECIFICATION FairSpec
\* Without clients and writers logd's threads sleep.
CHECK_DEADLOCK FALSE
CONSTANTS
    w1 = w1
    w2 = w2
    r1 = r1
    r2 = r2
    events = events
    crash = crash
    Writers = {w1}
    Readers = {r1}
    Ids = {events, crash}
    MaxLogs = 5
    MaxTime = 1
    Worlds <- LiveWorlds
PROPERTIES
    GoneIsFreed DumpEnds KickEnds
