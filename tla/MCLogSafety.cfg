SPECIFICATION Spec
\* Without clients and writers logd's threads sleep.
CHECK_DEADLOCK FALSE
SYMMETRY Symmetry
CONSTANTS
    w1 = w1
    w2 = w2
    r1 = r1
    r2 = r2
    events = events
    crash = crash
    Writers = {w1, w2}
    Readers = {r1, r2}
    Ids = {events, crash}
    MaxLogs = 5
    MaxTime = 2
    Worlds <- SafetyWorlds
INVARIANTS
    TypeOK RegionLock EntryLifetime ClientLifetime NoDuplicates ErrorMeansFailed TailAtMost
PROPERTIES
    NothingMissed GrowsBehindReader
