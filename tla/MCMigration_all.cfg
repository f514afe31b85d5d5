\* Every database the tests upgrade, three crashes or restarts at any statement,
\* and three requests served before or between them.
CONSTANTS
    s1 = s1
    s2 = s2
    k1 = k1
    k2 = k2
    u1 = u1
    u2 = u2
    Subs = {s1, s2}
    Keys = {k1, k2}
    Names = {u1, u2}
    Days = {d1, d2}
    Seconds = {0, 2}
    Databases <- MCDatabases
    MaxCrashes = 3
    MaxEdits = 3
SPECIFICATION FairUpgrade
CHECK_DEADLOCK FALSE
INVARIANTS RecordedVersionsHold ServesCurrentSchema
PROPERTIES RecordsKept EventuallyServes
