\* Two limits, and an admin who writes twice: rebuilds, stale snapshots and
\* entries replaced back and forth.
CONSTANTS
    Accounts = {a1}
    Requests = {r1, r2, r3}
    Admins = {m1}
    Channels = {c1, c2, c3}
    Limits = {1, 2}
    MaxWrites = 2
SPECIFICATION MCFairSpec
INVARIANTS SlotsMatchHolders RebuildBound
PROPERTIES EveryRequestEnds ActsAsSemaphore
