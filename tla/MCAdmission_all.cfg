\* Four requests with one key, which is created and changed once, over two windows
\* of the counter and a restart.
CONSTANTS
    Subs = {s1}
    Keys = {k1}
    Requests = {r1, r2, r3, r4}
    Limits = {1, 2}
    Expiries = {0}
    Window = 2
    MaxClock = 3
    MaxEdits = 1
    MaxRestarts = 1
SPECIFICATION MCSpec
SYMMETRY Symmetry
INVARIANTS TypeOK LessThanTwice
PROPERTIES RefusedForCause ExpiryToTheSecond
