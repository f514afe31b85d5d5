CONSTANTS
    Callers = {r1, r2, r3}
    Admins = {m1, m2}
    Proxies = {p1, p2}
    MaxWrites = 3
SYMMETRY Symmetry
SPECIFICATION MCSpec
INVARIANTS InForceUnlessRaced OnePool
