\* Two proxied requests and a usage refresh of one account; three
\* reports: two that race and one stored before, between or after them.
CONSTANTS
    Requests = {r1, r2}
    Refreshers = {a1}
    Windows = {five_hour, seven_day}
    RateLimits = {"request_quota"}
    Providers = {"claude", "codex", "grok"}
    MaxClock = 3
SYMMETRY Symmetry
SPECIFICATION Spec
INVARIANTS LatestUnlessRaced NeverClaimsFresher
