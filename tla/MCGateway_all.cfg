\* Two requests of one account with a single slot.
CONSTANTS
    Accounts = {a1}
    Requests = {r1, r2}
    Limits = {1}
    MaxGrants = 2
    MaxTouches = 1
SPECIFICATION MCFairSpec
INVARIANTS UpstreamBound RetriedWithAnother 
PROPERTIES LoggedAsAnswered EveryRequestEnds
