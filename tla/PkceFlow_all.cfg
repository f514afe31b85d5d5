\* One login: three exchanges at once, two codes, failures and a restart.
CONSTANTS
    Flows = {f1}
    Codes = {c1, c2}
    Handlers = {h1, h2, h3}
    MaxPending = 1
    MaxFaults = 2
    MaxRestarts = 1
SPECIFICATION FairSpec
INVARIANTS OneSubscription OneExchange
PROPERTY NeverStuckFinalizing
