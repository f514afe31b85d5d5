\* One login polled by its page and by another client, with failures and a restart.
CONSTANTS
    Flows = {f1}
    Handlers = {h1, h2}
    MaxPending = 1
    MaxFaults = 2
    MaxRestarts = 1
SPECIFICATION FairSpec
INVARIANTS OneSubscription AskedOnceAtATime TokenKept PageFailsForCause
PROPERTY ApprovedLoginCompletes
