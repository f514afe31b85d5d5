\* An entry of an older version, a request that may end days after it began,
\* and one reader; day 1 expires on day 3.
CONSTANTS
    s1 = s1
    u1 = u1
    Requests = {r1, r2}
    Readers = {q1}
    Subs = {s1}
    Users = {u1}
    SubOf <- MCSubOf
    UserOf <- MCUserOf
    Legacy = {r1}
    LastDay = 3
    Retention = 2
    MaxFaults = 1
    MaxDeletes = 1
SPECIFICATION FairSpec
INVARIANTS RetainedKept AnswersComplete FailsForCause ReportsAddUp
PROPERTY ExpiredDropped
