\* A quota refresh and a proxied request, each of which may fail at every step,
\* and an admin who saves the edit form, pastes credentials or deletes the subscription.
CONSTANTS
    Requests = {r1, r2}
    QuotaWorkers = {r1}
    Admins = {m1}
    Mutexes = {x1, x2}
    FirstMutex = x1
    MaxGrants = 3
    AdminOps = {"put", "delete"}
SPECIFICATION MCSpec
ACTION_CONSTRAINT AllocatedInOrder
INVARIANTS SingleFlight RenewedOnce WithdrawnForCause RenewedWhenDue
PROPERTY EveryRequestEnds
