SPECIFICATION Spec
CONSTANTS
    Jobs <- TwoJobs
    Interval = {"live"}
    Unserved = {"rescore"}
    Priority <- Shipped
    MaxRetries <- Retries
    Workers = {w1, w2}
    Nobody = Nobody
    MaxQueue = 3
    MaxDead = 1
    MaxOps = 2
INVARIANTS TypeOK LockedJobsAreUnique NoLockLeaks MostUrgentNext
CHECK_DEADLOCK FALSE
