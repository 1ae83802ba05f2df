SPECIFICATION Spec
CONSTANTS
    Parts = {"backfill"}
    BreakerJobs = {j1, j2}
    FailureThreshold = 2
    HalfOpenMaxCalls = 1
    Calls = {1, 2, 3}
    Definitions = {1, 2, 3}
    LockKey <- MCLockKey
    Runnable = {1, 2}
    MaxHistory = 2
    NoCall = NoCall
    Events = {e1, e2}
    NoEvent = NoEvent
    MaxRestarts = 1
    Clients = {a1, a2}
    Keys = {k1}
    MaxVersion = 2
    MaxRedisFaults = 1
    Nothing = Nothing
    Entities = {1, 2, 3}
    MaxEdges = 4
    Canonicals = {"x", "y", "z"}
    Sources = {"x", "y"}
    Overlap <- MCOverlap
    NoId = NoId
    MaxMerges = 2
    w1 = w1
    w2 = w2
    b1 = b1
    b2 = b2
    b3 = b3
    b4 = b4
    wc1 = wc1
    wc2 = wc2
    Workers = {w1, w2}
    Bouts = {b1, b2, b3, b4}
    Classes = {wc1, wc2}
    ClassOf <- MCClassOf
    Batches <- MCBatches
    Earlier = Earlier
    Nobody = Nobody
    Fighters = {1, 2, 3}
    Limit = 2
    RecordBatch = 1
    Budget = 2
    MaxRunFaults = 2
    RankingJobs = {1, 2, 3}
    Listing <- MCListing
    RankedIn = {"A", "B"}
    Ranked = {1, 2, 3, 4}
    RankingBatch = 2
    MaxTableFaults = 1
    Fetches = {1, 2}
    TokenTicks = 2
    Burst = 2
    TripAfter = 2
    ResetTicks = 2
    MaxClock = 7
    Connectors = {c1}
    Loops = {1, 2}
    AlertAfter = 2
    Kept = 3
    MaxMisses = 3
    NoTask = NoTask
    Requests = {1, 2}
    Fields = {"theme", "sort"}
    Choices = {"x", "y"}
    Usual = "x"
    NoRow = NoRow
    Records = {1, 2, 3}
    MaxCrashes = 2
    Leagues <- MCLeagues
    RefsOf <- MCRefsOf
    Promoted = {"u", "v"}
    MaxEvents = 4
    MaxMissed = 2
    NoLeague = NoLeague
    Items <- MCItems
    Newcomer = 6
    PageSize = 2
    MaxPages = 4
    MaxChanges = 2
    MaxFailures = 1
INVARIANTS
    NoStatusBesideRecord
CHECK_DEADLOCK FALSE
