SPECIFICATION FairSpec
CONSTANTS
    Procs = {p1, p2}
    Jobs <- TwoJobs
    DependsOn <- AfterResult
    MaxRuntime <- Minutes
    LockTtl = 5
    MaxAttempts = 1
    MaxFaults = 1
    MaxStops = 1
INVARIANTS TypeOK LockProtectsRun ShortJobsRunOnce
PROPERTIES JobsKeepRunning ShutdownEnds
