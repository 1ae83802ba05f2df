SPECIFICATION Spec
CONSTANTS
    Jobs <- TwoJobs
    Order <- EventsThenRankings
    Critical <- CriticalJobs
    OffsetJobs <- ResumableJobs
    Total <- ListingTwo
    BatchSize <- BatchTwo
    PageSize <- PageTwo
    PerParent <- ItselfTwo
    Rejectable <- RefusedTwo
    Conflicting <- TwinsTwo
    Segments <- SegmentsTwo
    Modes = {"auto", "RESUME", "FORCE"}
    Reliability = TRUE
    SharedDatabase = TRUE
    MaxFaults = 3
INVARIANTS
    TypeOK
    CheckpointBehindData
    NoGapWhenCompleted
    CompletedRunIsComplete
    CompletedRunLeavesNoStaleCache
PROPERTY
    ImplementsRun
