SPECIFICATION FairSpec
CONSTANTS
    Jobs <- TwoJobs
    Order <- EventsThenRankings
    Critical <- CriticalJobs
    OffsetJobs <- ResumableJobs
    Total <- ListingSmall
    BatchSize <- BatchTwo
    PageSize <- PageSmall
    PerParent <- ItselfTwo
    Rejectable <- RefusedSmall
    Conflicting <- TwinsSmall
    Segments <- SegmentsTwo
    Modes = {"auto", "RESUME", "FORCE"}
    Reliability = TRUE
    SharedDatabase = TRUE
    MaxFaults = 2
PROPERTIES
    EventuallySynced
    RunEnds
