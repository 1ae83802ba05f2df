SPECIFICATION Spec
CONSTANTS
    Jobs <- ThreeJobs
    Order <- FullOrder
    Critical <- CriticalThree
    OffsetJobs <- ResumableThree
    Total <- ListingThree
    BatchSize <- BatchThree
    PageSize <- PageThree
    PerParent <- NestedThree
    Rejectable <- RefusedThree
    Conflicting <- TwinsThree
    Segments <- SegmentsThree
    Modes = {"auto", "RESUME", "FORCE"}
    Reliability = TRUE
    SharedDatabase = FALSE
    MaxFaults = 1
INVARIANT
    ResumeLeavesNoGap
