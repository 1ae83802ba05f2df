SPECIFICATION FairSpec
CONSTANTS
    Procs = {p1, p2}
    Ids = {1, 2, 3}
    Listing <- TwoPages
    Late = {1}
    Ranked = {2}
    Gone = {3}
    Malformed = {}
    ClassOf <- SameClass
    Limit = 0
    BatchSize = 2
    MaxFaults = 1
INVARIANTS TypeOK CheckpointCovers ConsumedAreSettled
PROPERTY CensusEnds
