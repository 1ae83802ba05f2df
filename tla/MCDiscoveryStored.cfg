SPECIFICATION Spec
CONSTANTS
    Procs = {p1, p2}
    Ids = {1, 2, 3}
    Listing <- TwoPages
    Late = {1}
    Ranked = {}
    Gone = {}
    Malformed = {}
    ClassOf <- NoClass
    Limit = 0
    BatchSize = 2
    MaxFaults = 0
INVARIANT OnlyStoredAreConsumed
