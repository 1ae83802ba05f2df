SPECIFICATION Spec
CONSTANTS
    Callers = {c1, c2}
    Keys = {k1, k2}
    Fetches = {f1, f2, f3}
    NoFetch = NoFetch
    NoKey = NoKey
    MaxConcurrency = 2
    MaxEntries = 1
    MaxRetries = 1
    Threshold = 2
    MaxFaults = 4
INVARIANT
    OneFetchPerURL
SYMMETRY ClientSymmetry
