SPECIFICATION FairSpec
CONSTANTS
    c1 = c1
    c2 = c2
    c3 = c3
    Calls = {c1, c2, c3}
    window_size = 4
    min_samples = 2
    FailureShare = 1
    OfShares = 2
INVARIANTS
    ClosedMeansHealthy
PROPERTIES
    OpenOutlastsLateResults
    Recovers
