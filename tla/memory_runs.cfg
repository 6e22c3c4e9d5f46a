\* Two connections share the limiter and the cache of embeddings; the gate is
\* on or off, the limiter tracks one of two addresses.
SPECIFICATION Spec
CONSTANTS
    r1 = r1
    r2 = r2
    t1 = t1
    t2 = t2
    g1 = g1
    g2 = g2
    g3 = g3
    Request = {r1, r2}
    Address = {a1, a2}
    MaxRequests = 2
    Window = 1
    MaxKeys = 1
    MaxTime = 2
    Text = {t1, t2}
    Edge = {g1, g2, g3}
    Scorable = {g1, g2}
    Close <- MCClose
    Asks <- MCAsks
    Limit <- MCLimit
    Overfetch = 2
    Ranked <- MCRanked
    CacheSize = 1
    NoVector = NoVector
    NoScore = NoScore
INVARIANTS
    RateIsBounded
    RowsKeepTheirScores
    GateIsKept
SYMMETRY MCSymmetry
