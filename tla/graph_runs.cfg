\* Three requests share the semaphore and the cache; the embedding server may
\* answer with something else, and FalkorDB goes down or comes up meanwhile.
SPECIFICATION FairSpec
CONSTANTS
    r1 = r1
    r2 = r2
    r3 = r3
    r4 = r4
    t1 = t1
    t2 = t2
    t3 = t3
    NoVector = NoVector
    Request = {r1, r3, r4}
    Text = {t1, t2, t3}
    Query <- MCQuery
    Facts <- MCFacts
    Known <- MCKnown
    Wanted <- MCWanted
    Close <- MCClose
    EmbedMax = 2
    CacheSize = 2
    Concurrency = 1
    MayGarble = TRUE
    MaxFlips = 1
INVARIANTS
    VectorsFit
    RepliesAreHonest
PROPERTIES
    EveryRequestEnds
CHECK_DEADLOCK FALSE
