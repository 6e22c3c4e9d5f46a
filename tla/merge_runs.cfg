\* One process, run after run: three summaries in a chain, parallel facts and
\* a self-loop, while entities and edges arrive; two queries fail, the process
\* dies.
SPECIFICATION FairSpec
CONSTANTS
    p1 = p1
    f1 = f1
    f2 = f2
    Entity = {1, 2, 3, 4}
    Episode = {p1}
    Fact = {f1, f2}
    NoFact = NoFact
    Uuid = {11, 12, 13, 21, 22, 23, 24, 25}
    NameOf <- MCNameOf
    TokensOf <- MCTokensOf
    Rank <- MCRank
    Threshold = 80
    Links <- MCRunLinks
    Run = {r1}
    NoEdge = NoEdge
    MaxRuns = 11
    MaxCrashes = 1
    MaxFailures = 1
INVARIANTS
    RelationsKept
    MentionsKept
    NothingDangles
PROPERTIES
    PairsMerge
CHECK_DEADLOCK FALSE
