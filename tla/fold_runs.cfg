\* One process, run after run: two groups of duplicates while episodes
\* arrive; two queries fail, the process dies.
SPECIFICATION FairSpec
CONSTANTS
    t1 = t1
    t2 = t2
    k1 = k1
    Node = {1, 2, 3, 4, 5}
    Target = {t1, t2}
    Edge = {11, 21, 22, 31, 51, 52}
    KeyOf <- MCTwoKeys
    Rank <- MCRank
    Links <- MCGroupLinks
    Run = {r1}
    NoEdge = NoEdge
    MaxRuns = 2
    MaxCrashes = 1
    MaxFailures = 2
INVARIANTS
    FoldKeepsMentions
    FoldIsUndoable
    MovesAddNoDuplicate
    DeletedIsLogged
PROPERTIES
    DuplicatesFold
CHECK_DEADLOCK FALSE
