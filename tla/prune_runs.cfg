\* Two processes prune at once, forced or not, two queries fail, entities,
\* summaries and edges come and edges go.
SPECIFICATION Spec
CONSTANTS
    n1 = n1
    n2 = n2
    m1 = m1
    f1 = f1
    Entity = {n1, n2}
    Edge = {m1, f1}
    Mention = {m1}
    Ends <- MCEnds
    Run = {r1, r2}
    NoNode = NoNode
    MaxFailures = 2
INVARIANTS
    EdgesKeepEnds
    TakenIsTold
CHECK_DEADLOCK FALSE
