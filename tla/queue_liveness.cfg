\* One row, with content or without, a sweeper, an operator and a crash.  The
\* setting of the attempts, which the operator's commands use, is one above the
\* default, which the sweep uses.
SPECIFICATION FairSpec
CONSTANTS
    e1 = e1
    e2 = e2
    h1 = h1
    Episode = {e1, e2}
    Payload = {e1, e2}
    PayloadOf <- MCOwnPayload
    Blank = {e2}
    DefaultAttempts = 2
    MaxAttempts = 3
    RespectCeiling = TRUE
    NoEpisode = NoEpisode
    Sweeper = {s1}
    Dreamer = {}
    Operator = {o1}
    Gates = {"enforce"}
    BatchLimit = 2
    Concurrency = 1
    ReapLimit = 2
    Raised = {"Invalid"}
    ReplayClasses = {"Invalid", "Transient"}
    Backstop = FALSE
    MaxCrashes = 1
    MaxRows = 1
    MaxLate = 1
    NoProcess = NoProcess
INVARIANTS
    DoneMeansDelivered
    QueuedBelowCeiling
PROPERTIES
    ProcessingResolves
    QueuedIsClaimed
