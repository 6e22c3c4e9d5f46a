\* One sweeper and one dream, as the daemon runs them, with a crash and one
\* mark_done thread that outlives its sweep; the backstop is on, and writers
\* with the gate off insert twins of one content next to enforcing ones.
SPECIFICATION Spec
CONSTANTS
    e1 = e1
    e2 = e2
    h1 = h1
    Episode = {e1, e2}
    Payload = {h1}
    PayloadOf <- MCSamePayload
    Blank = {}
    DefaultAttempts = 2
    MaxAttempts = 2
    RespectCeiling = TRUE
    NoEpisode = NoEpisode
    Sweeper = {s1}
    Dreamer = {d1}
    Operator = {}
    Gates = {"off", "enforce"}
    BatchLimit = 2
    Concurrency = 1
    ReapLimit = 2
    Raised = {"Permanent"}
    ReplayClasses = {"Transient"}
    Backstop = TRUE
    MaxCrashes = 1
    MaxRows = 2
    MaxLate = 1
    NoProcess = NoProcess
INVARIANTS
    Held
    UniqueActive
    NoOpenDlqWhenDone
    NoSpuriousDuplicate
    SkipLosesNothing
PROPERTIES
    ImplementsLifecycle
SYMMETRY MCSymmetry
