\* Two nights; phases, rows and reports fail, the daemon stops or is killed
\* anywhere and comes back.
SPECIFICATION FairSpec
CONSTANTS
    Run = {r1, r2}
    NoRun = NoRun
    LastDay = 2
    MaxFailures = 1
    MaxRestarts = 1
INVARIANTS
    OncePerNightWhileUp
    ClosedRowIsTheReport
PROPERTIES
    RunsReturn
CHECK_DEADLOCK FALSE
