\* Somebody polls /health for ever.  The reset timeout is below the cooldown,
\* so that the cooldown gate, the budget and FATAL_DEGRADED are all reached.
SPECIFICATION PolledSpec
CONSTANTS
    p1 = p1
    s1 = s1
    Poller = {p1}
    Searcher = {s1}
    Threshold = 3
    Reset = 1
    HalfOpenMaxProbes = 1
    Cooldown = 2
    Budget = 2
    Window = 4
INVARIANTS
    RestartsBounded
    HydrationNeverTrips
PROPERTIES
    RestartOnlyOnTrip
    RecoversWhenPolled
