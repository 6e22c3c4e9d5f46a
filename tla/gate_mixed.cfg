\* An MCP process and the daemon, each in any mode, over three calls of two
\* contents; a crash, and a statement that fails.
SPECIFICATION FairSpec
CONSTANTS
    e1 = e1
    e2 = e2
    e3 = e3
    h1 = h1
    h2 = h2
    Episode = {e1, e2, e3}
    PayloadOf <- MCTwoPayloads
    NoEpisode = NoEpisode
    Mcp = {m1}
    Daemon = {d1}
    Modes = {"off", "observe", "enforce"}
    MaxCrashes = 1
    MaxFailures = 1
INVARIANTS
    LedgerIsHonest
PROPERTIES
    ImplementsGate
    CallsAreAnswered
