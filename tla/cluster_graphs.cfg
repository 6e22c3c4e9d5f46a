\* Every graph of five entities, and edges in both directions, loops, and
\* edges to entities the snapshot lacks.
SPECIFICATION Spec
CONSTANTS
    Snapshots <- MCSnapshots
    Relations <- MCRelations
    MinDegrees = {0, 1, 2, 3}
    MaxRounds = 12
INVARIANTS
    WithinComponents
    CyclesHaveLengthTwo
    EndsByItself
CHECK_DEADLOCK FALSE
