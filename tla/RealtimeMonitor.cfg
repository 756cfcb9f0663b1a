SPECIFICATION Spec
CONSTANTS
    LastKey = 2
    SnapshotKeys = {1}
    MiningKeys = {2}
    Slots = {1, 2}
    Content <- MCContent
    LastVersion = 2
    MaxLoops = 2
    MaxCycles = 2
INVARIANTS
    MonitorInv
    
PROPERTIES
    StopEnds
\* The bounded cycles and starts run out.
CHECK_DEADLOCK FALSE
