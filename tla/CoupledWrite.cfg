\* Every writer on every database handle, two import calls, two failures.
SPECIFICATION Spec
CONSTANTS
    Keys <- MCKeys
    Kinds <- AllKinds
    Stream <- MCStream
    FullRows <- MCFullRows
    Handles <- MCHandles
    BatchSize = 2
    MaxCalls = 2
    MaxFaults = 2
INVARIANTS
    CoupledComplete
    CountsHonest
    MirrorInSync
PROPERTIES
    OwnedWaits
\* The connection is closed in the end.
CHECK_DEADLOCK FALSE
