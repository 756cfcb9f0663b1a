SPECIFICATION Spec
CONSTANTS
    Records <- MCRecords
    Batches <- MCBatches
    BatchSize = 2
    MaxRecords = 3
INVARIANTS
    OneSnapshotPerRace
    OnlyOfficialStored
PROPERTIES
    BoardKept
CHECK_DEADLOCK FALSE
