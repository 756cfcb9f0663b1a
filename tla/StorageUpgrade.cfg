SPECIFICATION Spec
CONSTANTS
    Order <- MCOrder
    Cases <- MCCases
    MaxCalls = 2
INVARIANTS
    WrittenIsSound
    RefusedChangesNothing
    ResumesAfterInterruption
    CallerKeepsTransaction
    ReadyFlagDurable
CHECK_DEADLOCK FALSE
