SPECIFICATION CacheSpec
CONSTANTS
    LastDate = 3
    Provider <- MCProvider
    MaxOps = 3
INVARIANTS
    CompleteDatesReplay
PROPERTIES
    FailedFetchLeavesNoTrace
\* The last operation of the bound ends.
CHECK_DEADLOCK FALSE
