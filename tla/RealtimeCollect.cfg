\* Every collector, two runs, two failures, two keys.
SPECIFICATION Spec
CONSTANTS
    KeyOrder <- MCKeyOrder
    DayOf <- MCDayOf
    DayMinutes = 4
    MaxVersion = 2
    Slots <- MCSlots
    Answers <- MCAnswers
    Handles <- MCHandles
    Collectors <- MCCollectors
    Asks <- MCAsks
    SaveBatch = 3
    MaxRuns = 2
    MaxFaults = 2
INVARIANTS
    StoredResponsesWhole
    StoredOddsRead
    FailedRunStoresNothing
    SuccessIsStored
PROPERTIES
    CaptureIsFirst
    OpensCurrentRaces
\* The number of runs is bounded.
CHECK_DEADLOCK FALSE
