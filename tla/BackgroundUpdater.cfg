SPECIFICATION UpdaterSpec
CONSTANTS
    Handlers = {handler}
    Console = console
    LastSpec = 1
    MaxStarts = 2
    MaxRequests = 2
INVARIANTS
    UpdaterInv
    CollectorsSurvive
    ServedAtMostOnce
PROPERTIES
    UpdatesEnd
    TriggerIsTaken
\* The bounded starts run out.
CHECK_DEADLOCK FALSE
