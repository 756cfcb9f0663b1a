\* Three runs of quickstart and daily_update over three days.
SPECIFICATION Spec
CONSTANTS
    q1 = q1
    q2 = q2
    Quickstarts = {q1, q2}
    Specs = {"RACE", "DIFN", "BLDN"}
    Items <- MCItems
    PerDay = 2
    MaxTick = 4
    MaxRuns = 3
    Dbs = {"db1", "db2"}
    DailyDb = "db1"
    Windows <- MCWindows
    DaysBack = 2
    DaysForward = 0
    Cycle = 1
    Far = 2
SYMMETRY MCSymmetry
INVARIANTS
    UpdatesLeaveNoGap
PROPERTIES
    DailyLeavesNoGap
\* The clock and the number of runs are bounded.
CHECK_DEADLOCK FALSE
