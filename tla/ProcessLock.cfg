SPECIFICATION LockSpec
CONSTANTS
    p1 = p1
    p2 = p2
    p3 = p3
    Procs = {p1, p2, p3}
    MaxStarts = 4
SYMMETRY Symmetry
INVARIANTS
    NothingLeftBehind
PROPERTIES
    SettledHolderKeepsLock
\* The last allowed acquire ends.
CHECK_DEADLOCK FALSE
