SPECIFICATION SessionSpec
CONSTANT MaxSent = 12
INVARIANTS
    SessionInv
    CloseIsOwed
    JVInitComesFirst
\* The bounded commands run out.
CHECK_DEADLOCK FALSE
