\* Three runs on one database, any of which may fail or die.
SPECIFICATION Spec
CONSTANTS
    Tables = {"RA", "SE"}
    Keys = {"k1", "k2"}
    Values = {"none", "1", "2", "3", "4", "5"}
    Specs = {"good", "bad", "odd", "none"}
    Stream <- MCStream
    BatchSize = 2
    Interval = 2
    MaxRuns = 3
INVARIANTS
    NothingLeftPending
PROPERTIES
    ImplementsImportLog
\* The last run allowed by the bound ends.
CHECK_DEADLOCK FALSE
