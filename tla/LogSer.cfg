\* One buffer and one descriptor for everything, and the shutdown.
SPECIFICATION FairSpec
CONSTANTS
    RcvBuf = 2
    Records <- MCRecords
    Levels = {0, 7}
    FdLimit = 5
    MaxChoices = 2
    MaxSends = 3
INVARIANTS
    RecordsWhole
    DumpShowsFirst
PROPERTY
    ShutdownCompletes
CHECK_DEADLOCK FALSE
