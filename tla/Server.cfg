\* The log file, the dump and the shutdown.
SPECIFICATION FairSpec
CONSTANTS
    RcvBuf = 2
    Records <- MCRecords
    MaxChoices = 2
    MaxSends = 3
    MaxRestarts = 1
INVARIANTS
    TypeOK
    FileFollowsSocket
    ShutdownKeepsRecords
    DumpIsWhole
PROPERTIES
    ShutdownCompletes
    RecordsAreWritten
CHECK_DEADLOCK FALSE
