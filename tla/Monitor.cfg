\* Start, stop and end of the monitors.
SPECIFICATION FairSpec
CONSTANT NUM = 2
INVARIANT
    WritesWhenStarted
PROPERTY
    StopEndsAll
CHECK_DEADLOCK FALSE
