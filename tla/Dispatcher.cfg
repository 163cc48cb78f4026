\* The way of the messages, the end of the queue and of everybody on it.
SPECIFICATION FairSpec
CONSTANTS
    Started <- MCTwo
    QueueCap = 2
    MaxSends <- MCSender
    MaxFailed = 2
    MaxInterrupts = 1
INVARIANTS
    TypeOK
    InOrderOnce
PROPERTIES
    PostSpec
    StoppedClientEnds
    ServerStops
CHECK_DEADLOCK FALSE
