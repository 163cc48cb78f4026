\* The queue of the receive threads, and the end of the server and its clients.
SPECIFICATION FairSpec
CONSTANTS
    MAX_CLIENTS = 2
    MaxWrites <- MCWrites
INVARIANTS
    EachInOrder
PROPERTIES
    ServerEnds
    ClientsEndToo
CHECK_DEADLOCK FALSE
