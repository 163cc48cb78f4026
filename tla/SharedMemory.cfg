\* The tokens of the semaphores, and the end of all three clients.
SPECIFICATION FairSpec
CONSTANTS
    NumMessages = 2
    MaxInterrupts = 1
INVARIANTS
    TokensAccounted
    MessageWhole
PROPERTY
    TogetherEnd
CHECK_DEADLOCK FALSE
