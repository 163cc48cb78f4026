\* Both clients, started in any order, each interrupted at any point.
SPECIFICATION FairSpec
CONSTANT
    Letters <- MCLetters
INVARIANT
    KeysFit
PROPERTY
    EveryClientEnds
CHECK_DEADLOCK FALSE
