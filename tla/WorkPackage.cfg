\* Two processes, amounts of a half and of three halves, four turns together.
SPECIFICATION Spec
CONSTANTS
    Procs = {p1, p2}
    Amounts = {1, 3}
    MaxTurns = 4
INVARIANTS
    NothingInvented
    ExactUnlessTorn
CHECK_DEADLOCK FALSE
