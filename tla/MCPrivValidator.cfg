SPECIFICATION Spec
CONSTANTS
    MaxHeight = 2
    MaxRound = 1
    Contents = {"a", "nil"}
    Times = {"t1"}
INVARIANTS
    NeverDoubleSigns
CHECK_DEADLOCK FALSE
