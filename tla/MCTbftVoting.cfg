SPECIFICATION Spec
CONSTANTS
    b1 = b1
    b2 = b2
    n1 = n1
    n2 = n2
    n3 = n3
    n4 = n4
    Blocks = {b1, b2}
    Validators = {n1, n2, n3, n4}
    Faulty = {n4}
    Rounds <- MCRounds
SYMMETRY Symmetric
INVARIANTS
    Agreement
    DecisionValidated
    PrecommitBinds
CHECK_DEADLOCK FALSE
