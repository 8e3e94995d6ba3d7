SPECIFICATION Spec
CONSTANTS
    n1 = n1
    n2 = n2
    n3 = n3
    n4 = n4
    b1 = b1
    b2 = b2
    p1 = p1
    p2 = p2
    Validators = {n1, n2, n3, n4}
    Values = {b1, b2}
    Peers = {p1, p2}
    MaxRound = 3
    MaxVotes = 4
    MaxClaims = 2
SYMMETRY Symmetric
CONSTRAINT Bounded
INVARIANTS
    TypeOK
    Maj23Backed
    CommitCarriesQuorum
    VotersCountedOnce
    OneQuorum
    KeptBounded
PROPERTIES
    MajorityFinal
    VotesKept
CHECK_DEADLOCK FALSE
