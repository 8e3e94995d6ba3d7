SPECIFICATION Spec
CONSTANTS
    b1 = b1
    b2 = b2
    Blocks = {b1}
    Power = 4
    MaxRound = 0
    MaxHeight = 2
    Oracles <- Anything
    ProposerRounds <- First
    WaitForEmptyBlocks = 2
    SkipTimeoutCommit = TRUE
    Scopes <- TwoHeights
INVARIANTS
    NeverStuck
PROPERTIES
    FollowsRules
    HeightIsDecided
CHECK_DEADLOCK FALSE
