SPECIFICATION FairSpec
CONSTANTS
    b1 = b1
    b2 = b2
    Blocks = {b1, b2}
    Power = 4
    MaxRound = 1
    MaxHeight = 1
    Oracles <- Agreeing
    ProposerRounds <- NoRounds
    WaitForEmptyBlocks = 0
    SkipTimeoutCommit = FALSE
    Scopes <- Waiting
PROPERTIES
    WaitsEnd
    OwnVotesCount
CHECK_DEADLOCK FALSE
