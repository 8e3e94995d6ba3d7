CONSTANTS
  Validators = {v1, v2}
  Quorum = 2
  MaxRound = 2
  Scopes <- MCScopes
SPECIFICATION FairSpec
INVARIANT BeliefSound
PROPERTY CommitReaches
CHECK_DEADLOCK FALSE
