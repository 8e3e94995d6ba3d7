CONSTANTS
  Freshness = 2
  PointerLag = 1
  MinFruits = 1
  MaxFruits = 2
  FruitCount = 2
  Targets = 2
  MaxFast = 3
  MaxSnail = 3
  Scopes <- MCScopes
SPECIFICATION FairSpec
INVARIANTS ChainContinuous 
  
CHECK_DEADLOCK FALSE
