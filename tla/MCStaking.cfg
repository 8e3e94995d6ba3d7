SPECIFICATION Spec
CONSTANTS
  NewEpochLength = 2
  ElectionPoint = 1
  MaxRedeemHeight = 0
  CountInEpoch = 2
  ElectionMinLimit = 2
  EffectHeight = 2
  EffectID = 2
  Base = 2
  NoKey = NoKey
  g = g
  a = a
  b = b
  Addrs = {g, a, b}
  Genesis = {g}
  GenesisFee = 1
  Keys = {k1, k2, k3}
  Stakes = {2}
  Amounts = {1, 2}
  Fees = {1}
  Coins = {5}
  Funds = 4
  MinimumFruits = 1
  MaximumFruits = 1
  MaxHeight = 6
  MaxStakes = 2
  MaxStops = 2
  MaxWithdraws = 2
  MaxChanges = 1
  Scopes <- MCScopes
INVARIANTS LockedIsHeld MergeNeverPanics RedeemsInOrder RewardsPayable RewardsAddUp
CHECK_DEADLOCK FALSE
