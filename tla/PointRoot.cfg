\* Two keepers with their own epochs in memory, two wallets, faults anywhere.
SPECIFICATION FairSpec
CONSTANTS
  Keepers = {k1, k2}
  k1 = k1
  k2 = k2
  Wallets = {w1, w2}
  w1 = w1
  w2 = w2
  WellFormed = {w1, w2}
  Bonus = 1
  MaxPoints = 2
  MaxEpoch = 3
  ChangeBound = 1
  MaxFaults = 1
  MaxStrays = 1
CHECK_DEADLOCK FALSE
INVARIANTS
  TypeOK
  ProofRowsMatchChain
  PointsAreAccounted
PROPERTIES
  NewerProofsStay
  EventuallyProvable
