\* The one worker replica, two protocols, stakes that come and go.
SPECIFICATION FairSpec
CONSTANTS
  Watchers = {w1}
  Protocols = {p1, p2}
  w1 = w1
  Null = Null
  p1 = p1
  p2 = p2
  MaxStake = 1
  Ratio = 3
  Grant = 1
  MaxStored = 2
  Cadence = 2
  StakeChanges = 4
CHECK_DEADLOCK FALSE
INVARIANTS
  TypeOK
  UnlockedOnce
PROPERTIES
  NoEarlyRefresh
  StakesAreMirrored
