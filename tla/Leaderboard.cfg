\* Two keepers whose ticks overlap, three protocols for two places, one midnight.
SPECIFICATION Spec
CONSTANTS
  Keepers = {k1, k2}
  Protocols = {p1, p2, p3}
  k1 = k1
  k2 = k2
  p1 = p1
  p2 = p2
  p3 = p3
  TopN = 2
  MaxDate = 1
SYMMETRY Symmetry
INVARIANTS
  BudgetPerDate
  HiddenEarnNothing
  LeaderboardInvariant
