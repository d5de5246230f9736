\* One keeper, one day, a failure between the two statements.
SPECIFICATION Spec
CONSTANTS
  Keepers = {k1}
  Protocols = {p1}
  k1 = k1
  p1 = p1
  TopN = 1
  MaxDate = 1
INVARIANTS
  EveryRowIsAwarded
