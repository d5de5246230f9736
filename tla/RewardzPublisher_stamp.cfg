\* One keeper, no fault: inserts in flight around the cutoff.
SPECIFICATION Spec
CONSTANTS
  Keepers = {k1}
  k1 = k1
  Rows = {1, 2}
  Authorities = {"A", "B", "bad"}
  Authority <- MCAuthority
  Amount <- MCAmount
  Redeemable = {"A", "B"}
  Cap = 4
  DryRunModes = {FALSE}
  DenyEntries = {}
  MaxLag = 1
  MonotoneReads = TRUE
  MaxEpoch = 3
  CommitBound = 1
  MaxStrays = 1
INVARIANTS
  StampIsFirstEpoch
