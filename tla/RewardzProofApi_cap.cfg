\* The same keeper and client when the lifetime total of the earnings passes the
\* per-epoch cap: no tick publishes again.
SPECIFICATION FairRailSpec
CONSTANTS
  Keepers = {k1}
  k1 = k1
  Requests = {q1}
  q1 = q1
  Rows = {1, 2}
  Authorities = {"A", "B", "bad"}
  Authority <- MCAuthority
  Amount <- MCAmount
  Redeemable = {"A"}
  Cap = 1
  DryRunModes = {FALSE}
  DenyEntries = {}
  MaxLag = 0
  MonotoneReads = TRUE
  MaxEpoch = 2
  CommitBound = 0
  MaxStrays = 1
PROPERTIES
  EventuallyServed
