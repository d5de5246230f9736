\* One keeper that crashes, times out and fails at will on a node that lags, and one
\* client that keeps asking: earnings committed beside the first publish are served.
SPECIFICATION FairRailSpec
CONSTANTS
  Keepers = {k1}
  k1 = k1
  Requests = {q1}
  q1 = q1
  Rows = {1, 2}
  Authorities = {"A", "B", "bad"}
  Authority <- MCAuthority
  Amount <- MCAmount
  Redeemable = {"A"}
  Cap = 4
  DryRunModes = {FALSE}
  DenyEntries = {}
  MaxLag = 1
  MonotoneReads = TRUE
  MaxEpoch = 2
  CommitBound = 0
  MaxStrays = 1
PROPERTIES
  AnswersMatchChain
  EventuallyServed
