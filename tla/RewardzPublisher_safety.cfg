\* Two keepers of a rolling deployment, either of which may be in dry-run mode, two
\* earnings that together pass the cap, an RPC node that lags but is monotone within a
\* tick, one freezable authority.
SPECIFICATION Spec
CONSTANTS
  Keepers = {k1, k2}
  k1 = k1
  k2 = k2
  Rows = {1, 3}
  Authorities = {"A", "B", "bad"}
  Authority <- MCAuthority
  Amount <- MCAmount
  Redeemable = {"A", "B"}
  Cap = 1
  DryRunModes = {TRUE, FALSE}
  DenyEntries = {"A"}
  MaxLag = 1
  MonotoneReads = TRUE
  MaxEpoch = 3
  CommitBound = 0
  MaxStrays = 1
SYMMETRY KeeperSymmetry
INVARIANTS
  TypeOK
  RecordsMatchChain
  StampNamesPublishedLeaf
  RailInvariant
  CapIsKept
PROPERTIES
  PublishKeepsDenyList
  StopsForGood
  ImplementsLedger
