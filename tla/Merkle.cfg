\* Every size from 1 to 11; the run stops when all proofs are read.
SPECIFICATION Spec
CONSTANTS
  Entries <- MCEntries
CHECK_DEADLOCK FALSE
INVARIANTS
  ProofsOpenTheRoot
  ProofsAreExact
