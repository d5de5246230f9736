\* Two executors whose polls overlap, batches of two, one subscription the API never
\* resolves: one place of each batch is lost to it.
SPECIFICATION FairSpec
CONSTANTS
  Executors = {e1, e2}
  e1 = e1
  e2 = e2
  Subs = {s1, s2, s3}
  s1 = s1
  s2 = s2
  s3 = s3
  Broken = {s3}
  Limit = 2
  MaxPeriods = 2
INVARIANTS
  TypeOK
  StreakIsEarned
PROPERTIES
  StreakIsKept
  DueAreServed
