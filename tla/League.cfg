\* Two scanners that collide, one milestone processor, one visibility cron.
SPECIFICATION FairSpec
CONSTANTS
  Protocols = {p1}
  p1 = p1
  Kinds = {"self_use"}
  Milestones = {m1, m2}
  m1 = m1
  m2 = m2
  Scanners = {s1, s2}
  s1 = s1
  s2 = s2
  Processors = {q1}
  q1 = q1
  Tickers = {t1}
  t1 = t1
  MaxMoves = 3
CHECK_DEADLOCK FALSE
INVARIANTS
  TypeOK
  AccrualIsFrozen
PROPERTIES
  TimelineIsHonest
  VisibilityConverges
