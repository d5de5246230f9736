\* A cron keeper, a re-run `start-round`, and anyone else cranking beside them.
SPECIFICATION FairSpec
CONSTANTS
  Crons = {k1}
  OneShots = {b1}
  k1 = k1
  b1 = b1
  ThirdParties = TRUE
  RoundSlots = 1
  Intermission = 1
  MaxRound = 2
  MaxStrays = 1
INVARIANTS
  TypeOK
  CronTxsAreDue
  GameInvariant
PROPERTIES
  EveryRoundSettles
  ImplementsSchedule
