SPECIFICATION FairSpec
CONSTANTS
  Ids = {i1, i2}
  Tasks = {t1, t2}
  NoTask = NoTask
  Capacity = 3
  Timeouts = {1, 2, 3}
  MaxExpirations = 2
INVARIANTS TypeOK MapMatchesWheel NoneOverdue
PROPERTIES FiresOnTime ImplementsService EveryTimerResolves
