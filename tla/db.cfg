\* Boot, schedule, two reloading callers and two closes, at every await.
SPECIFICATION FairSpec
CONSTANTS
  d1 = d1
  d2 = d2
  d3 = d3
  k1 = k1
  k2 = k2
  c1 = c1
  c2 = c2
  NoDb = NoDb
  Dbs <- ThreeDbs
  NumDelays = 3
  Callers <- TwoCallers
  Closers <- TwoClosers
INVARIANTS
  AtMostOneAttempt
  OpenPoolIsAttached
  NoPoolAfterClose
  StatusHasSchedule
  RetriesUntilDone
  PoolEndedOnce
PROPERTIES
  ImplementsLink
  ScheduleSettles
  CloseCompletes
CHECK_DEADLOCK FALSE
