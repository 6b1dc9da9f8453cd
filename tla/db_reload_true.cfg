\* reloadDatabase during an attempt of the schedule.
SPECIFICATION Spec
CONSTANTS
  d1 = d1
  d2 = d2
  d3 = d3
  k1 = k1
  k2 = k2
  c1 = c1
  c2 = c2
  NoDb = NoDb
  Dbs <- TwoDbs
  NumDelays = 2
  Callers <- TwoCallers
  Closers <- OneCloser
PROPERTY TrueMeansConnected
CHECK_DEADLOCK FALSE
