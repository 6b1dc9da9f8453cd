\* Uploads, and authorisations beside them, while the machine is initialised twice.
SPECIFICATION Spec
CONSTANTS
  c1 = c1
  c2 = c2
  p1 = p1
  Conns <- TwoConns
  OAuthConns <- OneReturns
  Photos <- OnePhoto
  Setups <- SomeSetups
  MaxLoads = 2
  MaxRows <- MostRows
INVARIANTS
  NeverEarly
  PairIsWhole
  RowsHaveBytes
  DuplicatesOnlyByOverlap
CHECK_DEADLOCK FALSE
