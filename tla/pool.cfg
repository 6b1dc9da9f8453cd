\* Jobs push jobs, the user pushes more, now and later, and may close.
SPECIFICATION Spec
CONSTANTS
  j1 = j1
  j2 = j2
  j3 = j3
  j4 = j4
  j5 = j5
  NoJob = NoJob
  NumWorkers = 2
  Jobs <- SomeJobs
  Roots <- TwoRoots
  Later <- OneLater
  Children <- Crawl
  MaxFailures = 3
  MaxConsecutive = 2
  Delays = {TRUE, FALSE}
  MaxHops = 2
INVARIANTS
  DoneIsComplete
  FailuresBounded
PROPERTIES
  RunResolves
  ImplementsJobPool
CHECK_DEADLOCK FALSE
