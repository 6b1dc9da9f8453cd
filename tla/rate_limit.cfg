\* Two clients, the clock moving by one or two ticks.
SPECIFICATION Spec
CONSTANTS
  a = a
  b = b
  Keys <- TwoKeys
  MaxRequests = 2
  WindowMs = 3
  MaxTime = 8
  MaxSteps = 2
INVARIANTS
  WithinBudget
  RetryAfterIsExact
CHECK_DEADLOCK FALSE
