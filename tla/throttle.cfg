\* Two concurrent requests, on the row of logon or on that of a form.
SPECIFICATION Spec
CONSTANTS
  r1 = r1
  r2 = r2
  Requests <- TwoRequests
  MaxAttempts = 3
  Window = 3
  LockTime = 4
  MaxTime = 6
SYMMETRY Symmetry
INVARIANTS
  LocksForAReason
  AdmittedBounded
PROPERTIES
  NthAttemptLocks
  LockStands
CHECK_DEADLOCK FALSE
