\* Two requests at a time on five sites.
SPECIFICATION Spec
CONSTANTS
  c1 = c1
  c2 = c2
  guest = guest
  user = user
  Conns <- TwoConns
  Roles <- TwoRoles
  Guest = guest
  Sites <- SomeSites
INVARIANTS
  HandledOnlyAsPermitted
  IndexPagesStay
PROPERTIES
  EveryRequestEnds
CHECK_DEADLOCK FALSE
