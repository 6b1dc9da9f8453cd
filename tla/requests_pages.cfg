\* A page, and a script below it that is built on request.
SPECIFICATION Spec
CONSTANTS
  c1 = c1
  c2 = c2
  guest = guest
  user = user
  Conns <- TwoConns
  Roles <- TwoRoles
  Guest = guest
  Sites <- NoIndex
INVARIANT PagesStay
CHECK_DEADLOCK FALSE
