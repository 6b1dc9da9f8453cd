\* Two accounts, two requests at a time, and three sessions and reset links, two of either
\* at the most.
SPECIFICATION Spec
CONSTANTS
  ann = ann
  bob = bob
  p1 = p1
  p2 = p2
  c1 = c1
  c2 = c2
  NoOne = NoOne
  Emails <- TwoEmails
  Passwords <- TwoPasswords
  Clients <- TwoClients
  MaxSessions = 2
  MaxTokens = 2
  MaxBoth = 3
SYMMETRY Symmetry
INVARIANTS
  StaleSessionsExplained
  OnlyLatestLinkOpens
PROPERTIES
  LockHolds
  SetupStaysClosed
CHECK_DEADLOCK FALSE
