\* Two requests at a time, or one and a list that pages through three rows.
SPECIFICATION Spec
CONSTANTS
  c1 = c1
  c2 = c2
  editor = editor
  remover = remover
  Conns <- TwoConns
  Roles <- AllRoles
  Permits <- RolePermits
  LastId = 3
  LastText = 1
  NullWord = 1
  Amount = 2
  Lengths = {1, 2}
  DefaultLength = 1
  MaxLength = 2
  MaxBusy = 2
  Options <- SomeTables
SYMMETRY Symmetry
INVARIANTS
  ConfirmedIsDone
  WalkComplete
PROPERTIES
  OnlyAsPermitted
  ArchiveStands
CHECK_DEADLOCK FALSE
