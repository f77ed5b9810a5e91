SPECIFICATION Spec
CONSTANTS
  Runs = {r1}
  NoteCount = 2
  Key <- Distinct
  Contents <- Mixed
  RowCount = 5
  Commands <- Every
  Overlap = FALSE
  Kills = FALSE
  EditBound = 2
  WorkBound = 2
  None = None
  n1 = n1
  n2 = n2
INVARIANTS UniqueKeys
PROPERTIES ManualChangesKept SyncSettles BlockedWritesNothing
