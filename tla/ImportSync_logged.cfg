SPECIFICATION Spec
CONSTANTS
  Runs = {r1}
  NoteCount = 2
  Key <- Distinct
  Contents <- Faulty
  RowCount = 4
  Commands <- Sync
  Overlap = FALSE
  Kills = FALSE
  EditBound = 0
  WorkBound = 0
  None = None
  n1 = n1
  n2 = n2
INVARIANTS AttemptsLogged
