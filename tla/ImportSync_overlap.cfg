SPECIFICATION Spec
CONSTANTS
  Runs = {r1, r2}
  NoteCount = 1
  Key <- Single
  Contents <- Overlaps
  RowCount = 4
  Commands <- Updates
  Overlap = TRUE
  Kills = TRUE
  EditBound = 2
  WorkBound = 2
  None = None
  n1 = n1
  n2 = n2
SYMMETRY Symmetry
INVARIANTS ReviewedMeansAccepted
