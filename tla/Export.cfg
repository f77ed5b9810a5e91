SPECIFICATION Spec
CONSTANTS
  Tables = 2
  Title = {"t", "u"}
  Note = {n1}
  Process = {e1, e2}
  Kinds <- MCKinds
  Seeds <- MCSeeds
  MaxChanges = 2
  MaxEdits = 1
  MaxRuns = 2
  Faults = {"kill"}
  None = None
  Torn = Torn
INVARIANTS ReviewedOnly NotesKept LinksResolve QuietExportFaithful
CHECK_DEADLOCK FALSE
SYMMETRY MCSymmetry
