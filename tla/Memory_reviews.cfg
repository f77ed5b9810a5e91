SPECIFICATION Spec
CONSTANTS
  Tx = {t1, t2, t3}
  Question = {}
  Decision = {d1}
  Other = {f1}
  Agent = {codex, view}
  DecisionStatus = {}
  None = None
SYMMETRY Symmetry
INVARIANTS TypeOK OneVerdict Explained ReportedReviews
PROPERTIES NeverDraftAgain
