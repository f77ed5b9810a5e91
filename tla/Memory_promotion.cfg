SPECIFICATION Spec
CONSTANTS
  Tx = {t1, t2, t3}
  Question = {q1}
  Decision = {d1}
  Other = {}
  Agent = {codex}
  DecisionStatus = {"reviewed"}
  None = None
SYMMETRY Symmetry
INVARIANTS PromotionIsReview
