SPECIFICATION Spec
CONSTANTS
  Slug = {s1, s2}
  Folder = {f1}
  Target = {agents_md, other_md}
  AgentsMd = agents_md
  Command = {c1}
  Request = {q1, q2}
  Word = {w1}
  Start = Start
  End = End
  Cut = Cut
  FaultBound = 1
  OtherBound = 1
  None = None
SYMMETRY Symmetry
INVARIANTS InstructionsKept RetryRecovers
CHECK_DEADLOCK FALSE
