SPECIFICATION Spec
CONSTANTS
  Proc = {p1, p2, p3}
  Owner = {o1}
  None = None
  Faults = {"crash", "power"}
  ProbesMayFail = FALSE
  Outsiders = FALSE
SYMMETRY Symmetry
INVARIANTS HeldWhileOpen Exclusion EvidenceKept CompletedMeansGone RemovedOnce
PROPERTIES LiveOwnerKept ImplementsWorktreeLock
