SPECIFICATION FairSpec
CONSTANTS
  Proc = {p1, p2}
  Owner = {}
  None = None
  Faults = {}
  ProbesMayFail = TRUE
  Outsiders = TRUE
INVARIANTS ExactRemoval
PROPERTIES FailedStartCleansUp
