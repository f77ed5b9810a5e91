SPECIFICATION Spec
CONSTANTS
  Migrator = {m1, m2}
  Last = 4
  Checksum = {"a", "b"}
  Checkouts <- MCCheckouts
  Overlap = TRUE
  Faults = {"kill", "sql"}
  None = None
INVARIANTS RecordsTrue InOrder SuccessMeansExecuted RetryRecovers
