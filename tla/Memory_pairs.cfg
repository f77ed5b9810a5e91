SPECIFICATION FairSpec
CONSTANTS
  Tx = {t1, t2}
  Question = {q1}
  Decision = {d1}
  Other = {f1}
  Agent = {codex}
  DecisionStatus = {"reviewed", "archived"}
  None = None
INVARIANTS ReviewRecordKept
PROPERTIES AuditChain TransactionsEnd ImplementsLedger
