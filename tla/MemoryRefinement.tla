-------------------------- MODULE MemoryRefinement --------------------------
(* The overlapping transactions of MemoryReview implement the ledger of    *)
(* MemoryLedger: each takes effect at its commit or not at all.            *)
EXTENDS MemoryReview

(* The review entries of a row; OneVerdict says that there is at most one. *)
VerdictOf(r) == {e \in log : e.row = r /\ Verdict(e)}

Decider(r) ==
  IF VerdictOf(r) = {} THEN None ELSE (CHOOSE e \in VerdictOf(r) : TRUE).tx

Ledger == INSTANCE MemoryLedger WITH
  Reviewer <- Tx,
  status   <- [r \in Row |-> row[r].status],
  verdict  <- [r \in Row |-> Decider(r)]

(* Reviews, answers, updates and new candidates that overlap have the same *)
(* effect on statuses and verdicts as if each were one atomic step on the  *)
(* row as it then is, whatever they read before (review_draft's WHERE      *)
(* status = 'draft', update_decision's COALESCE, `with connect()`).        *)
ImplementsLedger == Ledger!Spec

=============================================================================
