-------------------------- MODULE MemoryReviewInv --------------------------
(***************************************************************************)
(* The inductive invariant behind the safety of MemoryReview, for any      *)
(* number of invocations and agent slugs.                                  *)
(***************************************************************************)
EXTENDS MemoryReview

Undecided == {"absent", "draft"}

Reviewing(p) == op[p] \in {"accept", "reject"}

(* Operations fit places and the status they ask for. *)
OpInv ==
  \A p \in Tx :
    /\ pc[p] \in {"find", "update", "upsertReview"} => Reviewing(p)
    /\ pc[p] \in {"read", "write"} => op[p] \in {"answer", "decide"}
    /\ pc[p] = "insert" => op[p] = "remember"
    /\ pc[p] = "upsert" => op[p] \in {"answer", "decide", "remember"}
    /\ pc[p] = "new" => op[p] = "none" /\ snap[p] = None /\ pend[p] = {}
    /\ pc[p] \notin {"new", "find", "done", "commit"} => cur[p] \in Row
    /\ pc[p] \in {"update", "upsertReview", "write"} => snap[p] # None
    /\ Reviewing(p) => want[p] \in {"reviewed", "archived"}
    /\ op[p] = "answer" => want[p] \in {"answered", "closed"}
    /\ op[p] = "decide" => want[p] \in DecisionStatus \cup {None}
    /\ op[p] = "remember" => want[p] \in {"draft", "reviewed"} /\ cur[p] \in Row

(* An uncommitted version is locked, and no step back from the row it is   *)
(* to replace; only `remember` writes a row that is not there.             *)
WorkInv ==
  \A p \in Tx, r \in Row : work[p][r] # None =>
    /\ rowLock[r] = p
    /\ work[p][r].status # "absent"
    /\ row[r].status = "absent" => op[p] = "remember" /\ cur[p] = r
    /\ row[r].status \notin Undecided => work[p][r].status \notin Undecided

(* Rows are there before they are written, new rows are not. *)
PlaceInv ==
  \A p \in Tx :
    /\ pc[p] = "write" => row[cur[p]].status # "absent"
    /\ op[p] = "remember" /\ pc[p] \in {"upsert", "insert", "commit"} =>
         row[cur[p]].status = "absent"
    /\ pc[p] = "upsertReview" =>
         /\ work[p][cur[p]] # None /\ row[cur[p]].status = "draft"
         /\ work[p][cur[p]].status \notin Undecided

FreshInv ==
  \A p, q \in Tx :
    op[p] = "remember" /\ op[q] = "remember" /\ cur[p] = cur[q] => p = q

(* A batch has one verdict for each draft it has changed so far, and the   *)
(* draft is still a draft for everyone else.                               *)
PendInv ==
  \A p \in Tx :
    /\ \A e \in pend[p] :
         /\ e.tx = p /\ e.act = op[p]
         /\ Verdict(e) =>
              /\ work[p][e.row] # None /\ row[e.row].status = "draft"
              /\ work[p][e.row].status \notin Undecided
         /\ Reviewing(p) => e.row \notin todo[p]
         /\ pc[p] \in {"update", "upsertReview"} => e.row # cur[p]
    /\ \A e, f \in pend[p] : Verdict(e) /\ Verdict(f) /\ e.row = f.row => e = f
    /\ pc[p] \in {"update", "upsertReview"} => cur[p] \notin todo[p]

(* A draft with a verdict in the log has left the inbox. *)
LogInv == \A e \in log : Verdict(e) => row[e.row].status \notin Undecided

(* Who wrote version m of row r: committed actions or p itself. *)
Writers(m)      == (m.notes \cup {m.review, m.text}) \cap Tx
Attested(q, r)  == \E e \in log : e.tx = q /\ e.row = r
Attesting(p, r) == (\E e \in pend[p] : e.row = r) \/ (pc[p] = "upsertReview" /\ cur[p] = r)

SourceOf(p) ==
  /\ snap[p] # None => \A q \in Writers(snap[p]) : Attested(q, cur[p])
  /\ \A r \in Row : work[p][r] # None =>
       \A q \in Writers(work[p][r]) : Attested(q, r) \/ (q = p /\ Attesting(p, r))
SourceInv == \A p \in Tx : SourceOf(p)

(* A batch has dealt with, or still has to deal with, each id it was given. *)
BatchOf(p) ==
  Reviewing(p) =>
    /\ pc[p] # "done" => \A r \in ids[p] :
         r \in todo[p] \/ r \in missing[p] \/ Attesting(p, r)
           \/ (pc[p] = "update" /\ cur[p] = r)
    /\ pc[p] = "commit" => todo[p] = {}
BatchInv == \A p \in Tx : BatchOf(p)

(* What a transaction is going to change: a review gives all its rows the  *)
(* status asked for, the others write their one row just before they end.  *)
EffectOf(p) ==
  \A r \in Row : work[p][r] # None =>
    /\ Reviewing(p) => work[p][r].status = want[p] /\ Attesting(p, r)
    /\ ~Reviewing(p) => r = cur[p] /\ pc[p] = "commit"
EffectInv == \A p \in Tx : EffectOf(p)

(* The log and the reports speak of transactions that have ended. *)
EndInv ==
  /\ \A e \in log : pc[e.tx] = "done"
  /\ \A p \in Tx : pc[p] # "done" => outcome[p] = "none"

IInv ==
  /\ TypeOK /\ OpInv /\ WorkInv /\ PlaceInv /\ FreshInv /\ PendInv /\ LogInv
  /\ SourceInv /\ BatchInv /\ EffectInv /\ EndInv
  /\ OneVerdict /\ Explained /\ ReportedReviews

=============================================================================
