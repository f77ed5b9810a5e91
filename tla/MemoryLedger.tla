---------------------------- MODULE MemoryLedger ----------------------------
(***************************************************************************)
(* What the review inbox promises, without transactions and locks: rows    *)
(* with a status, and for each row the one verdict that was given on it.   *)
(***************************************************************************)
CONSTANTS Row, Reviewer, Status, None

VARIABLES
  status,   \* status[r]: "absent", "draft" or one of the others
  verdict   \* verdict[r]: the reviewer that decided the draft r, or None

vars == <<status, verdict>>

Undecided == {"absent", "draft"}

Init ==
  /\ status \in [Row -> Undecided]
  /\ verdict = [r \in Row |-> None]

(* A candidate is stored, as a draft or (route "auto") as reviewed memory. *)
Store(r) ==
  /\ status[r] = "absent"
  /\ \E s \in Status \ {"absent"} : status' = [status EXCEPT ![r] = s]
  /\ UNCHANGED verdict

(* A reviewer decides several drafts at once, all of them or none. *)
Decide(p, S) ==
  /\ \A r \in S : status[r] = "draft" /\ verdict[r] = None
  /\ \E s \in Status \ Undecided :
       status' = [r \in Row |-> IF r \in S THEN s ELSE status[r]]
  /\ verdict' = [r \in Row |-> IF r \in S THEN p ELSE verdict[r]]

(* An answer or an update gives any stored row another status. *)
Revise(r) ==
  /\ status[r] # "absent"
  /\ \E s \in Status \ Undecided : status' = [status EXCEPT ![r] = s]
  /\ UNCHANGED verdict

Next ==
  \/ \E r \in Row : Store(r) \/ Revise(r)
  \/ \E p \in Reviewer, S \in SUBSET Row : Decide(p, S)

Spec == Init /\ [][Next]_vars

=============================================================================
