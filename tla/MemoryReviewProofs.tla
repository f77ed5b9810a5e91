------------------------- MODULE MemoryReviewProofs -------------------------
(***************************************************************************)
(* Proofs about MemoryReview, for every set of rows, of overlapping        *)
(* invocations and of agent slugs.                                         *)
(***************************************************************************)
EXTENDS MemoryReviewInv, MemoryRefinement, TLAPS

(* Constants are told apart. *)
LEMMA Facts ==
  /\ \A p \in Tx : p # None
  /\ \A r \in Row : r # None
  /\ \A m \in Memory : m # None
  /\ \A s \in Status : s # None
  /\ DecisionStatus \subseteq Status \ Undecided
  /\ None \notin DecisionStatus
  /\ {"absent", "draft", "reviewed", "archived", "answered", "closed"} \subseteq Status
  /\ Question \subseteq Row /\ Decision \subseteq Row
BY MemoryAssumption, NoneIsNoMemory DEF Row, Status, Undecided

(* What the failing exits, and the two statements that change a row that   *)
(* is there, have in common.                                               *)
Fails(p) == pc[p] \notin {"new", "done"} /\ Rollback(p, "failed")

Revises(p) ==
  /\ pc[p] = "write" /\ op[p] \in {"answer", "decide"}
  /\ \E new \in Memory :
       /\ Write(p, new)
       /\ new.status # "absent" /\ new.review = snap[p].review
       /\ row[cur[p]].status \notin Undecided => new.status \notin Undecided
       /\ Writers(new) \subseteq {p} \cup Writers(row[cur[p]]) \cup Writers(snap[p])

Begins(p) ==
  \/ InvokeReview(p) \/ InvokeAnswer(p) \/ InvokeDecide(p) \/ InvokeRemember(p)

LEMMA RevisesFacts ==
  ASSUME TypeOK, OpInv, PlaceInv, NEW p \in Tx, WriteAnswer(p) \/ WriteDecision(p)
  PROVE  Revises(p)
<1>1. /\ pc[p] = "write" /\ op[p] \in {"answer", "decide"} /\ cur[p] \in Row
      /\ snap[p] # None /\ row[cur[p]].status # "absent"
      /\ op[p] = "answer" => want[p] \in {"answered", "closed"}
      /\ op[p] = "decide" => want[p] \in DecisionStatus \cup {None}
  BY DEF WriteAnswer, WriteDecision, Write, Goto, OpInv, PlaceInv
<1>2. row[cur[p]] \in Memory /\ snap[p] \in Memory
  BY <1>1 DEF TypeOK
<1>3. CASE WriteAnswer(p)
  <2> DEFINE new == [status |-> want[p], text |-> p,
                     notes |-> snap[p].notes \cup {p}, review |-> snap[p].review]
  <2>1. new \in Memory
    BY <1>1, <1>2, <1>3 DEF Memory, Status, WriteAnswer
  <2>2. Writers(new) \subseteq {p} \cup Writers(snap[p])
    BY DEF Writers
  <2>3. new.status \notin Undecided
    BY <1>1, <1>3 DEF Undecided, WriteAnswer
  <2>4. Write(p, new)
    BY <1>3 DEF WriteAnswer
  <2>5. QED
    BY <1>1, <2>1, <2>2, <2>3, <2>4 DEF Revises, Undecided
<1>4. CASE WriteDecision(p)
  <2>1. PICK t \in {p, row[cur[p]].text} :
          Write(p, [status |-> IF want[p] = None THEN row[cur[p]].status ELSE want[p],
                    text |-> t,
                    notes |-> snap[p].notes \cup {p}, review |-> snap[p].review])
    BY <1>4 DEF WriteDecision
  <2> DEFINE st  == IF want[p] = None THEN row[cur[p]].status ELSE want[p]
             new == [status |-> st, text |-> t,
                     notes |-> snap[p].notes \cup {p}, review |-> snap[p].review]
  <2>2. /\ st \in Status /\ st # "absent"
        /\ row[cur[p]].status \notin Undecided => st \notin Undecided
    BY <1>1, <1>2, <1>4, Facts DEF Memory, WriteDecision, Undecided
  <2>3. t \in Tx \cup {None}
    BY <1>2 DEF Memory
  <2>4. new \in Memory
    BY <1>2, <2>2, <2>3 DEF Memory
  <2>5. Writers(new) \subseteq {p} \cup Writers(row[cur[p]]) \cup Writers(snap[p])
    BY DEF Writers
  <2>6. QED
    BY <1>1, <2>1, <2>2, <2>4, <2>5 DEF Revises
<1>5. QED
  BY <1>3, <1>4

LEMMA DeadlockFacts ==
  ASSUME NEW p \in Tx, DeadlockVictim(p) PROVE pc[p] \notin {"new", "done"}
<1>1. PICK S \in SUBSET Tx : p \in S /\ \A q \in S : Blocker(q) \in S \ {q}
  BY DEF DeadlockVictim, Deadlocked
<1>2. Blocker(p) # None
  BY <1>1, Facts
<1>3. QED
  BY <1>2 DEF Blocker

(* The steps, as the proofs below take them. *)
LEMMA Cases ==
  ASSUME TypeOK, OpInv, PlaceInv, [Next]_vars
  PROVE  \/ \E p \in Tx :
              \/ Begins(p) \/ FindDraft(p) \/ FindMissing(p) \/ FindDone(p)
              \/ UpdateDraft(p) \/ LogReview(p) \/ UpsertAgent(p) \/ ReadRow(p)
              \/ Revises(p) \/ InsertRow(p) \/ Commit(p) \/ Fails(p)
         \/ UNCHANGED vars
<1>1. ASSUME NEW p \in Tx,
   DraftGone(p) \/ RowNotFound(p) \/ Abort(p) \/ DeadlockVictim(p)
      PROVE Fails(p)
  BY <1>1, DeadlockFacts DEF DraftGone, RowNotFound, Abort, DeadlockVictim, Fails
<1>2. ASSUME NEW p \in Tx, Begin(p) PROVE Begins(p)
  BY <1>2 DEF Begin, Begins
<1>3. ASSUME NEW p \in Tx, Step(p)
      PROVE  \/ FindDraft(p) \/ FindMissing(p) \/ FindDone(p)
             \/ UpdateDraft(p) \/ LogReview(p) \/ UpsertAgent(p) \/ ReadRow(p)
             \/ Revises(p) \/ InsertRow(p) \/ Commit(p) \/ Fails(p)
  BY <1>1, <1>3, RevisesFacts DEF Step
<1>4. CASE Terminated
  BY <1>4 DEF Terminated
<1>5. QED
  BY <1>1, <1>2, <1>3, <1>4 DEF Next

-----------------------------------------------------------------------------
LEMMA InitIInv == Init => IInv
<1> SUFFICES ASSUME Init PROVE IInv
  OBVIOUS
<1>1. \A s \in {"absent", "draft"} : Blank(s) \in Memory /\ Writers(Blank(s)) = {}
  BY MemoryAssumption DEF Blank, Memory, Status, Writers
<1>2. TypeOK
  BY <1>1 DEF Init, TypeOK, Place
<1>3. OpInv /\ PlaceInv /\ FreshInv /\ PendInv /\ BatchInv
  BY DEF Init, OpInv, PlaceInv, FreshInv, PendInv, BatchInv, BatchOf,
         Reviewing, Attesting
<1>4. WorkInv /\ LogInv /\ EndInv /\ OneVerdict
  BY DEF Init, WorkInv, LogInv, EndInv, OneVerdict
<1>5. SourceInv /\ EffectInv
  BY DEF Init, SourceInv, SourceOf, EffectInv, EffectOf
<1>6. Explained
  BY MemoryAssumption DEF Init, Explained, Blank
<1>7. ReportedReviews
  BY DEF Init, ReportedReviews, Reported
<1>8. QED
  BY <1>2, <1>3, <1>4, <1>5, <1>6, <1>7 DEF IInv

LEMMA StepTypeOK ==
  ASSUME TypeOK, OpInv, PlaceInv, [Next]_vars PROVE TypeOK'
<1> USE DEF Goto, Free, store, locks, request, TypeOK, Place, Act
<1>1. ASSUME NEW p \in Tx, Begins(p) PROVE TypeOK'
  <2>1. CASE InvokeReview(p)
    BY <2>1, Facts DEF InvokeReview, Invoke
  <2>2. CASE InvokeAnswer(p)
    BY <2>2, Facts DEF InvokeAnswer, Invoke
  <2>3. CASE InvokeDecide(p)
    BY <2>3, Facts DEF InvokeDecide, Invoke
  <2>4. CASE InvokeRemember(p)
    BY <2>4, Facts DEF InvokeRemember, Invoke
  <2>5. QED
    BY <1>1, <2>1, <2>2, <2>3, <2>4 DEF Begins
<1>2. ASSUME NEW p \in Tx, FindDraft(p) PROVE TypeOK'
  BY <1>2, Facts DEF FindDraft
<1>3. ASSUME NEW p \in Tx, FindMissing(p) PROVE TypeOK'
  BY <1>3, Facts DEF FindMissing
<1>4. ASSUME NEW p \in Tx, FindDone(p) PROVE TypeOK'
  BY <1>4, Facts DEF FindDone
<1>5. ASSUME NEW p \in Tx, UpdateDraft(p) PROVE TypeOK'
  <2>1. cur[p] \in Row /\ snap[p] \in Memory /\ want[p] \in Status
    BY <1>5 DEF UpdateDraft, OpInv, Reviewing, Status
  <2>2. row[cur[p]] \in Memory
    BY <2>1
  <2>3. [row[cur[p]] EXCEPT !.status = want[p], !.notes = snap[p].notes, !.review = p]
          \in Memory
    BY <2>1, <2>2 DEF Memory
  <2>4. QED
    BY <1>5, <2>1, <2>3 DEF UpdateDraft
<1>6. ASSUME NEW p \in Tx, LogReview(p) PROVE TypeOK'
  <2>1. /\ cur[p] \in Row /\ snap[p] \in Memory
        /\ want[p] \in Status /\ op[p] \in {"accept", "reject"}
    BY <1>6 DEF LogReview, EnsureAgent, OpInv, Reviewing, Status
  <2>2. [tx |-> p, row |-> cur[p], act |-> op[p], prev |-> snap[p].status,
         next |-> want[p]] \in Entry
    BY <2>1 DEF Entry, Memory
  <2>3. QED
    BY <1>6, <2>2 DEF LogReview, EnsureAgent, Logged
<1>7. ASSUME NEW p \in Tx, UpsertAgent(p) PROVE TypeOK'
  BY <1>7, Facts DEF UpsertAgent, EnsureAgent
<1>8. ASSUME NEW p \in Tx, ReadRow(p) PROVE TypeOK'
  BY <1>8 DEF ReadRow, OpInv
<1>9. ASSUME NEW p \in Tx, Revises(p) PROVE TypeOK'
  <2>1. PICK new \in Memory : Write(p, new)
    BY <1>9 DEF Revises
  <2>2. cur[p] \in Row /\ snap[p] \in Memory /\ new.status \in Status
    BY <1>9, <2>1 DEF Write, OpInv, Memory
  <2>3. [tx |-> p, row |-> cur[p], act |-> op[p], prev |-> snap[p].status,
         next |-> new.status] \in Entry
    BY <1>9, <2>2 DEF Revises, Entry, Memory
  <2>4. QED
    BY <2>1, <2>2, <2>3 DEF Write, Logged
<1>10. ASSUME NEW p \in Tx, InsertRow(p) PROVE TypeOK'
  <2>1. cur[p] \in Row /\ op[p] = "remember" /\ want[p] \in Status
    BY <1>10 DEF InsertRow, OpInv, Status
  <2>2. [Blank(want[p]) EXCEPT !.text = p] \in Memory
    BY <2>1 DEF Blank, Memory
  <2>3. [tx |-> p, row |-> cur[p], act |-> op[p], prev |-> "absent",
         next |-> want[p]] \in Entry
    BY <2>1 DEF Entry, Status
  <2>4. QED
    BY <1>10, <2>1, <2>2, <2>3 DEF InsertRow, Logged
<1>11. ASSUME NEW p \in Tx, Commit(p) PROVE TypeOK'
  BY <1>11, Facts DEF Commit
<1>12. ASSUME NEW p \in Tx, Fails(p) PROVE TypeOK'
  BY <1>12, Facts DEF Fails, Rollback
<1>13. CASE UNCHANGED vars
  BY <1>13 DEF vars
<1>14. QED
  BY <1>1, <1>2, <1>3, <1>4, <1>5, <1>6, <1>7, <1>8, <1>9, <1>10, <1>11, <1>12,
     <1>13, Cases

LEMMA StepOpInv ==
  ASSUME TypeOK, OpInv, PlaceInv, [Next]_vars PROVE OpInv'
<1> USE DEF Goto, Free, store, locks, request, OpInv, Reviewing, TypeOK
<1>1. ASSUME NEW p \in Tx, Begins(p) PROVE OpInv'
  <2>1. CASE InvokeReview(p)
    BY <2>1, Facts DEF InvokeReview, Invoke
  <2>2. CASE InvokeAnswer(p)
    BY <2>2, Facts DEF InvokeAnswer, Invoke
  <2>3. CASE InvokeDecide(p)
    BY <2>3, Facts DEF InvokeDecide, Invoke
  <2>4. CASE InvokeRemember(p)
    BY <2>4, Facts DEF InvokeRemember, Invoke
  <2>5. QED
    BY <1>1, <2>1, <2>2, <2>3, <2>4 DEF Begins
<1>2. ASSUME NEW p \in Tx, FindDraft(p) PROVE OpInv'
  BY <1>2, Facts DEF FindDraft
<1>3. ASSUME NEW p \in Tx, FindMissing(p) PROVE OpInv'
  BY <1>3, Facts DEF FindMissing
<1>4. ASSUME NEW p \in Tx, FindDone(p) PROVE OpInv'
  BY <1>4, Facts DEF FindDone
<1>5. ASSUME NEW p \in Tx, UpdateDraft(p) PROVE OpInv'
  BY <1>5, Facts DEF UpdateDraft
<1>6. ASSUME NEW p \in Tx, LogReview(p) PROVE OpInv'
  BY <1>6, Facts DEF LogReview, EnsureAgent, Logged
<1>7. ASSUME NEW p \in Tx, UpsertAgent(p) PROVE OpInv'
  BY <1>7, Facts DEF UpsertAgent, EnsureAgent
<1>8. ASSUME NEW p \in Tx, ReadRow(p) PROVE OpInv'
  BY <1>8, Facts DEF ReadRow
<1>9. ASSUME NEW p \in Tx, Revises(p) PROVE OpInv'
  BY <1>9, Facts DEF Revises, Write, Logged
<1>10. ASSUME NEW p \in Tx, InsertRow(p) PROVE OpInv'
  BY <1>10, Facts DEF InsertRow, Logged
<1>11. ASSUME NEW p \in Tx, Commit(p) PROVE OpInv'
  BY <1>11, Facts DEF Commit
<1>12. ASSUME NEW p \in Tx, Fails(p) PROVE OpInv'
  BY <1>12, Facts DEF Fails, Rollback
<1>13. CASE UNCHANGED vars
  BY <1>13 DEF vars
<1>14. QED
  BY <1>1, <1>2, <1>3, <1>4, <1>5, <1>6, <1>7, <1>8, <1>9, <1>10, <1>11, <1>12,
     <1>13, Cases

LEMMA StepWorkInv ==
  ASSUME TypeOK, OpInv, WorkInv, PlaceInv, FreshInv, [Next]_vars PROVE WorkInv'
<1> USE DEF Goto, Free, store, locks, request, WorkInv
<1>1. ASSUME NEW p \in Tx, Begins(p) PROVE WorkInv'
  <2>1. op[p] = "none" /\ \A q \in Tx \ {p} : op'[q] = op[q] /\ cur'[q] = cur[q]
    BY <1>1 DEF Begins, InvokeReview, InvokeAnswer, InvokeDecide, InvokeRemember,
                Invoke,
                OpInv, TypeOK
  <2>2. UNCHANGED <<row, rowLock, work>>
    BY <1>1 DEF Begins, InvokeReview, InvokeAnswer, InvokeDecide, InvokeRemember, Invoke
  <2>3. QED
    BY <2>1, <2>2
<1>2. ASSUME NEW p \in Tx, FindDraft(p) PROVE WorkInv'
  <2>1. op[p] # "remember"
    BY <1>2 DEF FindDraft, OpInv, Reviewing
  <2>2. \A q \in Tx \ {p} : cur'[q] = cur[q]
    BY <1>2 DEF FindDraft, TypeOK
  <2>3. UNCHANGED <<row, rowLock, work, op>>
    BY <1>2 DEF FindDraft
  <2>4. QED
    BY <2>1, <2>2, <2>3
<1>3. ASSUME NEW p \in Tx, FindMissing(p) PROVE WorkInv'
  BY <1>3, Facts DEF FindMissing
<1>4. ASSUME NEW p \in Tx, FindDone(p) PROVE WorkInv'
  BY <1>4, Facts DEF FindDone
<1>5. ASSUME NEW p \in Tx, UpdateDraft(p) PROVE WorkInv'
  <2> DEFINE new == [row[cur[p]] EXCEPT !.status = want[p], !.notes = snap[p].notes,
                                      !.review = p]
  <2>1. /\ cur[p] \in Row /\ want[p] \notin Undecided
        /\ rowLock[cur[p]] \in {None, p} /\ row[cur[p]].status = "draft"
        /\ row[cur[p]] \in Memory
    <3>1. pc[p] = "update"
      BY <1>5 DEF UpdateDraft
    <3>2. cur[p] \in Row /\ want[p] \notin Undecided
      BY <3>1 DEF OpInv, Reviewing, Undecided
    <3>3. rowLock[cur[p]] \in {None, p} /\ row[cur[p]].status = "draft"
      BY <1>5 DEF UpdateDraft
    <3>4. QED
      BY <3>2, <3>3 DEF TypeOK
  <2>2. new.status = want[p]
    BY <2>1 DEF Memory
  <2>3. /\ rowLock' = [rowLock EXCEPT ![cur[p]] = p]
        /\ work' = [work EXCEPT ![p][cur[p]] = new]
        /\ UNCHANGED <<row, op, cur>>
    BY <1>5 DEF UpdateDraft
  <2>4. QED
    BY <2>1, <2>2, <2>3, Facts DEF TypeOK, Undecided
<1>6. ASSUME NEW p \in Tx, LogReview(p) PROVE WorkInv'
  BY <1>6, Facts DEF LogReview, EnsureAgent, Logged
<1>7. ASSUME NEW p \in Tx, UpsertAgent(p) PROVE WorkInv'
  BY <1>7, Facts DEF UpsertAgent, EnsureAgent
<1>8. ASSUME NEW p \in Tx, ReadRow(p) PROVE WorkInv'
  BY <1>8, Facts DEF ReadRow
<1>9. ASSUME NEW p \in Tx, Revises(p) PROVE WorkInv'
  <2>1. PICK new \in Memory :
          /\ Write(p, new)
          /\ new.status # "absent"
          /\ row[cur[p]].status \notin Undecided => new.status \notin Undecided
    BY <1>9 DEF Revises
  <2>2. /\ cur[p] \in Row /\ rowLock[cur[p]] \in {None, p}
        /\ row[cur[p]].status # "absent"
    BY <2>1 DEF Write, OpInv, PlaceInv
  <2>3. /\ rowLock' = [rowLock EXCEPT ![cur[p]] = p]
        /\ work' = [work EXCEPT ![p][cur[p]] = new]
        /\ UNCHANGED <<row, op, cur>>
    BY <2>1 DEF Write
  <2>4. QED
    BY <2>1, <2>2, <2>3, Facts DEF TypeOK
<1>10. ASSUME NEW p \in Tx, InsertRow(p) PROVE WorkInv'
  <2> DEFINE new == [Blank(want[p]) EXCEPT !.text = p]
  <2>1. /\ cur[p] \in Row /\ op[p] = "remember" /\ want[p] \in {"draft", "reviewed"}
        /\ row[cur[p]].status = "absent"
    BY <1>10 DEF InsertRow, OpInv, PlaceInv
  <2>2. new.status = want[p]
    BY DEF Blank
  <2>3. /\ rowLock' = [rowLock EXCEPT ![cur[p]] = p]
        /\ work' = [work EXCEPT ![p][cur[p]] = new]
        /\ UNCHANGED <<row, op, cur>>
    BY <1>10 DEF InsertRow
  <2>4. ASSUME NEW q \in Tx, NEW r \in Row, work'[q][r] # None
        PROVE  /\ rowLock'[r] = q
               /\ work'[q][r].status # "absent"
               /\ row[r].status = "absent" => op[q] = "remember" /\ cur[q] = r
               /\ row[r].status \notin Undecided => work'[q][r].status \notin Undecided
    <3>1. CASE r = cur[p]
      <4>1. q = p
        BY <2>1, <2>3, <2>4, <3>1 DEF FreshInv, TypeOK
      <4>2. work'[q][r].status = want[p] /\ rowLock'[r] = p
        BY <2>1, <2>2, <2>3, <3>1, <4>1 DEF TypeOK
      <4>3. QED
        BY <2>1, <3>1, <4>1, <4>2 DEF Undecided
    <3>2. CASE r # cur[p]
      BY <2>1, <2>3, <2>4, <3>2 DEF TypeOK
    <3>3. QED
      BY <3>1, <3>2
  <2>5. QED
    BY <2>3, <2>4
<1>11. ASSUME NEW p \in Tx, Commit(p) PROVE WorkInv'
  <2>1. \A q \in Tx, r \in Row : work'[q][r] # None => work'[q][r] = work[q][r] /\ q # p
    BY <1>11 DEF Commit, TypeOK
  <2>2. \A q \in Tx,
     r \in Row : work'[q][r] # None => row'[r] = row[r] /\ rowLock'[r] = q
    BY <1>11, <2>1 DEF Commit, TypeOK
  <2>3. QED
    BY <1>11, <2>1, <2>2 DEF Commit
<1>12. ASSUME NEW p \in Tx, Fails(p) PROVE WorkInv'
  <2>1. \A q \in Tx, r \in Row : work'[q][r] # None => work'[q][r] = work[q][r] /\ q # p
    BY <1>12 DEF Fails, Rollback, TypeOK
  <2>2. \A q \in Tx, r \in Row : work'[q][r] # None => rowLock'[r] = q
    BY <1>12, <2>1 DEF Fails, Rollback, TypeOK
  <2>3. QED
    BY <1>12, <2>1, <2>2 DEF Fails, Rollback
<1>13. CASE UNCHANGED vars
  BY <1>13 DEF vars
<1>14. QED
  BY <1>1, <1>2, <1>3, <1>4, <1>5, <1>6, <1>7, <1>8, <1>9, <1>10, <1>11, <1>12,
     <1>13, Cases

LEMMA StepPlaceInv ==
  ASSUME TypeOK, OpInv, WorkInv, PlaceInv, FreshInv, [Next]_vars PROVE PlaceInv'
<1> USE DEF Goto, Free, store, locks, request, PlaceInv
<1>1. ASSUME NEW p \in Tx, Begins(p) PROVE PlaceInv'
  BY <1>1, Facts DEF Begins, InvokeReview, InvokeAnswer, InvokeDecide,
                     InvokeRemember, Invoke, TypeOK, OpInv, Undecided, Reviewing
<1>2. ASSUME NEW p \in Tx, FindDraft(p) PROVE PlaceInv'
  BY <1>2, Facts DEF FindDraft, TypeOK, OpInv, Undecided, Reviewing
<1>3. ASSUME NEW p \in Tx, FindMissing(p) PROVE PlaceInv'
  BY <1>3, Facts DEF FindMissing, TypeOK, OpInv, Undecided, Reviewing
<1>4. ASSUME NEW p \in Tx, FindDone(p) PROVE PlaceInv'
  BY <1>4, Facts DEF FindDone, TypeOK, OpInv, Undecided, Reviewing
<1>5. ASSUME NEW p \in Tx, UpdateDraft(p) PROVE PlaceInv'
  <2> DEFINE new == [row[cur[p]] EXCEPT !.status = want[p], !.notes = snap[p].notes,
                                      !.review = p]
  <2>1. pc[p] = "update" /\ row[cur[p]].status = "draft"
    BY <1>5 DEF UpdateDraft
  <2>2. cur[p] \in Row /\ want[p] \in {"reviewed", "archived"} /\ snap[p] \in Memory
    BY <2>1 DEF OpInv, Reviewing, TypeOK
  <2>3. row[cur[p]] \in Memory
    BY <2>2 DEF TypeOK
  <2>4. new \in Memory /\ new.status = want[p]
    BY <2>2, <2>3, Facts DEF Memory
  <2>5. /\ work' = [work EXCEPT ![p][cur[p]] = new]
        /\ pc' = [pc EXCEPT ![p] = "upsertReview"]
        /\ UNCHANGED <<row, op, cur>>
    BY <1>5 DEF UpdateDraft
  <2>6. QED
    BY <2>1, <2>2, <2>5, <2>4, Facts DEF Undecided, TypeOK
<1>6. ASSUME NEW p \in Tx, LogReview(p) PROVE PlaceInv'
  BY <1>6, Facts DEF LogReview, EnsureAgent, Logged, TypeOK, OpInv, Undecided, Reviewing
<1>7. ASSUME NEW p \in Tx, UpsertAgent(p) PROVE PlaceInv'
  BY <1>7, Facts DEF UpsertAgent, EnsureAgent, TypeOK, OpInv, Undecided, Reviewing
<1>8. ASSUME NEW p \in Tx, ReadRow(p) PROVE PlaceInv'
  BY <1>8, Facts DEF ReadRow, TypeOK, OpInv, Undecided, Reviewing
<1>9. ASSUME NEW p \in Tx, Revises(p) PROVE PlaceInv'
  BY <1>9, Facts DEF Revises, Write, Logged, TypeOK, OpInv, Undecided, Reviewing
<1>10. ASSUME NEW p \in Tx, InsertRow(p) PROVE PlaceInv'
  BY <1>10, Facts DEF InsertRow, Logged, TypeOK, OpInv, Undecided, Reviewing
<1>11. ASSUME NEW p \in Tx, Commit(p) PROVE PlaceInv'
  <2>1. \A q \in Tx \ {p} : pc'[q] = pc[q] /\ work'[q] = work[q]
    BY <1>11 DEF Commit, TypeOK
  <2>2. pc'[p] = "done" /\ UNCHANGED <<op, cur>>
    BY <1>11 DEF Commit, TypeOK
  <2>3. \A r \in Row : row[r].status # "absent" => row'[r].status # "absent"
    BY <1>11 DEF Commit, WorkInv
  <2>4. ASSUME NEW q \in Tx \ {p}, op[q] = "remember", pc[q] \in {"upsert", "insert",
     "commit"}
        PROVE  row'[cur[q]].status = "absent"
    <3>1. work[p][cur[q]] = None
      BY <1>11, <2>4 DEF FreshInv, WorkInv, OpInv, Commit
    <3>2. QED
      BY <1>11, <2>4, <3>1 DEF Commit, OpInv
  <2>5. ASSUME NEW q \in Tx \ {p}, pc[q] = "upsertReview"
        PROVE  row'[cur[q]].status = "draft"
    <3>1. cur[q] \in Row /\ rowLock[cur[q]] = q
      BY <2>5 DEF OpInv, WorkInv
    <3>2. work[p][cur[q]] = None
      BY <3>1 DEF WorkInv
    <3>3. QED
      BY <1>11, <2>5, <3>1, <3>2 DEF Commit
  <2>6. QED
    BY <2>1, <2>2, <2>3, <2>4, <2>5 DEF OpInv
<1>12. ASSUME NEW p \in Tx, Fails(p) PROVE PlaceInv'
  BY <1>12, Facts DEF Fails, Rollback, TypeOK, OpInv, Undecided, Reviewing
<1>13. CASE UNCHANGED vars
  BY <1>13 DEF vars
<1>14. QED
  BY <1>1, <1>2, <1>3, <1>4, <1>5, <1>6, <1>7, <1>8, <1>9, <1>10, <1>11, <1>12,
     <1>13, Cases

LEMMA StepFreshInv ==
  ASSUME TypeOK, OpInv, PlaceInv, FreshInv, [Next]_vars PROVE FreshInv'
<1> USE DEF Goto, Free, store, locks, request, TypeOK, OpInv, FreshInv, Reviewing
<1>1. ASSUME NEW p \in Tx, Begins(p) PROVE FreshInv'
  <2>1. CASE InvokeReview(p)
    BY <2>1, Facts DEF InvokeReview, Invoke
  <2>2. CASE InvokeAnswer(p)
    BY <2>2, Facts DEF InvokeAnswer, Invoke
  <2>3. CASE InvokeDecide(p)
    BY <2>3, Facts DEF InvokeDecide, Invoke
  <2>4. CASE InvokeRemember(p)
    BY <2>4, Facts DEF InvokeRemember, Invoke
  <2>5. QED
    BY <1>1, <2>1, <2>2, <2>3, <2>4 DEF Begins
<1>2. ASSUME NEW p \in Tx, FindDraft(p) PROVE FreshInv'
  <2>1. op[p] # "remember" /\ \A q \in Tx \ {p} : cur'[q] = cur[q]
    BY <1>2 DEF FindDraft
  <2>2. QED
    BY <1>2, <2>1 DEF FindDraft
<1>3. ASSUME NEW p \in Tx, FindMissing(p) PROVE FreshInv'
  BY <1>3, Facts DEF FindMissing
<1>4. ASSUME NEW p \in Tx, FindDone(p) PROVE FreshInv'
  BY <1>4, Facts DEF FindDone
<1>5. ASSUME NEW p \in Tx, UpdateDraft(p) PROVE FreshInv'
  BY <1>5, Facts DEF UpdateDraft
<1>6. ASSUME NEW p \in Tx, LogReview(p) PROVE FreshInv'
  BY <1>6, Facts DEF LogReview, EnsureAgent, Logged
<1>7. ASSUME NEW p \in Tx, UpsertAgent(p) PROVE FreshInv'
  BY <1>7, Facts DEF UpsertAgent, EnsureAgent
<1>8. ASSUME NEW p \in Tx, ReadRow(p) PROVE FreshInv'
  BY <1>8, Facts DEF ReadRow
<1>9. ASSUME NEW p \in Tx, Revises(p) PROVE FreshInv'
  BY <1>9, Facts DEF Revises, Write, Logged
<1>10. ASSUME NEW p \in Tx, InsertRow(p) PROVE FreshInv'
  BY <1>10, Facts DEF InsertRow, Logged
<1>11. ASSUME NEW p \in Tx, Commit(p) PROVE FreshInv'
  BY <1>11, Facts DEF Commit
<1>12. ASSUME NEW p \in Tx, Fails(p) PROVE FreshInv'
  BY <1>12, Facts DEF Fails, Rollback
<1>13. CASE UNCHANGED vars
  BY <1>13 DEF vars
<1>14. QED
  BY <1>1, <1>2, <1>3, <1>4, <1>5, <1>6, <1>7, <1>8, <1>9, <1>10, <1>11, <1>12,
     <1>13, Cases

LEMMA StepPendInv ==
  ASSUME TypeOK, OpInv, WorkInv, PlaceInv, FreshInv, PendInv, [Next]_vars PROVE PendInv'
<1> USE DEF Goto, Free, store, locks, request, TypeOK, OpInv, WorkInv, PlaceInv,
            PendInv, Undecided, Reviewing, Verdict
<1>1. ASSUME NEW p \in Tx, Begins(p) PROVE PendInv'
  BY <1>1, Facts DEF Begins, InvokeReview, InvokeAnswer, InvokeDecide,
                     InvokeRemember, Invoke
<1>2. ASSUME NEW p \in Tx, FindDraft(p) PROVE PendInv'
  BY <1>2, Facts DEF FindDraft
<1>3. ASSUME NEW p \in Tx, FindMissing(p) PROVE PendInv'
  BY <1>3, Facts DEF FindMissing
<1>4. ASSUME NEW p \in Tx, FindDone(p) PROVE PendInv'
  BY <1>4, Facts DEF FindDone
<1>5. ASSUME NEW p \in Tx, UpdateDraft(p) PROVE PendInv'
  BY <1>5, Facts DEF UpdateDraft
<1>6. ASSUME NEW p \in Tx, LogReview(p) PROVE PendInv'
  BY <1>6, Facts DEF LogReview, EnsureAgent, Logged
<1>7. ASSUME NEW p \in Tx, UpsertAgent(p) PROVE PendInv'
  BY <1>7, Facts DEF UpsertAgent, EnsureAgent
<1>8. ASSUME NEW p \in Tx, ReadRow(p) PROVE PendInv'
  BY <1>8, Facts DEF ReadRow
<1>9. ASSUME NEW p \in Tx, Revises(p) PROVE PendInv'
  BY <1>9, Facts DEF Revises, Write, Logged
<1>10. ASSUME NEW p \in Tx, InsertRow(p) PROVE PendInv'
  BY <1>10, Facts DEF InsertRow, Logged
<1>11. ASSUME NEW p \in Tx, Commit(p) PROVE PendInv'
  <2>1. \A q \in Tx \ {p} : pc'[q] = pc[q] /\ work'[q] = work[q] /\ pend'[q] = pend[q]
    BY <1>11 DEF Commit
  <2>2. pc'[p] = "done" /\ pend'[p] = {} /\ UNCHANGED <<op, cur, todo>>
    BY <1>11 DEF Commit
  <2>3. \A q \in Tx \ {p}, r \in Row : work[q][r] # None => row'[r] = row[r]
    BY <1>11 DEF Commit
  <2>4. \A q \in Tx : \A e \in pend[q] : e.row \in Row
    BY DEF Entry
  <2>5. QED
    BY <2>1, <2>2, <2>3, <2>4
<1>12. ASSUME NEW p \in Tx, Fails(p) PROVE PendInv'
  BY <1>12, Facts DEF Fails, Rollback
<1>13. CASE UNCHANGED vars
  BY <1>13 DEF vars
<1>14. QED
  BY <1>1, <1>2, <1>3, <1>4, <1>5, <1>6, <1>7, <1>8, <1>9, <1>10, <1>11, <1>12,
     <1>13, Cases

(* What left the inbox does not come back. *)
LEMMA Decisions ==
  ASSUME TypeOK, OpInv, WorkInv, PlaceInv, [Next]_vars, NEW r \in Row,
         row[r].status \notin Undecided
  PROVE  row'[r].status \notin Undecided
<1>1. CASE \E p \in Tx : Commit(p)
  BY <1>1 DEF Commit, WorkInv
<1>2. CASE UNCHANGED row
  BY <1>2
<1>3. QED
  BY <1>1, <1>2, Cases
     DEF Begins, InvokeReview, InvokeAnswer, InvokeDecide, InvokeRemember, Invoke,
         FindDraft, FindMissing, FindDone, UpdateDraft, LogReview, UpsertAgent, ReadRow,
         Revises, Write, InsertRow, Fails, Rollback, store, vars

LEMMA StepLogInv ==
  ASSUME TypeOK, OpInv, WorkInv, PlaceInv, FreshInv, PendInv, LogInv, [Next]_vars
  PROVE  LogInv'
<1> USE DEF Goto, Free, store, locks, request, LogInv
<1>1. ASSUME NEW p \in Tx, Begins(p) PROVE LogInv'
  BY <1>1, Facts DEF Begins, InvokeReview, InvokeAnswer, InvokeDecide,
                     InvokeRemember, Invoke
<1>2. ASSUME NEW p \in Tx, FindDraft(p) PROVE LogInv'
  BY <1>2, Facts DEF FindDraft
<1>3. ASSUME NEW p \in Tx, FindMissing(p) PROVE LogInv'
  BY <1>3, Facts DEF FindMissing
<1>4. ASSUME NEW p \in Tx, FindDone(p) PROVE LogInv'
  BY <1>4, Facts DEF FindDone
<1>5. ASSUME NEW p \in Tx, UpdateDraft(p) PROVE LogInv'
  BY <1>5, Facts DEF UpdateDraft
<1>6. ASSUME NEW p \in Tx, LogReview(p) PROVE LogInv'
  BY <1>6, Facts DEF LogReview, EnsureAgent, Logged
<1>7. ASSUME NEW p \in Tx, UpsertAgent(p) PROVE LogInv'
  BY <1>7, Facts DEF UpsertAgent, EnsureAgent
<1>8. ASSUME NEW p \in Tx, ReadRow(p) PROVE LogInv'
  BY <1>8, Facts DEF ReadRow
<1>9. ASSUME NEW p \in Tx, Revises(p) PROVE LogInv'
  BY <1>9, Facts DEF Revises, Write, Logged
<1>10. ASSUME NEW p \in Tx, InsertRow(p) PROVE LogInv'
  BY <1>10, Facts DEF InsertRow, Logged
<1>11. ASSUME NEW p \in Tx, Commit(p) PROVE LogInv'
  <2>1. \A e \in log : Verdict(e) => row'[e.row].status \notin Undecided
    BY Decisions DEF TypeOK, Entry
  <2>2. \A e \in pend[p] : Verdict(e) => row'[e.row].status \notin Undecided
    BY <1>11 DEF Commit, PendInv, TypeOK, Entry
  <2>3. QED
    BY <1>11, <2>1, <2>2 DEF Commit, Verdict
<1>12. ASSUME NEW p \in Tx, Fails(p) PROVE LogInv'
  BY <1>12, Facts DEF Fails, Rollback
<1>13. CASE UNCHANGED vars
  BY <1>13 DEF vars
<1>14. QED
  BY <1>1, <1>2, <1>3, <1>4, <1>5, <1>6, <1>7, <1>8, <1>9, <1>10, <1>11, <1>12,
     <1>13, Cases

LEMMA StepOneVerdict ==
  ASSUME TypeOK, OpInv, WorkInv, PlaceInv, FreshInv, PendInv, LogInv, OneVerdict, [Next]_vars
  PROVE  OneVerdict'
<1> USE DEF Goto, Free, store, locks, request, OneVerdict
<1>1. ASSUME NEW p \in Tx, Begins(p) PROVE OneVerdict'
  BY <1>1, Facts DEF Begins, InvokeReview, InvokeAnswer, InvokeDecide,
                     InvokeRemember, Invoke
<1>2. ASSUME NEW p \in Tx, FindDraft(p) PROVE OneVerdict'
  BY <1>2, Facts DEF FindDraft
<1>3. ASSUME NEW p \in Tx, FindMissing(p) PROVE OneVerdict'
  BY <1>3, Facts DEF FindMissing
<1>4. ASSUME NEW p \in Tx, FindDone(p) PROVE OneVerdict'
  BY <1>4, Facts DEF FindDone
<1>5. ASSUME NEW p \in Tx, UpdateDraft(p) PROVE OneVerdict'
  BY <1>5, Facts DEF UpdateDraft
<1>6. ASSUME NEW p \in Tx, LogReview(p) PROVE OneVerdict'
  BY <1>6, Facts DEF LogReview, EnsureAgent, Logged
<1>7. ASSUME NEW p \in Tx, UpsertAgent(p) PROVE OneVerdict'
  BY <1>7, Facts DEF UpsertAgent, EnsureAgent
<1>8. ASSUME NEW p \in Tx, ReadRow(p) PROVE OneVerdict'
  BY <1>8, Facts DEF ReadRow
<1>9. ASSUME NEW p \in Tx, Revises(p) PROVE OneVerdict'
  BY <1>9, Facts DEF Revises, Write, Logged
<1>10. ASSUME NEW p \in Tx, InsertRow(p) PROVE OneVerdict'
  BY <1>10, Facts DEF InsertRow, Logged
<1>11. ASSUME NEW p \in Tx, Commit(p) PROVE OneVerdict'
  <2>1. \A e \in log, f \in pend[p] : Verdict(e) /\ Verdict(f) => e.row # f.row
    BY DEF LogInv, PendInv, Undecided
  <2>2. QED
    BY <1>11, <2>1 DEF Commit, PendInv, Verdict
<1>12. ASSUME NEW p \in Tx, Fails(p) PROVE OneVerdict'
  BY <1>12, Facts DEF Fails, Rollback
<1>13. CASE UNCHANGED vars
  BY <1>13 DEF vars
<1>14. QED
  BY <1>1, <1>2, <1>3, <1>4, <1>5, <1>6, <1>7, <1>8, <1>9, <1>10, <1>11, <1>12,
     <1>13, Cases

(* A step of p is nothing to what the others hold privately. *)
Steps(p) ==
  \/ Begins(p) \/ FindDraft(p) \/ FindMissing(p) \/ FindDone(p)
  \/ UpdateDraft(p) \/ LogReview(p) \/ UpsertAgent(p) \/ ReadRow(p)
  \/ Revises(p) \/ InsertRow(p) \/ Commit(p) \/ Fails(p)

LEMMA OthersKeep ==
  ASSUME TypeOK, NEW p \in Tx, Steps(p), NEW q \in Tx \ {p}
  PROVE  /\ pc'[q] = pc[q] /\ op'[q] = op[q] /\ cur'[q] = cur[q] /\ snap'[q] = snap[q]
         /\ todo'[q] = todo[q] /\ ids'[q] = ids[q] /\ work'[q] = work[q]
         /\ pend'[q] = pend[q] /\ missing'[q] = missing[q] /\ outcome'[q] = outcome[q]
         /\ want'[q] = want[q]
<1> USE DEF TypeOK, Goto, store, locks, request
<1>1. CASE Begins(p)
  BY <1>1 DEF Begins, InvokeReview, InvokeAnswer, InvokeDecide, InvokeRemember, Invoke
<1>2. CASE FindDraft(p)
  BY <1>2 DEF FindDraft
<1>3. CASE FindMissing(p)
  BY <1>3 DEF FindMissing
<1>4. CASE FindDone(p)
  BY <1>4 DEF FindDone
<1>5. CASE UpdateDraft(p)
  BY <1>5 DEF UpdateDraft
<1>6. CASE LogReview(p)
  BY <1>6 DEF LogReview, EnsureAgent, Logged
<1>7. CASE UpsertAgent(p)
  BY <1>7 DEF UpsertAgent, EnsureAgent
<1>8. CASE ReadRow(p)
  BY <1>8 DEF ReadRow
<1>9. CASE Revises(p)
  BY <1>9 DEF Revises, Write, Logged
<1>10. CASE InsertRow(p)
  BY <1>10 DEF InsertRow, Logged
<1>11. CASE Commit(p)
  BY <1>11 DEF Commit
<1>12. CASE Fails(p)
  BY <1>12 DEF Fails, Rollback
<1>13. QED
  BY <1>1, <1>2, <1>3, <1>4, <1>5, <1>6, <1>7, <1>8, <1>9, <1>10, <1>11, <1>12 DEF Steps

LEMMA LogGrows ==
  ASSUME NEW p \in Tx, Steps(p)
  PROVE  log' = log \/ (Commit(p) /\ log' = log \cup pend[p])
  BY DEF Steps, store, Begins, InvokeReview, InvokeAnswer, InvokeDecide,
         InvokeRemember, Invoke, FindDraft, FindMissing, FindDone, UpdateDraft,
         LogReview, EnsureAgent, Logged, UpsertAgent, EnsureAgent, ReadRow, Revises,
         Write, Logged, InsertRow, Logged, Commit, Fails, Rollback

LEMMA LoggedFacts ==
  ASSUME TypeOK, NEW p \in Tx, NEW prev, NEW next, Logged(p, prev, next)
  PROVE  pend[p] \subseteq pend'[p] /\ \E e \in pend'[p] : e.row = cur[p]
<1> DEFINE e == [tx |-> p, row |-> cur[p], act |-> op[p], prev |-> prev, next |-> next]
<1>1. pend'[p] = pend[p] \cup {e}
  BY DEF Logged, TypeOK
<1>2. e.row = cur[p]
  OBVIOUS
<1>3. QED
  BY <1>1, <1>2

(* The ways in which a step changes what p has read and written. *)
Attests(p) == \A r \in Row : Attesting(p, r) => Attesting(p, r)'

LEMMA SourceKept ==
  ASSUME NEW p \in Tx, SourceOf(p), Attests(p), log' = log,
         snap'[p] = snap[p], cur'[p] = cur[p], work'[p] = work[p]
  PROVE  SourceOf(p)'
BY DEF SourceOf, Attests, Attested, Writers

LEMMA SourceRead ==
  ASSUME NEW p \in Tx, SourceOf(p), Attests(p), log' = log,
         NEW m, NEW s, snap'[p] = m, cur'[p] = s, work'[p] = work[p],
         \A q \in Writers(m) : Attested(q, s)
  PROVE  SourceOf(p)'
BY DEF SourceOf, Attests, Attested, Writers

LEMMA SourceWritten ==
  ASSUME TypeOK, NEW p \in Tx, SourceOf(p), Attests(p), log' = log,
         NEW m, cur[p] \in Row, work' = [work EXCEPT ![p][cur[p]] = m],
         snap'[p] = snap[p], cur'[p] = cur[p], Attesting(p, cur[p])',
         \A q \in Writers(m) : Attested(q, cur[p]) \/ q = p
  PROVE  SourceOf(p)'
<1>1. snap'[p] # None => (\A q \in Writers(snap[p]) : Attested(q, cur[p]))'
  BY DEF SourceOf, Attested, Writers
<1>2. ASSUME NEW r \in Row, work'[p][r] # None, NEW q \in Writers(work'[p][r])
      PROVE  Attested(q, r) \/ (q = p /\ Attesting(p, r)')
  <2>1. CASE r = cur[p]
    BY <1>2, <2>1 DEF TypeOK
  <2>2. CASE r # cur[p]
    BY <1>2, <2>2 DEF TypeOK, SourceOf, Attests
  <2>3. QED
    BY <2>1, <2>2
<1>3. QED
  BY <1>1, <1>2 DEF SourceOf, Attested, Writers

LEMMA StepSourceInv ==
  ASSUME TypeOK, OpInv, PlaceInv, PendInv, SourceInv, Explained, [Next]_vars
  PROVE  SourceInv'
<1> USE DEF Goto, Free, store, locks, request
<1>1. ASSUME NEW p \in Tx, Begins(p) PROVE SourceOf(p)'
  BY <1>1 DEF Begins, InvokeReview, InvokeAnswer, InvokeDecide, InvokeRemember,
              Invoke, SourceInv, SourceOf, Attested, Attesting, Writers, TypeOK, OpInv
<1>2. ASSUME NEW p \in Tx, FindDraft(p) PROVE SourceOf(p)'
  <2>1. PICK r \in todo[p] : /\ cur' = [cur EXCEPT ![p] = r]
                             /\ snap' = [snap EXCEPT ![p] = row[r]]
                             /\ pc[p] = "find" /\ pc' = [pc EXCEPT ![p] = "update"]
                             /\ UNCHANGED <<log, work, pend>>
    BY <1>2 DEF FindDraft
  <2>2. \A q \in Writers(row[r]) : Attested(q, r)
    BY <2>1 DEF Explained, Writers, Attested, TypeOK
  <2>3. SourceOf(p) /\ Attests(p) /\ snap'[p] = row[r] /\ cur'[p] = r
    BY <2>1 DEF SourceInv, Attests, Attesting, TypeOK
  <2>4. QED
    BY <2>1, <2>2, <2>3, SourceRead
<1>3. ASSUME NEW p \in Tx, FindMissing(p) PROVE SourceOf(p)'
  <2>1. /\ SourceOf(p) /\ Attests(p) /\ UNCHANGED log
        /\ snap'[p] = snap[p] /\ cur'[p] = cur[p] /\ work'[p] = work[p]
    BY <1>3 DEF FindMissing, SourceInv, Attests, Attesting, TypeOK
  <2>2. QED
    BY <2>1, SourceKept
<1>4. ASSUME NEW p \in Tx, FindDone(p) PROVE SourceOf(p)'
  <2>1. /\ SourceOf(p) /\ Attests(p) /\ UNCHANGED log
        /\ snap'[p] = snap[p] /\ cur'[p] = cur[p] /\ work'[p] = work[p]
    BY <1>4 DEF FindDone, SourceInv, Attests, Attesting, TypeOK
  <2>2. QED
    BY <2>1, SourceKept
<1>5. ASSUME NEW p \in Tx, UpdateDraft(p) PROVE SourceOf(p)'
  <2> DEFINE new == [row[cur[p]] EXCEPT !.status = want[p], !.notes = snap[p].notes,
                                      !.review = p]
  <2>1. /\ pc[p] = "update" /\ pc' = [pc EXCEPT ![p] = "upsertReview"]
        /\ work' = [work EXCEPT ![p][cur[p]] = new]
        /\ UNCHANGED <<log, cur, snap, pend>>
    BY <1>5 DEF UpdateDraft
  <2>2. cur[p] \in Row /\ snap[p] \in Memory
    BY <2>1 DEF OpInv, TypeOK
  <2>3. row[cur[p]] \in Memory
    BY <2>2 DEF TypeOK
  <2>4. Writers(new) \subseteq {p} \cup Writers(row[cur[p]]) \cup Writers(snap[p])
    BY <2>3 DEF Writers, Memory
  <2>5. \A q \in Writers(new) : Attested(q, cur[p]) \/ q = p
    BY <2>2, <2>4, Facts DEF Explained, Writers, Attested, SourceInv, SourceOf
  <2>6. SourceOf(p) /\ Attests(p) /\ Attesting(p, cur[p])'
    BY <2>1 DEF SourceInv, Attests, Attesting, TypeOK
  <2>7. QED
    BY <2>1, <2>2, <2>5, <2>6, SourceWritten
<1>6. ASSUME NEW p \in Tx, LogReview(p) PROVE SourceOf(p)'
  <2>1. SourceOf(p) /\ UNCHANGED <<log, cur, snap, work>>
    BY <1>6 DEF LogReview, EnsureAgent, SourceInv
  <2>2. pend[p] \subseteq pend'[p] /\ \E e \in pend'[p] : e.row = cur[p]
    BY <1>6, LoggedFacts DEF LogReview
  <2>3. Attests(p)
    BY <2>1, <2>2 DEF Attests, Attesting
  <2>4. QED
    BY <2>1, <2>3, SourceKept
<1>7. ASSUME NEW p \in Tx, UpsertAgent(p) PROVE SourceOf(p)'
  <2>1. /\ SourceOf(p) /\ Attests(p) /\ UNCHANGED log
        /\ snap'[p] = snap[p] /\ cur'[p] = cur[p] /\ work'[p] = work[p]
    BY <1>7 DEF UpsertAgent, EnsureAgent, SourceInv, Attests, Attesting, TypeOK
  <2>2. QED
    BY <2>1, SourceKept
<1>8. ASSUME NEW p \in Tx, ReadRow(p) PROVE SourceOf(p)'
  <2>1. /\ pc[p] = "read" /\ pc' = [pc EXCEPT ![p] = "write"]
        /\ snap' = [snap EXCEPT ![p] = row[cur[p]]]
        /\ UNCHANGED <<log, cur, work, pend>>
    BY <1>8 DEF ReadRow
  <2>2. cur[p] \in Row
    BY <2>1 DEF OpInv
  <2>3. \A q \in Writers(row[cur[p]]) : Attested(q, cur[p])
    BY <2>2 DEF Explained, Writers, Attested
  <2>4. SourceOf(p) /\ Attests(p) /\ snap'[p] = row[cur[p]]
    BY <2>1 DEF SourceInv, Attests, Attesting, TypeOK
  <2>5. QED
    BY <2>1, <2>3, <2>4, SourceRead
<1>9. ASSUME NEW p \in Tx, Revises(p) PROVE SourceOf(p)'
  <2>1. PICK new \in Memory :
          /\ Write(p, new)
          /\ Writers(new) \subseteq {p} \cup Writers(row[cur[p]]) \cup Writers(snap[p])
    BY <1>9 DEF Revises
  <2>2. cur[p] \in Row /\ snap[p] # None /\ pc[p] = "write"
    BY <2>1 DEF Write, OpInv
  <2>3. \A q \in Writers(new) : Attested(q, cur[p]) \/ q = p
    BY <2>1, <2>2 DEF Explained, Writers, Attested, SourceInv, SourceOf
  <2>4. pend[p] \subseteq pend'[p] /\ \E e \in pend'[p] : e.row = cur[p]
    BY <2>1, LoggedFacts DEF Write
  <2>5. work' = [work EXCEPT ![p][cur[p]] = new] /\ UNCHANGED <<log, cur, snap>>
    BY <2>1 DEF Write
  <2>6. SourceOf(p) /\ Attests(p) /\ Attesting(p, cur[p])'
    BY <2>2, <2>4, <2>5 DEF SourceInv, Attests, Attesting
  <2>7. QED
    BY <2>2, <2>3, <2>5, <2>6, SourceWritten
<1>10. ASSUME NEW p \in Tx, InsertRow(p) PROVE SourceOf(p)'
  <2> DEFINE new == [Blank(want[p]) EXCEPT !.text = p]
  <2>1. /\ cur[p] \in Row /\ work' = [work EXCEPT ![p][cur[p]] = new]
        /\ UNCHANGED <<log, cur, snap>> /\ pc[p] = "insert"
    BY <1>10 DEF InsertRow, OpInv
  <2>2. pend[p] \subseteq pend'[p] /\ \E e \in pend'[p] : e.row = cur[p]
    BY <1>10, LoggedFacts DEF InsertRow
  <2>3. \A q \in Writers(new) : q = p
    BY MemoryAssumption DEF Writers, Blank
  <2>4. SourceOf(p) /\ Attests(p) /\ Attesting(p, cur[p])'
    BY <2>1, <2>2 DEF SourceInv, Attests, Attesting
  <2>5. QED
    BY <2>1, <2>3, <2>4, SourceWritten
<1>11. ASSUME NEW p \in Tx, Commit(p) PROVE SourceOf(p)'
  BY <1>11 DEF Commit, SourceInv, SourceOf, Attested, Attesting, Writers, TypeOK, OpInv
<1>12. ASSUME NEW p \in Tx, Fails(p) PROVE SourceOf(p)'
  BY <1>12 DEF Fails, Rollback, SourceInv, SourceOf, Attested, Attesting, Writers,
               TypeOK, OpInv
<1>13. ASSUME NEW p \in Tx, Steps(p), NEW q \in Tx \ {p} PROVE SourceOf(q)'
  BY <1>13, OthersKeep, LogGrows DEF SourceInv, SourceOf, Attested, Attesting, Writers
<1>14. CASE UNCHANGED vars
  BY <1>14 DEF vars, SourceInv, SourceOf, Attested, Attesting, Writers
<1>15. QED
  BY <1>1, <1>2, <1>3, <1>4, <1>5, <1>6, <1>7, <1>8, <1>9, <1>10, <1>11, <1>12,
     <1>13, <1>14, Cases DEF Steps, SourceInv

LEMMA StepExplained ==
  ASSUME TypeOK, OpInv, PlaceInv, PendInv, SourceInv, Explained, [Next]_vars
  PROVE  Explained'
<1>1. ASSUME NEW p \in Tx, Commit(p) PROVE Explained'
  <2>1. /\ row' = [r \in Row |-> IF work[p][r] # None THEN work[p][r] ELSE row[r]]
        /\ log' = log \cup pend[p] /\ pc[p] = "commit"
    BY <1>1 DEF Commit, Goto
  <2>2. ASSUME NEW r \in Row, NEW q \in Tx,
               q \in row'[r].notes \cup {row'[r].review, row'[r].text}
        PROVE  \E e \in log' : e.tx = q /\ e.row = r
    <3>1. CASE work[p][r] = None
      BY <2>1, <2>2, <3>1 DEF Explained
    <3>2. CASE work[p][r] # None
      <4>1. q \in Writers(work[p][r])
        BY <2>1, <2>2, <3>2 DEF Writers
      <4>2. Attested(q, r) \/ (q = p /\ \E e \in pend[p] : e.row = r)
        BY <2>1, <3>2, <4>1 DEF SourceInv, SourceOf, Attesting
      <4>3. QED
        BY <2>1, <4>2 DEF Attested, PendInv
    <3>3. QED
      BY <3>1, <3>2
  <2>3. QED
    BY <2>2 DEF Explained
<1>2. CASE UNCHANGED store
  BY <1>2 DEF Explained, store
<1>3. ASSUME NEW p \in Tx, Steps(p), ~Commit(p) PROVE UNCHANGED store
  BY <1>3 DEF Steps, store, Begins, InvokeReview, InvokeAnswer, InvokeDecide,
              InvokeRemember, Invoke, FindDraft, FindMissing, FindDone, UpdateDraft,
              LogReview, EnsureAgent, Logged, UpsertAgent, EnsureAgent, ReadRow,
              Revises, Write, Logged, InsertRow, Logged, Fails, Rollback
<1>4. QED
  BY <1>1, <1>2, <1>3, Cases DEF Steps, vars

LEMMA StepBatchInv ==
  ASSUME TypeOK, OpInv, PlaceInv, BatchInv, [Next]_vars PROVE BatchInv'
<1> USE DEF Goto, Free, store, locks, request
<1>1. ASSUME NEW p \in Tx, Begins(p) PROVE BatchOf(p)'
  BY <1>1 DEF Begins, InvokeReview, InvokeAnswer, InvokeDecide, InvokeRemember,
              Invoke, BatchInv, BatchOf, Attesting, Reviewing, TypeOK, OpInv
<1>2. ASSUME NEW p \in Tx, FindDraft(p) PROVE BatchOf(p)'
  <2>1. PICK r \in todo[p] : /\ cur' = [cur EXCEPT ![p] = r]
                             /\ todo' = [todo EXCEPT ![p] = @ \ {r}]
                             /\ pc[p] = "find" /\ pc' = [pc EXCEPT ![p] = "update"]
                             /\ UNCHANGED <<op, ids, missing, pend>>
    BY <1>2 DEF FindDraft
  <2>2. BatchOf(p)
    BY DEF BatchInv
  <2>3. QED
    BY <2>1, <2>2 DEF BatchOf, Attesting, Reviewing, TypeOK
<1>3. ASSUME NEW p \in Tx, FindMissing(p) PROVE BatchOf(p)'
  <2>1. PICK r \in todo[p] : /\ missing' = [missing EXCEPT ![p] = @ \cup {r}]
                             /\ todo' = [todo EXCEPT ![p] = @ \ {r}]
                             /\ pc[p] = "find" /\ UNCHANGED <<pc, cur, op, ids, pend>>
    BY <1>3 DEF FindMissing
  <2>2. BatchOf(p)
    BY DEF BatchInv
  <2>3. QED
    BY <2>1, <2>2 DEF BatchOf, Attesting, Reviewing, TypeOK
<1>4. ASSUME NEW p \in Tx, FindDone(p) PROVE BatchOf(p)'
  BY <1>4 DEF FindDone, BatchInv, BatchOf, Attesting, Reviewing, TypeOK, OpInv
<1>5. ASSUME NEW p \in Tx, UpdateDraft(p) PROVE BatchOf(p)'
  BY <1>5 DEF UpdateDraft, BatchInv, BatchOf, Attesting, Reviewing, TypeOK, OpInv
<1>6. ASSUME NEW p \in Tx, LogReview(p) PROVE BatchOf(p)'
  <2>1. pend[p] \subseteq pend'[p] /\ \E e \in pend'[p] : e.row = cur[p]
    BY <1>6, LoggedFacts DEF LogReview
  <2>2. /\ pc[p] = "upsertReview" /\ pc'[p] = "find"
        /\ UNCHANGED <<cur, op, ids, missing, todo>>
    BY <1>6 DEF LogReview, EnsureAgent, TypeOK
  <2>3. BatchOf(p)
    BY DEF BatchInv
  <2>4. QED
    BY <2>1, <2>2, <2>3 DEF BatchOf, Attesting, Reviewing
<1>7. ASSUME NEW p \in Tx, UpsertAgent(p) PROVE BatchOf(p)'
  BY <1>7 DEF UpsertAgent, EnsureAgent, BatchInv, BatchOf, Attesting, Reviewing,
              TypeOK, OpInv
<1>8. ASSUME NEW p \in Tx, ReadRow(p) PROVE BatchOf(p)'
  BY <1>8 DEF ReadRow, BatchInv, BatchOf, Attesting, Reviewing, TypeOK, OpInv
<1>9. ASSUME NEW p \in Tx, Revises(p) PROVE BatchOf(p)'
  BY <1>9 DEF Revises, Write, Logged, BatchInv, BatchOf, Attesting, Reviewing,
              TypeOK, OpInv
<1>10. ASSUME NEW p \in Tx, InsertRow(p) PROVE BatchOf(p)'
  BY <1>10 DEF InsertRow, Logged, BatchInv, BatchOf, Attesting, Reviewing, TypeOK, OpInv
<1>11. ASSUME NEW p \in Tx, Commit(p) PROVE BatchOf(p)'
  BY <1>11 DEF Commit, BatchInv, BatchOf, Attesting, Reviewing, TypeOK, OpInv
<1>12. ASSUME NEW p \in Tx, Fails(p) PROVE BatchOf(p)'
  BY <1>12 DEF Fails, Rollback, BatchInv, BatchOf, Attesting, Reviewing, TypeOK, OpInv
<1>13. ASSUME NEW p \in Tx, Steps(p), NEW q \in Tx \ {p} PROVE BatchOf(q)'
  BY <1>13, OthersKeep, LogGrows DEF BatchInv, BatchOf, Attesting, Reviewing
<1>14. CASE UNCHANGED vars
  BY <1>14 DEF vars, BatchInv, BatchOf, Attesting, Reviewing
<1>15. QED
  BY <1>1, <1>2, <1>3, <1>4, <1>5, <1>6, <1>7, <1>8, <1>9, <1>10, <1>11, <1>12,
     <1>13, <1>14, Cases DEF Steps, BatchInv

LEMMA EffectKept ==
  ASSUME NEW p \in Tx, EffectOf(p), Attests(p), op'[p] = op[p], want'[p] = want[p],
         cur'[p] = cur[p] \/ Reviewing(p), work'[p] = work[p], pc[p] # "commit"
  PROVE  EffectOf(p)'
BY DEF EffectOf, Attests, Reviewing

LEMMA EffectWritten ==
  ASSUME TypeOK, NEW p \in Tx, EffectOf(p), op'[p] = op[p], want'[p] = want[p],
         NEW m, cur[p] \in Row, work' = [work EXCEPT ![p][cur[p]] = m],
         cur'[p] = cur[p], pc[p] # "commit",
         IF Reviewing(p) THEN m.status = want[p] /\ Attests(p) /\ Attesting(p, cur[p])'
                         ELSE pc'[p] = "commit"
  PROVE  EffectOf(p)'
<1>1. ASSUME NEW r \in Row, work'[p][r] # None
      PROVE  /\ Reviewing(p) => work'[p][r].status = want[p] /\ Attesting(p, r)'
             /\ ~Reviewing(p) => r = cur[p] /\ pc'[p] = "commit"
  <2>1. CASE r = cur[p]
    BY <1>1, <2>1 DEF TypeOK
  <2>2. CASE r # cur[p]
    BY <1>1, <2>2 DEF TypeOK, EffectOf, Attests
  <2>3. QED
    BY <2>1, <2>2
<1>2. QED
  BY <1>1 DEF EffectOf, Reviewing

LEMMA StepEffectInv ==
  ASSUME TypeOK, OpInv, PlaceInv, EffectInv, [Next]_vars PROVE EffectInv'
<1> USE DEF Goto, Free, store, locks, request
<1>1. ASSUME NEW p \in Tx, Begins(p) PROVE EffectOf(p)'
  <2>1. pc[p] = "new" /\ UNCHANGED work
    BY <1>1 DEF Begins, InvokeReview, InvokeAnswer, InvokeDecide, InvokeRemember, Invoke
  <2>2. EffectOf(p) /\ op[p] = "none"
    BY <2>1 DEF EffectInv, OpInv
  <2>3. \A r \in Row : work[p][r] = None
    BY <2>1, <2>2 DEF EffectOf, Reviewing
  <2> QED
    BY <2>1, <2>3 DEF EffectOf
<1>2. ASSUME NEW p \in Tx, FindDraft(p) PROVE EffectOf(p)'
  <2>1. /\ Attests(p) /\ UNCHANGED <<op, want, work>> /\ pc[p] = "find"
    BY <1>2 DEF FindDraft, Attests, Attesting, TypeOK
  <2>2. EffectOf(p) /\ Reviewing(p)
    BY <2>1 DEF EffectInv, OpInv
  <2>3. QED
    BY <2>1, <2>2, EffectKept
<1>3. ASSUME NEW p \in Tx, FindMissing(p) PROVE EffectOf(p)'
  BY <1>3 DEF FindMissing, EffectInv, EffectOf, Attesting, Reviewing, TypeOK, OpInv
<1>4. ASSUME NEW p \in Tx, FindDone(p) PROVE EffectOf(p)'
  BY <1>4 DEF FindDone, EffectInv, EffectOf, Attesting, Reviewing, TypeOK, OpInv
<1>5. ASSUME NEW p \in Tx, UpdateDraft(p) PROVE EffectOf(p)'
  <2> DEFINE new == [row[cur[p]] EXCEPT !.status = want[p], !.notes = snap[p].notes,
                                      !.review = p]
  <2>1. /\ pc[p] = "update" /\ pc' = [pc EXCEPT ![p] = "upsertReview"]
        /\ work' = [work EXCEPT ![p][cur[p]] = new]
        /\ UNCHANGED <<op, want, cur, pend>>
    BY <1>5 DEF UpdateDraft
  <2>2. EffectOf(p) /\ Reviewing(p) /\ cur[p] \in Row
    BY <2>1 DEF EffectInv, OpInv
  <2>3. row[cur[p]] \in Memory
    BY <2>2 DEF TypeOK
  <2>4. new.status = want[p]
    BY <2>3 DEF Memory
  <2>5. Attests(p) /\ Attesting(p, cur[p])'
    BY <2>1 DEF Attests, Attesting, TypeOK
  <2>6. QED
    BY <2>1, <2>2, <2>4, <2>5, EffectWritten
<1>6. ASSUME NEW p \in Tx, LogReview(p) PROVE EffectOf(p)'
  <2>1. UNCHANGED <<op, want, cur, work>> /\ pc[p] = "upsertReview"
    BY <1>6 DEF LogReview, EnsureAgent
  <2>2. pend[p] \subseteq pend'[p] /\ \E e \in pend'[p] : e.row = cur[p]
    BY <1>6, LoggedFacts DEF LogReview
  <2>3. EffectOf(p) /\ Attests(p)
    BY <2>1, <2>2 DEF EffectInv, Attests, Attesting
  <2>4. QED
    BY <2>1, <2>3, EffectKept
<1>7. ASSUME NEW p \in Tx, UpsertAgent(p) PROVE EffectOf(p)'
  BY <1>7 DEF UpsertAgent, EnsureAgent, EffectInv, EffectOf, Attesting, Reviewing,
              TypeOK, OpInv
<1>8. ASSUME NEW p \in Tx, ReadRow(p) PROVE EffectOf(p)'
  BY <1>8 DEF ReadRow, EffectInv, EffectOf, Attesting, Reviewing, TypeOK, OpInv
<1>9. ASSUME NEW p \in Tx, Revises(p) PROVE EffectOf(p)'
  <2>1. PICK new \in Memory : Write(p, new)
    BY <1>9 DEF Revises
  <2>2. /\ work' = [work EXCEPT ![p][cur[p]] = new] /\ UNCHANGED <<op, want, cur>>
        /\ pc[p] = "write" /\ pc'[p] = "commit"
    BY <2>1 DEF Write, TypeOK
  <2>3. EffectOf(p) /\ cur[p] \in Row /\ ~Reviewing(p)
    BY <2>2 DEF EffectInv, OpInv, Reviewing
  <2>4. QED
    BY <2>2, <2>3, EffectWritten
<1>10. ASSUME NEW p \in Tx, InsertRow(p) PROVE EffectOf(p)'
  <2> DEFINE new == [Blank(want[p]) EXCEPT !.text = p]
  <2>1. /\ work' = [work EXCEPT ![p][cur[p]] = new] /\ UNCHANGED <<op, want, cur>>
        /\ pc[p] = "insert" /\ pc'[p] = "commit"
    BY <1>10 DEF InsertRow, TypeOK
  <2>2. EffectOf(p) /\ cur[p] \in Row /\ ~Reviewing(p)
    BY <2>1 DEF EffectInv, OpInv, Reviewing
  <2>3. QED
    BY <2>1, <2>2, EffectWritten
<1>11. ASSUME NEW p \in Tx, Commit(p) PROVE EffectOf(p)'
  BY <1>11 DEF Commit, EffectInv, EffectOf, Attesting, Reviewing, TypeOK, OpInv
<1>12. ASSUME NEW p \in Tx, Fails(p) PROVE EffectOf(p)'
  BY <1>12 DEF Fails, Rollback, EffectInv, EffectOf, Attesting, Reviewing, TypeOK, OpInv
<1>13. ASSUME NEW p \in Tx, Steps(p), NEW q \in Tx \ {p} PROVE EffectOf(q)'
  BY <1>13, OthersKeep, LogGrows DEF EffectInv, EffectOf, Attesting, Reviewing
<1>14. CASE UNCHANGED vars
  BY <1>14 DEF vars, EffectInv, EffectOf, Attesting, Reviewing
<1>15. QED
  BY <1>1, <1>2, <1>3, <1>4, <1>5, <1>6, <1>7, <1>8, <1>9, <1>10, <1>11, <1>12,
     <1>13, <1>14, Cases DEF Steps, EffectInv

LEMMA StepEndInv ==
  ASSUME TypeOK, OpInv, PlaceInv, PendInv, EndInv, [Next]_vars PROVE EndInv'
<1>1. ASSUME NEW p \in Tx, Steps(p) PROVE EndInv'
  <2>1. pc[p] # "done"
    BY <1>1 DEF Goto, Steps, Begins, InvokeReview, InvokeAnswer, InvokeDecide,
                InvokeRemember, Invoke, FindDraft, FindMissing, FindDone,
                UpdateDraft, LogReview, EnsureAgent, Logged, UpsertAgent,
                EnsureAgent, ReadRow, Revises, Write, Logged, InsertRow, Logged,
                Commit, Fails, Rollback
  <2>2. pc'[p] # "done" => outcome'[p] = "none"
    BY <1>1, <2>1 DEF TypeOK, EndInv, Goto, Steps, Begins, InvokeReview,
                      InvokeAnswer, InvokeDecide, InvokeRemember, Invoke, FindDraft,
                      FindMissing, FindDone, UpdateDraft, LogReview, EnsureAgent,
                      Logged, UpsertAgent, EnsureAgent, ReadRow, Revises, Write,
                      Logged, InsertRow, Logged, Commit, Fails, Rollback
  <2>3. Commit(p) => pc'[p] = "done"
    BY <1>1 DEF TypeOK, Commit, Goto
  <2>4. \A e \in log' : e \in log \/ (Commit(p) /\ e.tx = p)
    BY <1>1, LogGrows DEF PendInv
  <2>5. \A e \in log : e.tx \in Tx \ {p}
    BY <2>1 DEF EndInv, TypeOK, Entry
  <2>6. QED
    BY <1>1, <2>2, <2>3, <2>4, <2>5, OthersKeep DEF EndInv
<1>2. CASE UNCHANGED vars
  BY <1>2 DEF vars, store, EndInv
<1>3. QED
  BY <1>1, <1>2, Cases DEF Steps

LEMMA StepReportedReviews ==
  ASSUME TypeOK, OpInv, PlaceInv, PendInv, BatchInv, EndInv, ReportedReviews,
         [Next]_vars
  PROVE  ReportedReviews'
<1>1. ASSUME NEW p \in Tx, Steps(p), NEW q \in Tx \ {p} PROVE Reported(q)'
  <2>1. \A r \in Row : Decided(q, r) => Decided(q, r)'
    BY <1>1, LogGrows DEF Decided
  <2>2. \A r \in Row : Decided(q, r)' => Decided(q, r)
    BY <1>1, LogGrows DEF Decided, PendInv
  <2>3. ids[q] \subseteq Row
    BY DEF TypeOK
  <2>4. QED
    BY <1>1, <2>1, <2>2, <2>3, OthersKeep DEF ReportedReviews, Reported
<1>2. ASSUME NEW p \in Tx, Commit(p) PROVE Reported(p)'
  <2>1. /\ pc[p] = "commit" /\ log' = log \cup pend[p] /\ UNCHANGED <<op, ids, missing>>
        /\ outcome'[p] \in {IF missing[p] = {} THEN "ok" ELSE "missing", "failed"}
    BY <1>2 DEF Commit, Goto, request, TypeOK
  <2>2. ASSUME Reviewing(p), NEW r \in ids[p] \ missing[p] PROVE Decided(p, r)'
    <3>1. \E e \in pend[p] : e.row = r
      BY <2>1, <2>2 DEF BatchInv, BatchOf, Attesting
    <3>2. QED
      BY <2>1, <3>1 DEF PendInv, Decided
  <2>3. QED
    BY <2>1, <2>2 DEF Reported, Reviewing
<1>3. ASSUME NEW p \in Tx, Fails(p) PROVE Reported(p)'
  <2>1. pc[p] # "done" /\ outcome'[p] = "failed" /\ UNCHANGED log
    BY <1>3 DEF Fails, Rollback, store, TypeOK
  <2>2. \A r \in ids'[p] : ~Decided(p, r)'
    BY <2>1 DEF Decided, EndInv
  <2>3. QED
    BY <2>1, <2>2 DEF Reported
<1>4. ASSUME NEW p \in Tx, Steps(p), ~Commit(p), ~Fails(p) PROVE Reported(p)'
  <2>1. pc[p] # "done" /\ UNCHANGED outcome
    BY <1>4 DEF Goto, Steps, Begins, InvokeReview, InvokeAnswer, InvokeDecide,
                InvokeRemember, Invoke, FindDraft, FindMissing, FindDone,
                UpdateDraft, LogReview, EnsureAgent, Logged, UpsertAgent,
                EnsureAgent, ReadRow, Revises, Write, Logged, InsertRow, Logged
  <2>2. QED
    BY <2>1 DEF EndInv, Reported
<1>5. CASE UNCHANGED vars
  BY <1>5 DEF vars, store, request, ReportedReviews, Reported, Decided
<1>6. QED
  BY <1>1, <1>2, <1>3, <1>4, <1>5, Cases DEF Steps, ReportedReviews

-----------------------------------------------------------------------------
LEMMA StepIInv == IInv /\ [Next]_vars => IInv'
<1> SUFFICES ASSUME IInv, [Next]_vars PROVE IInv'
  OBVIOUS
<1>1. /\ TypeOK /\ OpInv /\ WorkInv /\ PlaceInv /\ FreshInv /\ PendInv /\ LogInv
      /\ SourceInv /\ BatchInv /\ EffectInv /\ EndInv
      /\ OneVerdict /\ Explained /\ ReportedReviews
  BY DEF IInv
<1>2. TypeOK' /\ OpInv' /\ WorkInv' /\ PlaceInv' /\ FreshInv'
  BY <1>1, StepTypeOK, StepOpInv, StepWorkInv, StepPlaceInv, StepFreshInv
<1>3. PendInv' /\ LogInv' /\ OneVerdict'
  BY <1>1, StepPendInv, StepLogInv, StepOneVerdict
<1>4. SourceInv' /\ Explained'
  BY <1>1, StepSourceInv, StepExplained
<1>5. BatchInv' /\ EffectInv' /\ EndInv' /\ ReportedReviews'
  BY <1>1, StepBatchInv, StepEffectInv, StepEndInv, StepReportedReviews
<1>6. QED
  BY <1>2, <1>3, <1>4, <1>5 DEF IInv

(* The inductive invariant holds in every behaviour. *)
THEOREM InvariantHolds == Spec => []IInv
<1>1. QED
  BY InitIInv, StepIInv, PTL DEF Spec

(* The variables keep their types, whatever overlaps. *)
THEOREM TypeCorrect == Spec => []TypeOK
<1>1. IInv => TypeOK
  BY DEF IInv
<1>2. QED
  BY <1>1, InvariantHolds, PTL

(* A draft gets at most one verdict, for any number of reviewers that race *)
(* for it and any batches they come in.                                    *)
THEOREM VerdictsAreUnique == Spec => []OneVerdict
<1>1. IInv => OneVerdict
  BY DEF IInv
<1>2. QED
  BY <1>1, InvariantHolds, PTL

(* No writer that read a row as a draft makes it one again after another   *)
(* has taken it out of the inbox.                                          *)
THEOREM DraftsLeaveForGood == Spec => NeverDraftAgain
<1>1. IInv /\ [Next]_vars =>
        [\A r \in Row : row[r].status \notin {"absent", "draft"} =>
           row'[r].status \notin {"absent", "draft"}]_vars
  BY Decisions DEF IInv, Undecided
<1>2. QED
  BY <1>1, InvariantHolds, PTL DEF Spec, NeverDraftAgain

(* No committed change is without its agent action, whichever statement of *)
(* a transaction fails and wherever it is killed.                          *)
THEOREM ChangesAreExplained == Spec => []Explained
<1>1. IInv => Explained
  BY DEF IInv
<1>2. QED
  BY <1>1, InvariantHolds, PTL

(* Whatever a review was told, it has decided all the ids it found among   *)
(* the drafts or none of them; after an error it may be either, since the  *)
(* answer to its COMMIT may be what was lost.                              *)
THEOREM ReportsAreTrue == Spec => []ReportedReviews
<1>1. IInv => ReportedReviews
  BY DEF IInv
<1>2. QED
  BY <1>1, InvariantHolds, PTL

-----------------------------------------------------------------------------
(***************************************************************************)
(* The transactions implement the ledger.                                  *)
(***************************************************************************)
LEMMA LedgerInit == ASSUME Init PROVE Ledger!Init
<1>1. \A r \in Row : row[r].status \in {"absent", "draft"}
  BY DEF Init, Blank
<1>2. \A r \in Row : Decider(r) = None
  BY DEF Init, Decider, VerdictOf
<1>3. QED
  BY <1>1, <1>2 DEF Ledger!Init, Ledger!Undecided

LEMMA CommitReview ==
  ASSUME IInv, NEW p \in Tx, Commit(p), Reviewing(p)
  PROVE  \E S \in SUBSET Row : Ledger!Decide(p, S)
<1>1. /\ TypeOK /\ OpInv /\ WorkInv /\ PendInv /\ LogInv /\ EffectInv
  BY DEF IInv
<1>2. /\ row' = [r \in Row |-> IF work[p][r] # None THEN work[p][r] ELSE row[r]]
      /\ log' = log \cup pend[p] /\ pc[p] = "commit"
  BY DEF Commit, Goto
<1>3. \A e \in pend[p] : e.tx = p /\ Verdict(e) /\ e.row \in Row
  BY <1>1 DEF PendInv, Reviewing, Verdict, TypeOK, Entry
<1>4. PICK Given \in SUBSET Row : Given = {e.row : e \in pend[p]}
  BY <1>3
<1>5. \A r \in Row : work[p][r] # None <=> r \in Given
  BY <1>1, <1>2, <1>3, <1>4 DEF PendInv, EffectInv, EffectOf, Attesting
<1>6. \A r \in Given : row[r].status = "draft" /\ row'[r].status = want[p]
  BY <1>1, <1>2, <1>3, <1>4, <1>5 DEF PendInv, EffectInv, EffectOf
<1>7. \A r \in Row \ Given : row'[r] = row[r]
  BY <1>2, <1>5
<1>8. ASSUME NEW r \in Given PROVE Decider(r) = None /\ Decider(r)' = p
  <2>1. VerdictOf(r) = {}
    BY <1>1, <1>6 DEF VerdictOf, LogInv, Undecided
  <2>2. VerdictOf(r)' = {e \in pend[p] : e.row = r}
    BY <1>2, <1>3, <2>1 DEF VerdictOf, Verdict
  <2>3. VerdictOf(r)' # {} /\ \A e \in VerdictOf(r)' : e.tx = p
    BY <1>3, <1>4, <2>2
  <2>4. QED
    BY <2>1, <2>3 DEF Decider
<1>9. ASSUME NEW r \in Row \ Given PROVE Decider(r)' = Decider(r)
  <2>1. VerdictOf(r)' = VerdictOf(r)
    BY <1>2, <1>4 DEF VerdictOf, Verdict
  <2>2. QED
    BY <2>1 DEF Decider
<1>10. want[p] \in Status \ Ledger!Undecided
  BY <1>1, Facts DEF OpInv, Reviewing, Ledger!Undecided
<1>11. Ledger!Decide(p, Given)
  BY <1>4, <1>6, <1>7, <1>8, <1>9, <1>10 DEF Ledger!Decide
<1>12. QED
  BY <1>11

LEMMA CommitOther ==
  ASSUME IInv, NEW p \in Tx, Commit(p), ~Reviewing(p)
  PROVE  (\E r \in Row : Ledger!Store(r) \/ Ledger!Revise(r)) \/ UNCHANGED Ledger!vars
<1>1. /\ TypeOK /\ OpInv /\ WorkInv /\ PlaceInv /\ PendInv /\ EffectInv
  BY DEF IInv
<1>2. /\ row' = [r \in Row |-> IF work[p][r] # None THEN work[p][r] ELSE row[r]]
      /\ log' = log \cup pend[p] /\ pc[p] = "commit"
  BY DEF Commit, Goto
<1>3. \A e \in pend[p] : ~Verdict(e)
  BY <1>1 DEF PendInv, Reviewing, Verdict
<1>4. ASSUME NEW r \in Row PROVE Decider(r)' = Decider(r)
  <2>1. VerdictOf(r)' = VerdictOf(r)
    BY <1>2, <1>3 DEF VerdictOf, Verdict
  <2>2. QED
    BY <2>1 DEF Decider
<1>5. \A r \in Row : work[p][r] # None => r = cur[p]
  BY <1>1 DEF EffectInv, EffectOf
<1>6. CASE \A r \in Row : work[p][r] = None
  BY <1>2, <1>4, <1>6 DEF Ledger!vars
<1>7. ASSUME NEW r \in Row, work[p][r] # None
      PROVE  Ledger!Store(r) \/ Ledger!Revise(r) \/ UNCHANGED Ledger!vars
  <2> DEFINE s == work[p][r].status
  <2>1. \A t \in Row : row'[t] = IF t = r THEN work[p][r] ELSE row[t]
    BY <1>2, <1>5, <1>7
  <2>2. work[p][r] \in Memory /\ row[r] \in Memory
    BY <1>1, <1>7 DEF TypeOK
  <2>3. s \in Status \ {"absent"}
    BY <1>1, <1>7, <2>2 DEF WorkInv, Memory
  <2>4. CASE row[r].status = "absent"
    BY <1>4, <2>1, <2>3, <2>4 DEF Ledger!Store
  <2>5. CASE row[r].status # "absent" /\ s # "draft"
    BY <1>4, <2>1, <2>3, <2>5 DEF Ledger!Revise, Ledger!Undecided
  <2>6. CASE row[r].status # "absent" /\ s = "draft"
    <3>1. row[r].status = "draft"
      BY <1>1, <1>7, <2>6 DEF WorkInv, Undecided
    <3>2. \A t \in Row : row'[t].status = row[t].status
      BY <2>1, <2>6, <3>1
    <3>3. QED
      BY <1>4, <3>2 DEF Ledger!vars
  <2>7. QED
    BY <2>4, <2>5, <2>6
<1>8. QED
  BY <1>6, <1>7

LEMMA LedgerStep == IInv /\ [Next]_vars => [Ledger!Next]_Ledger!vars
<1> SUFFICES ASSUME IInv, [Next]_vars PROVE Ledger!Next \/ UNCHANGED Ledger!vars
  OBVIOUS
<1>1. ASSUME NEW p \in Tx, Commit(p) PROVE Ledger!Next \/ UNCHANGED Ledger!vars
  BY <1>1, CommitReview, CommitOther DEF Ledger!Next
<1>2. ASSUME NEW p \in Tx, Steps(p), ~Commit(p) PROVE UNCHANGED store
  BY <1>2 DEF Steps, store, Begins, InvokeReview, InvokeAnswer, InvokeDecide,
              InvokeRemember, Invoke, FindDraft, FindMissing, FindDone, UpdateDraft,
              LogReview, EnsureAgent, Logged, UpsertAgent, EnsureAgent, ReadRow,
              Revises, Write, Logged, InsertRow, Logged, Fails, Rollback
<1>3. ASSUME UNCHANGED store PROVE UNCHANGED Ledger!vars
  <2>1. \A r \in Row : Decider(r)' = Decider(r)
    BY <1>3 DEF store, Decider, VerdictOf, Verdict
  <2>2. QED
    BY <1>3, <2>1 DEF store, Ledger!vars
<1>4. QED
  BY <1>1, <1>2, <1>3, Cases DEF Steps, IInv, vars

(* The writers, with their stale reads, locks, aborts and deadlocks,       *)
(* implement the ledger, for any rows, reviewers and agent slugs.          *)
THEOREM WritersImplementLedger == Spec => ImplementsLedger
<1>1. Init => Ledger!Init
  BY LedgerInit
<1>2. IInv /\ [Next]_vars => [Ledger!Next]_Ledger!vars
  BY LedgerStep
<1>3. QED
  BY <1>1, <1>2, InvariantHolds, PTL DEF Spec, ImplementsLedger, Ledger!Spec

-----------------------------------------------------------------------------
(***************************************************************************)
(* The audit records. When all writers use one agent slug, the agent's     *)
(* row, which every writer of an action changes first, makes what they     *)
(* read before they write still true when they commit.                     *)
(***************************************************************************)
OneSlug == \A a, b \in Agent : a = b

(* Whoever reads a row to change it, or has an action to commit, has the   *)
(* agent's row locked; and no row is changed without an action.            *)
LockOf(p) ==
  /\ pend[p] # {} \/ pc[p] \in {"read", "write", "insert"} => agentLock[by[p]] = p
  /\ ~Reviewing(p) => \A r \in Row : work[p][r] # None => pend[p] # {}

(* What was read is what is there, and a review has read a draft. *)
ReadOf(p) ==
  /\ pc[p] = "write" => snap[p] = row[cur[p]]
  /\ pc[p] \in {"update", "upsertReview"} => snap[p].status = "draft"

(* An action that is not committed yet tells what its commit will do. *)
ActionOf(p) ==
  \A e \in Entry : e \in pend[p] =>
    /\ work[p][e.row] # None /\ work[p][e.row].status = e.next
    /\ row[e.row].status = e.prev

(* Reviews sign the rows they change, other writers leave the signature. *)
SignedOf(p) ==
  \A r \in Row : work[p][r] # None =>
    /\ Reviewing(p) => work[p][r].review = p
    /\ ~Reviewing(p) /\ row[r].status # "absent" => work[p][r].review = row[r].review

LockInv   == \A p \in Tx : LockOf(p)
ReadInv   == \A p \in Tx : ReadOf(p)
ActionInv == \A p \in Tx : ActionOf(p)
SignedInv == \A p \in Tx : SignedOf(p)

LEMMA RowSteps ==
  ASSUME NEW p \in Tx, Steps(p)
  PROVE  /\ row' = row \/ Commit(p)
         /\ by' = by
  BY DEF Steps, store, request, Begins, InvokeReview, InvokeAnswer, InvokeDecide,
         InvokeRemember, Invoke, FindDraft, FindMissing, FindDone, UpdateDraft,
         LogReview, EnsureAgent, Logged, UpsertAgent, ReadRow, Revises,
         Write, InsertRow, Commit, Fails, Rollback

(* Nobody takes over the agent's row, or changes a row that q has changed. *)
LEMMA LockedByOthers ==
  ASSUME TypeOK, NEW p \in Tx, Steps(p), NEW q \in Tx \ {p}, agentLock[by[q]] = q
  PROVE  agentLock'[by'[q]] = q
<1>1. by' = by /\ by[p] \in Agent /\ by[q] \in Agent
  BY RowSteps DEF TypeOK
<1>2. CASE UNCHANGED agentLock
  BY <1>1, <1>2
<1>3. CASE Free(agentLock[by[p]], p) /\ agentLock' = [agentLock EXCEPT ![by[p]] = p]
  BY <1>1, <1>3, Facts DEF Free, TypeOK
<1>4. CASE agentLock' = [a \in Agent |-> IF agentLock[a] = p THEN None ELSE agentLock[a]]
  BY <1>1, <1>4
<1>5. QED
  BY <1>2, <1>3, <1>4
     DEF Steps, locks, Begins, InvokeReview, InvokeAnswer, InvokeDecide,
         InvokeRemember, Invoke, FindDraft, FindMissing, FindDone, UpdateDraft,
         LogReview, EnsureAgent, UpsertAgent, ReadRow, Revises,
         Write, InsertRow, Commit, Fails, Rollback

LEMMA WrittenByOthers ==
  ASSUME TypeOK, WorkInv, NEW p \in Tx, Steps(p), NEW q \in Tx \ {p}, NEW r \in Row,
         work[q][r] # None
  PROVE  row'[r] = row[r]
<1>1. CASE row' = row
  BY <1>1
<1>2. CASE Commit(p)
  <2>1. work[p][r] = None
    BY DEF WorkInv
  <2>2. QED
    BY <1>2, <2>1 DEF Commit
<1>3. QED
  BY <1>1, <1>2, RowSteps

-----------------------------------------------------------------------------
LEMMA StepLockInv ==
  ASSUME TypeOK, OpInv, PlaceInv, EffectInv, LockInv, [Next]_vars PROVE LockInv'
<1>1. ASSUME NEW p \in Tx, Steps(p), NEW q \in Tx \ {p} PROVE LockOf(q)'
  <2>1. LockOf(q) /\ UNCHANGED <<pend[q], pc[q], work[q], op[q]>>
    BY <1>1, OthersKeep DEF LockInv
  <2>2. QED
    BY <1>1, <2>1, LockedByOthers DEF LockOf, Reviewing
<1> USE DEF Goto, store, locks, request, LockInv, LockOf, TypeOK
<1>2. ASSUME NEW p \in Tx, Begins(p) PROVE LockOf(p)'
  <2>1. /\ pc[p] = "new" /\ pc'[p] \in {"find", "upsert"}
        /\ UNCHANGED <<pend, work, agentLock, by>>
    BY <1>2 DEF Begins, InvokeReview, InvokeAnswer, InvokeDecide, InvokeRemember, Invoke
  <2>2. pend[p] = {} /\ ~Reviewing(p)
    BY <2>1 DEF OpInv, Reviewing
  <2>3. QED
    BY <2>1, <2>2
<1>3. ASSUME NEW p \in Tx, FindDraft(p) \/ FindMissing(p) \/ FindDone(p)
      PROVE  LockOf(p)'
  BY <1>3 DEF FindDraft, FindMissing, FindDone, Reviewing
<1>4. ASSUME NEW p \in Tx, UpdateDraft(p) PROVE LockOf(p)'
  BY <1>4 DEF UpdateDraft, OpInv, Reviewing
<1>5. ASSUME NEW p \in Tx, LogReview(p) PROVE LockOf(p)'
  BY <1>5 DEF LogReview, EnsureAgent, OpInv, Reviewing
<1>6. ASSUME NEW p \in Tx, UpsertAgent(p) PROVE LockOf(p)'
  BY <1>6 DEF UpsertAgent, EnsureAgent, Reviewing
<1>7. ASSUME NEW p \in Tx, ReadRow(p) PROVE LockOf(p)'
  BY <1>7 DEF ReadRow, Reviewing
<1>8. ASSUME NEW p \in Tx, Revises(p) PROVE LockOf(p)'
  <2>1. pend'[p] # {}
    BY <1>8, LoggedFacts DEF Revises, Write
  <2>2. QED
    BY <1>8, <2>1 DEF Revises, Write
<1>9. ASSUME NEW p \in Tx, InsertRow(p) PROVE LockOf(p)'
  <2>1. pend'[p] # {}
    BY <1>9, LoggedFacts DEF InsertRow
  <2>2. QED
    BY <1>9, <2>1 DEF InsertRow
<1>10. ASSUME NEW p \in Tx, Commit(p) \/ Fails(p) PROVE LockOf(p)'
  BY <1>10 DEF Commit, Fails, Rollback
<1>11. CASE UNCHANGED vars
  BY <1>11 DEF vars, Reviewing
<1>12. QED
  BY <1>1, <1>2, <1>3, <1>4, <1>5, <1>6, <1>7, <1>8, <1>9, <1>10, <1>11, Cases
     DEF Steps

(* This is where one slug matters: the committer holds the agent's row, so *)
(* that nobody is between reading and writing.                             *)
LEMMA StepReadInv ==
  ASSUME TypeOK, OpInv, PlaceInv, EffectInv, LockInv, ReadInv, OneSlug, [Next]_vars
  PROVE  ReadInv'
<1>1. ASSUME NEW p \in Tx, Steps(p), NEW q \in Tx \ {p} PROVE ReadOf(q)'
  <2>1. ReadOf(q) /\ UNCHANGED <<pc[q], snap[q], cur[q]>>
    BY <1>1, OthersKeep DEF ReadInv
  <2>2. ASSUME pc[q] = "write", Commit(p) PROVE row'[cur[q]] = row[cur[q]]
    <3>1. agentLock[by[q]] = q /\ by[q] = by[p] /\ cur[q] \in Row /\ pc[p] = "commit"
      BY <2>2 DEF LockInv, LockOf, OneSlug, TypeOK, OpInv, Commit, Goto
    <3>2. pend[p] = {}
      BY <3>1 DEF LockInv, LockOf
    <3>3. work[p][cur[q]] = None
      BY <3>1, <3>2 DEF LockInv, LockOf, EffectInv, EffectOf, Attesting
    <3>4. QED
      BY <2>2, <3>1, <3>3 DEF Commit
  <2>3. pc[q] = "write" => row'[cur[q]] = row[cur[q]]
    BY <1>1, <2>2, RowSteps
  <2>4. QED
    BY <2>1, <2>3 DEF ReadOf
<1> USE DEF Goto, store, locks, request, ReadInv, ReadOf, TypeOK
<1>2. ASSUME NEW p \in Tx, Begins(p) PROVE ReadOf(p)'
  BY <1>2 DEF Begins, InvokeReview, InvokeAnswer, InvokeDecide, InvokeRemember, Invoke
<1>3. ASSUME NEW p \in Tx, FindDraft(p) PROVE ReadOf(p)'
  BY <1>3 DEF FindDraft
<1>4. ASSUME NEW p \in Tx, FindMissing(p) \/ FindDone(p) \/ UpdateDraft(p)
      PROVE  ReadOf(p)'
  BY <1>4 DEF FindMissing, FindDone, UpdateDraft
<1>5. ASSUME NEW p \in Tx, LogReview(p) \/ UpsertAgent(p) PROVE ReadOf(p)'
  BY <1>5 DEF LogReview, UpsertAgent, EnsureAgent
<1>6. ASSUME NEW p \in Tx, ReadRow(p) PROVE ReadOf(p)'
  BY <1>6 DEF ReadRow
<1>7. ASSUME NEW p \in Tx, Revises(p) \/ InsertRow(p) PROVE ReadOf(p)'
  BY <1>7 DEF Revises, Write, InsertRow
<1>8. ASSUME NEW p \in Tx, Commit(p) \/ Fails(p) PROVE ReadOf(p)'
  BY <1>8 DEF Commit, Fails, Rollback
<1>9. CASE UNCHANGED vars
  BY <1>9 DEF vars
<1>10. QED
  BY <1>1, <1>2, <1>3, <1>4, <1>5, <1>6, <1>7, <1>8, <1>9, Cases DEF Steps

-----------------------------------------------------------------------------
(* How an action and the row it is about get into the transaction. *)
LEMMA ActionWritten ==
  ASSUME TypeOK, NEW p \in Tx, ActionOf(p), NEW m \in Memory, cur[p] \in Row,
         \A e \in pend[p] : e.row # cur[p],
         row' = row, work' = [work EXCEPT ![p][cur[p]] = m],
         pend'[p] = pend[p] \/ Logged(p, row[cur[p]].status, m.status)
  PROVE  ActionOf(p)'
<1> SUFFICES ASSUME NEW e \in Entry, e \in pend'[p]
             PROVE  /\ work'[p][e.row] # None /\ work'[p][e.row].status = e.next
                    /\ row'[e.row].status = e.prev
  BY DEF ActionOf
<1>1. e.row \in Row
  BY DEF Entry
<1>2. CASE e \in pend[p]
  BY <1>1, <1>2 DEF ActionOf, TypeOK
<1>3. CASE e \notin pend[p]
  <2>1. Logged(p, row[cur[p]].status, m.status)
    BY <1>3
  <2>2. e.row = cur[p] /\ e.prev = row[cur[p]].status /\ e.next = m.status
    BY <1>3, <2>1 DEF Logged, TypeOK
  <2>3. work'[p][cur[p]] = m
    BY DEF TypeOK
  <2>4. QED
    BY <2>1, <2>2, <2>3, Facts
<1>4. QED
  BY <1>2, <1>3

LEMMA StepActionInv ==
  ASSUME TypeOK, OpInv, WorkInv, PlaceInv, PendInv, EffectInv, LockInv, ReadInv,
         ActionInv, [Next]_vars
  PROVE  ActionInv'
<1>1. ASSUME NEW p \in Tx, Steps(p), NEW q \in Tx \ {p} PROVE ActionOf(q)'
  <2>1. ActionOf(q) /\ UNCHANGED <<pend[q], work[q]>>
    BY <1>1, OthersKeep DEF ActionInv
  <2>2. ASSUME NEW e \in Entry, e \in pend[q] PROVE row'[e.row] = row[e.row]
    BY <1>1, <2>1, <2>2, WrittenByOthers DEF ActionOf, Entry
  <2>3. QED
    BY <2>1, <2>2 DEF ActionOf
<1>2. ASSUME NEW p \in Tx, UNCHANGED <<pend, work, row>> PROVE ActionOf(p)'
  BY <1>2 DEF ActionInv, ActionOf
<1>3. ASSUME NEW p \in Tx,
         \/ Begins(p) \/ FindDraft(p) \/ FindMissing(p) \/ FindDone(p)
         \/ UpsertAgent(p) \/ ReadRow(p)
      PROVE  UNCHANGED <<pend, work, row>>
  BY <1>3 DEF store, Begins, InvokeReview, InvokeAnswer, InvokeDecide, InvokeRemember,
              Invoke, FindDraft, FindMissing, FindDone, UpsertAgent, ReadRow
<1>4. ASSUME NEW p \in Tx, UpdateDraft(p) PROVE ActionOf(p)'
  <2> DEFINE m == [row[cur[p]] EXCEPT !.status = want[p], !.notes = snap[p].notes,
                                     !.review = p]
  <2>1. /\ cur[p] \in Row /\ pc[p] = "update" /\ snap[p] \in Memory
        /\ want[p] \in Status /\ row[cur[p]] \in Memory
    BY <1>4 DEF UpdateDraft, Goto, OpInv, Reviewing, TypeOK, Status
  <2>2. m \in Memory
    BY <2>1 DEF Memory
  <2>3. \A e \in pend[p] : e.row # cur[p]
    BY <2>1 DEF PendInv
  <2>4. ActionOf(p) /\ row' = row /\ pend' = pend
        /\ work' = [work EXCEPT ![p][cur[p]] = m]
    BY <1>4 DEF UpdateDraft, ActionInv, store
  <2>5. ActionOf(p) /\ pend'[p] = pend[p] /\ cur[p] \in Row
    BY <2>1, <2>4
  <2>6. QED
    BY <2>2, <2>3, <2>4, <2>5, ActionWritten
<1>5. ASSUME NEW p \in Tx, LogReview(p) PROVE ActionOf(p)'
  <2>1. /\ pc[p] = "upsertReview" /\ Logged(p, snap[p].status, want[p])
        /\ row' = row /\ work' = work
    BY <1>5 DEF LogReview, EnsureAgent, Goto, store
  <2>2. /\ cur[p] \in Row /\ work[p][cur[p]] # None /\ row[cur[p]].status = "draft"
        /\ snap[p].status = "draft" /\ Reviewing(p)
    BY <2>1 DEF OpInv, PlaceInv, ReadInv, ReadOf
  <2>3. work[p][cur[p]].status = want[p]
    BY <2>2 DEF EffectInv, EffectOf
  <2>4. ASSUME NEW e \in Entry, e \in pend'[p], e \notin pend[p]
        PROVE  e.row = cur[p] /\ e.prev = snap[p].status /\ e.next = want[p]
    BY <2>1, <2>4 DEF Logged, TypeOK
  <2>5. QED
    BY <2>1, <2>2, <2>3, <2>4 DEF ActionInv, ActionOf
<1>6. ASSUME NEW p \in Tx, Revises(p) PROVE ActionOf(p)'
  <2>1. PICK m \in Memory : Write(p, m)
    BY <1>6 DEF Revises
  <2>2. /\ pc[p] = "write" /\ Logged(p, snap[p].status, m.status)
        /\ row' = row /\ work' = [work EXCEPT ![p][cur[p]] = m]
    BY <2>1 DEF Write, Goto, store
  <2>3. /\ cur[p] \in Row /\ ~Reviewing(p) /\ snap[p] = row[cur[p]]
    BY <2>2 DEF OpInv, Reviewing, ReadInv, ReadOf
  <2>4. \A r \in Row : work[p][r] = None
    BY <2>2, <2>3 DEF EffectInv, EffectOf
  <2>5. \A e \in pend[p] : e \in Entry /\ e.row \in Row
    BY DEF TypeOK, Entry
  <2>6. pend[p] = {}
    BY <2>4, <2>5 DEF ActionInv, ActionOf
  <2>7. ActionOf(p)
    BY DEF ActionInv
  <2>8. QED
    BY <2>2, <2>3, <2>6, <2>7, ActionWritten
<1>7. ASSUME NEW p \in Tx, InsertRow(p) PROVE ActionOf(p)'
  <2> DEFINE m == [Blank(want[p]) EXCEPT !.text = p]
  <2>1. /\ pc[p] = "insert" /\ Logged(p, "absent", want[p])
        /\ row' = row /\ work' = [work EXCEPT ![p][cur[p]] = m]
    BY <1>7 DEF InsertRow, Goto, store
  <2>2. /\ cur[p] \in Row /\ op[p] = "remember" /\ want[p] \in Status
        /\ row[cur[p]].status = "absent"
    BY <2>1 DEF OpInv, PlaceInv, Status
  <2>3. m \in Memory /\ m.status = want[p]
    BY <2>2 DEF Blank, Memory
  <2>4. \A r \in Row : work[p][r] = None
    BY <2>1, <2>2 DEF EffectInv, EffectOf, Reviewing
  <2>5. \A e \in pend[p] : e \in Entry /\ e.row \in Row
    BY DEF TypeOK, Entry
  <2>6. pend[p] = {} /\ ActionOf(p)
    BY <2>4, <2>5 DEF ActionInv, ActionOf
  <2>7. QED
    BY <2>1, <2>2, <2>3, <2>6, ActionWritten
<1>8. ASSUME NEW p \in Tx, Commit(p) \/ Fails(p) PROVE ActionOf(p)'
  BY <1>8 DEF Commit, Fails, Rollback, ActionOf, TypeOK
<1>9. CASE UNCHANGED vars
  BY <1>2, <1>9 DEF vars, store, ActionInv
<1>10. QED
  BY <1>1, <1>2, <1>3, <1>4, <1>5, <1>6, <1>7, <1>8, <1>9, Cases DEF Steps, ActionInv

LEMMA StepSignedInv ==
  ASSUME TypeOK, OpInv, WorkInv, PlaceInv, EffectInv, LockInv, ReadInv, SignedInv,
         [Next]_vars
  PROVE  SignedInv'
<1>1. ASSUME NEW p \in Tx, Steps(p), NEW q \in Tx \ {p} PROVE SignedOf(q)'
  <2>1. SignedOf(q) /\ UNCHANGED <<op[q], work[q]>>
    BY <1>1, OthersKeep DEF SignedInv
  <2>2. ASSUME NEW r \in Row, work[q][r] # None PROVE row'[r] = row[r]
    BY <1>1, <2>2, WrittenByOthers
  <2>3. QED
    BY <2>1, <2>2 DEF SignedOf, Reviewing
<1>2. ASSUME NEW p \in Tx, Begins(p) PROVE SignedOf(p)'
  <2>1. pc[p] = "new" /\ work' = work
    BY <1>2 DEF Begins, InvokeReview, InvokeAnswer, InvokeDecide, InvokeRemember,
                Invoke, Goto
  <2>2. \A r \in Row : work[p][r] = None
    BY <2>1 DEF EffectInv, EffectOf, OpInv, Reviewing
  <2>3. QED
    BY <2>1, <2>2 DEF SignedOf
<1>3. ASSUME NEW p \in Tx,
         \/ FindDraft(p) \/ FindMissing(p) \/ FindDone(p)
         \/ LogReview(p) \/ UpsertAgent(p) \/ ReadRow(p)
      PROVE  SignedOf(p)'
  BY <1>3 DEF FindDraft, FindMissing, FindDone, LogReview, UpsertAgent, ReadRow,
              store, request, SignedInv, SignedOf, Reviewing
<1>4. ASSUME NEW p \in Tx, UpdateDraft(p) PROVE SignedOf(p)'
  <2> DEFINE m == [row[cur[p]] EXCEPT !.status = want[p], !.notes = snap[p].notes,
                                     !.review = p]
  <2>1. cur[p] \in Row /\ row[cur[p]] \in Memory /\ Reviewing(p)
    BY <1>4 DEF UpdateDraft, Goto, OpInv, TypeOK
  <2>2. m.review = p
    BY <2>1 DEF Memory
  <2>3. row' = row /\ op' = op /\ work' = [work EXCEPT ![p][cur[p]] = m]
    BY <1>4 DEF UpdateDraft, store, request
  <2>4. \A r \in Row : work'[p][r] = IF r = cur[p] THEN m ELSE work[p][r]
    BY <2>3 DEF TypeOK
  <2>5. QED
    BY <2>1, <2>2, <2>3, <2>4 DEF SignedInv, SignedOf, Reviewing
<1>5. ASSUME NEW p \in Tx, Revises(p) PROVE SignedOf(p)'
  <2>1. PICK m \in Memory : Write(p, m) /\ m.review = snap[p].review
    BY <1>5 DEF Revises
  <2>2. /\ pc[p] = "write" /\ row' = row /\ op' = op
        /\ work' = [work EXCEPT ![p][cur[p]] = m]
    BY <2>1 DEF Write, Goto, store, request
  <2>3. cur[p] \in Row /\ ~Reviewing(p) /\ snap[p] = row[cur[p]]
    BY <2>2 DEF OpInv, Reviewing, ReadInv, ReadOf
  <2>4. \A r \in Row : work'[p][r] = IF r = cur[p] THEN m ELSE work[p][r]
    BY <2>2 DEF TypeOK
  <2>5. QED
    BY <2>1, <2>2, <2>3, <2>4 DEF SignedInv, SignedOf, Reviewing
<1>6. ASSUME NEW p \in Tx, InsertRow(p) PROVE SignedOf(p)'
  <2>1. /\ pc[p] = "insert" /\ row' = row /\ op' = op
        /\ \A r \in Row : r # cur[p] => work'[p][r] = work[p][r]
    BY <1>6 DEF InsertRow, Goto, store, request, TypeOK
  <2>2. cur[p] \in Row /\ ~Reviewing(p) /\ row[cur[p]].status = "absent"
    BY <2>1 DEF OpInv, Reviewing, PlaceInv
  <2>3. QED
    BY <2>1, <2>2 DEF SignedInv, SignedOf, Reviewing
<1>7. ASSUME NEW p \in Tx, Commit(p) \/ Fails(p) PROVE SignedOf(p)'
  BY <1>7 DEF Commit, Fails, Rollback, SignedOf, TypeOK
<1>8. CASE UNCHANGED vars
  BY <1>8 DEF vars, store, request, SignedInv, SignedOf, Reviewing
<1>9. QED
  BY <1>1, <1>2, <1>3, <1>4, <1>5, <1>6, <1>7, <1>8, Cases DEF Steps, SignedInv

LEMMA StepReviewRecord ==
  ASSUME IInv, ActionInv, SignedInv, ReviewRecordKept, [Next]_vars
  PROVE  ReviewRecordKept'
<1>1. /\ TypeOK /\ OpInv /\ WorkInv /\ PlaceInv /\ PendInv /\ LogInv /\ EffectInv
  BY DEF IInv
<1>2. ASSUME NEW p \in Tx, Commit(p), NEW e \in log', Verdict(e)
      PROVE  row'[e.row].review = e.tx
  <2>1. /\ pc[p] = "commit" /\ log' = log \cup pend[p]
        /\ row' = [r \in Row |-> IF work[p][r] # None THEN work[p][r] ELSE row[r]]
    BY <1>2 DEF Commit, Goto
  <2>2. e \in Entry /\ e.row \in Row
    BY <1>1, <1>2, <2>1 DEF TypeOK, Entry
  <2>3. CASE e \in pend[p]
    <3>1. e.tx = p /\ Reviewing(p) /\ work[p][e.row] # None
      BY <1>1, <1>2, <2>3 DEF PendInv, Verdict, Reviewing
    <3>2. work[p][e.row].review = p
      BY <2>2, <3>1 DEF SignedInv, SignedOf
    <3>3. QED
      BY <2>1, <2>2, <3>1, <3>2
  <2>4. CASE e \in log
    <3>1. row[e.row].status \notin Undecided /\ row[e.row].review = e.tx
      BY <1>1, <1>2, <2>4 DEF LogInv, ReviewRecordKept
    <3>2. CASE work[p][e.row] = None
      BY <2>1, <2>2, <3>1, <3>2
    <3>3. CASE work[p][e.row] # None
      <4>1. ~Reviewing(p)
        <5> SUFFICES ASSUME Reviewing(p) PROVE FALSE
          OBVIOUS
        <5>1. PICK f \in pend[p] : f.row = e.row
          BY <1>1, <2>1, <2>2, <3>3 DEF EffectInv, EffectOf, Attesting
        <5>2. Verdict(f)
          BY <1>1, <5>1 DEF PendInv, Verdict, Reviewing
        <5>3. QED
          BY <1>1, <3>1, <5>1, <5>2 DEF PendInv, Undecided
      <4>2. work[p][e.row].review = row[e.row].review
        BY <2>2, <3>1, <3>3, <4>1 DEF SignedInv, SignedOf, Undecided
      <4>3. QED
        BY <2>1, <2>2, <3>1, <3>3, <4>2
    <3>4. QED
      BY <3>2, <3>3
  <2>5. QED
    BY <1>2, <2>1, <2>3, <2>4
<1>3. ASSUME NEW p \in Tx, Steps(p), ~Commit(p) PROVE row' = row /\ log' = log
  BY <1>3, RowSteps, LogGrows
<1>4. CASE UNCHANGED <<row, log>>
  BY <1>4 DEF ReviewRecordKept, Verdict
<1>5. QED
  BY <1>1, <1>2, <1>3, <1>4, Cases DEF Steps, vars, store, ReviewRecordKept

-----------------------------------------------------------------------------
OneSlugInv == IInv /\ LockInv /\ ReadInv /\ ActionInv /\ SignedInv /\ ReviewRecordKept

LEMMA InitOneSlugInv == Init => OneSlugInv
<1> SUFFICES ASSUME Init PROVE OneSlugInv
  OBVIOUS
<1>1. LockInv /\ ReadInv
  BY DEF Init, LockInv, LockOf, ReadInv, ReadOf
<1>2. ActionInv /\ SignedInv /\ ReviewRecordKept
  BY DEF Init, ActionInv, ActionOf, SignedInv, SignedOf, ReviewRecordKept
<1>3. QED
  BY <1>1, <1>2, InitIInv DEF OneSlugInv

LEMMA StepOneSlugInv == OneSlugInv /\ OneSlug /\ [Next]_vars => OneSlugInv'
<1> SUFFICES ASSUME OneSlugInv, OneSlug, [Next]_vars PROVE OneSlugInv'
  OBVIOUS
<1>1. IInv /\ LockInv /\ ReadInv /\ ActionInv /\ SignedInv /\ ReviewRecordKept
  BY DEF OneSlugInv
<1>2. /\ TypeOK /\ OpInv /\ WorkInv /\ PlaceInv /\ PendInv /\ LogInv /\ EffectInv
  BY <1>1 DEF IInv
<1>3. IInv' /\ LockInv' /\ ReadInv'
  BY <1>1, <1>2, StepIInv, StepLockInv, StepReadInv
<1>4. ActionInv' /\ SignedInv' /\ ReviewRecordKept'
  BY <1>1, <1>2, StepActionInv, StepSignedInv, StepReviewRecord
<1>5. QED
  BY <1>3, <1>4 DEF OneSlugInv

(* As long as all writers use one agent slug, what they read, recorded and *)
(* signed stays true until they commit.                                    *)
THEOREM OneSlugSerialises == ASSUME OneSlug PROVE Spec => []OneSlugInv
<1>1. OneSlugInv /\ [Next]_vars => OneSlugInv'
  BY StepOneSlugInv
<1>2. QED
  BY <1>1, InitOneSlugInv, PTL DEF Spec

(* Every committed action names the status that its row had before the     *)
(* commit and the one it has after it.                                     *)
THEOREM AuditNamesTheChange == ASSUME OneSlug PROVE Spec => AuditChain
<1>1. OneSlugInv /\ [Next]_vars =>
        [\A e \in log' \ log :
           e.prev = row[e.row].status /\ e.next = row'[e.row].status]_vars
  <2> SUFFICES ASSUME OneSlugInv, [Next]_vars, NEW e \in log' \ log
               PROVE  e.prev = row[e.row].status /\ e.next = row'[e.row].status
    OBVIOUS
  <2>1. TypeOK /\ OpInv /\ PlaceInv /\ ActionInv
    BY DEF OneSlugInv, IInv
  <2>2. PICK p \in Tx : Commit(p) /\ e \in pend[p]
    BY <2>1, Cases, LogGrows DEF Steps, vars, store
  <2>3. e \in Entry /\ e.row \in Row
    BY <2>1, <2>2 DEF TypeOK, Entry
  <2>4. /\ work[p][e.row] # None /\ work[p][e.row].status = e.next
        /\ row[e.row].status = e.prev
    BY <2>1, <2>2, <2>3 DEF ActionInv, ActionOf
  <2>5. row'[e.row] = work[p][e.row]
    BY <2>2, <2>3, <2>4 DEF Commit
  <2>6. QED
    BY <2>4, <2>5
<1>2. QED
  BY <1>1, OneSlugSerialises, PTL DEF Spec, AuditChain

(* An answer or a decision that overlaps a review leaves its record. *)
THEOREM ReviewsStaySigned == ASSUME OneSlug PROVE Spec => []ReviewRecordKept
<1>1. OneSlugInv => ReviewRecordKept
  BY DEF OneSlugInv
<1>2. QED
  BY <1>1, OneSlugSerialises, PTL

=============================================================================
