---------------------------- MODULE MemoryReview ----------------------------
(***************************************************************************)
(* Writers of memory rows that overlap: `agent-hub inbox --accept/--reject`*)
(* and the Hub View review buttons, `answer-question`, `update-decision`   *)
(* and `remember` (commands/inbox.py, commands/write.py, memory.py).       *)
(*                                                                         *)
(* Each invocation is one PostgreSQL transaction at READ COMMITTED: a      *)
(* SELECT sees what is committed; an UPDATE, and the upsert of the agent   *)
(* row, waits for the transaction that changed the row last and then sees  *)
(* its result; of transactions that wait for each other one is aborted.    *)
(* All rows belong to one project.                                         *)
(***************************************************************************)
CONSTANTS
  Tx,              \* invocations, each one transaction
  Question,        \* open_questions rows
  Decision,        \* decisions rows
  Other,           \* facts, risks, reports: only created and reviewed here
  Agent,           \* agent slugs (--agent; "hub-view" for the buttons)
  DecisionStatus,  \* statuses that update-decision --status may set
  None

Row == Question \cup Decision \cup Other

ASSUME MemoryAssumption ==
  /\ None \notin Tx \cup Row \cup Agent
  /\ Question \cap Decision = {} /\ Other \cap (Question \cup Decision) = {}
  /\ DecisionStatus \subseteq
       {"proposed", "reviewed", "rejected", "superseded", "archived"}

(* "reviewed" is the reviewed_status of the row's type: verified, accepted *)
(* (a decision's, which update-decision may set too), open or published.   *)
Status == {"absent", "draft", "reviewed", "archived", "answered", "closed"}
            \cup DecisionStatus

(* status; the review record and the other keys in metadata, each by the   *)
(* transaction that wrote it; the transaction that wrote the text.         *)
Memory == [status : Status, review : Tx \cup {None}, notes : SUBSET Tx,
           text : Tx \cup {None}]

Blank(s) == [status |-> s, review |-> None, notes |-> {}, text |-> None]

ASSUME NoneIsNoMemory == None \notin Memory /\ None \notin Status

Act   == {"accept", "reject", "answer", "decide", "remember"}
Entry == [tx : Tx, row : Row, act : Act, prev : Status, next : Status]

VARIABLES
  row,       \* committed rows
  log,       \* committed agent_actions
  rowLock,   \* the transaction that has changed a row and not ended
  agentLock, \* the same for the agent's row
  pc,        \* where each transaction is
  op,        \* what it does
  by,        \* its agent slug
  ids,       \* the draft ids a review was given
  todo,      \* those still to be handled
  cur,       \* the row it works on
  want,      \* the status it asks for, or None
  snap,      \* the row as its SELECT returned it
  work,      \* work[p][r]: the uncommitted version of r, or None
  pend,      \* uncommitted agent_actions
  missing,   \* ids that were not found among the drafts
  outcome    \* what the caller was told

store   == <<row, log>>
locks   == <<rowLock, agentLock>>
request == <<op, by, want, ids>>
vars    == <<store, locks, pc, request, todo, cur, snap, work, pend, missing, outcome>>

Goto(p, from, to) == pc[p] = from /\ pc' = [pc EXCEPT ![p] = to]

Verdict(e) == e.act \in {"accept", "reject"}

(* statuses.REVIEWED_MEMORY_STATUSES, by type. *)
ReviewedStatus(r) ==
  IF r \in Question THEN {"reviewed", "answered"} ELSE {"reviewed"}

Init ==
  /\ row \in [Row -> {Blank("absent"), Blank("draft")}]
  /\ log = {}
  /\ rowLock = [r \in Row |-> None]
  /\ agentLock = [a \in Agent |-> None]
  /\ pc = [p \in Tx |-> "new"]
  /\ op = [p \in Tx |-> "none"]
  /\ by \in [Tx -> Agent]
  /\ ids = [p \in Tx |-> {}] /\ todo = [p \in Tx |-> {}]
  /\ cur = [p \in Tx |-> None]
  /\ want = [p \in Tx |-> None]
  /\ snap = [p \in Tx |-> None]
  /\ work = [p \in Tx |-> [r \in Row |-> None]]
  /\ pend = [p \in Tx |-> {}]
  /\ missing = [p \in Tx |-> {}]
  /\ outcome = [p \in Tx |-> "none"]

-----------------------------------------------------------------------------
(***************************************************************************)
(* Invocations.                                                            *)
(***************************************************************************)
Invoke(p, what, status, first) ==
  /\ Goto(p, "new", first)
  /\ op' = [op EXCEPT ![p] = what]
  /\ want' = [want EXCEPT ![p] = status]
  /\ UNCHANGED <<store, locks, by, snap, work, pend, missing, outcome>>

(* run_inbox with several ids; the Hub View buttons post a single one. *)
InvokeReview(p) ==
  \E what \in {"accept", "reject"}, given \in SUBSET Row \ {{}} :
    /\ Invoke(p, what, IF what = "accept" THEN "reviewed" ELSE "archived", "find")
    /\ ids' = [ids EXCEPT ![p] = given] /\ todo' = [todo EXCEPT ![p] = given]
    /\ UNCHANGED cur

InvokeAnswer(p) ==
  \E r \in Question, s \in {"answered", "closed"} :
    /\ Invoke(p, "answer", s, "upsert")
    /\ cur' = [cur EXCEPT ![p] = r]
    /\ UNCHANGED <<ids, todo>>

InvokeDecide(p) ==
  \E r \in Decision, s \in DecisionStatus \cup {None} :
    /\ Invoke(p, "decide", s, "upsert")
    /\ cur' = [cur EXCEPT ![p] = r]
    /\ UNCHANGED <<ids, todo>>

(* route_candidate has answered "draft", or "auto" (a receipt, or a refresh *)
(* from the same source); the row gets a fresh id.                          *)
InvokeRemember(p) ==
  \E r \in Row, s \in {"draft", "reviewed"} :
    /\ row[r].status = "absent" /\ \A q \in Tx : op[q] = "remember" => cur[q] # r
    /\ Invoke(p, "remember", s, "upsert")
    /\ cur' = [cur EXCEPT ![p] = r]
    /\ UNCHANGED <<ids, todo>>

-----------------------------------------------------------------------------
(***************************************************************************)
(* inbox.py: find_draft, review_draft, and the loop of run_inbox.          *)
(***************************************************************************)
FindDraft(p) ==
  \E r \in todo[p] :
    /\ row[r].status = "draft"
    /\ Goto(p, "find", "update")
    /\ cur' = [cur EXCEPT ![p] = r]
    /\ snap' = [snap EXCEPT ![p] = row[r]]
    /\ todo' = [todo EXCEPT ![p] = @ \ {r}]
    /\ UNCHANGED <<store, locks, request, work, pend, missing, outcome>>

(* Mutant of FindMissing: an id that is not found goes unmentioned. *)
FindNothing(p) ==
  \E r \in todo[p] :
    /\ row[r].status # "draft"
    /\ pc[p] = "find" /\ UNCHANGED pc
    /\ todo' = [todo EXCEPT ![p] = @ \ {r}]
    /\ UNCHANGED <<store, locks, request, cur, snap, work, pend, missing, outcome>>

FindMissing(p) ==
  \E r \in todo[p] :
    /\ row[r].status # "draft"
    /\ pc[p] = "find" /\ UNCHANGED pc
    /\ todo' = [todo EXCEPT ![p] = @ \ {r}]
    /\ missing' = [missing EXCEPT ![p] = @ \cup {r}]
    /\ UNCHANGED <<store, locks, request, cur, snap, work, pend, outcome>>

FindDone(p) ==
  /\ todo[p] = {}
  /\ Goto(p, "find", "commit")
  /\ UNCHANGED <<store, locks, request, todo, cur, snap, work, pend, missing, outcome>>

Free(l, p) == l \in {None, p}

(* Mutants of UpdateDraft: no AND status = 'draft'; a statement that commits. *)
UpdateAny(p) ==
  LET r == cur[p] IN
    /\ Goto(p, "update", "upsertReview")
    /\ Free(rowLock[r], p)
    /\ rowLock' = [rowLock EXCEPT ![r] = p]
    /\ work' = [work EXCEPT ![p][r] =
         [row[r] EXCEPT !.status = want[p], !.notes = snap[p].notes, !.review = p]]
    /\ UNCHANGED <<store, agentLock, request, todo, cur, snap, pend, missing, outcome>>

UpdateAutocommit(p) ==
  LET r == cur[p] IN
    /\ Goto(p, "update", "upsertReview")
    /\ Free(rowLock[r], p) /\ row[r].status = "draft"
    /\ row' = [row EXCEPT ![r] =
         [@ EXCEPT !.status = want[p], !.notes = snap[p].notes, !.review = p]]
    /\ UNCHANGED <<log, locks, request, todo, cur, snap, work, pend, missing, outcome>>

(* UPDATE ... WHERE id = r AND status = 'draft', metadata from the snapshot. *)
UpdateDraft(p) ==
  LET r == cur[p] IN
    /\ Goto(p, "update", "upsertReview")
    /\ Free(rowLock[r], p) /\ row[r].status = "draft"
    /\ rowLock' = [rowLock EXCEPT ![r] = p]
    /\ work' = [work EXCEPT ![p][r] =
         [row[r] EXCEPT !.status = want[p], !.notes = snap[p].notes, !.review = p]]
    /\ UNCHANGED <<store, agentLock, request, todo, cur, snap, pend, missing, outcome>>

(* Everything the transaction changed is undone, its locks are released. *)
Rollback(p, told) ==
  /\ pc' = [pc EXCEPT ![p] = "done"]
  /\ rowLock' = [r \in Row |-> IF rowLock[r] = p THEN None ELSE rowLock[r]]
  /\ agentLock' = [a \in Agent |-> IF agentLock[a] = p THEN None ELSE agentLock[a]]
  /\ work' = [work EXCEPT ![p] = [r \in Row |-> None]]
  /\ pend' = [pend EXCEPT ![p] = {}]
  /\ snap' = [snap EXCEPT ![p] = None]
  /\ outcome' = [outcome EXCEPT ![p] = told]
  /\ UNCHANGED <<store, request, todo, cur, missing>>

(* No row came back: the draft was reviewed meanwhile, the batch fails. *)
DraftGone(p) ==
  /\ pc[p] = "update"
  /\ Free(rowLock[cur[p]], p) /\ row[cur[p]].status # "draft"
  /\ Rollback(p, "failed")

(* Mutant of EnsureAgent: ON CONFLICT DO NOTHING, which locks no row. *)
InsertAgentOnly(p, from, to) ==
  /\ Goto(p, from, to)
  /\ UNCHANGED agentLock

(* INSERT INTO agents ... ON CONFLICT (project_id, slug) DO UPDATE. *)
EnsureAgent(p, from, to) ==
  /\ Goto(p, from, to)
  /\ Free(agentLock[by[p]], p)
  /\ agentLock' = [agentLock EXCEPT ![by[p]] = p]

Logged(p, prev, next) ==
  pend' = [pend EXCEPT ![p] = @ \cup
    {[tx |-> p, row |-> cur[p], act |-> op[p], prev |-> prev, next |-> next]}]

LogReview(p) ==
  /\ EnsureAgent(p, "upsertReview", "find")
  /\ Logged(p, snap[p].status, want[p])
  /\ UNCHANGED <<store, rowLock, request, todo, cur, snap, work, missing, outcome>>

-----------------------------------------------------------------------------
(***************************************************************************)
(* memory.py: answer_question, update_decision, remember.                  *)
(***************************************************************************)
UpsertAgent(p) ==
  /\ EnsureAgent(p, "upsert", IF op[p] = "remember" THEN "insert" ELSE "read")
  /\ UNCHANGED <<store, rowLock, request, todo, cur, snap, work, pend, missing, outcome>>

ReadRow(p) ==
  /\ Goto(p, "read", "write")
  /\ row[cur[p]].status # "absent"
  /\ snap' = [snap EXCEPT ![p] = row[cur[p]]]
  /\ UNCHANGED <<store, locks, request, todo, cur, work, pend, missing, outcome>>

(* NotFoundError *)
RowNotFound(p) ==
  /\ pc[p] = "read" /\ row[cur[p]].status = "absent"
  /\ Rollback(p, "failed")

Write(p, new) ==
  /\ Goto(p, "write", "commit")
  /\ Free(rowLock[cur[p]], p)
  /\ rowLock' = [rowLock EXCEPT ![cur[p]] = p]
  /\ work' = [work EXCEPT ![p][cur[p]] = new]
  /\ Logged(p, snap[p].status, new.status)
  /\ UNCHANGED <<store, agentLock, request, todo, cur, snap, missing, outcome>>

(* Answer and status are set, metadata is merged into the snapshot's. *)
WriteAnswer(p) ==
  /\ op[p] = "answer"
  /\ Write(p, [status |-> want[p], text |-> p,
               notes |-> snap[p].notes \cup {p}, review |-> snap[p].review])

(* Mutant of WriteDecision: the status read is written back. *)
WriteDecisionBack(p) ==
  /\ op[p] = "decide"
  /\ \E t \in {p, row[cur[p]].text} :
       Write(p, [status |-> IF want[p] = None THEN snap[p].status ELSE want[p],
                 text |-> t,
                 notes |-> snap[p].notes \cup {p}, review |-> snap[p].review])

(* Mutant of WriteDecision: an absent --status is stored as NULL. *)
WriteDecisionNull(p) ==
  /\ op[p] = "decide"
  /\ \E t \in {p, row[cur[p]].text} :
       Write(p, [status |-> want[p], text |-> t,
                 notes |-> snap[p].notes \cup {p}, review |-> snap[p].review])

(* COALESCE keeps the text and the status that are in the row now. *)
WriteDecision(p) ==
  /\ op[p] = "decide"
  /\ \E t \in {p, row[cur[p]].text} :
       Write(p, [status |-> IF want[p] = None THEN row[cur[p]].status ELSE want[p],
                 text |-> t,
                 notes |-> snap[p].notes \cup {p}, review |-> snap[p].review])

InsertRow(p) ==
  /\ Goto(p, "insert", "commit")
  /\ rowLock' = [rowLock EXCEPT ![cur[p]] = p]
  /\ work' = [work EXCEPT ![p][cur[p]] = [Blank(want[p]) EXCEPT !.text = p]]
  /\ Logged(p, "absent", want[p])
  /\ UNCHANGED <<store, agentLock, request, todo, cur, snap, missing, outcome>>

-----------------------------------------------------------------------------
(***************************************************************************)
(* The end of `with connect()`.                                            *)
(***************************************************************************)
(* Mutant of Commit: the connection stays open and its locks with it. *)
CommitHoldingLocks(p) ==
  /\ Goto(p, "commit", "done")
  /\ row' = [r \in Row |-> IF work[p][r] # None THEN work[p][r] ELSE row[r]]
  /\ log' = log \cup pend[p]
  /\ outcome' = [outcome EXCEPT ![p] = "ok"]
  /\ UNCHANGED <<locks, request, todo, cur, snap, work, pend, missing>>

(* The answer to COMMIT may get lost: run_inbox and the others report that *)
(* like every other exception.                                             *)
Commit(p) ==
  /\ Goto(p, "commit", "done")
  /\ row' = [r \in Row |-> IF work[p][r] # None THEN work[p][r] ELSE row[r]]
  /\ log' = log \cup pend[p]
  /\ rowLock' = [r \in Row |-> IF rowLock[r] = p THEN None ELSE rowLock[r]]
  /\ agentLock' = [a \in Agent |-> IF agentLock[a] = p THEN None ELSE agentLock[a]]
  /\ work' = [work EXCEPT ![p] = [r \in Row |-> None]]
  /\ pend' = [pend EXCEPT ![p] = {}]
  /\ \E told \in {IF missing[p] = {} THEN "ok" ELSE "missing", "failed"} :
       outcome' = [outcome EXCEPT ![p] = told]
  /\ snap' = [snap EXCEPT ![p] = None]
  /\ UNCHANGED <<request, todo, cur, missing>>

(* The process is killed, the connection breaks, a statement raises. *)
Abort(p) ==
  /\ pc[p] \notin {"new", "done"}
  /\ Rollback(p, "failed")

(* The transaction that p has to wait for. *)
Blocker(p) ==
  IF pc[p] \in {"update", "write"} THEN rowLock[cur[p]]
  ELSE IF pc[p] \in {"upsert", "upsertReview"} THEN agentLock[by[p]] ELSE None

Deadlocked(p) ==
  \E S \in SUBSET Tx : p \in S /\ \A q \in S : Blocker(q) \in S \ {q}

(* PostgreSQL aborts one of the transactions in a cycle. *)
DeadlockVictim(p) ==
  /\ Deadlocked(p)
  /\ Rollback(p, "failed")

Terminated ==
  /\ \A p \in Tx : pc[p] = "done"
  /\ UNCHANGED vars

Step(p) ==
  \/ FindDraft(p) \/ FindMissing(p) \/ FindDone(p) \/ UpdateDraft(p) \/ DraftGone(p)
  \/ LogReview(p) \/ UpsertAgent(p) \/ ReadRow(p) \/ RowNotFound(p)
  \/ WriteAnswer(p) \/ WriteDecision(p) \/ InsertRow(p) \/ Commit(p)
  \/ DeadlockVictim(p)

Begin(p) == InvokeReview(p) \/ InvokeAnswer(p) \/ InvokeDecide(p) \/ InvokeRemember(p)

Next == (\E p \in Tx : Begin(p) \/ Step(p) \/ Abort(p)) \/ Terminated

Spec == Init /\ [][Next]_vars

(* The server and the client run every transaction on. *)
FairSpec == Spec /\ \A p \in Tx : WF_vars(Step(p))

-----------------------------------------------------------------------------
(***************************************************************************)
(* Properties.                                                             *)
(***************************************************************************)
Place == {"new", "find", "update", "upsertReview", "upsert", "read", "write",
          "insert", "commit", "done"}

(* Every variable has its type. *)
TypeOK ==
  /\ row \in [Row -> Memory] /\ log \subseteq Entry
  /\ rowLock \in [Row -> Tx \cup {None}] /\ agentLock \in [Agent -> Tx \cup {None}]
  /\ pc \in [Tx -> Place] /\ op \in [Tx -> Act \cup {"none"}] /\ by \in [Tx -> Agent]
  /\ ids \in [Tx -> SUBSET Row] /\ todo \in [Tx -> SUBSET Row]
  /\ cur \in [Tx -> Row \cup {None}]
  /\ want \in [Tx -> Status \cup {None}] /\ snap \in [Tx -> Memory \cup {None}]
  /\ work \in [Tx -> [Row -> Memory \cup {None}]] /\ pend \in [Tx -> SUBSET Entry]
  /\ missing \in [Tx -> SUBSET Row]
  /\ outcome \in [Tx -> {"none", "ok", "missing", "failed"}]

(* A draft is accepted or rejected at most once, whichever reviewers, batch *)
(* reviews and Hub View buttons race for it (WHERE status = 'draft').       *)
OneVerdict ==
  \A e, f \in log : Verdict(e) /\ Verdict(f) /\ e.row = f.row => e = f

(* What left the inbox never comes back to it, although other writers read *)
(* the row while it was still a draft.                                     *)
NeverDraftAgain ==
  [][ \A r \in Row : row[r].status \notin {"absent", "draft"} =>
        row'[r].status \notin {"absent", "draft"} ]_vars

(* Whatever is in a committed row, its review record, a note or its text,  *)
(* has its agent action in the log: a failing step of a batch, a deadlock  *)
(* or a crash leaves neither without the other.                            *)
Explained ==
  \A r \in Row, p \in Tx :
    p \in row[r].notes \cup {row[r].review, row[r].text} =>
      \E e \in log : e.tx = p /\ e.row = r

(* What a review reports is so: success means that it decided every id it  *)
(* was given, exit 1 with missing ids that it decided all the others. An   *)
(* error leaves open whether it decided, since the answer to the COMMIT    *)
(* may be what was lost, but not half a batch: it decided none of its ids  *)
(* or all those that were drafts when it came to them.                     *)
Decided(p, r) == \E e \in log : e.tx = p /\ e.row = r
Reported(p) ==
  op[p] \in {"accept", "reject"} =>
    /\ outcome[p] = "ok" => \A r \in ids[p] : Decided(p, r)
    /\ outcome[p] = "missing" => \A r \in ids[p] \ missing[p] : Decided(p, r)
    /\ outcome[p] = "failed" => \/ \A r \in ids[p] : ~Decided(p, r)
                               \/ \A r \in ids[p] \ missing[p] : Decided(p, r)
ReportedReviews == \A p \in Tx : Reported(p)

(* As long as all writers use one agent slug, the agent's row serialises   *)
(* them: the audit record names the status the row really had before, ...  *)
AuditChain ==
  [][ \A e \in log' \ log :
        e.prev = row[e.row].status /\ e.next = row'[e.row].status ]_vars

(* ... and no answer and no update of a decision that overlaps a review    *)
(* erases its agent_hub_review record.                                     *)
ReviewRecordKept ==
  \A e \in log : Verdict(e) => row[e.row].review = e.tx

(* Every invocation ends, although two batches, or a batch and an answer,  *)
(* lock the same rows in opposite orders.                                  *)
TransactionsEnd ==
  \A p \in Tx : pc[p] # "new" ~> pc[p] = "done"

(* docs/automation-boundaries.md, "Draft promotion ... happens only        *)
(* through an explicit review step": a draft becomes reviewed memory by an *)
(* accepted review and by nothing else.                                    *)
PromotionIsReview ==
  \A e \in log :
    e.prev = "draft" /\ e.next \in ReviewedStatus(e.row) => e.act = "accept"

=============================================================================
