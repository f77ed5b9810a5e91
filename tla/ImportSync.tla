----------------------------- MODULE ImportSync -----------------------------
(***************************************************************************)
(* `agent-hub import` and `agent-hub sync --apply` (importing/workflow.py, *)
(* importing/store.py): Markdown notes of a vault become memory rows.      *)
(*                                                                         *)
(* Each run is one PostgreSQL transaction at READ COMMITTED.  An import    *)
(* plans and applies note by note, a sync plans every note before it       *)
(* applies one.  People edit notes, review drafts and revise decisions     *)
(* meanwhile, and run the commands again.  A statement that fails aborts   *)
(* the transaction: every later one fails too, and its COMMIT is a         *)
(* ROLLBACK that raises nothing.                                           *)
(*                                                                         *)
(* --dry-run and --plan only read and are not modelled; nor is a valid     *)
(* db_id, which names the row in place of the import key.                  *)
(***************************************************************************)
EXTENDS Naturals, FiniteSets, Sequences, SequencesExt

CONSTANTS
  Runs,       \* callers, each with at most one command running
  NoteCount,  \* notes of the vault, in the order of their paths
  Key,        \* a note's import key, explicit or derived from its path
  Contents,   \* what a note may say
  RowCount,   \* bound on memory rows
  Commands,   \* the <<mode, on-duplicate>> they run
  Overlap,    \* FALSE: nobody else uses the database during a run
  Kills,      \* TRUE: runs may be killed
  EditBound,  \* bound on edits of the vault
  WorkBound,  \* bound on reviews and revisions by people
  None

Notes == 1..NoteCount
Rows  == 1..RowCount

(* "secret": normalize_import_item rejects it; "badid": its db_id is no    *)
(* uuid, the SELECT raises; "unsafe": has_safety_trigger; "receipt": a     *)
(* report with report_type receipt or audit; "decision" stands for risks   *)
(* and questions too, which import in the same way.                        *)
Kind   == {"secret", "badid", "unsafe", "receipt", "report", "fact", "decision"}
Status == {"draft", "reviewed", "inactive"}

ASSUME ImportAssumption ==
  /\ NoteCount \in Nat \ {0} /\ RowCount \in Nat
  /\ EditBound \in Nat /\ WorkBound \in Nat
  /\ DOMAIN Key = Notes
  /\ \A c \in Contents : /\ DOMAIN c = {"kind", "core", "source", "status"}
                         /\ c.kind \in Kind /\ c.status \in Status
  /\ Commands \subseteq ({"sync"} \X {"update"}) \cup
                        ({"import"} \X {"skip", "error", "update"})
  /\ Overlap \in BOOLEAN /\ Kills \in BOOLEAN

(* TYPE_TABLES: rows of different tables never meet. *)
Table(kind) == IF kind \in {"receipt", "report", "unsafe"} THEN "report" ELSE kind

(* item_values: the columns that the data hash covers. (The confidence of  *)
(* a fact is one of them; the rounding of the stored one is left out.)     *)
Values(c, status) == [core |-> c.core, source |-> c.source, status |-> status]

Cores   == {c.core : c \in Contents}
Sources == {c.source : c \in Contents}
Column  == [core : Cores, source : Sources, status : Status]
(* metadata.agent_hub_import: content_hash and data_hash stand for what    *)
(* they are the hashes of.                                                 *)
MemoryRow == [key : {Key[f] : f \in Notes}, table : {Table(k) : k \in Kind},
              vals : Column, last : [note : Contents, data : Column]]

ASSUME NoneIsNoRow == None \notin MemoryRow /\ None \notin Status /\ None \notin Runs

Write   == {"create", "update"}
Blocker == {"ask", "conflict", "reject", "error"}
Entry   == [file : Notes, note : Contents, action : Write \cup Blocker \cup {"skip"},
            status : {"draft", None}]

VARIABLES
  vault,     \* what each note says
  row,       \* committed rows
  events,    \* the sync_events row of each caller's last command, or "none"
  pc,        \* where each run is
  command,   \* its mode and --on-duplicate
  plan,      \* the entries planned so far
  todo,      \* those of them still to be applied, by position
  work,      \* work[r][x]: r's uncommitted version of row x, or None
  event,     \* its uncommitted sync_events row
  aborted,   \* a statement of its transaction has failed
  agent,     \* the run that has the import agent's row locked
  accepted,  \* rows a person accepted
  edits, reviews

run    == <<plan, todo, work, event, aborted>>
people == <<vault, accepted, edits, reviews>>
vars   == <<row, events, pc, command, run, agent, people>>

Init ==
  /\ vault \in [Notes -> Contents]
  /\ row = [x \in Rows |-> None]
  /\ events = [r \in Runs |-> "none"]
  /\ pc = [r \in Runs |-> "new"]
  /\ command \in [Runs -> Commands]
  /\ plan = [r \in Runs |-> <<>>] /\ todo = [r \in Runs |-> {}]
  /\ work = [r \in Runs |-> [x \in Rows |-> None]]
  /\ event = [r \in Runs |-> "none"]
  /\ aborted = [r \in Runs |-> FALSE]
  /\ agent = None
  /\ accepted = {} /\ edits = 0 /\ reviews = 0

Goto(r, from, to) == pc[r] = from /\ pc' = [pc EXCEPT ![r] = to]

Active(r) == pc[r] \in {"plan", "decide", "apply", "log", "commit"}
IsSync(r) == command[r][1] = "sync"

-----------------------------------------------------------------------------
(***************************************************************************)
(* Planning (plan_import_item).                                            *)
(***************************************************************************)
Visible(r) == [x \in Rows |-> IF work[r][x] # None THEN work[r][x] ELSE row[x]]

(* Mutant of Existing: archived and rejected rows do not count. *)
ExistingActive(r, f, c) ==
  {x \in Rows : LET m == Visible(r)[x]
                IN /\ m # None /\ m.key = Key[f] /\ m.table = Table(c.kind)
                   /\ m.vals.status # "inactive"}

(* fetch_existing_import *)
Existing(r, f, c) ==
  {x \in Rows : LET m == Visible(r)[x]
                IN m # None /\ m.key = Key[f] /\ m.table = Table(c.kind)}

(* Only facts have a source column; for the other types the row's source   *)
(* is never the note's path.                                               *)
SameSource(c, m) == c.kind = "fact" /\ m.vals.source = c.source

(* Mutant of Route: a draft counts as existing memory to refresh. *)
RouteAnyStatus(c, m) ==
  CASE c.kind = "unsafe"                                          -> "ask"
    [] c.kind = "receipt" \/ (m # None /\ SameSource(c, m))       -> "auto"
    [] OTHER                                                      -> "draft"

(* route_candidate, with the row the key leads to, or None. *)
Route(c, m) ==
  LET reviewed == m # None /\ m.vals.status = "reviewed"
  IN CASE c.kind = "unsafe"                        -> "ask"
       [] c.kind = "receipt"                       -> "auto"
       [] reviewed /\ SameSource(c, m)             -> "auto"
       [] reviewed /\ ~SameSource(c, m)
            /\ m.vals.core # c.core
            /\ c.kind \notin {"unsafe", "receipt"} -> "ask"
       [] OTHER                                    -> "draft"

(* Mutant of DatabaseChanged: the status is no part of the data hash. *)
TextChanged(m) == m.last.data.core # m.vals.core

NoteChanged(c, m)  == m.last.note # c
DatabaseChanged(m) == m.last.data # m.vals

(* The early returns of plan_import_item, in their order. *)
Planned(c, m, duplicate) ==
  LET tier == Route(c, m)
  IN CASE tier = "ask"                                 -> "ask"
       [] tier # "ask" /\ m = None                     -> "create"
       [] tier # "ask" /\ m # None ->
            CASE duplicate # "update"                  -> duplicate
              [] OTHER ->
                CASE ~NoteChanged(c, m)                -> "skip"
                  [] NoteChanged(c, m) /\ DatabaseChanged(m) -> "conflict"
                  [] OTHER -> IF tier = "auto" THEN "update" ELSE "ask"

(* normalize_import_item, fetch_existing_import or the database raises. *)
Raises(r, f, c) ==
  \/ c.kind \in {"secret", "badid"}
  \/ aborted[r]
  \/ Cardinality(Existing(r, f, c)) > 1

EntryFor(r, f) ==
  LET c == vault[f]
      x == Existing(r, f, c)
      m == IF x = {} THEN None ELSE Visible(r)[CHOOSE i \in x : TRUE]
  IN IF Raises(r, f, c)
     THEN [file |-> f, note |-> c, action |-> "reject", status |-> None]
     ELSE [file |-> f, note |-> c, action |-> Planned(c, m, command[r][2]),
           status |-> IF m = None /\ Route(c, m) = "draft" THEN "draft" ELSE None]

(* Where a run goes once n notes are planned. *)
AfterPlan(r, n) ==
  IF n < NoteCount THEN "plan" ELSE IF IsSync(r) THEN "decide" ELSE "commit"

(* A command starts; with Overlap = FALSE an operator runs one at a time. *)
Start(r) ==
  /\ ~Active(r)
  /\ Overlap \/ \A q \in Runs : ~Active(q)
  /\ pc' = [pc EXCEPT ![r] = "plan"]
  /\ \E c \in Commands : command' = [command EXCEPT ![r] = c]
  /\ aborted' = [aborted EXCEPT ![r] = FALSE]
  /\ events' = [events EXCEPT ![r] = "none"]
  /\ UNCHANGED <<row, plan, todo, work, event, agent, people>>

(* The next note is read, normalized and planned.  An import goes on to    *)
(* apply what it planned, and collects what raised among its errors.       *)
PlanNote(r) ==
  LET f == Len(plan[r]) + 1
  IN /\ pc[r] = "plan"
     /\ \E e \in {EntryFor(r, f)} :
          LET apply == ~IsSync(r) /\ e.action \in Write
          IN /\ pc' = [pc EXCEPT ![r] = IF apply THEN "apply" ELSE AfterPlan(r, f)]
             /\ plan' = [plan EXCEPT ![r] = Append(@, e)]
             /\ todo' = [todo EXCEPT ![r] = IF apply THEN {f} ELSE {}]
             /\ aborted' = [aborted EXCEPT ![r] = @ \/ e.note.kind = "badid"]
             /\ UNCHANGED <<row, events, command, work, event, agent, people>>

-----------------------------------------------------------------------------
(***************************************************************************)
(* sync_markdown after the plan is complete.                               *)
(***************************************************************************)
(* Mutant of Blocked: ask is no blocker. *)
BlockedByConflict(r) == \E e \in ToSet(plan[r]) : e.action \in {"conflict", "reject"}

Blocked(r) == \E e \in ToSet(plan[r]) : e.action \in Blocker

(* The plan is blocked: one failed sync_events row, nothing else.          *)
LogBlocked(r) ==
  /\ Blocked(r) /\ ~aborted[r]
  /\ Goto(r, "decide", "commit")
  /\ event' = [event EXCEPT ![r] = "failed"]
  /\ UNCHANGED <<row, events, command, plan, todo, work, aborted, agent, people>>

(* The transaction ends without effect and gives its locks back.           *)
GiveUp(r, from, to) ==
  /\ Goto(r, from, to)
  /\ agent' = IF agent = r THEN None ELSE agent
  /\ work' = [work EXCEPT ![r] = [x \in Rows |-> None]]
  /\ plan' = [plan EXCEPT ![r] = <<>>]
  /\ todo' = [todo EXCEPT ![r] = {}]
  /\ event' = [event EXCEPT ![r] = "none"]
  /\ UNCHANGED <<row, events, command, aborted, people>>

(* log_sync_event raises in an aborted transaction, run_sync reports it.   *)
LogFails(r) == Blocked(r) /\ aborted[r] /\ GiveUp(r, "decide", "failed")

(* Nothing blocks: what is to be written is applied in plan order.         *)
BeginApply(r) ==
  LET writes == {i \in 1..Len(plan[r]) : plan[r][i].action \in Write}
  IN /\ ~Blocked(r)
     /\ Goto(r, "decide", IF writes = {} THEN "log" ELSE "apply")
     /\ todo' = [todo EXCEPT ![r] = writes]
     /\ UNCHANGED <<row, events, command, plan, work, event, aborted, agent, people>>

LogSucceeded(r) ==
  /\ Goto(r, "log", "commit")
  /\ event' = [event EXCEPT ![r] = "succeeded"]
  /\ UNCHANGED <<row, events, command, plan, todo, work, aborted, agent, people>>

-----------------------------------------------------------------------------
(***************************************************************************)
(* apply_import_item.  ensure_import_agent's ON CONFLICT DO UPDATE locks   *)
(* the import agent's row until the transaction ends.                      *)
(***************************************************************************)
Due(r, i) == i \in todo[r] /\ \A j \in todo[r] : i <= j  \* the next entry

AfterApply(r, i) ==
  IF todo[r] # {i} THEN "apply"
  ELSE IF IsSync(r) THEN "log"
  ELSE AfterPlan(r, Len(plan[r]))

Applied(r, i, x, m) ==
  /\ agent \in {None, r}
  /\ agent' = r
  /\ Goto(r, "apply", AfterApply(r, i))
  /\ todo' = [todo EXCEPT ![r] = @ \ {i}]
  /\ work' = [work EXCEPT ![r][x] = m]
  /\ UNCHANGED <<row, events, command, plan, event, aborted, people>>

(* item_for_planned_status: a planned status replaces the note's. *)
ItemStatus(e) == IF e.status # None THEN e.status ELSE e.note.status

(* item_values and import_metadata *)
RowFor(e) ==
  LET data == Values(e.note, ItemStatus(e))
  IN [key |-> Key[e.file], table |-> Table(e.note.kind),
      vals |-> data, last |-> [note |-> e.note, data |-> data]]

(* gen_random_uuid: any id that is not taken; the least one stands for it. *)
Taken(x)   == row[x] # None \/ \E r \in Runs : work[r][x] # None
FreeRow(x) == ~Taken(x) /\ \A y \in 1..(x - 1) : Taken(y)

(* insert_import_item, which takes a new id and does not look at the key.  *)
Insert(r) ==
  \E i \in todo[r] :
    /\ Due(r, i) /\ plan[r][i].action = "create"
    /\ \E x \in Rows : FreeRow(x) /\ Applied(r, i, x, RowFor(plan[r][i]))

(* Mutant of Update: the hashes of the previous import stay. *)
UpdateKeepsHashes(r) ==
  \E i \in todo[r] :
    LET e == plan[r][i]
        found == Existing(r, e.file, e.note)
    IN /\ Due(r, i) /\ e.action = "update"
       /\ Cardinality(found) = 1
       /\ \E x \in found :
            Applied(r, i, x, [RowFor(e) EXCEPT !.last = Visible(r)[x].last])

(* update_import_item finds the row again, and writes what was planned     *)
(* whatever it now holds; the metadata it writes back is not modelled.     *)
Update(r) ==
  \E i \in todo[r] :
    LET e == plan[r][i]
        found == Existing(r, e.file, e.note)
    IN /\ Due(r, i) /\ e.action = "update"
       /\ Cardinality(found) = 1
       /\ \E x \in found : Applied(r, i, x, RowFor(e))

(* Its fetch_existing_import raises: an import records the error and goes  *)
(* on, a sync ends.                                                        *)
UpdateRaises(r) ==
  \E i \in todo[r] :
    /\ Due(r, i) /\ plan[r][i].action = "update"
    /\ Cardinality(Existing(r, plan[r][i].file, plan[r][i].note)) > 1
    /\ agent \in {None, r}
    /\ \/ IsSync(r) /\ GiveUp(r, "apply", "failed")
       \/ /\ ~IsSync(r)
          /\ Goto(r, "apply", AfterApply(r, i))
          /\ agent' = r
          /\ todo' = [todo EXCEPT ![r] = @ \ {i}]
          /\ UNCHANGED <<row, events, command, plan, work, event, aborted, people>>

-----------------------------------------------------------------------------
(***************************************************************************)
(* The end of the transaction: leaving `with connect()`.                   *)
(***************************************************************************)
Commit(r) ==
  /\ Goto(r, "commit", "done")
  /\ IF aborted[r] THEN UNCHANGED <<row, events>>
     ELSE /\ row' = Visible(r)
          /\ events' = [events EXCEPT ![r] = event[r]]
  /\ work' = [work EXCEPT ![r] = [x \in Rows |-> None]]
  /\ agent' = IF agent = r THEN None ELSE agent
  /\ plan' = [plan EXCEPT ![r] = <<>>]
  /\ event' = [event EXCEPT ![r] = "none"]
  /\ UNCHANGED <<command, todo, aborted, people>>

Kill(r) == Kills /\ Active(r) /\ GiveUp(r, pc[r], "killed")

-----------------------------------------------------------------------------
(***************************************************************************)
(* People.  An update of a row waits for the run that has changed it.      *)
(***************************************************************************)
EditNote(f, c) ==
  /\ edits < EditBound /\ c # vault[f]
  /\ vault' = [vault EXCEPT ![f] = c]
  /\ edits' = edits + 1
  /\ UNCHANGED <<row, events, pc, command, run, agent, accepted, reviews>>

PersonWrites(x, m) ==
  /\ reviews < WorkBound
  /\ Overlap \/ \A r \in Runs : ~Active(r)
  /\ \A r \in Runs : work[r][x] = None
  /\ row' = [row EXCEPT ![x] = m]
  /\ reviews' = reviews + 1
  /\ UNCHANGED <<events, pc, command, run, agent, vault, edits>>

(* inbox --accept and --reject *)
Accept(x) ==
  /\ row[x] # None /\ row[x].vals.status = "draft"
  /\ PersonWrites(x, [row[x] EXCEPT !.vals.status = "reviewed"])
  /\ accepted' = accepted \cup {x}

Reject(x) ==
  /\ row[x] # None /\ row[x].vals.status = "draft"
  /\ PersonWrites(x, [row[x] EXCEPT !.vals.status = "inactive"])
  /\ UNCHANGED accepted

(* update-decision --decision; the questions' and other texts are only     *)
(* changed through their notes.                                            *)
Revise(x) ==
  /\ row[x] # None /\ row[x].table = "decision"
  /\ \E t \in Cores \ {row[x].vals.core} :
       PersonWrites(x, [row[x] EXCEPT !.vals.core = t])
  /\ UNCHANGED accepted

Step(r) ==
  \/ PlanNote(r) \/ LogBlocked(r) \/ LogFails(r) \/ BeginApply(r)
  \/ Insert(r) \/ Update(r) \/ UpdateRaises(r) \/ LogSucceeded(r) \/ Commit(r)

Next ==
  \/ \E r \in Runs : Start(r) \/ Step(r) \/ Kill(r)
  \/ \E f \in Notes, c \in Contents : EditNote(f, c)
  \/ \E x \in Rows : Accept(x) \/ Reject(x) \/ Revise(x)

Spec == Init /\ [][Next]_vars

-----------------------------------------------------------------------------
(***************************************************************************)
(* Properties.                                                             *)
(***************************************************************************)
Ends(r) == pc[r] = "commit" /\ pc'[r] = "done"

(* The row a note's key leads to. *)
Leads(f, c, m) == m # None /\ m.key = Key[f] /\ m.table = Table(c.kind)

(* An import key leads to at most one row of its type (fetch_existing_     *)
(* import raises on a second one, so that the note is never synced again). *)
UniqueKeys ==
  \A x, y \in Rows :
    row[x] # None /\ row[y] # None /\ x # y
      => <<row[x].key, row[x].table>> # <<row[y].key, row[y].table>>

(* A memory row is reviewed only after a person accepted it, or because    *)
(* the note it was last written from is a receipt, whatever sequence of    *)
(* edits, imports, syncs and reviews led to it.                            *)
ReviewedMeansAccepted ==
  \A x \in Rows :
    row[x] # None /\ row[x].vals.status = "reviewed"
      => x \in accepted \/ row[x].last.note.kind = "receipt"

(* A sync whose plan asks, conflicts or rejects changes no memory row,     *)
(* however many of its notes could have been written.                      *)
BlockedWritesNothing ==
  [][\A r \in Runs :
        Ends(r) /\ IsSync(r) /\ (\E e \in ToSet(plan[r]) : e.action \in Blocker)
          => row' = row /\ events'[r] = "failed"]_vars

(* What a person has changed since a row was imported - a verdict on the   *)
(* draft, a revised text - no run overwrites.                              *)
ManualChangesKept ==
  [][\A r \in Runs : Ends(r)
        => \A x \in Rows : row[x] # None /\ row[x].last.data # row[x].vals
                             => row'[x] = row[x]]_vars

(* After a sync has succeeded, syncing the notes it has read once more     *)
(* finds a row for each of them and nothing left to write, ask or resolve. *)
SyncSettles ==
  [][\A r \in Runs : Ends(r) /\ event[r] = "succeeded"
        => \A e \in ToSet(plan[r]) : \E x \in Rows :
              /\ Leads(e.file, e.note, row'[x])
              /\ Planned(e.note, row'[x], "update") = "skip"]_vars

(* "Each apply attempt writes a sync_events summary"                       *)
(* (docs/import-allowlist.md): at least when nothing kills the process.    *)
AttemptsLogged ==
  \A r \in Runs : IsSync(r) /\ pc[r] \in {"done", "failed"} => events[r] # "none"

=============================================================================
