-------------------------- MODULE ImportSyncProofs --------------------------
(***************************************************************************)
(* Imports and syncs, for any number of notes, rows and callers.  Also     *)
(* when commands overlap, are killed or meet people's reviews, nothing     *)
(* becomes reviewed memory by itself and a blocked sync writes nothing.    *)
(* One command at a time, people's changes are kept; and when no two notes *)
(* have the same key, a key leads to one row and a sync settles its notes. *)
(***************************************************************************)
EXTENDS ImportSync, FiniteSetTheorems, TLAPS

NoWork == [x \in Rows |-> None]
Stage  == {"new", "plan", "decide", "apply", "log", "commit", "done", "failed", "killed"}
Event  == {"none", "failed", "succeeded"}
Version == MemoryRow \cup {None}

TypeOK ==
  /\ vault \in [Notes -> Contents]
  /\ row \in [Rows -> Version]
  /\ events \in [Runs -> Event] /\ event \in [Runs -> Event]
  /\ pc \in [Runs -> Stage]
  /\ command \in [Runs -> Commands]
  /\ plan \in [Runs -> Seq(Entry)]
  /\ todo \in [Runs -> SUBSET Nat]
  /\ work \in [Runs -> [Rows -> Version]]
  /\ aborted \in [Runs -> BOOLEAN]
  /\ agent \in Runs \cup {None}
  /\ accepted \subseteq Rows

(* How far r has got with its plan. *)
Progress(r) ==
  /\ \A i \in 1..Len(plan[r]) : plan[r][i].file = i
  /\ todo[r] \subseteq 1..Len(plan[r])
  /\ pc[r] # "apply" => todo[r] = {}
  /\ pc[r] = "plan" => Len(plan[r]) < NoteCount
  /\ ~Active(r) => plan[r] = <<>> /\ work[r] = NoWork

TInv == TypeOK /\ \A r \in Runs : Progress(r)

-----------------------------------------------------------------------------
LEMMA ContentFields ==
  ASSUME NEW c \in Contents
  PROVE  /\ c.kind \in Kind /\ c.status \in Status
         /\ c.core \in Cores /\ c.source \in Sources
  BY ImportAssumption DEF Cores, Sources

LEMMA TableType ==
  ASSUME NEW k \in Kind
  PROVE  Table(k) \in {Table(j) : j \in Kind}
  OBVIOUS

LEMMA RowForType ==
  ASSUME NEW e \in Entry
  PROVE  /\ RowFor(e) \in MemoryRow
         /\ RowFor(e).key = Key[e.file] /\ RowFor(e).table = Table(e.note.kind)
         /\ RowFor(e).last.note = e.note /\ RowFor(e).last.data = RowFor(e).vals
         /\ RowFor(e).vals = Values(e.note, ItemStatus(e))
         /\ RowFor(e).vals.status = ItemStatus(e) /\ RowFor(e).vals.core = e.note.core
<1>1. e.file \in Notes /\ e.note \in Contents /\ e.status \in {"draft", None}
  BY DEF Entry
<1>2. ItemStatus(e) \in Status
  BY <1>1, ContentFields DEF ItemStatus, Status
<1>3. Values(e.note, ItemStatus(e)) \in Column
  BY <1>1, <1>2, ContentFields DEF Values, Column
<1>4. Key[e.file] \in {Key[f] : f \in Notes} /\ Table(e.note.kind) \in {Table(k) : k \in Kind}
  BY <1>1, ContentFields
<1>5. /\ Values(e.note, ItemStatus(e)).status = ItemStatus(e)
      /\ Values(e.note, ItemStatus(e)).core = e.note.core
  BY DEF Values
<1> QED
  BY <1>1, <1>3, <1>4, <1>5 DEF RowFor, MemoryRow

LEMMA EntryForType ==
  ASSUME TypeOK, NEW r \in Runs, NEW f \in Notes
  PROVE  EntryFor(r, f) \in Entry /\ EntryFor(r, f).file = f
<1>1. vault[f] \in Contents
  BY DEF TypeOK
<1>2. command[r] \in Commands /\ command[r][2] \in {"skip", "error", "update"}
  BY ImportAssumption DEF TypeOK
<1>3. ASSUME NEW m PROVE Planned(vault[f], m, command[r][2]) \in Write \cup Blocker \cup {"skip"}
  BY <1>2 DEF Planned, Route, Write, Blocker
<1> QED
  BY <1>1, <1>3 DEF EntryFor, Entry, Write, Blocker

-----------------------------------------------------------------------------
(***************************************************************************)
(* Types and progress: one lemma per step.                                 *)
(***************************************************************************)
(* A step of r alone: the others are where they were. *)
LEMMA Others ==
  ASSUME TInv, NEW r \in Runs, TypeOK', Progress(r)',
         \A q \in Runs \ {r} : /\ pc'[q] = pc[q] /\ plan'[q] = plan[q]
                               /\ todo'[q] = todo[q] /\ work'[q] = work[q]
  PROVE  TInv'
<1> SUFFICES ASSUME NEW q \in Runs, q # r PROVE Progress(q)'
  BY DEF TInv
<1> QED
  BY DEF TInv, Progress, Active, NoWork

LEMMA StartT ==
  ASSUME TInv, NEW r \in Runs, Start(r)
  PROVE  TInv'
<1>1. TypeOK'
  BY DEF Start, TInv, TypeOK, people, Stage, Event
<1>2. Progress(r)'
  BY <1>1, ImportAssumption DEF Start, TInv, TypeOK, Progress, Active, NoWork
<1> QED
  BY <1>1, <1>2, Others DEF Start, TInv, TypeOK

LEMMA PlanNoteT ==
  ASSUME TInv, NEW r \in Runs, PlanNote(r)
  PROVE  TInv'
<1> DEFINE f == Len(plan[r]) + 1
<1>1. f \in Notes /\ plan[r] \in Seq(Entry)
  BY ImportAssumption DEF TInv, TypeOK, Progress, PlanNote, Notes
<1>2. PICK e \in Entry : e.file = f /\ e = EntryFor(r, f)
  BY <1>1, EntryForType DEF TInv
<1>3. /\ pc' = [pc EXCEPT ![r] = IF ~IsSync(r) /\ e.action \in Write THEN "apply" ELSE AfterPlan(r, f)]
      /\ plan' = [plan EXCEPT ![r] = Append(@, e)]
      /\ todo' = [todo EXCEPT ![r] = IF ~IsSync(r) /\ e.action \in Write THEN {f} ELSE {}]
      /\ aborted' = [aborted EXCEPT ![r] = @ \/ e.note.kind = "badid"]
      /\ UNCHANGED <<row, events, command, work, event, agent, people>>
  BY <1>2 DEF PlanNote
<1>4. Append(plan[r], e) \in Seq(Entry) /\ Len(Append(plan[r], e)) = f
      /\ \A i \in 1..f : Append(plan[r], e)[i] = IF i = f THEN e ELSE plan[r][i]
  BY <1>1, <1>2
<1>5. AfterPlan(r, f) \in {"plan", "decide", "commit"} /\ (AfterPlan(r, f) = "plan" => f < NoteCount)
  BY DEF AfterPlan
<1>6. TypeOK'
  <2>1. pc' \in [Runs -> Stage] /\ todo' \in [Runs -> SUBSET Nat]
    BY <1>1, <1>3, <1>5 DEF TInv, TypeOK, Stage, Notes
  <2>2. plan' \in [Runs -> Seq(Entry)]
    BY <1>3, <1>4 DEF TInv, TypeOK
  <2>3. aborted' \in [Runs -> BOOLEAN]
    <3>1. aborted \in [Runs -> BOOLEAN]
      BY DEF TInv, TypeOK
    <3> QED
      BY <1>3, <3>1, Zenon
  <2> QED
    BY <1>3, <2>1, <2>2, <2>3 DEF TInv, TypeOK, people
<1>7. Progress(r)'
  <2>1. plan'[r] = Append(plan[r], e) /\ pc'[r] \in {"apply", "plan", "decide", "commit"}
    BY <1>3, <1>5 DEF TInv, TypeOK
  <2>2. \A i \in 1..Len(plan'[r]) : plan'[r][i].file = i
    BY <2>1, <1>2, <1>4 DEF TInv, Progress
  <2>3. todo'[r] \subseteq 1..Len(plan'[r]) /\ (pc'[r] # "apply" => todo'[r] = {})
    BY <2>1, <1>1, <1>3, <1>4, <1>5 DEF TInv, TypeOK
  <2>4. pc'[r] = "plan" => Len(plan'[r]) < NoteCount
    BY <2>1, <1>3, <1>4, <1>5 DEF TInv, TypeOK
  <2> QED
    BY <2>1, <2>2, <2>3, <2>4 DEF Progress, Active
<1> QED
  BY <1>3, <1>6, <1>7, Others DEF TInv, TypeOK

LEMMA LogBlockedT ==
  ASSUME TInv, NEW r \in Runs, LogBlocked(r)
  PROVE  TInv'
<1>1. TypeOK'
  BY DEF LogBlocked, Goto, TInv, TypeOK, people, Stage, Event
<1>2. Progress(r)'
  BY <1>1 DEF LogBlocked, Goto, TInv, TypeOK, Progress, Active
<1> QED
  BY <1>1, <1>2, Others DEF LogBlocked, Goto, TInv, TypeOK

LEMMA GiveUpT ==
  ASSUME TInv, NEW r \in Runs, NEW from \in Stage, NEW to \in {"failed", "killed"}, GiveUp(r, from, to)
  PROVE  TInv'
<1>1. NoWork \in [Rows -> Version]
  BY DEF NoWork, Version
<1>2. TypeOK'
  BY <1>1 DEF GiveUp, Goto, TInv, TypeOK, people, Stage, Event, NoWork
<1>3. Progress(r)'
  BY <1>2 DEF GiveUp, Goto, TInv, TypeOK, Progress, Active, NoWork
<1> QED
  BY <1>2, <1>3, Others DEF GiveUp, Goto, TInv, TypeOK

LEMMA BeginApplyT ==
  ASSUME TInv, NEW r \in Runs, BeginApply(r)
  PROVE  TInv'
<1>1. TypeOK'
  BY DEF BeginApply, Goto, TInv, TypeOK, people, Stage
<1>2. Progress(r)'
  BY <1>1 DEF BeginApply, Goto, TInv, TypeOK, Progress, Active
<1> QED
  BY <1>1, <1>2, Others DEF BeginApply, Goto, TInv, TypeOK

LEMMA LogSucceededT ==
  ASSUME TInv, NEW r \in Runs, LogSucceeded(r)
  PROVE  TInv'
<1>1. TypeOK'
  BY DEF LogSucceeded, Goto, TInv, TypeOK, people, Stage, Event
<1>2. Progress(r)'
  BY <1>1 DEF LogSucceeded, Goto, TInv, TypeOK, Progress, Active
<1> QED
  BY <1>1, <1>2, Others DEF LogSucceeded, Goto, TInv, TypeOK

(* Where a run goes after an entry. *)
LEMMA AfterApplyT ==
  ASSUME TInv, NEW r \in Runs, NEW i \in todo[r]
  PROVE  /\ AfterApply(r, i) \in {"apply", "log", "plan", "commit", "decide"}
         /\ AfterApply(r, i) # "apply" => todo[r] \ {i} = {}
         /\ AfterApply(r, i) = "plan" => Len(plan[r]) < NoteCount
         /\ IsSync(r) => AfterApply(r, i) \in {"apply", "log"}
  BY DEF AfterApply, AfterPlan

LEMMA AppliedT ==
  ASSUME TInv, NEW r \in Runs, NEW i \in todo[r], NEW x \in Rows, NEW m \in MemoryRow,
         Applied(r, i, x, m)
  PROVE  TInv'
<1>1. /\ pc[r] = "apply" /\ pc' = [pc EXCEPT ![r] = AfterApply(r, i)]
      /\ todo' = [todo EXCEPT ![r] = @ \ {i}]
      /\ work' = [work EXCEPT ![r][x] = m]
      /\ agent' = r
      /\ UNCHANGED <<row, events, command, plan, event, aborted, people>>
  BY DEF Applied, Goto
<1>2. work' \in [Runs -> [Rows -> Version]]
  BY <1>1 DEF TInv, TypeOK, Version
<1>3. TypeOK'
  BY <1>1, <1>2, AfterApplyT DEF TInv, TypeOK, people, Stage
<1>4. Progress(r)'
  <2>1. /\ pc'[r] = AfterApply(r, i) /\ plan'[r] = plan[r] /\ todo'[r] = todo[r] \ {i}
        /\ pc[r] = "apply" /\ Progress(r)
    BY <1>1 DEF TInv, TypeOK
  <2> QED
    BY <2>1, AfterApplyT DEF Progress, Active
<1>5. \A q \in Runs \ {r} : /\ pc'[q] = pc[q] /\ plan'[q] = plan[q]
                            /\ todo'[q] = todo[q] /\ work'[q] = work[q]
  BY <1>1 DEF TInv, TypeOK
<1> QED
  BY <1>3, <1>4, <1>5, Others

LEMMA InsertT ==
  ASSUME TInv, NEW r \in Runs, Insert(r)
  PROVE  TInv'
<1>1. PICK i \in todo[r], x \in Rows : Applied(r, i, x, RowFor(plan[r][i]))
  BY DEF Insert
<1>2. plan[r][i] \in Entry
  BY DEF TInv, TypeOK, Progress
<1> QED
  BY <1>1, <1>2, RowForType, AppliedT

LEMMA UpdateT ==
  ASSUME TInv, NEW r \in Runs, Update(r)
  PROVE  TInv'
<1>1. PICK i \in todo[r], x \in Rows : Applied(r, i, x, RowFor(plan[r][i]))
  BY DEF Update, Existing
<1>2. plan[r][i] \in Entry
  BY DEF TInv, TypeOK, Progress
<1> QED
  BY <1>1, <1>2, RowForType, AppliedT

LEMMA UpdateRaisesT ==
  ASSUME TInv, NEW r \in Runs, UpdateRaises(r)
  PROVE  TInv'
<1>1. CASE GiveUp(r, "apply", "failed")
  BY <1>1, GiveUpT DEF Stage
<1>2. CASE ~GiveUp(r, "apply", "failed")
  <2>1. PICK i \in todo[r] :
          /\ pc[r] = "apply" /\ pc' = [pc EXCEPT ![r] = AfterApply(r, i)]
          /\ todo' = [todo EXCEPT ![r] = @ \ {i}] /\ agent' = r
          /\ UNCHANGED <<row, events, command, plan, work, event, aborted, people>>
    BY <1>2 DEF UpdateRaises, Goto
  <2>2. TypeOK'
    BY <2>1, AfterApplyT DEF TInv, TypeOK, people, Stage
  <2>3. Progress(r)'
    BY <2>1, <2>2, AfterApplyT DEF TInv, TypeOK, Progress, Active
  <2> QED
    BY <2>1, <2>2, <2>3, Others DEF TInv, TypeOK
<1> QED
  BY <1>1, <1>2

LEMMA VisibleType ==
  ASSUME TypeOK, NEW r \in Runs
  PROVE  /\ Visible(r) \in [Rows -> Version]
         /\ \A x \in Rows : Visible(r)[x] = IF work[r][x] # None THEN work[r][x] ELSE row[x]
  BY DEF Visible, TypeOK, Version

LEMMA CommitT ==
  ASSUME TInv, NEW r \in Runs, Commit(r)
  PROVE  TInv'
<1>1. NoWork \in [Rows -> Version]
  BY DEF NoWork, Version
<1>2. row' \in [Rows -> Version] /\ events' \in [Runs -> Event]
  BY VisibleType DEF Commit, TInv, TypeOK
<1>3. /\ pc[r] = "commit" /\ pc' = [pc EXCEPT ![r] = "done"]
      /\ work' = [work EXCEPT ![r] = NoWork]
      /\ agent' = IF agent = r THEN None ELSE agent
      /\ plan' = [plan EXCEPT ![r] = <<>>]
      /\ event' = [event EXCEPT ![r] = "none"]
      /\ UNCHANGED <<command, todo, aborted, vault, accepted>>
  BY DEF Commit, Goto, NoWork, people
<1>4. TypeOK'
  BY <1>1, <1>2, <1>3 DEF TInv, TypeOK, Stage, Event
<1>5. Progress(r)'
  <2>1. plan'[r] = <<>> /\ work'[r] = NoWork /\ todo'[r] = {} /\ pc'[r] = "done"
    BY <1>3 DEF TInv, TypeOK, Progress
  <2> QED
    BY <2>1 DEF Progress, Active
<1>6. \A q \in Runs \ {r} : /\ pc'[q] = pc[q] /\ plan'[q] = plan[q]
                            /\ todo'[q] = todo[q] /\ work'[q] = work[q]
  BY <1>3 DEF TInv, TypeOK
<1> QED
  BY <1>4, <1>5, <1>6, Others

(* People. *)
LEMMA EditNoteT ==
  ASSUME TInv, NEW f \in Notes, NEW c \in Contents, EditNote(f, c)
  PROVE  TInv'
<1>1. TypeOK'
  BY DEF EditNote, TInv, TypeOK, run
<1> QED
  BY <1>1 DEF EditNote, run, TInv, Progress, Active

LEMMA PersonT ==
  ASSUME TInv, NEW x \in Rows, Accept(x) \/ Reject(x) \/ Revise(x)
  PROVE  /\ TInv'
         /\ row[x] # None /\ row[x] \in MemoryRow /\ row'[x] \in MemoryRow
         /\ row' = [row EXCEPT ![x] = row'[x]]
         /\ row'[x].key = row[x].key /\ row'[x].table = row[x].table /\ row'[x].last = row[x].last
         /\ row'[x].vals.status = "reviewed" => row[x].vals.status = "reviewed" \/ Accept(x)
         /\ UNCHANGED <<events, pc, command, run, agent, vault>>
         /\ Overlap \/ \A r \in Runs : ~Active(r)
         /\ \A r \in Runs : work[r][x] = None
<1>1. row[x] # None /\ row[x] \in MemoryRow
  BY DEF TInv, TypeOK, Version, Accept, Reject, Revise
<1>2. PICK s \in Status, t \in Cores :
         /\ PersonWrites(x, [row[x] EXCEPT !.vals = [core |-> t, source |-> row[x].vals.source, status |-> s]])
         /\ s = "reviewed" => row[x].vals.status = "reviewed" \/ Accept(x)
         /\ accepted' \subseteq Rows
  <2>1. row[x].vals \in Column
    BY <1>1 DEF MemoryRow
  <2>2. CASE Accept(x)
    <3>1. [row[x] EXCEPT !.vals.status = "reviewed"] =
          [row[x] EXCEPT !.vals = [core |-> row[x].vals.core, source |-> row[x].vals.source, status |-> "reviewed"]]
      BY <1>1, <2>1 DEF MemoryRow, Column
    <3> QED
      BY <2>1, <2>2, <3>1 DEF Accept, Column, Status, TInv, TypeOK
  <2>3. CASE Reject(x)
    <3>1. [row[x] EXCEPT !.vals.status = "inactive"] =
          [row[x] EXCEPT !.vals = [core |-> row[x].vals.core, source |-> row[x].vals.source, status |-> "inactive"]]
      BY <1>1, <2>1 DEF MemoryRow, Column
    <3> QED
      BY <2>1, <2>3, <3>1 DEF Reject, Column, Status, TInv, TypeOK
  <2>4. CASE Revise(x)
    <3>1. PICK t \in Cores : PersonWrites(x, [row[x] EXCEPT !.vals.core = t])
      BY <2>4 DEF Revise
    <3>2. [row[x] EXCEPT !.vals.core = t] =
          [row[x] EXCEPT !.vals = [core |-> t, source |-> row[x].vals.source, status |-> row[x].vals.status]]
      BY <1>1, <2>1 DEF MemoryRow, Column
    <3> QED
      BY <2>1, <2>4, <3>1, <3>2 DEF Revise, Column, TInv, TypeOK
  <2> QED
    BY <2>2, <2>3, <2>4
<1> DEFINE m == [row[x] EXCEPT !.vals = [core |-> t, source |-> row[x].vals.source, status |-> s]]
<1>3. m \in MemoryRow /\ m.key = row[x].key /\ m.table = row[x].table /\ m.last = row[x].last /\ m.vals.status = s
  BY <1>1, <1>2 DEF MemoryRow, Column
<1>4. row' = [row EXCEPT ![x] = m] /\ UNCHANGED <<events, pc, command, run, agent, vault>>
      /\ (Overlap \/ \A r \in Runs : ~Active(r)) /\ (\A r \in Runs : work[r][x] = None)
  BY <1>2 DEF PersonWrites
<1>5. row'[x] = m /\ row' = [row EXCEPT ![x] = row'[x]]
  BY <1>4 DEF TInv, TypeOK
<1>6. TypeOK'
  BY <1>2, <1>3, <1>4 DEF TInv, TypeOK, run, Version
<1>7. TInv'
  BY <1>4, <1>6 DEF TInv, Progress, Active, run
<1> QED
  BY <1>1, <1>2, <1>3, <1>4, <1>5, <1>7

(* The values the variables take, and how far each run has got: its        *)
(* entries follow the notes' order, what is still to be applied is planned *)
(* and empty unless it applies, and a run that has ended leaves nothing.   *)
THEOREM TypeCorrect == Spec => []TInv
<1>1. Init => TInv
  <2> SUFFICES ASSUME Init PROVE TInv
    OBVIOUS
  <2>1. NoWork \in [Rows -> Version]
    BY DEF NoWork, Version
  <2> QED
    BY <2>1 DEF Init, TInv, TypeOK, Progress, Active, NoWork, Stage, Event, Version
<1>2. TInv /\ [Next]_vars => TInv'
  <2> SUFFICES ASSUME TInv, [Next]_vars PROVE TInv'
    OBVIOUS
  <2>1. ASSUME NEW r \in Runs, Start(r) \/ Step(r) \/ Kill(r) PROVE TInv'
    <3>1. CASE LogFails(r) \/ Kill(r)
      BY <3>1, GiveUpT DEF LogFails, Kill, Active, Stage
    <3> QED
      BY <2>1, <3>1, StartT, PlanNoteT, LogBlockedT, BeginApplyT, InsertT, UpdateT,
         UpdateRaisesT, LogSucceededT, CommitT DEF Step
  <2>2. CASE UNCHANGED vars
    BY <2>2 DEF vars, run, people, TInv, TypeOK, Progress, Active
  <2> QED
    BY <2>1, <2>2, EditNoteT, PersonT DEF Next
<1> QED
  BY <1>1, <1>2, PTL DEF Spec

-----------------------------------------------------------------------------
(***************************************************************************)
(* Where reviewed rows come from.  A version of a row is vouched for by a  *)
(* person or a receipt; an entry that is to be written makes a draft or a  *)
(* receipt, or refreshes a row that a person has accepted and that r still *)
(* finds when it applies the entry, because rows stay where they are.      *)
(***************************************************************************)
Vouched(x, m) ==
  m # None => /\ m.table = Table(m.last.note.kind)
              /\ m.vals.status = "reviewed" => x \in accepted \/ m.last.note.kind = "receipt"

InPlan(e, p)    == \E i \in 1..Len(p) : p[i] = e
SamePlace(m, n) == m.key = n.key /\ m.table = n.table

Sound(r, e) ==
  /\ e.action = "create" => e.status = "draft" \/ e.note.kind = "receipt"
  /\ e.action = "update" => \/ e.note.kind = "receipt"
                            \/ \E x \in accepted : Leads(e.file, e.note, Visible(r)[x])

RowsVouched  == \A x \in Rows : Vouched(x, row[x])
WorkVouched  == \A r \in Runs, x \in Rows : Vouched(x, work[r][x])
RowsStay     == \A r \in Runs, x \in Rows :
                  row[x] # None /\ work[r][x] # None => SamePlace(row[x], work[r][x])
NewRowsApart == \A q, r \in Runs, x \in Rows :
                  row[x] = None /\ work[q][x] # None /\ work[r][x] # None => q = r
PlansSound   == \A r \in Runs, e \in Entry : InPlan(e, plan[r]) => Sound(r, e)

VInv == RowsVouched /\ WorkVouched /\ RowsStay /\ NewRowsApart /\ PlansSound

(* What is behind the action that is planned. *)
LEMMA PlannedCases ==
  ASSUME NEW c, NEW m, NEW d \in {"skip", "error", "update"}
  PROVE  /\ Planned(c, m, d) = "create" => m = None /\ Route(c, m) # "ask"
         /\ Planned(c, m, d) = "update" => m # None /\ Route(c, m) = "auto" /\ ~DatabaseChanged(m)
         /\ Planned(c, m, d) = "skip" /\ d = "update" => m # None /\ Route(c, m) # "ask" /\ ~NoteChanged(c, m)
<1>1. Route(c, m) \in {"ask", "auto", "draft"}
  BY DEF Route
<1> QED
  BY <1>1 DEF Planned

LEMMA RouteAuto ==
  ASSUME NEW c, NEW m, Route(c, m) = "auto"
  PROVE  \/ c.kind = "receipt"
         \/ m # None /\ m.vals.status = "reviewed" /\ c.kind = "fact" /\ SameSource(c, m)
  BY DEF Route, SameSource

LEMMA ExistingRows ==
  ASSUME NEW r \in Runs, NEW f, NEW c
  PROVE  /\ Existing(r, f, c) = {x \in Rows : Leads(f, c, Visible(r)[x])}
         /\ IsFiniteSet(Existing(r, f, c))
<1>1. Existing(r, f, c) = {x \in Rows : Leads(f, c, Visible(r)[x])}
  BY DEF Existing, Leads
<1>2. IsFiniteSet(Rows)
  BY ImportAssumption, FS_Interval DEF Rows
<1> QED
  BY <1>1, <1>2, FS_Subset

(* An entry that is not rejected: what was found when it was planned.       *)
LEMMA EntryCases ==
  ASSUME TypeOK, NEW r \in Runs, NEW f \in Notes, NEW e, e = EntryFor(r, f)
  PROVE  /\ e.note = vault[f] /\ e.file = f
         /\ e.action = "create" =>
              /\ Existing(r, f, vault[f]) = {} /\ Route(vault[f], None) # "ask"
              /\ Route(vault[f], None) = "draft" => e.status = "draft"
         /\ e.action \in {"update", "skip"} /\ command[r][2] = "update" =>
              \E x \in Rows : /\ Leads(f, vault[f], Visible(r)[x])
                              /\ Route(vault[f], Visible(r)[x]) # "ask"
                              /\ e.action = "update" => /\ Route(vault[f], Visible(r)[x]) = "auto"
                                                        /\ ~DatabaseChanged(Visible(r)[x])
                                                        /\ e.status = None
                              /\ e.action = "skip" => ~NoteChanged(vault[f], Visible(r)[x])
         /\ e.action = "update" => command[r][2] = "update"
<1> DEFINE c == vault[f]
           found == Existing(r, f, c)
           m == IF found = {} THEN None ELSE Visible(r)[CHOOSE i \in found : TRUE]
<1>1. command[r][2] \in {"skip", "error", "update"}
  BY ImportAssumption DEF TypeOK
<1>2. CASE Raises(r, f, c)
  BY <1>2 DEF EntryFor
<1>3. CASE ~Raises(r, f, c)
  <2>1. e = [file |-> f, note |-> c, action |-> Planned(c, m, command[r][2]),
             status |-> IF m = None /\ Route(c, m) = "draft" THEN "draft" ELSE None]
    BY <1>3 DEF EntryFor
  <2>2. found # {} => \E x \in found : m = Visible(r)[x]
    OBVIOUS
  <2>3. found # {} => m # None
    BY <2>2, ExistingRows DEF Leads
  <2>4. e.action = "create" => found = {} /\ m = None /\ Route(c, None) # "ask"
    BY <2>1, <2>3, <1>1, PlannedCases
  <2>5. e.action = "update" => command[r][2] = "update"
    BY <2>1, <1>1 DEF Planned
  <2>6. ASSUME e.action \in {"update", "skip"}, command[r][2] = "update"
        PROVE  \E x \in Rows : /\ Leads(f, c, Visible(r)[x])
                               /\ Route(c, Visible(r)[x]) # "ask"
                               /\ e.action = "update" => /\ Route(c, Visible(r)[x]) = "auto"
                                                         /\ ~DatabaseChanged(Visible(r)[x])
                                                         /\ e.status = None
                               /\ e.action = "skip" => ~NoteChanged(c, Visible(r)[x])
    <3>1. m # None /\ Route(c, m) # "ask"
          /\ (e.action = "update" => Route(c, m) = "auto" /\ ~DatabaseChanged(m))
          /\ (e.action = "skip" => ~NoteChanged(c, m))
      BY <2>1, <2>6, PlannedCases
    <3>2. PICK x \in found : m = Visible(r)[x]
      BY <2>2, <3>1
    <3>3. x \in Rows /\ Leads(f, c, Visible(r)[x])
      BY ExistingRows
    <3>4. e.action = "update" => e.status = None
      BY <2>1, <3>1
    <3> QED
      BY <3>1, <3>2, <3>3, <3>4
  <2> QED
    BY <2>1, <2>4, <2>5, <2>6
<1> QED
  BY <1>2, <1>3

(* A version r sees is vouched for like the rows and r's own work.         *)
LEMMA VisibleVouched ==
  ASSUME TypeOK, VInv, NEW r \in Runs, NEW x \in Rows
  PROVE  Vouched(x, Visible(r)[x])
  BY VisibleType DEF VInv, RowsVouched, WorkVouched

(* plan_import_item plans what is sound. *)
LEMMA PlansAreSound ==
  ASSUME TypeOK, VInv, NEW r \in Runs, NEW f \in Notes
  PROVE  Sound(r, EntryFor(r, f))
<1> DEFINE c == vault[f]
<1>1. PICK e : e = EntryFor(r, f)
  OBVIOUS
<1>2. c \in Contents /\ command[r][2] \in {"skip", "error", "update"}
  BY ImportAssumption DEF TypeOK
<1>3. e.action = "create" => e.status = "draft" \/ e.note.kind = "receipt"
  <2>1. Route(c, None) \in {"ask", "auto", "draft"}
    BY DEF Route
  <2> QED
    BY <1>1, <2>1, EntryCases, RouteAuto
<1>4. ASSUME e.action = "update", e.note.kind # "receipt"
      PROVE  \E x \in accepted : Leads(e.file, e.note, Visible(r)[x])
  <2>1. PICK x \in Rows : Leads(f, c, Visible(r)[x]) /\ Route(c, Visible(r)[x]) = "auto"
    BY <1>1, <1>4, EntryCases
  <2>2. e.note = c /\ e.file = f
    BY <1>1, EntryCases
  <2> DEFINE m == Visible(r)[x]
  <2>3. m \in MemoryRow /\ m.vals.status = "reviewed" /\ c.kind = "fact"
    BY <2>1, <2>2, <1>4, RouteAuto, VisibleType DEF Leads, Version
  <2>4. m.table = "fact" /\ m.last.note \in Contents /\ m.last.note.kind \in Kind
    BY <2>1, <2>3, ContentFields DEF Leads, Table, MemoryRow
  <2>5. Table(m.last.note.kind) = "fact" /\ (m.last.note.kind = "receipt" \/ x \in accepted)
    BY <2>1, <2>3, <2>4, VisibleVouched DEF Vouched, Leads
  <2>6. m.last.note.kind # "receipt"
    BY <2>5 DEF Table
  <2> QED
    BY <2>1, <2>2, <2>5, <2>6
<1> QED
  BY <1>1, <1>3, <1>4 DEF Sound

-----------------------------------------------------------------------------
(* A step that leaves rows and work alone. *)
LEMMA StillV ==
  ASSUME TInv, VInv, UNCHANGED <<row, work, accepted>>,
         \A q \in Runs, e \in Entry : InPlan(e, plan'[q]) => Sound(q, e)
  PROVE  VInv'
<1>1. \A q \in Runs : Visible(q)' = Visible(q)
  BY DEF Visible
<1>2. PlansSound'
  <2> SUFFICES ASSUME NEW q \in Runs, NEW e \in Entry, InPlan(e, plan'[q]) PROVE Sound(q, e)'
    BY DEF PlansSound, InPlan
  <2> QED
    BY <1>1 DEF Sound, Leads
<1> QED
  BY <1>2 DEF VInv, RowsVouched, WorkVouched, RowsStay, NewRowsApart, Vouched

(* Rows stay where they are, accepted rows stay accepted: what is sound    *)
(* stays sound.                                                            *)
LEMMA SoundStays ==
  ASSUME NEW r \in Runs, NEW e, Sound(r, e), accepted \subseteq Rows, accepted \subseteq accepted',
         \A x \in Rows : Visible(r)[x] # None =>
           Visible(r)'[x] # None /\ SamePlace(Visible(r)[x], Visible(r)'[x])
  PROVE  Sound(r, e)'
  BY DEF Sound, Leads, SamePlace

(* The work of r is given up. *)
LEMMA GiveUpV ==
  ASSUME TInv, VInv, NEW r \in Runs, NEW from, NEW to, GiveUp(r, from, to)
  PROVE  VInv'
<1>1. /\ work' = [work EXCEPT ![r] = NoWork] /\ plan' = [plan EXCEPT ![r] = <<>>]
      /\ UNCHANGED <<row, accepted>>
  BY DEF GiveUp, people, NoWork
<1>2. /\ work'[r] = NoWork /\ plan'[r] = <<>>
      /\ \A q \in Runs \ {r} : work'[q] = work[q] /\ plan'[q] = plan[q]
      /\ \A x \in Rows : NoWork[x] = None
  BY <1>1 DEF TInv, TypeOK, NoWork
<1>3. PlansSound'
  <2> SUFFICES ASSUME NEW q \in Runs, NEW e \in Entry, InPlan(e, plan'[q]) PROVE Sound(q, e)'
    BY DEF PlansSound, InPlan
  <2>1. q # r /\ plan'[q] = plan[q] /\ work'[q] = work[q]
    BY <1>2 DEF InPlan
  <2>2. Visible(q)' = Visible(q)
    BY <1>1, <2>1 DEF Visible
  <2> QED
    BY <1>1, <2>1, <2>2 DEF VInv, PlansSound, Sound, Leads
<1> QED
  BY <1>1, <1>2, <1>3 DEF VInv, RowsVouched, WorkVouched, RowsStay, NewRowsApart, Vouched

(* r writes m over the version it sees, or where nobody has a row.         *)
LEMMA AppliedV ==
  ASSUME TInv, VInv, NEW r \in Runs, NEW i \in todo[r], NEW x \in Rows, NEW m \in MemoryRow,
         Applied(r, i, x, m), Vouched(x, m),
         \/ FreeRow(x)
         \/ Visible(r)[x] # None /\ SamePlace(Visible(r)[x], m)
  PROVE  VInv'
<1>1. /\ work' = [work EXCEPT ![r][x] = m]
      /\ UNCHANGED <<row, accepted, plan>>
  BY DEF Applied, people
<1>2. /\ work'[r][x] = m
      /\ \A q \in Runs, y \in Rows : ~(q = r /\ y = x) => work'[q][y] = work[q][y]
  BY <1>1 DEF TInv, TypeOK
<1>3. m # None
  BY NoneIsNoRow
<1>4. TypeOK'
  BY AppliedT DEF TInv
<1>5. \A q \in Runs, y \in Rows :
        Visible(q)'[y] = IF q = r /\ y = x THEN m ELSE Visible(q)[y]
  BY <1>1, <1>2, <1>3 DEF Visible
<1>6. FreeRow(x) => row[x] = None /\ \A q \in Runs : work[q][x] = None
  BY DEF FreeRow, Taken
<1>7. ASSUME NEW q \in Runs, NEW y \in Rows, Visible(q)[y] # None
      PROVE  Visible(q)'[y] # None /\ SamePlace(Visible(q)[y], Visible(q)'[y])
  <2>1. CASE q = r /\ y = x
    <3>1. ~FreeRow(x)
      BY <1>6, <1>7, <2>1, VisibleType DEF TInv
    <3> QED
      BY <2>1, <3>1, <1>3, <1>5
  <2>2. CASE ~(q = r /\ y = x)
    BY <2>2, <1>5, <1>7 DEF SamePlace
  <2> QED
    BY <2>1, <2>2
<1>8. PlansSound'
  <2> SUFFICES ASSUME NEW q \in Runs, NEW e \in Entry, InPlan(e, plan'[q]) PROVE Sound(q, e)'
    BY DEF PlansSound, InPlan
  <2>1. Sound(q, e)
    BY <1>1 DEF PlansSound, VInv
  <2> QED
    BY <1>1, <1>7, <2>1, SoundStays DEF TInv, TypeOK
<1>9. RowsVouched' /\ WorkVouched'
  BY <1>1, <1>2 DEF VInv, RowsVouched, WorkVouched, Vouched
<1>10. RowsStay'
  <2> SUFFICES ASSUME NEW q \in Runs, NEW y \in Rows, row[y] # None, work'[q][y] # None
               PROVE  SamePlace(row[y], work'[q][y])
    BY <1>1 DEF RowsStay
  <2>1. CASE q = r /\ y = x
    <3>1. Visible(r)[x] # None /\ SamePlace(Visible(r)[x], m)
      BY <1>6, <2>1
    <3>2. SamePlace(row[x], Visible(r)[x])
      BY <2>1, VisibleType DEF VInv, RowsStay, TInv, SamePlace
    <3> QED
      BY <1>2, <2>1, <3>1, <3>2 DEF SamePlace
  <2>2. CASE ~(q = r /\ y = x)
    BY <2>2, <1>2 DEF VInv, RowsStay
  <2> QED
    BY <2>1, <2>2
<1>11. NewRowsApart'
  <2> SUFFICES ASSUME NEW p \in Runs, NEW q \in Runs, NEW y \in Rows,
                      row[y] = None, work'[p][y] # None, work'[q][y] # None
               PROVE  p = q
    BY <1>1 DEF NewRowsApart
  <2>1. CASE FreeRow(x)
    BY <2>1, <1>2, <1>6 DEF VInv, NewRowsApart
  <2>2. CASE Visible(r)[x] # None
    <3>1. row[x] = None => work[r][x] # None
      BY <2>2, VisibleType DEF TInv
    <3> QED
      BY <3>1, <1>2 DEF VInv, NewRowsApart
  <2> QED
    BY <2>1, <2>2
<1> QED
  BY <1>8, <1>9, <1>10, <1>11 DEF VInv

LEMMA InsertV ==
  ASSUME TInv, VInv, NEW r \in Runs, Insert(r)
  PROVE  VInv'
<1>1. PICK i \in todo[r], x \in Rows :
        plan[r][i].action = "create" /\ FreeRow(x) /\ Applied(r, i, x, RowFor(plan[r][i]))
  BY DEF Insert
<1> DEFINE e == plan[r][i]
<1>2. e \in Entry /\ Sound(r, e)
  <2>1. e \in Entry /\ InPlan(e, plan[r])
    BY DEF TInv, TypeOK, Progress, InPlan
  <2> QED
    BY <2>1 DEF VInv, PlansSound
<1>3. ItemStatus(e) = "reviewed" => e.note.kind = "receipt"
  BY <1>1, <1>2, NoneIsNoRow DEF Sound, ItemStatus, Status
<1>4. Vouched(x, RowFor(e))
  BY <1>2, <1>3, RowForType DEF Vouched
<1> QED
  BY <1>1, <1>2, <1>4, RowForType, AppliedV

(* The row that update_import_item finds is the one that was planned for,  *)
(* unless it raises.                                                       *)
LEMMA UpdateV ==
  ASSUME TInv, VInv, NEW r \in Runs, Update(r)
  PROVE  VInv'
<1>1. PICK i \in todo[r] :
        LET e == plan[r][i]
            found == Existing(r, e.file, e.note)
        IN /\ e.action = "update" /\ Cardinality(found) = 1
           /\ \E x \in found : Applied(r, i, x, RowFor(e))
  BY DEF Update
<1> DEFINE e == plan[r][i]
<1>2. e \in Entry /\ Sound(r, e)
  <2>1. e \in Entry /\ InPlan(e, plan[r])
    BY DEF TInv, TypeOK, Progress, InPlan
  <2> QED
    BY <2>1 DEF VInv, PlansSound
<1>3. PICK x \in Existing(r, e.file, e.note) : Applied(r, i, x, RowFor(e))
  BY <1>1
<1>4. x \in Rows /\ Leads(e.file, e.note, Visible(r)[x])
  BY ExistingRows
<1>5. e.note.kind = "receipt" \/ x \in accepted
  <2> SUFFICES ASSUME e.note.kind # "receipt" PROVE x \in accepted
    OBVIOUS
  <2>1. PICK y \in accepted : Leads(e.file, e.note, Visible(r)[y])
    BY <1>1, <1>2 DEF Sound
  <2>2. y \in Existing(r, e.file, e.note)
    BY <2>1, ExistingRows DEF TInv, TypeOK
  <2>3. PICK z : Existing(r, e.file, e.note) = {z}
    BY <1>1, ExistingRows, FS_Singleton
  <2> QED
    BY <2>1, <2>2, <2>3
<1>6. Vouched(x, RowFor(e))
  BY <1>2, <1>5, RowForType DEF Vouched
<1>7. Visible(r)[x] # None /\ SamePlace(Visible(r)[x], RowFor(e))
  BY <1>2, <1>4, RowForType DEF Leads, SamePlace
<1> QED
  BY <1>2, <1>3, <1>4, <1>6, <1>7, RowForType, AppliedV

LEMMA CommitV ==
  ASSUME TInv, VInv, NEW r \in Runs, Commit(r)
  PROVE  VInv'
<1>1. /\ work' = [work EXCEPT ![r] = NoWork] /\ plan' = [plan EXCEPT ![r] = <<>>]
      /\ UNCHANGED accepted /\ (row' = row \/ row' = Visible(r))
  BY DEF Commit, people, NoWork
<1>2. /\ work'[r] = NoWork /\ plan'[r] = <<>>
      /\ \A q \in Runs \ {r} : work'[q] = work[q] /\ plan'[q] = plan[q]
      /\ \A x \in Rows : NoWork[x] = None
  BY <1>1 DEF TInv, TypeOK, NoWork
<1>3. TypeOK'
  BY CommitT DEF TInv
<1>4. \A x \in Rows : row'[x] = row[x] \/ (work[r][x] # None /\ row'[x] = work[r][x])
  BY <1>1, VisibleType DEF TInv
<1>5. \A x \in Rows : row[x] # None => row'[x] # None /\ SamePlace(row[x], row'[x])
  BY <1>4 DEF VInv, RowsStay, SamePlace
<1>6. RowsVouched' /\ WorkVouched'
  BY <1>1, <1>2, <1>4 DEF VInv, RowsVouched, WorkVouched, Vouched
<1>7. RowsStay'
  <2> SUFFICES ASSUME NEW q \in Runs, NEW x \in Rows, row'[x] # None, work'[q][x] # None
               PROVE  SamePlace(row'[x], work'[q][x])
    BY DEF RowsStay
  <2>1. q # r /\ work'[q][x] = work[q][x]
    BY <1>2
  <2>2. row[x] # None
    BY <2>1, <1>4 DEF VInv, NewRowsApart
  <2> QED
    BY <2>1, <2>2, <1>5 DEF VInv, RowsStay, SamePlace
<1>8. NewRowsApart'
  BY <1>2, <1>5 DEF VInv, NewRowsApart
<1>9. PlansSound'
  <2> SUFFICES ASSUME NEW q \in Runs, NEW e \in Entry, InPlan(e, plan'[q]) PROVE Sound(q, e)'
    BY DEF PlansSound, InPlan
  <2>1. q # r /\ plan'[q] = plan[q] /\ work'[q] = work[q]
    BY <1>2 DEF InPlan
  <2>2. \A x \in Rows : Visible(q)[x] # None =>
          Visible(q)'[x] # None /\ SamePlace(Visible(q)[x], Visible(q)'[x])
    BY <1>5, <2>1 DEF Visible, SamePlace
  <2> QED
    BY <1>1, <2>1, <2>2, SoundStays DEF VInv, PlansSound, TInv, TypeOK
<1> QED
  BY <1>6, <1>7, <1>8, <1>9 DEF VInv

LEMMA PersonV ==
  ASSUME TInv, VInv, NEW x \in Rows, Accept(x) \/ Reject(x) \/ Revise(x)
  PROVE  VInv'
<1>1. /\ row[x] # None /\ row'[x] \in MemoryRow /\ row' = [row EXCEPT ![x] = row'[x]]
      /\ row'[x].key = row[x].key /\ row'[x].table = row[x].table /\ row'[x].last = row[x].last
      /\ row'[x].vals.status = "reviewed" => row[x].vals.status = "reviewed" \/ Accept(x)
      /\ work' = work /\ plan' = plan /\ TypeOK'
      /\ \A r \in Runs : work[r][x] = None
  BY PersonT DEF run, TInv
<1>2. accepted \subseteq accepted' /\ (Accept(x) => x \in accepted')
  BY DEF Accept, Reject, Revise
<1>3. row'[x] # None /\ \A y \in Rows \ {x} : row'[y] = row[y]
  BY <1>1, NoneIsNoRow DEF TInv, TypeOK
<1>4. RowsVouched' /\ WorkVouched'
  BY <1>1, <1>2, <1>3 DEF VInv, RowsVouched, WorkVouched, Vouched
<1>5. RowsStay' /\ NewRowsApart'
  BY <1>1, <1>3 DEF VInv, RowsStay, NewRowsApart
<1>6. PlansSound'
  <2> SUFFICES ASSUME NEW q \in Runs, NEW e \in Entry, InPlan(e, plan'[q]) PROVE Sound(q, e)'
    BY DEF PlansSound, InPlan
  <2>1. \A y \in Rows : Visible(q)[y] # None =>
          Visible(q)'[y] # None /\ SamePlace(Visible(q)[y], Visible(q)'[y])
    BY <1>1, <1>3 DEF Visible, SamePlace
  <2> QED
    BY <1>1, <1>2, <2>1, SoundStays DEF VInv, PlansSound, TInv, TypeOK
<1> QED
  BY <1>4, <1>5, <1>6 DEF VInv

LEMMA PlanNoteV ==
  ASSUME TInv, VInv, NEW r \in Runs, PlanNote(r)
  PROVE  VInv'
<1> DEFINE f == Len(plan[r]) + 1
<1>1. f \in Notes /\ plan \in [Runs -> Seq(Entry)]
  BY ImportAssumption DEF TInv, TypeOK, Progress, PlanNote, Notes
<1>2. PICK e \in Entry : e = EntryFor(r, f)
  BY <1>1, EntryForType DEF TInv
<1>3. plan' = [plan EXCEPT ![r] = Append(@, e)] /\ UNCHANGED <<row, work, accepted>>
  BY <1>2 DEF PlanNote, people
<1>4. Sound(r, e)
  BY <1>1, <1>2, PlansAreSound DEF TInv
<1>5. ASSUME NEW q \in Runs, NEW d \in Entry, InPlan(d, plan'[q]) PROVE Sound(q, d)
  <2>1. CASE q = r
    <3>1. plan'[q] = Append(plan[r], e) /\ plan[r] \in Seq(Entry)
      BY <1>1, <1>3, <2>1
    <3>2. d = e \/ InPlan(d, plan[r])
      BY <1>2, <1>5, <3>1 DEF InPlan
    <3> QED
      BY <1>4, <2>1, <3>2 DEF VInv, PlansSound
  <2>2. CASE q # r
    BY <1>1, <1>3, <1>5, <2>2 DEF VInv, PlansSound
  <2> QED
    BY <2>1, <2>2
<1> QED
  BY <1>3, <1>5, StillV

LEMMA VouchedStep ==
  ASSUME TInv, VInv, [Next]_vars
  PROVE  VInv'
<1>1. ASSUME UNCHANGED <<row, work, accepted, plan>> PROVE VInv'
  BY <1>1, StillV DEF VInv, PlansSound
<1>2. ASSUME NEW r \in Runs, Start(r) \/ Step(r) \/ Kill(r) PROVE VInv'
  <2>1. CASE LogFails(r) \/ Kill(r)
    BY <2>1, GiveUpV DEF LogFails, Kill
  <2>2. CASE UpdateRaises(r)
    BY <2>2, <1>1, GiveUpV DEF UpdateRaises, people
  <2>3. CASE Start(r) \/ LogBlocked(r) \/ BeginApply(r) \/ LogSucceeded(r)
    BY <2>3, <1>1 DEF Start, LogBlocked, BeginApply, LogSucceeded, people
  <2> QED
    BY <1>2, <2>1, <2>2, <2>3, PlanNoteV, InsertV, UpdateV, CommitV DEF Step
<1>3. ASSUME NEW f \in Notes, NEW c \in Contents, EditNote(f, c) PROVE VInv'
  BY <1>1, <1>3 DEF EditNote, run
<1>4. CASE UNCHANGED vars
  BY <1>1, <1>4 DEF vars, run, people
<1> QED
  BY <1>2, <1>3, <1>4, PersonV DEF Next

(* Nothing becomes reviewed memory by being imported: also when commands   *)
(* overlap, are killed and meet reviews, edits and revisions.              *)
THEOREM ReviewIsNeeded == Spec => []ReviewedMeansAccepted
<1>1. Init /\ TInv => VInv
  <2> SUFFICES ASSUME Init, TInv PROVE VInv
    OBVIOUS
  <2>1. /\ \A x \in Rows : row[x] = None
        /\ \A r \in Runs : plan[r] = <<>> /\ \A x \in Rows : work[r][x] = None
    BY DEF Init
  <2> QED
    BY <2>1 DEF VInv, RowsVouched, WorkVouched, RowsStay, NewRowsApart, PlansSound, InPlan, Vouched
<1>2. VInv => ReviewedMeansAccepted
  BY DEF VInv, RowsVouched, Vouched, ReviewedMeansAccepted
<1> QED
  BY <1>1, <1>2, TypeCorrect, VouchedStep, PTL DEF Spec

-----------------------------------------------------------------------------
(***************************************************************************)
(* A sync whose plan is blocked.  Until it decides it has written nothing; *)
(* it applies only a plan that nothing blocks; and it commits a blocked    *)
(* plan with nothing but the failed event.                                 *)
(***************************************************************************)
Blocks(p) == \E e \in ToSet(p) : e.action \in Blocker

HeldBack(r) ==
  IsSync(r) =>
    /\ pc[r] \in {"plan", "decide"} => work[r] = NoWork
    /\ pc[r] \in {"apply", "log"} => ~Blocks(plan[r])
    /\ pc[r] = "commit" /\ Blocks(plan[r]) =>
         work[r] = NoWork /\ event[r] = "failed" /\ ~aborted[r]

BInv == \A r \in Runs : HeldBack(r)

(* Whatever a run does, the other runs are where they were. *)
StillThere(q) ==
  /\ pc'[q] = pc[q] /\ command'[q] = command[q] /\ plan'[q] = plan[q] /\ todo'[q] = todo[q]
  /\ work'[q] = work[q] /\ event'[q] = event[q] /\ aborted'[q] = aborted[q]

LEMMA RunsApart ==
  ASSUME TInv, NEW r \in Runs, NEW q \in Runs \ {r}, Start(r) \/ Step(r) \/ Kill(r)
  PROVE  StillThere(q)
<1> USE DEF TInv, TypeOK, StillThere, Goto
<1>1. CASE Start(r)
  BY <1>1 DEF Start
<1>2. CASE PlanNote(r)
  BY <1>2 DEF PlanNote
<1>3. CASE LogBlocked(r) \/ BeginApply(r) \/ LogSucceeded(r)
  BY <1>3 DEF LogBlocked, BeginApply, LogSucceeded
<1>4. CASE LogFails(r) \/ Kill(r)
  BY <1>4 DEF LogFails, Kill, GiveUp
<1>5. CASE Insert(r) \/ Update(r)
  BY <1>5 DEF Insert, Update, Applied
<1>6. CASE UpdateRaises(r)
  BY <1>6 DEF UpdateRaises, GiveUp
<1>7. CASE Commit(r)
  BY <1>7 DEF Commit
<1> QED
  BY <1>1, <1>2, <1>3, <1>4, <1>5, <1>6, <1>7 DEF Step
(* A run ends with its COMMIT. *)
LEMMA OnlyCommitEnds ==
  ASSUME TInv, Next, NEW r \in Runs, Ends(r)
  PROVE  Commit(r)
<1>1. pc[r] = "commit" /\ pc'[r] = "done"
  BY DEF Ends
<1>2. PICK q \in Runs : Start(q) \/ Step(q) \/ Kill(q)
  BY <1>1 DEF Next, EditNote, Accept, Reject, Revise, PersonWrites
<1>3. q = r
  BY <1>1, <1>2, RunsApart DEF StillThere
<1>4. ~Start(r) /\ ~Kill(r)
  BY <1>1 DEF Start, Active, Kill, GiveUp, Goto, TInv, TypeOK
<1>5. ~PlanNote(r) /\ ~LogBlocked(r) /\ ~LogFails(r) /\ ~BeginApply(r) /\ ~LogSucceeded(r)
  BY <1>1 DEF PlanNote, LogBlocked, LogFails, GiveUp, BeginApply, LogSucceeded, Goto
<1>6. ~Insert(r) /\ ~Update(r) /\ ~UpdateRaises(r)
  BY <1>1 DEF Insert, Update, UpdateRaises, Applied, GiveUp, Goto
<1> QED
  BY <1>2, <1>3, <1>4, <1>5, <1>6 DEF Step

LEMMA HeldBackStep ==
  ASSUME TInv, NEW r \in Runs, HeldBack(r), Start(r) \/ Step(r) \/ Kill(r)
  PROVE  HeldBack(r)'
<1>1. CASE Start(r)
  BY <1>1 DEF Start, TInv, TypeOK, Progress, HeldBack
<1>2. CASE PlanNote(r)
  <2>1. PICK e : pc' = [pc EXCEPT ![r] = IF ~IsSync(r) /\ e.action \in Write THEN "apply"
                                         ELSE AfterPlan(r, Len(plan[r]) + 1)]
    BY <1>2 DEF PlanNote
  <2>2. IsSync(r) => pc'[r] \in {"plan", "decide"}
    BY <2>1 DEF AfterPlan, TInv, TypeOK
  <2>3. pc[r] = "plan" /\ UNCHANGED <<command, work>>
    BY <1>2 DEF PlanNote
  <2> QED
    BY <2>2, <2>3 DEF HeldBack, IsSync
<1>3. CASE LogBlocked(r)
  BY <1>3 DEF LogBlocked, Goto, TInv, TypeOK, HeldBack, IsSync
<1>4. CASE LogFails(r) \/ Kill(r)
  <2>1. pc'[r] \in {"failed", "killed"}
    BY <1>4 DEF LogFails, Kill, GiveUp, Goto, TInv, TypeOK
  <2> QED
    BY <2>1 DEF HeldBack
<1>5. CASE BeginApply(r)
  <2>1. /\ ~Blocks(plan'[r]) /\ pc'[r] \in {"apply", "log"}
    BY <1>5 DEF BeginApply, Blocked, Blocks, Goto, TInv, TypeOK
  <2> QED
    BY <2>1 DEF HeldBack
<1>6. CASE LogSucceeded(r)
  <2>1. /\ pc[r] = "log" /\ pc'[r] = "commit" /\ plan'[r] = plan[r] /\ command'[r] = command[r]
    BY <1>6 DEF LogSucceeded, Goto, TInv, TypeOK
  <2> QED
    BY <2>1 DEF HeldBack, IsSync
<1>7. CASE Insert(r) \/ Update(r) \/ (UpdateRaises(r) /\ ~GiveUp(r, "apply", "failed"))
  <2>1. PICK i \in todo[r] : /\ pc[r] = "apply" /\ pc' = [pc EXCEPT ![r] = AfterApply(r, i)]
                             /\ plan' = plan /\ command' = command
    BY <1>7 DEF Insert, Update, UpdateRaises, Applied, Goto
  <2>2. IsSync(r) => pc'[r] \in {"apply", "log"}
    BY <2>1, AfterApplyT DEF TInv, TypeOK
  <2> QED
    BY <2>1, <2>2 DEF HeldBack, IsSync
<1>8. CASE GiveUp(r, "apply", "failed") \/ Commit(r)
  <2>1. pc'[r] \in {"failed", "done"}
    BY <1>8 DEF GiveUp, Commit, Goto, TInv, TypeOK
  <2> QED
    BY <2>1 DEF HeldBack
<1> QED
  BY <1>1, <1>2, <1>3, <1>4, <1>5, <1>6, <1>7, <1>8 DEF Step

LEMMA HeldBackNext ==
  ASSUME TInv, BInv, [Next]_vars
  PROVE  BInv'
<1>1. ASSUME NEW r \in Runs, Start(r) \/ Step(r) \/ Kill(r), NEW q \in Runs PROVE HeldBack(q)'
  <2>1. CASE q = r
    BY <1>1, <2>1, HeldBackStep DEF BInv
  <2>2. CASE q # r
    BY <1>1, <2>2, RunsApart DEF BInv, HeldBack, IsSync, StillThere
  <2> QED
    BY <2>1, <2>2
<1>2. ASSUME UNCHANGED <<pc, command, run>>, NEW q \in Runs PROVE HeldBack(q)'
  BY <1>2 DEF run, BInv, HeldBack, IsSync
<1> QED
  BY <1>1, <1>2 DEF Next, vars, EditNote, Accept, Reject, Revise, PersonWrites, BInv

(* A sync whose plan asks, conflicts or rejects commits no memory row and  *)
(* a failed event: also when other runs, people and edits overlap with it. *)
THEOREM BlockedSyncsWriteNothing == Spec => BlockedWritesNothing
<1>1. Init => BInv
  BY DEF Init, BInv, HeldBack
<1>2. TInv /\ BInv /\ [Next]_vars => BInv'
  BY HeldBackNext
<1>3. TInv /\ BInv /\ [Next]_vars =>
        [\A r \in Runs : Ends(r) /\ IsSync(r) /\ (\E e \in ToSet(plan[r]) : e.action \in Blocker)
            => row' = row /\ events'[r] = "failed"]_vars
  <2> SUFFICES ASSUME TInv, BInv, Next, NEW r \in Runs, Ends(r), IsSync(r), Blocks(plan[r])
               PROVE  row' = row /\ events'[r] = "failed"
    BY DEF Blocks
  <2>1. Commit(r)
    BY OnlyCommitEnds
  <2>2. work[r] = NoWork /\ event[r] = "failed" /\ ~aborted[r]
    BY DEF BInv, HeldBack, Ends
  <2>3. row' = Visible(r) /\ events' = [events EXCEPT ![r] = event[r]]
    BY <2>1, <2>2 DEF Commit
  <2>4. Visible(r) = row
    BY <2>2 DEF Visible, NoWork, TInv, TypeOK
  <2> QED
    BY <2>2, <2>3, <2>4 DEF TInv, TypeOK
<1> QED
  BY <1>1, <1>2, <1>3, TypeCorrect, PTL DEF Spec, BlockedWritesNothing

-----------------------------------------------------------------------------
(***************************************************************************)
(* One command at a time: whatever a run does, the others are at rest, and *)
(* people act when all of them are.                                        *)
(***************************************************************************)
Alone == \A q, r \in Runs : Active(q) /\ Active(r) => q = r

AtRest(q) == ~Active(q) /\ plan[q] = <<>> /\ work[q] = NoWork /\ todo[q] = {}

LEMMA RestT ==
  ASSUME TInv, NEW q \in Runs, ~Active(q)
  PROVE  AtRest(q)
  BY DEF TInv, Progress, AtRest, Active

LEMMA StepsAreActive ==
  ASSUME TInv, NEW r \in Runs, Step(r) \/ Kill(r)
  PROVE  Active(r)
<1> USE DEF Active, Goto
<1>1. CASE PlanNote(r) \/ LogBlocked(r) \/ BeginApply(r) \/ LogSucceeded(r) \/ Commit(r) \/ Kill(r)
  BY <1>1 DEF PlanNote, LogBlocked, BeginApply, LogSucceeded, Commit, Kill
<1>2. CASE LogFails(r) \/ Insert(r) \/ Update(r) \/ UpdateRaises(r)
  BY <1>2 DEF LogFails, Insert, Update, UpdateRaises, Applied, GiveUp
<1> QED
  BY <1>1, <1>2 DEF Step

LEMMA OthersRest ==
  ASSUME TInv, Alone, ~Overlap, NEW r \in Runs, NEW q \in Runs \ {r}, Start(r) \/ Step(r) \/ Kill(r)
  PROVE  AtRest(q) /\ AtRest(q)'
<1>1. ~Active(q)
  BY StepsAreActive DEF Start, Alone
<1>2. AtRest(q)
  BY <1>1, RestT
<1>3. StillThere(q)
  BY RunsApart
<1> QED
  BY <1>2, <1>3 DEF AtRest, Active, StillThere

LEMMA PeopleWait ==
  ASSUME TInv, ~Overlap, NEW x \in Rows, Accept(x) \/ Reject(x) \/ Revise(x), NEW q \in Runs
  PROVE  AtRest(q) /\ AtRest(q)'
<1>1. ~Active(q) /\ UNCHANGED <<pc, run>>
  BY PersonT
<1> QED
  BY <1>1, RestT DEF AtRest, Active, run

LEMMA AloneStep ==
  ASSUME TInv, Alone, ~Overlap, [Next]_vars
  PROVE  Alone'
<1>1. ASSUME NEW r \in Runs, Start(r) \/ Step(r) \/ Kill(r) PROVE Alone'
  BY <1>1, OthersRest DEF Alone, AtRest
<1>2. ASSUME pc' = pc PROVE Alone'
  BY <1>2 DEF Alone, Active
<1> QED
  BY <1>1, <1>2 DEF Next, vars, EditNote, Accept, Reject, Revise, PersonWrites

(* What an applied entry changes. *)
LEMMA AppliedEffect ==
  ASSUME TInv, NEW r \in Runs, NEW i \in todo[r], NEW x \in Rows, NEW m \in MemoryRow,
         Applied(r, i, x, m)
  PROVE  /\ UNCHANGED <<row, command, plan, event, aborted>>
         /\ pc[r] = "apply" /\ pc'[r] = AfterApply(r, i) /\ todo'[r] = todo[r] \ {i}
         /\ \A y \in Rows : work'[r][y] = IF y = x THEN m ELSE work[r][y]
         /\ \A y \in Rows : Visible(r)'[y] = IF y = x THEN m ELSE Visible(r)[y]
<1>1. /\ work' = [work EXCEPT ![r][x] = m] /\ pc' = [pc EXCEPT ![r] = AfterApply(r, i)]
      /\ todo' = [todo EXCEPT ![r] = @ \ {i}] /\ pc[r] = "apply"
      /\ UNCHANGED <<row, command, plan, event, aborted>>
  BY DEF Applied, Goto
<1>2. \A y \in Rows : work'[r][y] = IF y = x THEN m ELSE work[r][y]
  BY <1>1 DEF TInv, TypeOK
<1>3. pc'[r] = AfterApply(r, i) /\ todo'[r] = todo[r] \ {i}
  BY <1>1 DEF TInv, TypeOK
<1> QED
  BY <1>1, <1>2, <1>3, NoneIsNoRow DEF Visible

LEMMA InsertShape ==
  ASSUME TInv, NEW r \in Runs, Insert(r)
  PROVE  \E i \in todo[r], x \in Rows, e \in Entry :
           /\ e = plan[r][i] /\ e.file = i /\ InPlan(e, plan[r]) /\ e.action = "create"
           /\ Visible(r)[x] = None /\ row[x] = None
           /\ Applied(r, i, x, RowFor(e))
<1>1. PICK i \in todo[r], x \in Rows :
        plan[r][i].action = "create" /\ FreeRow(x) /\ Applied(r, i, x, RowFor(plan[r][i]))
  BY DEF Insert
<1>2. plan[r][i] \in Entry /\ plan[r][i].file = i /\ InPlan(plan[r][i], plan[r])
  BY DEF TInv, TypeOK, Progress, InPlan
<1>3. Visible(r)[x] = None /\ row[x] = None
  BY <1>1 DEF FreeRow, Taken, Visible
<1> QED
  BY <1>1, <1>2, <1>3

LEMMA UpdateShape ==
  ASSUME TInv, NEW r \in Runs, Update(r)
  PROVE  \E i \in todo[r], x \in Rows, e \in Entry :
           /\ e = plan[r][i] /\ e.file = i /\ InPlan(e, plan[r]) /\ e.action = "update"
           /\ Leads(e.file, e.note, Visible(r)[x])
           /\ \A y \in Rows : Leads(e.file, e.note, Visible(r)[y]) => y = x
           /\ Applied(r, i, x, RowFor(e))
<1>1. PICK i \in todo[r] :
        LET e == plan[r][i]
            found == Existing(r, e.file, e.note)
        IN /\ e.action = "update" /\ Cardinality(found) = 1
           /\ \E x \in found : Applied(r, i, x, RowFor(e))
  BY DEF Update
<1> DEFINE e == plan[r][i]
<1>2. e \in Entry /\ e.file = i /\ InPlan(e, plan[r])
  BY DEF TInv, TypeOK, Progress, InPlan
<1>3. PICK x \in Existing(r, e.file, e.note) : Applied(r, i, x, RowFor(e))
  BY <1>1
<1>4. PICK z : Existing(r, e.file, e.note) = {z}
  BY <1>1, ExistingRows, FS_Singleton
<1>5. x \in Rows /\ Leads(e.file, e.note, Visible(r)[x])
      /\ \A y \in Rows : Leads(e.file, e.note, Visible(r)[y]) => y = x
  BY <1>3, <1>4, ExistingRows
<1> QED
  BY <1>1, <1>2, <1>3, <1>5

(* A row that was just written is where its entry leads. *)
LEMMA Written ==
  ASSUME NEW e \in Entry
  PROVE  /\ RowFor(e) \in MemoryRow /\ RowFor(e) # None
         /\ Leads(e.file, e.note, RowFor(e)) /\ ~DatabaseChanged(RowFor(e))
  BY RowForType, NoneIsNoRow DEF Leads, DatabaseChanged

-----------------------------------------------------------------------------
(***************************************************************************)
(* What people have changed.  Whatever a run has written, it has written   *)
(* over rows that were as the last import left them; and so is the row     *)
(* that an entry is to refresh, until the entry is applied and after.      *)
(***************************************************************************)
FindsUnchanged(r, e) ==
  \E x \in Rows : Leads(e.file, e.note, Visible(r)[x]) /\ ~DatabaseChanged(Visible(r)[x])

Careful(r) ==
  /\ \A x \in Rows : work[r][x] # None /\ row[x] # None => ~DatabaseChanged(row[x])
  /\ \A x \in Rows : work[r][x] # None => ~DatabaseChanged(work[r][x])
  /\ \A e \in Entry : InPlan(e, plan[r]) /\ e.action = "update" => FindsUnchanged(r, e)

CInv == Alone /\ \A r \in Runs : Careful(r)

LEMMA RestCareful ==
  ASSUME NEW q, AtRest(q)'
  PROVE  Careful(q)'
  BY DEF AtRest, Careful, InPlan, NoWork

LEMMA AppliedCareful ==
  ASSUME TInv, NEW r \in Runs, Careful(r), NEW i \in todo[r], NEW x \in Rows, NEW e \in Entry,
         Applied(r, i, x, RowFor(e)),
         \/ Visible(r)[x] = None /\ row[x] = None
         \/ Leads(e.file, e.note, Visible(r)[x]) /\ ~DatabaseChanged(Visible(r)[x])
  PROVE  Careful(r)'
<1>1. /\ UNCHANGED <<row, plan>>
      /\ \A y \in Rows : work'[r][y] = IF y = x THEN RowFor(e) ELSE work[r][y]
      /\ \A y \in Rows : Visible(r)'[y] = IF y = x THEN RowFor(e) ELSE Visible(r)[y]
  BY Written, AppliedEffect
<1>2. \A y \in Rows : work'[r][y] # None /\ row'[y] # None => ~DatabaseChanged(row'[y])
  <2>1. work[r][x] = None => Visible(r)[x] = row[x]
    BY DEF Visible
  <2> QED
    BY <1>1, <2>1 DEF Careful
<1>3. \A y \in Rows : work'[r][y] # None => ~DatabaseChanged(work'[r][y])
  BY <1>1, Written DEF Careful
<1>4. ASSUME NEW d \in Entry, InPlan(d, plan'[r]), d.action = "update"
      PROVE  FindsUnchanged(r, d)'
  <2>1. PICK y \in Rows : Leads(d.file, d.note, Visible(r)[y]) /\ ~DatabaseChanged(Visible(r)[y])
    BY <1>1, <1>4 DEF Careful, FindsUnchanged
  <2>2. CASE y # x
    BY <1>1, <2>1, <2>2 DEF FindsUnchanged, Leads, DatabaseChanged
  <2>3. CASE y = x
    <3>1. Leads(d.file, d.note, RowFor(e))
      BY <2>1, <2>3, Written DEF Leads
    <3> QED
      BY <1>1, <3>1, Written DEF FindsUnchanged, Leads, DatabaseChanged
  <2> QED
    BY <2>2, <2>3
<1> QED
  BY <1>2, <1>3, <1>4 DEF Careful, DatabaseChanged

LEMMA CarefulStep ==
  ASSUME TInv, TInv', NEW r \in Runs, Careful(r), Start(r) \/ Step(r) \/ Kill(r)
  PROVE  Careful(r)'
<1>1. CASE ~Active(r)'
  <2>1. AtRest(r)'
    BY <1>1 DEF TInv, Progress, AtRest, Active
  <2> QED
    BY <2>1, RestCareful
<1>2. ASSUME UNCHANGED <<row, work, plan>> PROVE Careful(r)'
  BY <1>2 DEF Careful, FindsUnchanged, Visible
<1>3. CASE Start(r) \/ LogBlocked(r) \/ BeginApply(r) \/ LogSucceeded(r)
      \/ (UpdateRaises(r) /\ ~GiveUp(r, "apply", "failed"))
  BY <1>2, <1>3 DEF Start, LogBlocked, BeginApply, LogSucceeded, UpdateRaises
<1>4. CASE PlanNote(r)
  <2> DEFINE f == Len(plan[r]) + 1
  <2>1. f \in Notes /\ plan[r] \in Seq(Entry)
    BY <1>4, ImportAssumption DEF TInv, TypeOK, Progress, PlanNote, Notes
  <2>2. PICK e \in Entry : e = EntryFor(r, f)
    BY <2>1, EntryForType DEF TInv
  <2>3. plan'[r] = Append(plan[r], e) /\ UNCHANGED <<row, work>>
    BY <1>4, <2>2 DEF PlanNote, TInv, TypeOK
  <2>4. e.action = "update" => FindsUnchanged(r, e)
    BY <2>1, <2>2, EntryCases DEF FindsUnchanged, TInv
  <2>5. ASSUME NEW d \in Entry, InPlan(d, plan'[r]), d.action = "update"
        PROVE  FindsUnchanged(r, d)
    <3>1. d = e \/ InPlan(d, plan[r])
      BY <2>1, <2>2, <2>3, <2>5 DEF InPlan
    <3> QED
      BY <2>4, <2>5, <3>1 DEF Careful
  <2> QED
    BY <2>3, <2>5 DEF Careful, FindsUnchanged, Visible
<1>5. CASE Insert(r)
  BY <1>5, InsertShape, AppliedCareful
<1>6. CASE Update(r)
  <2>1. PICK i \in todo[r], x \in Rows, e \in Entry :
          /\ InPlan(e, plan[r]) /\ e.action = "update" /\ Leads(e.file, e.note, Visible(r)[x])
          /\ \A y \in Rows : Leads(e.file, e.note, Visible(r)[y]) => y = x
          /\ Applied(r, i, x, RowFor(e))
    BY <1>6, UpdateShape
  <2>2. ~DatabaseChanged(Visible(r)[x])
    BY <2>1 DEF Careful, FindsUnchanged
  <2> QED
    BY <2>1, <2>2, AppliedCareful
<1>7. CASE LogFails(r) \/ Kill(r) \/ GiveUp(r, "apply", "failed") \/ Commit(r)
  BY <1>1, <1>7 DEF LogFails, Kill, GiveUp, Commit, Goto, Active, TInv, TypeOK
<1> QED
  BY <1>3, <1>4, <1>5, <1>6, <1>7 DEF Step

LEMMA CarefulNext ==
  ASSUME TInv, TInv', CInv, ~Overlap, [Next]_vars
  PROVE  CInv'
<1>1. ASSUME NEW r \in Runs, Start(r) \/ Step(r) \/ Kill(r), NEW q \in Runs PROVE Careful(q)'
  <2>1. CASE q = r
    BY <1>1, <2>1, CarefulStep DEF CInv
  <2>2. CASE q # r
    BY <1>1, <2>2, OthersRest, RestCareful DEF CInv
  <2> QED
    BY <2>1, <2>2
<1>2. ASSUME NEW x \in Rows, Accept(x) \/ Reject(x) \/ Revise(x), NEW q \in Runs PROVE Careful(q)'
  BY <1>2, PeopleWait, RestCareful
<1>3. ASSUME UNCHANGED <<row, run>>, NEW q \in Runs PROVE Careful(q)'
  BY <1>3 DEF CInv, run, Careful, FindsUnchanged, Visible
<1>4. \A q \in Runs : Careful(q)'
  BY <1>1, <1>2, <1>3 DEF Next, vars, EditNote
<1> QED
  BY <1>4, AloneStep DEF CInv

(* What a person has changed since a row was imported no run overwrites,   *)
(* when nobody else uses the database during a run.  The hashes are        *)
(* compared when a note is planned and not when its row is updated, so the *)
(* condition is needed; what the notes' keys are does not matter.          *)
THEOREM PeoplesChangesAreKept == ASSUME ~Overlap PROVE Spec => ManualChangesKept
<1>1. Init => CInv
  BY DEF Init, CInv, Alone, Active, Careful, InPlan
<1>2. TInv /\ TInv' /\ CInv /\ [Next]_vars => CInv'
  BY CarefulNext
<1>3. TInv /\ CInv /\ [Next]_vars =>
        [\A r \in Runs : Ends(r)
            => \A x \in Rows : row[x] # None /\ row[x].last.data # row[x].vals
                                 => row'[x] = row[x]]_vars
  <2> SUFFICES ASSUME TInv, CInv, Next, NEW r \in Runs, Ends(r), NEW x \in Rows,
                      row[x] # None, DatabaseChanged(row[x])
               PROVE  row'[x] = row[x]
    BY DEF DatabaseChanged
  <2>1. Commit(r)
    BY OnlyCommitEnds
  <2>2. work[r][x] = None
    BY DEF CInv, Careful
  <2> QED
    BY <2>1, <2>2 DEF Commit, Visible
<1> QED
  BY <1>1, <1>2, <1>3, TypeCorrect, PTL DEF Spec, ManualChangesKept

-----------------------------------------------------------------------------
(***************************************************************************)
(* What a run's event and its aborted transaction say about its plan.      *)
(***************************************************************************)
Honest(r) ==
  /\ pc[r] \in {"decide", "log"} => IsSync(r)
  /\ event[r] # "none" => IsSync(r) /\ pc[r] = "commit"
  /\ event[r] = "succeeded" => ~Blocks(plan[r])
  /\ Active(r) /\ aborted[r] => Blocks(plan[r])

HInv == \A r \in Runs : Honest(r)

LEMMA BlocksAppend ==
  ASSUME NEW p \in Seq(Entry), NEW e \in Entry, Blocks(p) \/ e.action \in Blocker
  PROVE  Blocks(Append(p, e))
<1> DEFINE q == Append(p, e)
<1>1. DOMAIN q = 1..(Len(p) + 1) /\ q[Len(p) + 1] = e /\ \A i \in DOMAIN p : i \in DOMAIN q /\ q[i] = p[i]
  OBVIOUS
<1> QED
  BY <1>1 DEF Blocks, ToSet

LEMMA HonestStep ==
  ASSUME TInv, NEW r \in Runs, HeldBack(r), Honest(r), Start(r) \/ Step(r) \/ Kill(r)
  PROVE  Honest(r)'
<1>1. CASE Start(r)
  BY <1>1 DEF Start, TInv, TypeOK, Active, Honest
<1>2. CASE PlanNote(r)
  <2> DEFINE f == Len(plan[r]) + 1
  <2>1. f \in Notes /\ plan[r] \in Seq(Entry)
    BY <1>2, ImportAssumption DEF TInv, TypeOK, Progress, PlanNote, Notes
  <2>2. PICK e \in Entry : e = EntryFor(r, f)
    BY <2>1, EntryForType DEF TInv
  <2>3. /\ pc[r] = "plan" /\ UNCHANGED <<command, event>>
        /\ pc' = [pc EXCEPT ![r] = IF ~IsSync(r) /\ e.action \in Write THEN "apply" ELSE AfterPlan(r, f)]
        /\ plan' = [plan EXCEPT ![r] = Append(@, e)]
        /\ aborted' = [aborted EXCEPT ![r] = @ \/ e.note.kind = "badid"]
    BY <1>2, <2>2 DEF PlanNote
  <2>4. pc'[r] = "decide" => IsSync(r)
    BY <2>3 DEF AfterPlan, TInv, TypeOK
  <2>5. pc'[r] # "log" /\ event[r] = "none"
    BY <2>3 DEF AfterPlan, Honest, TInv, TypeOK
  <2>6. plan'[r] = Append(plan[r], e)
    BY <2>3 DEF TInv, TypeOK
  <2>7. aborted'[r] => aborted[r] \/ e.note.kind = "badid"
    <3>1. aborted \in [Runs -> BOOLEAN]
      BY DEF TInv, TypeOK
    <3> QED
      BY <2>3, <3>1, Zenon
  <2>8. e.note.kind = "badid" => e.action \in Blocker
    BY <2>2 DEF EntryFor, Raises, Blocker
  <2>9. aborted'[r] => Blocks(plan'[r])
    BY <2>1, <2>3, <2>6, <2>7, <2>8, BlocksAppend DEF Honest, Active
  <2> QED
    BY <2>3, <2>4, <2>5, <2>9 DEF Honest, IsSync
<1>3. CASE LogBlocked(r) \/ BeginApply(r)
  <2>1. /\ pc[r] = "decide" /\ pc'[r] \in {"commit", "apply", "log"}
        /\ pc'[r] # "commit" => event'[r] = event[r]
        /\ event'[r] # "succeeded" \/ event'[r] = event[r]
        /\ command' = command /\ aborted' = aborted /\ plan' = plan
    BY <1>3 DEF LogBlocked, BeginApply, Goto, TInv, TypeOK
  <2> QED
    BY <2>1 DEF Honest, IsSync, Active
<1>4. CASE LogSucceeded(r)
  <2>1. /\ pc[r] = "log" /\ pc'[r] = "commit"
        /\ command' = command /\ aborted' = aborted /\ plan' = plan
    BY <1>4 DEF LogSucceeded, Goto, TInv, TypeOK
  <2> QED
    BY <2>1 DEF Honest, HeldBack, IsSync, Active
<1>5. CASE Insert(r) \/ Update(r) \/ (UpdateRaises(r) /\ ~GiveUp(r, "apply", "failed"))
  <2>1. PICK i \in todo[r] : /\ pc[r] = "apply" /\ pc' = [pc EXCEPT ![r] = AfterApply(r, i)]
                             /\ UNCHANGED <<command, plan, event, aborted>>
    BY <1>5 DEF Insert, Update, UpdateRaises, Applied, Goto
  <2>2. pc'[r] = AfterApply(r, i) /\ event[r] = "none"
    BY <2>1 DEF TInv, TypeOK, Honest
  <2>3. AfterApply(r, i) \in {"decide", "log"} => IsSync(r)
    BY DEF AfterApply, AfterPlan
  <2> QED
    BY <2>1, <2>2, <2>3 DEF Honest, IsSync, Active
<1>6. CASE LogFails(r) \/ Kill(r) \/ GiveUp(r, "apply", "failed") \/ Commit(r)
  <2>1. pc'[r] \in {"failed", "killed", "done"} /\ event'[r] = "none"
    BY <1>6 DEF LogFails, Kill, GiveUp, Commit, Goto, TInv, TypeOK
  <2> QED
    BY <2>1 DEF Honest, Active
<1> QED
  BY <1>1, <1>2, <1>3, <1>4, <1>5, <1>6 DEF Step

LEMMA HonestNext ==
  ASSUME TInv, BInv, HInv, [Next]_vars
  PROVE  HInv'
<1>1. ASSUME NEW r \in Runs, Start(r) \/ Step(r) \/ Kill(r), NEW q \in Runs PROVE Honest(q)'
  <2>1. CASE q = r
    BY <1>1, <2>1, HonestStep DEF HInv, BInv
  <2>2. CASE q # r
    BY <1>1, <2>2, RunsApart DEF HInv, Honest, IsSync, Active, StillThere
  <2> QED
    BY <2>1, <2>2
<1>2. ASSUME UNCHANGED <<pc, command, run>>, NEW q \in Runs PROVE Honest(q)'
  BY <1>2 DEF HInv, run, Honest, IsSync, Active
<1> QED
  BY <1>1, <1>2 DEF Next, vars, EditNote, Accept, Reject, Revise, PersonWrites, HInv

-----------------------------------------------------------------------------
(***************************************************************************)
(* One row per key, when no two notes have the same key: no row is where   *)
(* an entry leads that is still to create one.                             *)
(***************************************************************************)
DistinctKeys == \A f, g \in Notes : Key[f] = Key[g] => f = g

OneRow(v) ==
  \A x, y \in Rows : v[x] # None /\ v[y] # None /\ SamePlace(v[x], v[y]) => x = y

NoRow(r, e) == \A x \in Rows : ~Leads(e.file, e.note, Visible(r)[x])

(* A sync that has not yet decided: what it is to write is not in todo. *)
Before(r) == IsSync(r) /\ pc[r] \in {"plan", "decide"}

Unique(r) ==
  /\ OneRow(Visible(r))
  /\ \A e \in Entry : /\ InPlan(e, plan[r]) /\ e.action = "create"
                      /\ e.file \in todo[r] \/ Before(r)
                      => NoRow(r, e)

UInv == Alone /\ OneRow(row) /\ \A r \in Runs : Unique(r)

LEMMA RestUnique ==
  ASSUME TypeOK', NEW q \in Runs, AtRest(q)', OneRow(row')
  PROVE  Unique(q)'
<1>1. Visible(q)' = row'
  BY DEF AtRest, NoWork, Visible, TypeOK
<1>2. OneRow(Visible(q))'
  BY <1>1 DEF OneRow
<1> QED
  BY <1>2 DEF AtRest, Unique, InPlan

LEMMA AppliedUnique ==
  ASSUME TInv, DistinctKeys, NEW r \in Runs, Unique(r), NEW i \in todo[r], NEW x \in Rows,
         NEW e \in Entry, e.file = i, Applied(r, i, x, RowFor(e)),
         \/ Visible(r)[x] = None /\ NoRow(r, e)
         \/ Leads(e.file, e.note, Visible(r)[x])
  PROVE  Unique(r)'
<1>1. /\ plan' = plan /\ command' = command /\ pc'[r] = AfterApply(r, i) /\ todo'[r] = todo[r] \ {i}
      /\ \A y \in Rows : Visible(r)'[y] = IF y = x THEN RowFor(e) ELSE Visible(r)[y]
  BY Written, AppliedEffect
<1>2. \A y \in Rows \ {x} : Visible(r)[y] # None => ~SamePlace(RowFor(e), Visible(r)[y])
  <2> SUFFICES ASSUME NEW y \in Rows \ {x}, Visible(r)[y] # None, SamePlace(RowFor(e), Visible(r)[y])
               PROVE  FALSE
    OBVIOUS
  <2>1. Leads(e.file, e.note, Visible(r)[y])
    BY Written DEF Leads, SamePlace
  <2>2. Leads(e.file, e.note, Visible(r)[x])
    BY <2>1 DEF NoRow
  <2>3. SamePlace(Visible(r)[x], Visible(r)[y]) /\ Visible(r)[x] # None
    BY <2>1, <2>2 DEF Leads, SamePlace
  <2> QED
    BY <2>3 DEF Unique, OneRow
<1>3. OneRow(Visible(r))'
  <2> SUFFICES ASSUME NEW y \in Rows, NEW z \in Rows, Visible(r)'[y] # None, Visible(r)'[z] # None,
                      Visible(r)'[y].key = Visible(r)'[z].key,
                      Visible(r)'[y].table = Visible(r)'[z].table
               PROVE  y = z
    BY DEF OneRow, SamePlace
  <2>1. CASE y # x /\ z # x
    BY <1>1, <2>1 DEF Unique, OneRow, SamePlace
  <2>2. CASE y = x \/ z = x
    BY <1>1, <1>2, <2>2 DEF SamePlace
  <2> QED
    BY <2>1, <2>2
<1>4. ASSUME NEW d \in Entry, InPlan(d, plan'[r]), d.action = "create",
             d.file \in todo'[r] \/ Before(r)'
      PROVE  NoRow(r, d)'
  <2>1. ~Before(r)'
    BY <1>1, AfterApplyT DEF Before, IsSync
  <2>2. d.file \in todo[r] /\ d.file # i
    BY <1>1, <1>4, <2>1
  <2>3. NoRow(r, d)
    BY <1>1, <1>4, <2>2 DEF Unique
  <2>4. ~Leads(d.file, d.note, RowFor(e))
    BY <2>2, Written DEF Leads, DistinctKeys, Entry
  <2> QED
    BY <1>1, <2>3, <2>4 DEF NoRow, Leads
<1> QED
  BY <1>3, <1>4 DEF Unique

LEMMA UniqueStep ==
  ASSUME TInv, TInv', DistinctKeys, OneRow(row'), NEW r \in Runs, Unique(r), Honest(r),
         Start(r) \/ Step(r) \/ Kill(r)
  PROVE  Unique(r)'
<1>1. CASE ~Active(r)'
  <2>1. AtRest(r)'
    BY <1>1 DEF TInv, Progress, AtRest, Active
  <2> QED
    BY <2>1, RestUnique DEF TInv
<1>2. ASSUME UNCHANGED <<row, work>>,
             \A e \in Entry : /\ InPlan(e, plan'[r]) /\ e.action = "create"
                              /\ e.file \in todo'[r] \/ Before(r)'
                              => NoRow(r, e)
      PROVE  Unique(r)'
  <2>1. Visible(r)' = Visible(r)
    BY <1>2 DEF Visible
  <2>2. OneRow(Visible(r))' /\ \A e \in Entry : NoRow(r, e)' <=> NoRow(r, e)
    BY <2>1 DEF OneRow, SamePlace, NoRow, Leads, Unique
  <2> QED
    BY <1>2, <2>2 DEF Unique
<1>3. CASE Start(r)
  <2>1. plan'[r] = <<>> /\ UNCHANGED <<row, work>>
    BY <1>3 DEF Start, TInv, Progress
  <2> QED
    BY <1>2, <2>1 DEF InPlan
<1>4. CASE PlanNote(r)
  <2> DEFINE f == Len(plan[r]) + 1
  <2>1. f \in Notes /\ plan[r] \in Seq(Entry)
    BY <1>4, ImportAssumption DEF TInv, TypeOK, Progress, PlanNote, Notes
  <2>2. PICK e \in Entry : e = EntryFor(r, f)
    BY <2>1, EntryForType DEF TInv
  <2>3. /\ pc[r] = "plan" /\ plan'[r] = Append(plan[r], e) /\ UNCHANGED <<row, work, command>>
        /\ todo'[r] \subseteq {f}
        /\ pc'[r] = IF ~IsSync(r) /\ e.action \in Write THEN "apply" ELSE AfterPlan(r, f)
    BY <1>4, <2>2 DEF PlanNote, TInv, TypeOK
  <2>4. e.action = "create" => NoRow(r, e)
    <3> SUFFICES ASSUME e.action = "create" PROVE NoRow(r, e)
      OBVIOUS
    <3>1. e.file = f /\ e.note = vault[f] /\ Existing(r, f, vault[f]) = {}
      BY <2>1, <2>2, EntryCases DEF TInv
    <3>2. {x \in Rows : Leads(e.file, e.note, Visible(r)[x])} = {}
      BY <3>1, ExistingRows
    <3> QED
      BY <3>2 DEF NoRow
  <2>5. ASSUME NEW d \in Entry, InPlan(d, plan'[r]), d.action = "create",
               d.file \in todo'[r] \/ Before(r)'
        PROVE  NoRow(r, d)
    <3>1. d = e \/ InPlan(d, plan[r])
      BY <2>1, <2>2, <2>3, <2>5 DEF InPlan
    <3>2. CASE InPlan(d, plan[r])
      <4>1. d.file # f
        BY <3>2 DEF InPlan, TInv, Progress
      <4>2. Before(r)
        BY <2>3, <2>5, <4>1 DEF Before, IsSync
      <4> QED
        BY <2>5, <3>2, <4>2 DEF Unique
    <3> QED
      BY <2>4, <2>5, <3>1, <3>2
  <2> QED
    BY <1>2, <2>3, <2>5
<1>5. CASE LogBlocked(r) \/ BeginApply(r) \/ LogSucceeded(r)
  <2>1. /\ UNCHANGED <<row, work, plan, command>> /\ pc[r] \in {"decide", "log"}
        /\ pc'[r] \in {"apply", "log", "commit"}
        /\ pc[r] = "decide" \/ todo'[r] = todo[r]
    BY <1>5 DEF LogBlocked, BeginApply, LogSucceeded, Goto, TInv, TypeOK
  <2>2. pc[r] = "decide" => Before(r)
    BY DEF Honest, Before
  <2>3. ~Before(r)'
    BY <2>1 DEF Before
  <2> QED
    BY <1>2, <2>1, <2>2, <2>3 DEF Unique
<1>6. CASE UpdateRaises(r) /\ ~GiveUp(r, "apply", "failed")
  <2>1. PICK i \in todo[r] :
          /\ ~IsSync(r) /\ todo' = [todo EXCEPT ![r] = @ \ {i}]
          /\ UNCHANGED <<row, work, plan, command>>
    BY <1>6 DEF UpdateRaises
  <2>2. todo'[r] \subseteq todo[r] /\ ~Before(r)'
    BY <2>1 DEF Before, IsSync, TInv, TypeOK
  <2> QED
    BY <1>2, <2>1, <2>2 DEF Unique
<1>7. CASE Insert(r)
  <2>1. PICK i \in todo[r], x \in Rows, e \in Entry :
          /\ e.file = i /\ InPlan(e, plan[r]) /\ e.action = "create"
          /\ Visible(r)[x] = None /\ Applied(r, i, x, RowFor(e))
    BY <1>7, InsertShape
  <2>2. NoRow(r, e)
    BY <2>1 DEF Unique
  <2> QED
    BY <2>1, <2>2, AppliedUnique
<1>8. CASE Update(r)
  BY <1>8, UpdateShape, AppliedUnique
<1>9. CASE LogFails(r) \/ Kill(r) \/ GiveUp(r, "apply", "failed") \/ Commit(r)
  BY <1>1, <1>9 DEF LogFails, Kill, GiveUp, Commit, Goto, Active, TInv, TypeOK
<1> QED
  BY <1>3, <1>4, <1>5, <1>6, <1>7, <1>8, <1>9 DEF Step

LEMMA UniqueNext ==
  ASSUME TInv, TInv', UInv, HInv, DistinctKeys, ~Overlap, [Next]_vars
  PROVE  UInv'
<1>1. OneRow(row')
  <2>1. ASSUME NEW r \in Runs, Start(r) \/ Step(r) \/ Kill(r) PROVE row' = row \/ row' = Visible(r)
    BY <2>1 DEF Start, Step, Kill, PlanNote, LogBlocked, LogFails, BeginApply, Insert, Update,
                UpdateRaises, Applied, LogSucceeded, Commit, GiveUp
  <2>2. ASSUME NEW x \in Rows, Accept(x) \/ Reject(x) \/ Revise(x) PROVE OneRow(row')
    <3>1. /\ row[x] # None /\ row' = [row EXCEPT ![x] = row'[x]]
          /\ row'[x].key = row[x].key /\ row'[x].table = row[x].table
      BY <2>2, PersonT
    <3>2. \A y \in Rows \ {x} : row'[y] = row[y]
      BY <3>1 DEF TInv, TypeOK
    <3> QED
      BY <3>1, <3>2 DEF UInv, OneRow, SamePlace
  <2>3. CASE row' = row
    BY <2>3 DEF UInv
  <2> QED
    BY <2>1, <2>2, <2>3 DEF Next, vars, EditNote, UInv, Unique
<1>2. ASSUME NEW r \in Runs, Start(r) \/ Step(r) \/ Kill(r), NEW q \in Runs PROVE Unique(q)'
  <2>1. CASE q = r
    BY <1>1, <1>2, <2>1, UniqueStep DEF UInv, HInv
  <2>2. CASE q # r
    BY <1>1, <1>2, <2>2, OthersRest, RestUnique DEF UInv, TInv
  <2> QED
    BY <2>1, <2>2
<1>3. ASSUME NEW x \in Rows, Accept(x) \/ Reject(x) \/ Revise(x), NEW q \in Runs PROVE Unique(q)'
  BY <1>1, <1>3, PeopleWait, RestUnique DEF TInv
<1>4. ASSUME UNCHANGED <<row, pc, command, run>>, NEW q \in Runs PROVE Unique(q)'
  <2>1. Visible(q)' = Visible(q)
    BY <1>4 DEF run, Visible
  <2>2. OneRow(Visible(q))' /\ \A e \in Entry : NoRow(q, e)' <=> NoRow(q, e)
    BY <2>1 DEF OneRow, SamePlace, NoRow, Leads, UInv, Unique
  <2> QED
    BY <1>4, <2>2 DEF UInv, run, Unique, Before, IsSync
<1>5. \A q \in Runs : Unique(q)'
  BY <1>2, <1>3, <1>4 DEF Next, vars, EditNote
<1>6. OneRow(row)'
  BY <1>1 DEF OneRow, SamePlace
<1> QED
  BY <1>5, <1>6, AloneStep DEF UInv

(* An import key leads to at most one row of its type, when commands run   *)
(* one at a time and no two notes have the same key.                       *)
THEOREM KeysStayUnique == ASSUME ~Overlap, DistinctKeys PROVE Spec => []UniqueKeys
<1>1. Init => BInv /\ HInv /\ UInv
  <2> SUFFICES ASSUME Init PROVE BInv /\ HInv /\ UInv
    OBVIOUS
  <2>1. BInv /\ HInv /\ Alone
    BY DEF Init, BInv, HeldBack, HInv, Honest, Alone, Active
  <2>2. OneRow(row) /\ \A r \in Runs : Unique(r)
    BY DEF Init, OneRow, Unique, Visible, InPlan
  <2> QED
    BY <2>1, <2>2 DEF UInv
<1>2. TInv /\ TInv' /\ BInv /\ HInv /\ UInv /\ [Next]_vars => BInv' /\ HInv' /\ UInv'
  BY HeldBackNext, HonestNext, UniqueNext
<1>3. UInv => UniqueKeys
  BY DEF UInv, OneRow, SamePlace, UniqueKeys
<1> QED
  BY <1>1, <1>2, <1>3, TypeCorrect, PTL DEF Spec

-----------------------------------------------------------------------------
(***************************************************************************)
(* A sync settles its notes: each entry that it has skipped or applied     *)
(* finds a row that would be skipped, and no other entry writes that row.  *)
(***************************************************************************)
Settles(e, m) == Leads(e.file, e.note, m) /\ Planned(e.note, m, "update") = "skip"

Finds(r, e) == \E x \in Rows : Settles(e, Visible(r)[x])

Finished(r, e) ==
  \/ e.action = "skip"
  \/ /\ e.action \in Write /\ e.file \notin todo[r]
     /\ pc[r] \in {"apply", "log"} \/ event[r] = "succeeded"

Settled(r) ==
  /\ \A e \in Entry : InPlan(e, plan[r]) /\ e.action \in Write => e.note.kind # "unsafe"
  /\ IsSync(r) => \A e \in Entry : InPlan(e, plan[r]) /\ Finished(r, e) => Finds(r, e)

SInv == Alone /\ \A r \in Runs : Settled(r)

LEMMA UnsafeAsks ==
  ASSUME NEW c, NEW m, c.kind = "unsafe"
  PROVE  Route(c, m) = "ask"
  BY DEF Route, SameSource

LEMMA SkippedAgain ==
  ASSUME NEW c, NEW m, m # None, Route(c, m) # "ask", ~NoteChanged(c, m)
  PROVE  Planned(c, m, "update") = "skip"
  BY DEF Planned

(* A row as its entry has written it would be skipped. *)
LEMMA WrittenSettles ==
  ASSUME NEW e \in Entry, e.note.kind # "unsafe"
  PROVE  Settles(e, RowFor(e))
<1> DEFINE m == RowFor(e)
<1>1. m.vals.core = e.note.core /\ ~NoteChanged(e.note, m)
  BY RowForType DEF NoteChanged
<1>2. Route(e.note, m) # "ask"
  BY <1>1 DEF Route
<1> QED
  BY <1>1, <1>2, Written, SkippedAgain DEF Settles

LEMMA RestSettled ==
  ASSUME NEW q, AtRest(q)'
  PROVE  Settled(q)'
  BY DEF AtRest, Settled, InPlan

LEMMA SyncUpdates ==
  ASSUME TInv, NEW r \in Runs, IsSync(r)
  PROVE  command[r][2] = "update"
  BY ImportAssumption DEF TInv, TypeOK, IsSync

LEMMA AppliedSettled ==
  ASSUME TInv, DistinctKeys, NEW r \in Runs, Settled(r), NEW i \in todo[r], NEW x \in Rows,
         NEW e \in Entry, e = plan[r][i], e.file = i, InPlan(e, plan[r]), e.action \in Write,
         Applied(r, i, x, RowFor(e)),
         Visible(r)[x] = None \/ Leads(e.file, e.note, Visible(r)[x])
  PROVE  Settled(r)'
<1>1. /\ plan' = plan /\ command' = command /\ todo'[r] = todo[r] \ {i} /\ pc[r] = "apply"
      /\ \A y \in Rows : Visible(r)'[y] = IF y = x THEN RowFor(e) ELSE Visible(r)[y]
  BY Written, AppliedEffect
<1>2. ASSUME IsSync(r), NEW d \in Entry, InPlan(d, plan[r]), Finished(r, d)' PROVE Finds(r, d)'
  <2>1. CASE d.file = i
    <3>1. d = e
      BY <1>2, <2>1 DEF InPlan, TInv, Progress
    <3>2. Settles(e, RowFor(e)) /\ Visible(r)'[x] = RowFor(e)
      BY <1>1, WrittenSettles DEF Settled
    <3> QED
      BY <3>1, <3>2 DEF Finds, Settles, Leads
  <2>2. CASE d.file # i
    <3>1. Finished(r, d)
      BY <1>1, <1>2, <2>2 DEF Finished
    <3>2. PICK y \in Rows : Settles(d, Visible(r)[y])
      BY <1>2, <3>1 DEF Settled, Finds
    <3>3. y # x
      BY <2>2, <3>2 DEF Settles, Leads, DistinctKeys, Entry
    <3>4. Visible(r)'[y] = Visible(r)[y]
      BY <1>1, <3>3
    <3> QED
      BY <3>2, <3>4 DEF Finds, Settles, Leads
  <2> QED
    BY <2>1, <2>2
<1> QED
  BY <1>1, <1>2 DEF Settled, IsSync

LEMMA SettledStep ==
  ASSUME TInv, TInv', DistinctKeys, NEW r \in Runs, Settled(r), Honest(r),
         Start(r) \/ Step(r) \/ Kill(r)
  PROVE  Settled(r)'
<1>1. CASE ~Active(r)'
  <2>1. AtRest(r)'
    BY <1>1 DEF TInv, Progress, AtRest, Active
  <2> QED
    BY <2>1, RestSettled
<1>2. ASSUME UNCHANGED <<row, work, command>>,
             \A e \in Entry : InPlan(e, plan'[r]) /\ e.action \in Write => e.note.kind # "unsafe",
             IsSync(r) => \A e \in Entry : InPlan(e, plan'[r]) /\ Finished(r, e)' => Finds(r, e)
      PROVE  Settled(r)'
  <2>1. Visible(r)' = Visible(r)
    BY <1>2 DEF Visible
  <2>2. \A e \in Entry : Finds(r, e)' <=> Finds(r, e)
    BY <2>1 DEF Finds, Settles, Leads
  <2> QED
    BY <1>2, <2>2 DEF Settled, IsSync
<1>3. CASE Start(r)
  <2>1. plan'[r] = <<>>
    BY <1>3 DEF Start, TInv, Progress
  <2> QED
    BY <2>1 DEF Settled, InPlan
<1>4. CASE PlanNote(r)
  <2> DEFINE f == Len(plan[r]) + 1
  <2>1. f \in Notes /\ plan[r] \in Seq(Entry) /\ TypeOK
    BY <1>4, ImportAssumption DEF TInv, TypeOK, Progress, PlanNote, Notes
  <2>2. PICK e \in Entry : e = EntryFor(r, f)
    BY <2>1, EntryForType DEF TInv
  <2>3. /\ pc[r] = "plan" /\ plan'[r] = Append(plan[r], e) /\ UNCHANGED <<row, work, command, event>>
        /\ pc'[r] = IF ~IsSync(r) /\ e.action \in Write THEN "apply" ELSE AfterPlan(r, f)
    BY <1>4, <2>2 DEF PlanNote, TInv, TypeOK
  <2>4. \A d \in Entry : InPlan(d, plan'[r]) => d = e \/ InPlan(d, plan[r])
    BY <2>1, <2>2, <2>3 DEF InPlan
  <2>5. e.action \in Write => e.note.kind # "unsafe"
    <3>1. e.action = "create" => e.note = vault[f] /\ Route(vault[f], None) # "ask"
      BY <2>1, <2>2, EntryCases
    <3>2. e.action = "update" => e.note = vault[f] /\ \E x \in Rows : Route(vault[f], Visible(r)[x]) # "ask"
      BY <2>1, <2>2, EntryCases
    <3> QED
      BY <3>1, <3>2, UnsafeAsks DEF Write
  <2>6. IsSync(r) /\ e.action = "skip" => Finds(r, e)
    <3> SUFFICES ASSUME IsSync(r), e.action = "skip" PROVE Finds(r, e)
      OBVIOUS
    <3>1. e.file = f /\ e.note = vault[f]
      BY <2>1, <2>2, EntryCases
    <3>2. PICK x \in Rows : /\ Leads(f, vault[f], Visible(r)[x])
                            /\ Route(vault[f], Visible(r)[x]) # "ask"
                            /\ ~NoteChanged(vault[f], Visible(r)[x])
      BY <2>1, <2>2, EntryCases, SyncUpdates
    <3>3. Planned(vault[f], Visible(r)[x], "update") = "skip"
      BY <3>2, SkippedAgain DEF Leads
    <3> QED
      BY <3>1, <3>2, <3>3 DEF Finds, Settles
  <2>7. ASSUME IsSync(r), NEW d \in Entry, InPlan(d, plan'[r]), Finished(r, d)' PROVE Finds(r, d)
    <3>1. d.action = "skip"
      BY <2>3, <2>7 DEF Finished, AfterPlan, Honest
    <3> QED
      BY <2>4, <2>6, <2>7, <3>1 DEF Settled, Finished
  <2>8. \A d \in Entry : InPlan(d, plan'[r]) /\ d.action \in Write => d.note.kind # "unsafe"
    BY <2>4, <2>5 DEF Settled
  <2> QED
    BY <1>2, <2>3, <2>7, <2>8
<1>5. CASE LogBlocked(r) \/ LogSucceeded(r)
  <2>1. /\ UNCHANGED <<row, work, plan, command, todo>> /\ pc'[r] = "commit"
        /\ event'[r] = "succeeded" => pc[r] = "log"
    BY <1>5 DEF LogBlocked, LogSucceeded, Goto, TInv, TypeOK
  <2>2. \A e \in Entry : Finished(r, e)' => Finished(r, e)
    BY <2>1 DEF Finished
  <2> QED
    BY <1>2, <2>1, <2>2 DEF Settled
<1>6. CASE BeginApply(r)
  <2>1. /\ UNCHANGED <<row, work, plan, command>>
        /\ todo'[r] = {i \in 1..Len(plan[r]) : plan[r][i].action \in Write}
    BY <1>6 DEF BeginApply, TInv, TypeOK
  <2>2. \A e \in Entry : InPlan(e, plan[r]) /\ e.action \in Write => e.file \in todo'[r]
    BY <2>1 DEF InPlan, TInv, Progress
  <2>3. \A e \in Entry : InPlan(e, plan[r]) /\ Finished(r, e)' => Finished(r, e)
    BY <2>2 DEF Finished
  <2> QED
    BY <1>2, <2>1, <2>3 DEF Settled
<1>7. CASE UpdateRaises(r) /\ ~GiveUp(r, "apply", "failed")
  BY <1>2, <1>7 DEF UpdateRaises, Settled
<1>8. CASE Insert(r)
  BY <1>8, InsertShape, AppliedSettled DEF Write
<1>9. CASE Update(r)
  BY <1>9, UpdateShape, AppliedSettled DEF Write
<1>10. CASE LogFails(r) \/ Kill(r) \/ GiveUp(r, "apply", "failed") \/ Commit(r)
  BY <1>1, <1>10 DEF LogFails, Kill, GiveUp, Commit, Goto, Active, TInv, TypeOK
<1> QED
  BY <1>3, <1>4, <1>5, <1>6, <1>7, <1>8, <1>9, <1>10 DEF Step

LEMMA SettledNext ==
  ASSUME TInv, TInv', SInv, HInv, DistinctKeys, ~Overlap, [Next]_vars
  PROVE  SInv'
<1>1. ASSUME NEW r \in Runs, Start(r) \/ Step(r) \/ Kill(r), NEW q \in Runs PROVE Settled(q)'
  <2>1. CASE q = r
    BY <1>1, <2>1, SettledStep DEF SInv, HInv
  <2>2. CASE q # r
    BY <1>1, <2>2, OthersRest, RestSettled DEF SInv
  <2> QED
    BY <2>1, <2>2
<1>2. ASSUME NEW x \in Rows, Accept(x) \/ Reject(x) \/ Revise(x), NEW q \in Runs PROVE Settled(q)'
  BY <1>2, PeopleWait, RestSettled
<1>3. ASSUME UNCHANGED <<row, pc, command, run>>, NEW q \in Runs PROVE Settled(q)'
  <2>1. Visible(q)' = Visible(q)
    BY <1>3 DEF run, Visible
  <2>2. \A e \in Entry : (Finds(q, e)' <=> Finds(q, e)) /\ (Finished(q, e)' <=> Finished(q, e))
    BY <1>3, <2>1 DEF run, Finds, Settles, Leads, Finished
  <2> QED
    BY <1>3, <2>2 DEF SInv, run, Settled, IsSync
<1>4. \A q \in Runs : Settled(q)'
  BY <1>1, <1>2, <1>3 DEF Next, vars, EditNote
<1> QED
  BY <1>4, AloneStep DEF SInv

(* After a sync has succeeded, the next one finds nothing to do for the    *)
(* notes it has read: when commands run one at a time and no two notes     *)
(* have the same key.                                                      *)
THEOREM SyncsSettle == ASSUME ~Overlap, DistinctKeys PROVE Spec => SyncSettles
<1>1. Init => BInv /\ HInv /\ SInv
  BY DEF Init, BInv, HeldBack, HInv, Honest, SInv, Alone, Active, Settled, InPlan
<1>2. TInv /\ TInv' /\ BInv /\ HInv /\ SInv /\ [Next]_vars => BInv' /\ HInv' /\ SInv'
  BY HeldBackNext, HonestNext, SettledNext
<1>3. TInv /\ HInv /\ SInv /\ [Next]_vars =>
        [\A r \in Runs : Ends(r) /\ event[r] = "succeeded"
           => \A e \in ToSet(plan[r]) : \E x \in Rows :
                 /\ Leads(e.file, e.note, row'[x])
                 /\ Planned(e.note, row'[x], "update") = "skip"]_vars
  <2> SUFFICES ASSUME TInv, HInv, SInv, Next, NEW r \in Runs, Ends(r), event[r] = "succeeded",
                      NEW e \in ToSet(plan[r])
               PROVE  \E x \in Rows : /\ Leads(e.file, e.note, row'[x])
                                      /\ Planned(e.note, row'[x], "update") = "skip"
    OBVIOUS
  <2>1. Commit(r) /\ pc[r] = "commit"
    BY OnlyCommitEnds DEF Ends
  <2>2. IsSync(r) /\ ~Blocks(plan[r]) /\ ~aborted[r]
    BY <2>1 DEF HInv, Honest, Active
  <2>3. e \in Entry /\ InPlan(e, plan[r])
    BY DEF TInv, TypeOK, ToSet, InPlan
  <2>4. e.action \in Write \cup {"skip"} /\ todo[r] = {}
    BY <2>1, <2>2, <2>3 DEF Blocks, Entry, TInv, Progress
  <2>5. Finds(r, e)
    BY <2>2, <2>3, <2>4 DEF SInv, Settled, Finished
  <2>6. row' = Visible(r)
    BY <2>1, <2>2 DEF Commit
  <2> QED
    BY <2>5, <2>6 DEF Finds, Settles
<1> QED
  BY <1>1, <1>2, <1>3, TypeCorrect, PTL DEF Spec, SyncSettles

=============================================================================
