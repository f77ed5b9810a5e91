----------------------------- MODULE ExportProofs -----------------------------
(***************************************************************************)
(* Exports, for any number of tables, titles, notes and processes, killed  *)
(* anywhere and overlapping: what the files say of the review, whose notes *)
(* they hold, where their links lead, and what an export has written that  *)
(* nobody disturbed.                                                       *)
(***************************************************************************)
EXTENDS Export, TLAPS

Pair == Memory \X Memory
Rows == [Memory -> {None} \cup Row]
Held == [file : Contents, notes : Note \cup {None}]

TypeOK ==
  /\ row \in Rows /\ related \in SUBSET Pair
  /\ file \in [Path -> {None, Torn} \cup Text]
  /\ kind \in [Process -> {"vault", "okf"}]
  /\ pc \in [Process -> {"idle", "read", "look", "held", "torn", "done"}]
  /\ at \in [Process -> Nat]
  /\ snapshot \in [Process -> Rows] /\ lines \in [Process -> SUBSET Pair]
  /\ held \in [Process -> {None} \cup Held]
  /\ mine \in [Path -> {None} \cup Note] /\ blame \in SUBSET Path
  /\ quiet \in [Process -> BOOLEAN]

-----------------------------------------------------------------------------
(***************************************************************************)
(* The inductive invariant.                                                *)
(***************************************************************************)
(* A version that was read is one that the row had: rows stay, and nothing *)
(* becomes a draft again.                                                  *)
Known(k, status) == row[k] # None /\ (status # "draft" => row[k].status # "draft")

ReadOf(e) ==
  \A k \in Memory : snapshot[e][k] # None =>
    /\ Known(k, snapshot[e][k].status)
    /\ kind[e] = "okf" => snapshot[e][k].status = "reviewed"

(* The file that is written is the next one. *)
HeldOf(e) == Writing(e) => held[e] \in Held /\ held[e].file \in Files(e) /\ Turn(e, held[e].file)

Done(e) == pc[e] = "done" => Remaining(e) = {}
PastReading(e) == pc[e] \in {"look", "held", "torn", "done"}
Written(e) == {f \in Files(e) : f.turn <= at[e]}
WrittenOf(e) == PastReading(e) => \A f \in Written(e) : file[f.path] # None

SaysInv ==
  \A p \in Path : file[p] \in Text => \A s \in file[p].shows.says : Known(s.memory, s.status)

(* The links of an index. *)
IndexInv ==
  \A k \in Memory : file[OkfIndex(k)] \in Text =>
    \A p \in file[OkfIndex(k)].shows.links : file[p] # None

(* The notes in files, and in the hands of those who write them. *)
NoteOf(p) ==
  /\ mine[p] # None => p.of \in {"page", "overview"}
  /\ file[p] = None => mine[p] = None
  /\ p \notin blame =>
       /\ file[p] \in Text => file[p].notes = mine[p]
       /\ \A e \in Process : Writing(e) /\ held[e].file.path = p => held[e].notes = mine[p]

(* What is read and written while nobody else is at work is what is there. *)
QuietOf(e) ==
  quiet[e] /\ pc[e] # "idle" =>
    /\ \A o \in Process \ {e} : ~Running(o)
    /\ \A k \in Memory : (pc[e] = "read" /\ k >= at[e]) \/ snapshot[e][k] = Selected(e, k)
    /\ PastReading(e) => lines[e] = IF kind[e] = "vault" THEN related ELSE {}
    /\ PastReading(e) => \A f \in Written(e) : file[f.path] \in Text /\ file[f.path].shows = f

IInv ==
  /\ TypeOK
  /\ \A e \in Process : ReadOf(e) /\ HeldOf(e) /\ Done(e) /\ WrittenOf(e) /\ QuietOf(e)
  /\ SaysInv /\ IndexInv
  /\ \A p \in Path : NoteOf(p)

-----------------------------------------------------------------------------
(***************************************************************************)
(* The files of a run.                                                     *)
(***************************************************************************)
LEMMA RowFields ==
  ASSUME NEW d \in Rows, NEW k \in Present(d)
  PROVE  k \in Memory /\ d[k].title \in Title /\ d[k].status \in Status
  BY DEF Rows, Present, Row

LEMMA Paths ==
  ASSUME NEW k \in Memory, NEW t \in Title
  PROVE  {Page(k, t), OkfPage(k, t), OkfIndex(k), OkfRoot, Overview} \subseteq Path
  BY DEF Path

(* The links of the vault lead to pages of rows that were read. *)
LEMMA LinksLead ==
  ASSUME NEW d \in Rows, NEW l, NEW ls \in SUBSET Lines(d, l), NEW p \in Links(d, ls)
  PROVE  \E k \in Present(d) : p = Page(k, d[k].title)
  BY DEF Links, Lines, TitleRead, Present

LEMMA VaultFile ==
  ASSUME NEW d \in Rows, NEW l, NEW f \in VaultFiles(d, l)
  PROVE  /\ f \in Contents /\ f.turn \in 1..(Tables + 1)
         /\ f.path.of \in {"page", "overview"}
         /\ \A p \in f.links : \E g \in VaultFiles(d, l) : g.path = p
         /\ \A s \in f.says : s.memory \in Present(d) /\ s.status = d[s.memory].status
<1> USE ExportAssumption
<1>0. ASSUME NEW k \in Present(d)
      PROVE  \E g \in VaultFiles(d, l) : g.path = Page(k, d[k].title)
  <2>1. PageOf(d, l, k) \in VaultFiles(d, l)
    BY DEF VaultFiles
  <2>2. PageOf(d, l, k).path = Page(k, d[k].title)
    BY DEF PageOf, Shown
  <2> QED
    BY <2>1, <2>2
<1>1. CASE f = OverviewOf(d, l)
  <2>1. /\ f.turn = Tables + 1 /\ f.path = Overview /\ f.path.of = "overview"
        /\ f.links = Links(d, Lines(d, l))
        /\ f.says = {[memory |-> k, status |-> "reviewed"] : k \in VisibleRows(d)}
    BY <1>1 DEF OverviewOf, Shown, Overview
  <2>2. \A p \in f.links : \E k \in Present(d) : p = Page(k, d[k].title)
    BY <2>1, LinksLead
  <2>3. \A p \in f.links : p \in Path
    BY <2>2, RowFields, Paths
  <2>4. \A s \in f.says : s \in [memory : Memory, status : Status]
    BY <2>1 DEF VisibleRows, Present, Status
  <2>5. f \in Contents
    BY <1>1, <2>1, <2>3, <2>4 DEF OverviewOf, Shown, Contents, Path
  <2>6. \A p \in f.links : \E g \in VaultFiles(d, l) : g.path = p
    BY <1>0, <2>2
  <2>7. \A s \in f.says : s.memory \in Present(d) /\ s.status = d[s.memory].status
    BY <2>1 DEF VisibleRows
  <2> QED
    BY <2>1, <2>5, <2>6, <2>7
<1>2. CASE \E k \in Present(d) : f = PageOf(d, l, k)
  <2>1. PICK k \in Present(d) : f = PageOf(d, l, k)
    BY <1>2
  <2>2. /\ f.turn = k /\ f.path = Page(k, d[k].title) /\ f.path.of = "page"
        /\ f.links = Links(d, {r \in Lines(d, l) : k \in {r[1], r[2]}})
        /\ f.says = {[memory |-> k, status |-> d[k].status]}
    BY <2>1 DEF PageOf, Shown, Page
  <2>3. \A p \in f.links : \E j \in Present(d) : p = Page(j, d[j].title)
    BY <2>2, LinksLead
  <2>4. \A p \in f.links : p \in Path
    BY <2>3, RowFields, Paths
  <2>5. k \in 1..Tables /\ k \in Nat /\ f.path \in Path
    BY <2>2, RowFields, Paths DEF Memory
  <2>6. f.says \in SUBSET [memory : Memory, status : Status]
    BY <2>2, RowFields
  <2>7. f \in Contents
    BY <2>1, <2>2, <2>4, <2>5, <2>6 DEF PageOf, Shown, Contents
  <2>8. \A p \in f.links : \E g \in VaultFiles(d, l) : g.path = p
    BY <1>0, <2>3
  <2>9. \A s \in f.says : s.memory \in Present(d) /\ s.status = d[s.memory].status
    BY <2>2
  <2> QED
    BY <2>2, <2>5, <2>7, <2>8, <2>9
<1> QED
  BY <1>1, <1>2 DEF VaultFiles

(* A turn and a path belong to one file. *)
LEMMA VaultApart ==
  ASSUME NEW d \in Rows, NEW l, NEW f \in VaultFiles(d, l), NEW g \in VaultFiles(d, l),
         f.turn = g.turn \/ f.path = g.path
  PROVE  f = g
<1>1. ASSUME NEW h \in VaultFiles(d, l)
      PROVE  \/ h = OverviewOf(d, l) /\ h.turn = Tables + 1 /\ h.path = Overview
             \/ \E k \in 1..Tables : h = PageOf(d, l, k) /\ h.turn = k /\ h.path = Page(k, d[k].title)
  BY DEF VaultFiles, OverviewOf, PageOf, Shown, Present, Memory
<1>2. \A t, u : \A k, j \in 1..Tables : Page(k, t) = Page(j, u) => k = j
  BY DEF Page
<1>3. \A t : \A k \in 1..Tables : Page(k, t) # Overview /\ k # Tables + 1
  BY ExportAssumption DEF Page, Overview
<1> QED
  BY <1>1, <1>2, <1>3

LEMMA OkfFile ==
  ASSUME NEW d \in Rows, NEW f \in OkfFiles(d),
         \A k \in Present(d) : d[k].status = "reviewed"
  PROVE  /\ f \in Contents /\ f.turn \in Nat \ {0}
         /\ f.path.of \notin {"page", "overview"}
         /\ \A p \in f.links : \E g \in OkfFiles(d) : g.path = p /\ g.turn < f.turn
         /\ \A s \in f.says : s.memory \in Present(d) /\ s.status = d[s.memory].status
<1>1. CASE f = OkfRootOf
  <2>1. /\ f.turn = 1 /\ f.path = OkfRoot /\ f.path.of = "okfroot" /\ f.links = {} /\ f.says = {}
    BY <1>1 DEF OkfRootOf, Shown, OkfRoot
  <2>2. f \in Contents
    BY <1>1 DEF OkfRootOf, Shown, Contents, Path
  <2> QED
    BY <2>1, <2>2
<1>2. CASE \E k \in Present(d) : f = OkfPageOf(d, k)
  <2>1. PICK k \in Present(d) : f = OkfPageOf(d, k)
    BY <1>2
  <2>2. /\ f.turn = 2 * k /\ f.path = OkfPage(k, d[k].title) /\ f.path.of = "okfpage"
        /\ f.links = {} /\ f.says = {[memory |-> k, status |-> "reviewed"]}
    BY <2>1 DEF OkfPageOf, Shown, OkfPage
  <2>3. k \in 1..Tables /\ 2 * k \in Nat \ {0} /\ f.path \in Path
    BY <2>2, RowFields, Paths, ExportAssumption DEF Memory
  <2>4. [memory |-> k, status |-> "reviewed"] \in [memory : Memory, status : Status]
    BY <2>3 DEF Memory, Status
  <2>5. f \in Contents
    BY <2>1, <2>2, <2>3, <2>4 DEF OkfPageOf, Shown, Contents
  <2>6. \A s \in f.says : s.memory \in Present(d) /\ s.status = d[s.memory].status
    BY <2>2
  <2> QED
    BY <2>2, <2>3, <2>5, <2>6
<1>3. CASE \E k \in Memory : f = OkfIndexOf(d, k)
  <2>1. PICK k \in Memory : f = OkfIndexOf(d, k)
    BY <1>3
  <2>2. /\ f.turn = 2 * k + 1 /\ f.path = OkfIndex(k) /\ f.path.of = "okfindex" /\ f.says = {}
        /\ \A p \in f.links : k \in Present(d) /\ p = OkfPage(k, d[k].title)
    BY <2>1 DEF OkfIndexOf, Shown, OkfIndex, Present
  <2>3. k \in 1..Tables /\ 2 * k + 1 \in Nat \ {0} /\ 2 * k < 2 * k + 1 /\ f.path \in Path
    BY <2>2, ExportAssumption DEF Memory, Path
  <2>4. \A p \in f.links : p \in Path
    BY <2>2, RowFields, Paths
  <2>5. f \in Contents
    BY <2>1, <2>2, <2>3, <2>4 DEF OkfIndexOf, Shown, Contents
  <2>6. ASSUME NEW p \in f.links PROVE \E g \in OkfFiles(d) : g.path = p /\ g.turn < f.turn
    <3>1. k \in Present(d) /\ p = OkfPage(k, d[k].title)
      BY <2>2
    <3>2. OkfPageOf(d, k) \in OkfFiles(d) /\ OkfPageOf(d, k).path = p /\ OkfPageOf(d, k).turn = 2 * k
      BY <3>1 DEF OkfFiles, OkfPageOf, Shown
    <3> QED
      BY <2>2, <2>3, <3>2
  <2> QED
    BY <2>2, <2>3, <2>5, <2>6
<1> QED
  BY <1>1, <1>2, <1>3 DEF OkfFiles

LEMMA OkfApart ==
  ASSUME NEW d \in Rows, NEW f \in OkfFiles(d), NEW g \in OkfFiles(d),
         f.turn = g.turn \/ f.path = g.path
  PROVE  f = g
<1>1. ASSUME NEW h \in OkfFiles(d)
      PROVE  \/ h = OkfRootOf /\ h.turn = 1 /\ h.path = OkfRoot
             \/ \E k \in 1..Tables : h = OkfPageOf(d, k) /\ h.turn = 2 * k /\ h.path = OkfPage(k, d[k].title)
             \/ \E k \in 1..Tables : h = OkfIndexOf(d, k) /\ h.turn = 2 * k + 1 /\ h.path = OkfIndex(k)
  BY DEF OkfFiles, OkfRootOf, OkfPageOf, OkfIndexOf, Shown, Present, Memory
<1>2. \A t, u : \A k, j \in 1..Tables :
        /\ OkfPage(k, t) = OkfPage(j, u) => k = j
        /\ OkfIndex(k) = OkfIndex(j) => k = j
        /\ OkfPage(k, t) # OkfIndex(j) /\ OkfPage(k, t) # OkfRoot /\ OkfIndex(j) # OkfRoot
  BY DEF OkfPage, OkfIndex, OkfRoot
<1>3. \A k, j \in 1..Tables :
        /\ 2 * k = 2 * j => k = j
        /\ 2 * k + 1 = 2 * j + 1 => k = j
        /\ 2 * k # 2 * j + 1 /\ 2 * k # 1 /\ 2 * k + 1 # 1
  BY ExportAssumption
<1> QED
  BY <1>1, <1>2, <1>3

LEMMA FileFacts ==
  ASSUME TypeOK, NEW e \in Process, ReadOf(e), NEW f \in Files(e)
  PROVE  /\ f \in Contents /\ f.turn > 0 /\ f.path \in Path
         /\ f.path.of \in {"page", "overview"} <=> kind[e] = "vault"
         /\ \A p \in f.links : \E g \in Files(e) : g.path = p
         /\ kind[e] = "okf" => \A p \in f.links : \E g \in Files(e) : g.path = p /\ g.turn < f.turn
         /\ \A s \in f.says : /\ s.memory \in Memory /\ snapshot[e][s.memory] # None
                              /\ s.status = snapshot[e][s.memory].status
         /\ \A g \in Files(e) : f.turn = g.turn \/ f.path = g.path => f = g
<1>1. snapshot[e] \in Rows /\ kind[e] \in {"vault", "okf"}
  BY DEF TypeOK
<1>2. CASE kind[e] = "vault"
  <2>1. Files(e) = VaultFiles(snapshot[e], lines[e])
    BY <1>2 DEF Files
  <2>2. f.turn > 0
    BY <1>1, <2>1, VaultFile, ExportAssumption
  <2> QED
    BY <1>1, <1>2, <2>1, <2>2, VaultFile, VaultApart DEF Present, Contents
<1>3. CASE kind[e] = "okf"
  <2>1. Files(e) = OkfFiles(snapshot[e])
    BY <1>3 DEF Files
  <2>2. \A k \in Present(snapshot[e]) : snapshot[e][k].status = "reviewed"
    BY <1>3 DEF ReadOf, Present
  <2>3. /\ f \in Contents /\ f.turn \in Nat \ {0}
        /\ f.path.of \notin {"page", "overview"}
        /\ \A p \in f.links : \E g \in Files(e) : g.path = p /\ g.turn < f.turn
        /\ \A s \in f.says : s.memory \in Present(snapshot[e]) /\ s.status = snapshot[e][s.memory].status
    BY <1>1, <2>1, <2>2, OkfFile
  <2>4. \A g \in Files(e) : f.turn = g.turn \/ f.path = g.path => f = g
    BY <1>1, <2>1, OkfApart
  <2> QED
    BY <1>3, <2>3, <2>4 DEF Present, Contents
<1> QED
  BY <1>1, <1>2, <1>3

LEMMA SameFiles ==
  ASSUME NEW e \in Process,
         kind'[e] = kind[e], snapshot'[e] = snapshot[e], lines'[e] = lines[e]
  PROVE  Files(e)' = Files(e)
  BY DEF Files

-----------------------------------------------------------------------------
(***************************************************************************)
(* Rows stay, and nothing becomes a draft again.                           *)
(***************************************************************************)
LEMMA KnownStays ==
  ASSUME TypeOK, [Next]_vars, NEW k \in Memory, NEW s, Known(k, s)
  PROVE  Known(k, s)'
<1>1. row \in Rows /\ None \notin Row /\ row[k] \in Row
  BY ExportAssumption DEF TypeOK, Rows, Known
<1>2. CASE row' = row
  BY <1>2 DEF Known
<1>3. CASE \E j \in Memory : Remember(j)
  BY <1>1, <1>3 DEF Remember, Known, Rows
<1>4. CASE \E j \in Memory : Review(j)
  <2>1. PICK j \in Memory, t \in {"reviewed", "archived"} :
          row[j].status = "draft" /\ row' = [row EXCEPT ![j].status = t]
    BY <1>4 DEF Review
  <2>2. CASE j = k
    <3>1. row'[k] = [row[k] EXCEPT !.status = t]
      BY <1>1, <2>1, <2>2 DEF Rows
    <3>2. row'[k] \in Row /\ row'[k].status = t
      BY <1>1, <3>1 DEF Row, Status
    <3> QED
      BY <1>1, <2>1, <3>2 DEF Known
  <2>3. CASE j # k
    BY <1>1, <2>1, <2>3 DEF Known, Rows
  <2> QED
    BY <2>2, <2>3
<1>5. CASE \E j \in Memory : Retitle(j)
  <2>1. PICK j \in Memory, t \in Title : row' = [row EXCEPT ![j].title = t]
    BY <1>5 DEF Retitle
  <2>2. CASE j = k
    <3>1. row'[k] = [row[k] EXCEPT !.title = t]
      BY <1>1, <2>1, <2>2 DEF Rows
    <3>2. row'[k] \in Row /\ row'[k].status = row[k].status
      BY <1>1, <3>1 DEF Row
    <3> QED
      BY <1>1, <3>2 DEF Known
  <2>3. CASE j # k
    BY <1>1, <2>1, <2>3 DEF Known, Rows
  <2> QED
    BY <2>2, <2>3
<1> QED
  BY <1>2, <1>3, <1>4, <1>5
     DEF Next, vars, database, Relate, EditNote, Start, Read, ReadRelations, Look, Truncate, Fill,
         Finish, Kill

(* What others commit. *)
OthersCommit ==
  \E k \in Memory : Remember(k) \/ Review(k) \/ Retitle(k) \/ \E j \in Memory : Relate(j, k)

LEMMA CommitTypes ==
  ASSUME TypeOK, OthersCommit
  PROVE  /\ row' \in Rows /\ related' \in SUBSET Pair
         /\ quiet' = [e \in Process |-> FALSE]
         /\ UNCHANGED <<file, kind, pc, at, snapshot, lines, held, mine, blame>>
<1>1. row \in Rows /\ related \in SUBSET Pair
  BY DEF TypeOK
<1>2. /\ quiet' = [e \in Process |-> FALSE]
      /\ UNCHANGED <<file, kind, pc, at, snapshot, lines, held, mine, blame>>
  BY DEF OthersCommit, Remember, Review, Retitle, Relate, Commits, reading, person
<1>3. ASSUME NEW k \in Memory, Remember(k) PROVE row' \in Rows /\ related' = related
  BY <1>1, <1>3 DEF Remember, Rows, Row, Status
<1>4. ASSUME NEW k \in Memory, Review(k) PROVE row' \in Rows /\ related' = related
  <2>1. row[k] \in Row
    BY <1>1, <1>4 DEF Review, Rows
  <2>2. PICK t \in {"reviewed", "archived"} : row' = [row EXCEPT ![k] = [row[k] EXCEPT !.status = t]]
    BY <1>4 DEF Review
  <2>3. [row[k] EXCEPT !.status = t] \in Row
    BY <2>1 DEF Row, Status
  <2> QED
    BY <1>1, <1>4, <2>2, <2>3 DEF Rows, Review
<1>5. ASSUME NEW k \in Memory, Retitle(k) PROVE row' \in Rows /\ related' = related
  <2>1. row[k] \in Row
    BY <1>1, <1>5 DEF Retitle, Rows
  <2>2. PICK t \in Title : row' = [row EXCEPT ![k] = [row[k] EXCEPT !.title = t]]
    BY <1>5 DEF Retitle
  <2>3. [row[k] EXCEPT !.title = t] \in Row
    BY <2>1 DEF Row
  <2> QED
    BY <1>1, <1>5, <2>2, <2>3 DEF Rows, Retitle
<1>6. ASSUME NEW k \in Memory, NEW j \in Memory, Relate(j, k)
      PROVE  row' = row /\ related' \in SUBSET Pair
  BY <1>1, <1>6 DEF Relate, Pair
<1> QED
  BY <1>1, <1>2, <1>3, <1>4, <1>5, <1>6 DEF OthersCommit

LEMMA StepCommit ==
  ASSUME IInv, OthersCommit
  PROVE  IInv'
<1>1. /\ row' \in Rows /\ related' \in SUBSET Pair
      /\ quiet' = [e \in Process |-> FALSE]
      /\ UNCHANGED <<file, kind, pc, at, snapshot, lines, held, mine, blame>>
  BY CommitTypes DEF IInv
<1>2. TypeOK'
  BY <1>1 DEF IInv, TypeOK
<1>3. ASSUME NEW k \in Memory, NEW s, Known(k, s) PROVE Known(k, s)'
  BY <1>3, KnownStays DEF IInv, OthersCommit, Next
<1>4. ASSUME NEW e \in Process
      PROVE  ReadOf(e)' /\ HeldOf(e)' /\ Done(e)' /\ WrittenOf(e)' /\ QuietOf(e)'
  <2>1. Files(e)' = Files(e)
    BY <1>1, SameFiles
  <2>2. ReadOf(e)'
    BY <1>1, <1>3 DEF IInv, ReadOf
  <2>3. HeldOf(e)' /\ Done(e)' /\ WrittenOf(e)'
    BY <1>1, <2>1 DEF IInv, HeldOf, Writing, Turn, Remaining, Done, WrittenOf, Written, PastReading
  <2>4. QuietOf(e)'
    BY <1>1 DEF QuietOf
  <2> QED
    BY <2>2, <2>3, <2>4
<1>5. SaysInv'
  <2> SUFFICES ASSUME NEW p \in Path, file[p] \in Text, NEW s \in file[p].shows.says
               PROVE  Known(s.memory, s.status)'
    BY <1>1 DEF SaysInv
  <2>1. s.memory \in Memory
    BY DEF Text, Contents
  <2> QED
    BY <1>3, <2>1 DEF IInv, SaysInv
<1>6. IndexInv' /\ \A p \in Path : NoteOf(p)'
  BY <1>1 DEF IInv, IndexInv, NoteOf, Writing
<1> QED
  BY <1>2, <1>4, <1>5, <1>6 DEF IInv

-----------------------------------------------------------------------------
(***************************************************************************)
(* The person and the processes.                                           *)
(***************************************************************************)
Local(e) == <<kind[e], pc[e], at[e], snapshot[e], lines[e], held[e]>>

(* What stands for a process is not disturbed by the steps of others,      *)
(* unless it has been alone so far.                                        *)
LEMMA OfOthers ==
  ASSUME IInv, NEW e \in Process, UNCHANGED <<row, related>>, UNCHANGED Local(e),
         \A p \in Path : file[p] # None => file'[p] # None,
         quiet'[e] => pc[e] = "idle"
  PROVE  ReadOf(e)' /\ HeldOf(e)' /\ Done(e)' /\ WrittenOf(e)' /\ QuietOf(e)'
<1>1. /\ kind'[e] = kind[e] /\ pc'[e] = pc[e] /\ at'[e] = at[e]
      /\ snapshot'[e] = snapshot[e] /\ lines'[e] = lines[e] /\ held'[e] = held[e]
  BY DEF Local
<1>2. Files(e)' = Files(e)
  BY <1>1, SameFiles
<1>3. ReadOf(e)'
  BY <1>1 DEF IInv, ReadOf, Known
<1>4. HeldOf(e)' /\ Done(e)'
  BY <1>1, <1>2 DEF IInv, HeldOf, Writing, Turn, Remaining, Done
<1>5. \A f \in Files(e) : f.path \in Path
  BY FileFacts DEF IInv
<1>6. WrittenOf(e)'
  BY <1>1, <1>2, <1>5 DEF IInv, WrittenOf, Written, PastReading
<1>7. QuietOf(e)'
  BY <1>1 DEF QuietOf
<1> QED
  BY <1>3, <1>4, <1>6, <1>7

LEMMA StepEdit ==
  ASSUME IInv, NEW p \in Path, EditNote(p)
  PROVE  IInv'
<1>1. PICK n \in Note : /\ file' = [file EXCEPT ![p] = [file[p] EXCEPT !.notes = n]]
                        /\ mine' = [mine EXCEPT ![p] = n]
  BY DEF EditNote
<1>2. /\ file[p] \in Text /\ p.of \in {"page", "overview"}
      /\ blame' = IF Holding(p) THEN blame \cup {p} ELSE blame \ {p}
      /\ UNCHANGED <<row, related, kind, pc, at, snapshot, lines, held, quiet>>
  BY DEF EditNote, IInv, TypeOK, database, reading
<1>3. /\ file'[p] \in Text /\ file'[p].notes = n /\ file'[p].shows = file[p].shows
      /\ \A q \in Path \ {p} : file'[q] = file[q]
  BY <1>1, <1>2 DEF Text, IInv, TypeOK
<1>4. file' \in [Path -> {None, Torn} \cup Text] /\ mine' \in [Path -> {None} \cup Note]
  <2> DEFINE t == [file[p] EXCEPT !.notes = n]
  <2>1. t \in Text
    BY <1>2 DEF Text
  <2>2. file \in [Path -> {None, Torn} \cup Text] /\ file' = [file EXCEPT ![p] = t]
    BY <1>1 DEF IInv, TypeOK
  <2> HIDE DEF t
  <2> QED
    BY <1>1, <2>1, <2>2 DEF IInv, TypeOK
<1>5. TypeOK'
  BY <1>2, <1>4 DEF IInv, TypeOK
<1>6. None \notin Text /\ Torn \notin Text /\ None \notin Note
  BY ExportAssumption
<1>7. ASSUME NEW e \in Process
      PROVE  ReadOf(e)' /\ HeldOf(e)' /\ Done(e)' /\ WrittenOf(e)' /\ QuietOf(e)'
  <2>1. Files(e)' = Files(e)
    BY <1>2, SameFiles
  <2>2. ReadOf(e)' /\ HeldOf(e)' /\ Done(e)'
    BY <1>2, <2>1 DEF IInv, ReadOf, Known, HeldOf, Writing, Turn, Remaining, Done
  <2>3. \A f \in Files(e) : f.path \in Path
    BY FileFacts DEF IInv
  <2>4. WrittenOf(e)'
    BY <1>2, <1>3, <1>6, <2>1, <2>3 DEF IInv, WrittenOf, Written, PastReading
  <2>5. \A f \in Files(e) : file[f.path] \in Text /\ file[f.path].shows = f =>
          file'[f.path] \in Text /\ file'[f.path].shows = f
    BY <1>3, <2>3
  <2>6. QuietOf(e)'
    BY <1>2, <2>1, <2>5 DEF IInv, QuietOf, Written, PastReading, Running, Selected
  <2> QED
    BY <2>2, <2>4, <2>6
<1>8. SaysInv'
  BY <1>2, <1>3 DEF IInv, SaysInv, Known
<1>9. IndexInv'
  <2>1. \A k \in Memory : p # OkfIndex(k)
    BY <1>2 DEF OkfIndex
  <2>2. \A k \in Memory : OkfIndex(k) \in Path
    BY DEF Path
  <2>3. \A k \in Memory : file[OkfIndex(k)] \in Text => file[OkfIndex(k)].shows.links \subseteq Path
    BY DEF Text, Contents
  <2> QED
    BY <1>3, <1>6, <2>1, <2>2, <2>3 DEF IInv, IndexInv
<1>10. ASSUME NEW q \in Path PROVE NoteOf(q)'
  <2>1. CASE q = p
    <3>1. mine'[p] = n /\ file'[p] # None
      BY <1>1, <1>3, <1>6 DEF IInv, TypeOK
    <3>2. p \notin blame' => ~Holding(p)
      BY <1>2
    <3> QED
      BY <1>2, <1>3, <2>1, <3>1, <3>2 DEF NoteOf, Holding, Writing
  <2>2. CASE q # p
    <3>1. mine'[q] = mine[q] /\ file'[q] = file[q] /\ (q \notin blame' => q \notin blame)
      BY <1>1, <1>2, <1>3, <2>2 DEF IInv, TypeOK
    <3> QED
      BY <1>2, <3>1 DEF IInv, NoteOf, Writing
  <2> QED
    BY <2>1, <2>2
<1> QED
  BY <1>5, <1>7, <1>8, <1>9, <1>10 DEF IInv

(* Steps that leave the files alone: what they must keep. *)
LEMMA FilesAlone ==
  ASSUME IInv, NEW e \in Process, TypeOK', UNCHANGED <<row, related, file, mine, kind>>,
         blame \subseteq blame',
         \A o \in Process \ {e} : Local(o)' = Local(o) /\ (quiet'[o] => pc[o] = "idle"),
         \A p \in Path \ blame' :
           Writing(e)' /\ held'[e].file.path = p => held'[e].notes = mine[p],
         ReadOf(e)', HeldOf(e)', Done(e)', WrittenOf(e)', QuietOf(e)'
  PROVE  IInv'
<1>1. \A o \in Process \ {e} : pc'[o] = pc[o] /\ held'[o] = held[o]
  BY DEF Local
<1>2. \A o \in Process \ {e} : ReadOf(o)' /\ HeldOf(o)' /\ Done(o)' /\ WrittenOf(o)' /\ QuietOf(o)'
  BY OfOthers
<1>3. SaysInv' /\ IndexInv'
  BY DEF IInv, SaysInv, IndexInv, Known
<1>4. \A p \in Path : NoteOf(p)'
  BY <1>1 DEF IInv, NoteOf, Writing
<1> QED
  BY <1>2, <1>3, <1>4 DEF IInv

LEMMA OthersBusy ==
  ASSUME IInv, NEW e \in Process, NEW o \in Process \ {e}, Running(e), quiet[o]
  PROVE  pc[o] = "idle"
  BY DEF IInv, QuietOf

LEMMA StepStart ==
  ASSUME IInv, NEW e \in Process, Start(e)
  PROVE  IInv'
<1>1. /\ pc' = [pc EXCEPT ![e] = "read"] /\ at' = [at EXCEPT ![e] = 1]
      /\ snapshot' = [snapshot EXCEPT ![e] = NothingRead] /\ lines' = [lines EXCEPT ![e] = {}]
      /\ quiet' = [q \in Process |-> q = e /\ \A o \in Process \ {e} : ~Running(o)]
      /\ UNCHANGED <<row, related, file, kind, held, mine, blame>>
  BY DEF Start, database, person
<1>2. NothingRead \in Rows /\ \A k \in Memory : NothingRead[k] = None
  BY DEF NothingRead, Rows
<1>3. TypeOK'
  <2>1. quiet' \in [Process -> BOOLEAN]
    BY <1>1
  <2> QED
    BY <1>1, <1>2, <2>1 DEF IInv, TypeOK
<1>4. pc'[e] = "read" /\ at'[e] = 1 /\ snapshot'[e] = NothingRead
  BY <1>1 DEF IInv, TypeOK
<1>5. \A o \in Process \ {e} : pc'[o] = pc[o] /\ Local(o)' = Local(o) /\ ~quiet'[o]
  BY <1>1 DEF Local, IInv, TypeOK
<1>6. ReadOf(e)' /\ HeldOf(e)' /\ Done(e)' /\ WrittenOf(e)'
  BY <1>2, <1>4 DEF ReadOf, HeldOf, Done, WrittenOf, Writing, PastReading
<1>7. QuietOf(e)'
  <2> SUFFICES ASSUME quiet'[e] PROVE QuietOf(e)'
    BY DEF QuietOf
  <2>1. \A o \in Process \ {e} : ~Running(o)'
    BY <1>1, <1>5 DEF Running
  <2>2. \A k \in Memory : k >= 1
    BY ExportAssumption DEF Memory
  <2> QED
    BY <1>4, <2>1, <2>2 DEF QuietOf, PastReading
<1> QED
  BY <1>1, <1>3, <1>4, <1>5, <1>6, <1>7, FilesAlone DEF Writing

LEMMA StepRead ==
  ASSUME IInv, NEW e \in Process, Read(e)
  PROVE  IInv'
<1>1. /\ pc[e] = "read" /\ at[e] <= Tables
      /\ snapshot' = [snapshot EXCEPT ![e] = [snapshot[e] EXCEPT ![at[e]] = Selected(e, at[e])]]
      /\ at' = [at EXCEPT ![e] = at[e] + 1]
      /\ UNCHANGED <<row, related, file, kind, pc, lines, held, mine, blame, quiet>>
  BY DEF Read, database, person
<1>2. /\ snapshot \in [Process -> Rows] /\ at \in [Process -> Nat] /\ row \in Rows
      /\ Tables \in Nat /\ None \notin Row
  BY ExportAssumption DEF IInv, TypeOK
<1>3. \A k \in Memory : Selected(e, k) \in {None} \cup Row
  BY <1>2 DEF Selected, Rows
<1>4. [snapshot[e] EXCEPT ![at[e]] = Selected(e, at[e])] \in Rows
  BY <1>2, <1>3 DEF Rows
<1>5. TypeOK'
  <2>1. snapshot' \in [Process -> Rows] /\ at' \in [Process -> Nat]
    BY <1>1, <1>2, <1>4
  <2> QED
    BY <1>1, <2>1 DEF IInv, TypeOK
<1>6. /\ at'[e] = at[e] + 1
      /\ \A k \in Memory : snapshot'[e][k] = IF k = at[e] THEN Selected(e, k) ELSE snapshot[e][k]
  BY <1>1, <1>2 DEF Rows
<1>7. \A o \in Process \ {e} : Local(o)' = Local(o) /\ (quiet'[o] => pc[o] = "idle")
  <2>1. Running(e)
    BY <1>1 DEF Running
  <2> QED
    BY <1>1, <1>2, <2>1, OthersBusy DEF Local
<1>8. ReadOf(e)'
  <2> SUFFICES ASSUME NEW k \in Memory, snapshot'[e][k] # None
               PROVE  /\ Known(k, snapshot'[e][k].status)
                      /\ kind[e] = "okf" => snapshot'[e][k].status = "reviewed"
    BY <1>1 DEF ReadOf, Known
  <2>1. CASE k = at[e]
    BY <1>6, <2>1 DEF Selected, Known
  <2>2. CASE k # at[e]
    BY <1>6, <2>2 DEF IInv, ReadOf
  <2> QED
    BY <2>1, <2>2
<1>9. HeldOf(e)' /\ Done(e)' /\ WrittenOf(e)'
  BY <1>1 DEF HeldOf, Done, WrittenOf, Writing, PastReading
<1>10. QuietOf(e)'
  <2> SUFFICES ASSUME quiet[e] PROVE QuietOf(e)'
    BY <1>1 DEF QuietOf
  <2>1. /\ \A o \in Process \ {e} : ~Running(o)
        /\ \A k \in Memory : k >= at[e] \/ snapshot[e][k] = Selected(e, k)
    BY <1>1 DEF IInv, QuietOf
  <2>2. \A k \in Memory : k >= at'[e] \/ snapshot'[e][k] = Selected(e, k)
    <3> TAKE k \in Memory
    <3>1. k \in Nat /\ at[e] \in Nat
      BY <1>2 DEF Memory
    <3> QED
      BY <1>6, <2>1, <3>1
  <2> QED
    BY <1>1, <2>1, <2>2 DEF QuietOf, PastReading, Running, Selected
<1> QED
  BY <1>1, <1>5, <1>7, <1>8, <1>9, <1>10, FilesAlone DEF Writing

LEMMA StepReadRelations ==
  ASSUME IInv, NEW e \in Process, ReadRelations(e)
  PROVE  IInv'
<1>1. /\ pc[e] = "read" /\ at[e] > Tables /\ pc' = [pc EXCEPT ![e] = "look"]
      /\ lines' = [lines EXCEPT ![e] = IF kind[e] = "vault" THEN related ELSE {}]
      /\ at' = [at EXCEPT ![e] = 0]
      /\ UNCHANGED <<row, related, file, kind, snapshot, held, mine, blame, quiet>>
  BY DEF ReadRelations, Goto, database, person
<1>2. at \in [Process -> Nat] /\ Tables \in Nat
  BY ExportAssumption DEF IInv, TypeOK
<1>3. TypeOK'
  <2>1. (IF kind[e] = "vault" THEN related ELSE {}) \in SUBSET Pair
    BY DEF IInv, TypeOK
  <2> QED
    BY <1>1, <2>1 DEF IInv, TypeOK
<1>4. /\ pc'[e] = "look" /\ at'[e] = 0 /\ snapshot'[e] = snapshot[e]
      /\ lines'[e] = IF kind[e] = "vault" THEN related ELSE {}
  BY <1>1 DEF IInv, TypeOK
<1>5. \A o \in Process \ {e} : pc'[o] = pc[o] /\ Local(o)' = Local(o) /\ (quiet'[o] => pc[o] = "idle")
  <2>1. Running(e)
    BY <1>1 DEF Running
  <2> QED
    BY <1>1, <1>2, <2>1, OthersBusy DEF Local, IInv, TypeOK
<1>6. ReadOf(e)'
  BY <1>1 DEF IInv, ReadOf, Known
<1>7. Written(e)' = {}
  <2>1. /\ snapshot[e] \in Rows
        /\ kind[e] = "okf" => \A k \in Present(snapshot[e]) : snapshot[e][k].status = "reviewed"
    BY DEF IInv, TypeOK, ReadOf, Present
  <2>2. Files(e)' = IF kind[e] = "vault" THEN VaultFiles(snapshot[e], lines'[e])
                    ELSE OkfFiles(snapshot[e])
    BY <1>1 DEF Files
  <2>3. kind[e] \in {"vault", "okf"}
    BY DEF IInv, TypeOK
  <2>4. \A f \in Files(e)' : f.turn \in Nat \ {0}
    BY <1>2, <2>1, <2>2, <2>3, VaultFile, OkfFile
  <2> QED
    BY <1>4, <2>4 DEF Written
<1>8. HeldOf(e)' /\ Done(e)' /\ WrittenOf(e)'
  BY <1>4, <1>7 DEF HeldOf, Done, WrittenOf, Writing
<1>9. QuietOf(e)'
  <2> SUFFICES ASSUME quiet[e] PROVE QuietOf(e)'
    BY <1>1 DEF QuietOf
  <2>1. /\ \A o \in Process \ {e} : ~Running(o)
        /\ \A k \in Memory : k >= at[e] \/ snapshot[e][k] = Selected(e, k)
    BY <1>1 DEF IInv, QuietOf
  <2>2. \A k \in Memory : snapshot[e][k] = Selected(e, k)
    BY <1>1, <1>2, <2>1 DEF Memory
  <2>3. \A o \in Process \ {e} : ~Running(o)'
    BY <1>5, <2>1 DEF Running
  <2>4. \A k \in Memory : Selected(e, k)' = Selected(e, k)
    BY <1>1 DEF Selected
  <2> QED
    BY <1>1, <1>4, <1>7, <2>2, <2>3, <2>4 DEF QuietOf, PastReading
<1> QED
  BY <1>1, <1>3, <1>4, <1>5, <1>6, <1>8, <1>9, FilesAlone DEF Writing

LEMMA StepLook ==
  ASSUME IInv, NEW e \in Process, Look(e)
  PROVE  IInv'
<1>1. PICK f \in Files(e) :
        /\ Turn(e, f)
        /\ held' = [held EXCEPT ![e] =
                      [file  |-> f, notes |-> IF kind[e] = "vault" THEN NotesIn(f.path) ELSE None]]
        /\ blame' = IF file[f.path] = Torn THEN blame \cup {f.path} ELSE blame
  BY DEF Look
<1> DEFINE n == IF kind[e] = "vault" THEN NotesIn(f.path) ELSE None
<1>2. /\ pc[e] = "look" /\ pc' = [pc EXCEPT ![e] = "held"]
      /\ UNCHANGED <<row, related, file, kind, at, snapshot, lines, mine, quiet>>
  BY DEF Look, Goto, database, reading, person
<1>3. /\ f \in Contents /\ f.path \in Path
      /\ f.path.of \in {"page", "overview"} <=> kind[e] = "vault"
  BY FileFacts DEF IInv
<1>4. file[f.path] \in {None, Torn} \cup Text
  BY <1>3 DEF IInv, TypeOK
<1>5. n \in Note \cup {None} /\ (f.path \notin blame' => n = mine[f.path])
  <2>1. file[f.path] \in Text => file[f.path].notes \in Note \cup {None}
    BY DEF Text
  <2>2. NoteOf(f.path)
    BY <1>3 DEF IInv
  <2>3. CASE kind[e] = "vault"
    BY <1>1, <1>4, <2>1, <2>2, <2>3, ExportAssumption DEF NotesIn, NoteOf
  <2>4. CASE kind[e] # "vault"
    BY <1>3, <2>2, <2>4 DEF NoteOf
  <2> QED
    BY <2>3, <2>4
<1>6. TypeOK'
  <2>1. [file |-> f, notes |-> n] \in Held
    BY <1>3, <1>5 DEF Held
  <2>2. held' \in [Process -> {None} \cup Held]
    BY <1>1, <2>1 DEF IInv, TypeOK
  <2> QED
    BY <1>1, <1>2, <1>3, <2>2 DEF IInv, TypeOK
<1>7. pc'[e] = "held" /\ held'[e] = [file |-> f, notes |-> n]
  BY <1>1, <1>2 DEF IInv, TypeOK
<1>8. \A o \in Process \ {e} : pc'[o] = pc[o] /\ Local(o)' = Local(o) /\ (quiet'[o] => pc[o] = "idle")
  <2>1. Running(e)
    BY <1>2 DEF Running
  <2> QED
    BY <1>1, <1>2, <2>1, OthersBusy DEF Local, IInv, TypeOK
<1>9. Files(e)' = Files(e)
  BY <1>2, SameFiles
<1>10. ReadOf(e)' /\ Done(e)' /\ WrittenOf(e)'
  BY <1>2, <1>7, <1>9 DEF IInv, ReadOf, Known, Done, WrittenOf, Written, PastReading
<1>11. HeldOf(e)'
  <2>1. held'[e] \in Held
    BY <1>3, <1>5, <1>7 DEF Held
  <2> QED
    BY <1>1, <1>2, <1>7, <1>9, <2>1 DEF HeldOf, Turn, Remaining
<1>12. QuietOf(e)'
  <2> SUFFICES ASSUME quiet[e] PROVE QuietOf(e)'
    BY <1>2 DEF QuietOf
  <2>1. QuietOf(e)
    BY DEF IInv
  <2> QED
    BY <1>2, <1>7, <1>8, <1>9, <2>1 DEF QuietOf, Written, PastReading, Running, Selected
<1> QED
  BY <1>1, <1>2, <1>5, <1>6, <1>7, <1>8, <1>10, <1>11, <1>12, FilesAlone

LEMMA StepFinish ==
  ASSUME IInv, NEW e \in Process, Finish(e)
  PROVE  IInv'
<1>1. /\ pc[e] = "look" /\ pc' = [pc EXCEPT ![e] = "done"] /\ Remaining(e) = {}
      /\ UNCHANGED <<row, related, file, kind, at, snapshot, lines, held, mine, blame, quiet>>
  BY DEF Finish, Goto, database, reading, person
<1>2. TypeOK'
  BY <1>1 DEF IInv, TypeOK
<1>3. pc'[e] = "done"
  BY <1>1 DEF IInv, TypeOK
<1>4. \A o \in Process \ {e} : pc'[o] = pc[o] /\ Local(o)' = Local(o) /\ (quiet'[o] => pc[o] = "idle")
  <2>1. Running(e)
    BY <1>1 DEF Running
  <2> QED
    BY <1>1, <2>1, OthersBusy DEF Local, IInv, TypeOK
<1>5. Files(e)' = Files(e)
  BY <1>1, SameFiles
<1>6. ReadOf(e)' /\ HeldOf(e)' /\ Done(e)' /\ WrittenOf(e)'
  BY <1>1, <1>3, <1>5
     DEF IInv, ReadOf, Known, HeldOf, Writing, Done, Remaining, WrittenOf, Written, PastReading
<1>7. QuietOf(e)'
  <2>1. QuietOf(e)
    BY DEF IInv
  <2> QED
    BY <1>1, <1>3, <1>4, <1>5, <2>1 DEF QuietOf, Written, PastReading, Running, Selected
<1> QED
  BY <1>1, <1>2, <1>3, <1>4, <1>6, <1>7, FilesAlone DEF Writing

LEMMA StepKill ==
  ASSUME IInv, NEW e \in Process, Kill(e)
  PROVE  IInv'
<1>1. /\ Running(e) /\ pc' = [pc EXCEPT ![e] = "idle"]
      /\ blame' = IF pc[e] = "torn" THEN blame \cup {held[e].file.path} ELSE blame
      /\ held' = [held EXCEPT ![e] = None] /\ snapshot' = [snapshot EXCEPT ![e] = NothingRead]
      /\ lines' = [lines EXCEPT ![e] = {}] /\ at' = [at EXCEPT ![e] = 1]
      /\ UNCHANGED <<row, related, file, kind, mine, quiet>>
  BY DEF Kill, database, person
<1>2. NothingRead \in Rows /\ \A k \in Memory : NothingRead[k] = None
  BY DEF NothingRead, Rows
<1>3. TypeOK'
  <2>1. pc[e] = "torn" => held[e].file.path \in Path
    BY DEF IInv, HeldOf, Writing, Held, Contents
  <2> QED
    BY <1>1, <1>2, <2>1 DEF IInv, TypeOK
<1>4. pc'[e] = "idle" /\ snapshot'[e] = NothingRead
  BY <1>1 DEF IInv, TypeOK
<1>5. \A o \in Process \ {e} : Local(o)' = Local(o) /\ (quiet'[o] => pc[o] = "idle")
  BY <1>1, OthersBusy DEF Local, IInv, TypeOK
<1>6. ReadOf(e)' /\ HeldOf(e)' /\ Done(e)' /\ WrittenOf(e)' /\ QuietOf(e)'
  BY <1>2, <1>4 DEF ReadOf, HeldOf, Done, WrittenOf, QuietOf, Writing, PastReading
<1> QED
  BY <1>1, <1>3, <1>4, <1>5, <1>6, FilesAlone DEF Writing

(* What e has written is not what it writes now. *)
LEMMA NextFile ==
  ASSUME IInv, NEW e \in Process, Writing(e)
  PROVE  /\ held[e] \in Held /\ held[e].file \in Files(e) /\ held[e].file.path \in Path
         /\ \A f \in Written(e) : f.path # held[e].file.path
         /\ \A f \in Files(e) : f.turn < held[e].file.turn => f \in Written(e)
         /\ \A f \in Files(e) : f.turn <= held[e].file.turn => f \in Written(e) \cup {held[e].file}
<1>1. /\ held[e] \in Held /\ held[e].file \in Files(e) /\ Turn(e, held[e].file)
      /\ at[e] \in Nat
  BY DEF IInv, HeldOf, TypeOK
<1>2. \A f \in Files(e) : f \in Contents /\ f.path \in Path /\ f.turn \in Nat
  BY FileFacts DEF IInv, Contents
<1>3. \A f, g \in Files(e) : f.turn = g.turn \/ f.path = g.path => f = g
  BY FileFacts DEF IInv
<1> QED
  BY <1>1, <1>2, <1>3 DEF Turn, Remaining, Written

LEMMA StepTruncate ==
  ASSUME IInv, NEW e \in Process, Truncate(e)
  PROVE  IInv'
<1> DEFINE hp == held[e].file.path
<1>1. /\ pc[e] = "held" /\ pc' = [pc EXCEPT ![e] = "torn"]
      /\ file' = [file EXCEPT ![hp] = Torn]
      /\ UNCHANGED <<row, related, kind, at, snapshot, lines, held, mine, blame, quiet>>
  BY DEF Truncate, Goto, database, reading, person
<1>2. /\ held[e] \in Held /\ held[e].file \in Files(e) /\ hp \in Path
      /\ \A f \in Written(e) : f.path # hp
  BY <1>1, NextFile DEF Writing
<1> HIDE DEF hp
<1>3. TypeOK'
  BY <1>1 DEF IInv, TypeOK
<1>4. pc'[e] = "torn" /\ \A q \in Path : file'[q] = IF q = hp THEN Torn ELSE file[q]
  BY <1>1 DEF IInv, TypeOK
<1>5. \A o \in Process \ {e} : pc'[o] = pc[o] /\ Local(o)' = Local(o) /\ (quiet'[o] => pc[o] = "idle")
  <2>1. Running(e)
    BY <1>1 DEF Running
  <2> QED
    BY <1>1, <2>1, OthersBusy DEF Local, IInv, TypeOK
<1>6. Torn # None /\ Torn \notin Text
  BY ExportAssumption
<1>7. \A o \in Process \ {e} : ReadOf(o)' /\ HeldOf(o)' /\ Done(o)' /\ WrittenOf(o)' /\ QuietOf(o)'
  BY <1>1, <1>4, <1>5, <1>6, OfOthers
<1>8. Files(e)' = Files(e) /\ \A f \in Files(e) : f.path \in Path
  BY <1>1, SameFiles, FileFacts DEF IInv
<1>9. ReadOf(e)' /\ HeldOf(e)' /\ Done(e)'
  BY <1>1, <1>4, <1>8 DEF IInv, ReadOf, Known, HeldOf, Writing, Turn, Remaining, Done
<1>10. WrittenOf(e)'
  BY <1>1, <1>4, <1>6, <1>8 DEF IInv, WrittenOf, Written, PastReading
<1>11. QuietOf(e)'
  <2>1. QuietOf(e)
    BY DEF IInv
  <2>2. \A f \in Written(e) : file'[f.path] = file[f.path]
    BY <1>2, <1>4, <1>8 DEF Written
  <2>3. Written(e)' = Written(e)
    BY <1>1, <1>8 DEF Written
  <2> QED
    BY <1>1, <1>4, <1>5, <2>1, <2>2, <2>3 DEF QuietOf, PastReading, Running, Selected
<1>12. SaysInv'
  BY <1>1, <1>4, <1>6 DEF IInv, SaysInv, Known
<1>13. IndexInv'
  <2>1. \A k \in Memory : OkfIndex(k) \in Path
    BY DEF Path
  <2>2. \A k \in Memory : file[OkfIndex(k)] \in Text => file[OkfIndex(k)].shows.links \subseteq Path
    BY DEF Text, Contents
  <2> QED
    BY <1>4, <1>6, <2>1, <2>2 DEF IInv, IndexInv
<1>14. \A q \in Path : NoteOf(q)'
  <2>1. \A o \in Process : Writing(o)' => Writing(o)
    BY <1>1, <1>5 DEF Writing
  <2> QED
    BY <1>1, <1>4, <1>6, <2>1 DEF IInv, NoteOf
<1> QED
  BY <1>3, <1>7, <1>9, <1>10, <1>11, <1>12, <1>13, <1>14 DEF IInv

LEMMA StepFill ==
  ASSUME IInv, NEW e \in Process, Fill(e)
  PROVE  IInv'
<1> DEFINE h  == held[e].file
           hp == held[e].file.path
           t  == [shows |-> held[e].file, notes |-> held[e].notes]
<1>1. /\ pc[e] = "torn" /\ pc' = [pc EXCEPT ![e] = "look"]
      /\ file' = [file EXCEPT ![hp] = t] /\ held' = [held EXCEPT ![e] = None]
      /\ at' = [at EXCEPT ![e] = h.turn]
      /\ UNCHANGED <<row, related, kind, snapshot, lines, mine, blame, quiet>>
  BY DEF Fill, Goto, database, reading, person
<1>2. /\ held[e] \in Held /\ h \in Files(e) /\ hp \in Path
      /\ \A f \in Written(e) : f.path # hp
      /\ \A f \in Files(e) : f.turn < h.turn => f \in Written(e)
      /\ \A f \in Files(e) : f.turn <= h.turn => f \in Written(e) \cup {h}
  BY <1>1, NextFile DEF Writing
<1>3. /\ t \in Text /\ t.shows = h /\ t.notes = held[e].notes /\ h.turn \in Nat
      /\ h.links \subseteq Path
  BY <1>2 DEF Held, Text, Contents
<1>4. /\ \A s \in h.says : s.memory \in Memory /\ Known(s.memory, s.status)
      /\ \A k \in Memory : hp = OkfIndex(k) =>
           \A p \in h.links : \E g \in Files(e) : g.path = p /\ g.turn < h.turn
      /\ \A f \in Files(e) : f.path \in Path
  <2>1. /\ \A s \in h.says : /\ s.memory \in Memory /\ snapshot[e][s.memory] # None
                             /\ s.status = snapshot[e][s.memory].status
        /\ hp.of \in {"page", "overview"} <=> kind[e] = "vault"
        /\ kind[e] = "okf" => \A p \in h.links : \E g \in Files(e) : g.path = p /\ g.turn < h.turn
        /\ \A f \in Files(e) : f.path \in Path
    BY <1>2, FileFacts DEF IInv
  <2>2. kind[e] \in {"vault", "okf"} /\ \A k \in Memory : OkfIndex(k).of = "okfindex"
    BY DEF IInv, TypeOK, OkfIndex
  <2> QED
    BY <2>1, <2>2 DEF IInv, ReadOf
<1> HIDE DEF h, hp, t
<1>5. TypeOK'
  BY <1>1, <1>2, <1>3 DEF IInv, TypeOK
<1>6. pc'[e] = "look" /\ at'[e] = h.turn /\ \A q \in Path : file'[q] = IF q = hp THEN t ELSE file[q]
  BY <1>1 DEF IInv, TypeOK
<1>7. \A o \in Process \ {e} : pc'[o] = pc[o] /\ Local(o)' = Local(o) /\ (quiet'[o] => pc[o] = "idle")
  <2>1. Running(e)
    BY <1>1 DEF Running
  <2> QED
    BY <1>1, <2>1, OthersBusy DEF Local, IInv, TypeOK
<1>8. t # None /\ None \notin Text /\ Torn \notin Text
  BY <1>3, ExportAssumption
<1>9. \A o \in Process \ {e} : ReadOf(o)' /\ HeldOf(o)' /\ Done(o)' /\ WrittenOf(o)' /\ QuietOf(o)'
  BY <1>1, <1>6, <1>7, <1>8, OfOthers
<1>10. Files(e)' = Files(e)
  BY <1>1, SameFiles
<1>11. ReadOf(e)' /\ HeldOf(e)' /\ Done(e)'
  BY <1>1, <1>6 DEF IInv, ReadOf, Known, HeldOf, Writing, Done
<1>12. \A f \in Written(e)' : f = h \/ (f \in Written(e) /\ f.path # hp)
  BY <1>2, <1>6, <1>10 DEF Written
<1>13. hp = h.path /\ \A f \in Written(e) : f.path \in Path
  BY <1>4 DEF Written, h, hp
<1>14. WrittenOf(e)'
  <2>1. WrittenOf(e) /\ PastReading(e)
    BY <1>1 DEF IInv, PastReading
  <2> QED
    BY <1>2, <1>6, <1>8, <1>12, <1>13, <2>1 DEF WrittenOf
<1>15. QuietOf(e)'
  <2> SUFFICES ASSUME quiet[e] PROVE QuietOf(e)'
    BY <1>1 DEF QuietOf
  <2>1. QuietOf(e) /\ PastReading(e) /\ pc[e] # "read"
    BY <1>1 DEF IInv, PastReading
  <2>2. \A f \in Written(e)' : file'[f.path] \in Text /\ file'[f.path].shows = f
    BY <1>1, <1>2, <1>3, <1>6, <1>12, <1>13, <2>1 DEF QuietOf
  <2> QED
    BY <1>1, <1>6, <1>7, <2>1, <2>2 DEF QuietOf, PastReading, Running, Selected
<1>16. SaysInv'
  BY <1>1, <1>3, <1>4, <1>6 DEF IInv, SaysInv, Known
<1>17. IndexInv'
  <2> SUFFICES ASSUME NEW k \in Memory, file'[OkfIndex(k)] \in Text,
                      NEW p \in file'[OkfIndex(k)].shows.links
               PROVE  file'[p] # None
    BY DEF IndexInv
  <2>1. OkfIndex(k) \in Path
    BY DEF Path
  <2>2. CASE OkfIndex(k) = hp
    <3>1. p \in h.links
      BY <1>3, <1>6, <2>1, <2>2
    <3>2. PICK g \in Files(e) : g.path = p /\ g.turn < h.turn
      BY <1>4, <2>2, <3>1
    <3>3. file[p] # None /\ p \in Path
      BY <1>1, <1>2, <1>4, <3>2 DEF IInv, WrittenOf, PastReading
    <3> QED
      BY <1>6, <1>8, <3>3
  <2>3. CASE OkfIndex(k) # hp
    <3>1. file[OkfIndex(k)] \in Text /\ p \in file[OkfIndex(k)].shows.links
      BY <1>6, <2>1, <2>3
    <3>2. p \in Path /\ file[p] # None
      BY <3>1 DEF Text, Contents, IInv, IndexInv
    <3> QED
      BY <1>6, <1>8, <3>2
  <2> QED
    BY <2>2, <2>3
<1>18. \A q \in Path : NoteOf(q)'
  <2>1. \A o \in Process : Writing(o)' => o # e /\ Writing(o) /\ held'[o] = held[o]
    BY <1>6, <1>7 DEF Writing, Local
  <2>2. Writing(e) /\ held[e].file.path = hp
    BY <1>1 DEF Writing, hp
  <2> QED
    BY <1>1, <1>3, <1>6, <1>8, <2>1, <2>2 DEF IInv, NoteOf
<1> QED
  BY <1>5, <1>9, <1>11, <1>14, <1>15, <1>16, <1>17, <1>18 DEF IInv

-----------------------------------------------------------------------------
LEMMA Initially == Init => IInv
<1> SUFFICES ASSUME Init PROVE IInv
  OBVIOUS
<1>1. NothingRead \in Rows /\ \A k \in Memory : NothingRead[k] = None
  BY DEF NothingRead, Rows
<1>2. TypeOK
  BY <1>1, ExportAssumption DEF Init, TypeOK, Rows, Pair
<1>3. \A e \in Process : pc[e] = "idle" /\ snapshot[e] = NothingRead
  BY DEF Init
<1>4. \A e \in Process : ReadOf(e) /\ HeldOf(e) /\ Done(e) /\ WrittenOf(e) /\ QuietOf(e)
  BY <1>1, <1>3 DEF ReadOf, HeldOf, Done, WrittenOf, QuietOf, Writing, PastReading
<1>5. \A k \in Memory : OkfIndex(k) \in Path
  BY DEF Path
<1>6. \A p \in Path : file[p] = None /\ mine[p] = None
  BY DEF Init
<1>7. SaysInv /\ IndexInv /\ \A p \in Path : NoteOf(p)
  BY <1>3, <1>5, <1>6, ExportAssumption DEF SaysInv, IndexInv, NoteOf, Writing
<1> QED
  BY <1>2, <1>4, <1>7 DEF IInv

LEMMA Stuttering == IInv /\ UNCHANGED vars => IInv'
<1> SUFFICES ASSUME IInv, UNCHANGED vars PROVE IInv'
  OBVIOUS
<1>1. UNCHANGED <<row, related, file, kind, pc, at, snapshot, lines, held, mine, blame, quiet>>
  BY DEF vars, database, reading, person
<1>2. TypeOK' /\ SaysInv' /\ IndexInv' /\ \A p \in Path : NoteOf(p)'
  BY <1>1 DEF IInv, TypeOK, SaysInv, IndexInv, NoteOf, Known, Writing
<1>3. ASSUME NEW e \in Process
      PROVE  ReadOf(e)' /\ HeldOf(e)' /\ Done(e)' /\ WrittenOf(e)' /\ QuietOf(e)'
  <2>1. Files(e)' = Files(e)
    BY <1>1, SameFiles
  <2> QED
    BY <1>1, <2>1 DEF IInv, ReadOf, Known, HeldOf, Writing, Turn, Remaining, Done, WrittenOf,
       Written, PastReading, QuietOf, Running, Selected
<1> QED
  BY <1>2, <1>3 DEF IInv

LEMMA Invariance == Spec => []IInv
<1>1. IInv /\ [Next]_vars => IInv'
  BY Stuttering, StepCommit, StepEdit, StepStart, StepRead, StepReadRelations, StepLook,
     StepTruncate, StepFill, StepFinish, StepKill DEF Next, OthersCommit
<1> QED
  BY Initially, <1>1, PTL DEF Spec

(* The types of the variables of Export. *)
THEOREM TypeCorrect == Spec => []TypeOK
<1>1. IInv => TypeOK
  BY DEF IInv
<1> QED
  BY <1>1, Invariance, PTL

(* No file calls a memory reviewed that is still in the inbox, whatever is *)
(* reviewed, renamed or related between the queries of an export, between  *)
(* them and the writing of the file, or after it.                          *)
THEOREM OnlyTheReviewed == Spec => []ReviewedOnly
<1>1. IInv => ReviewedOnly
  BY DEF IInv, TypeOK, SaysInv, ReviewedOnly, Readable, Known
<1> QED
  BY <1>1, Invariance, PTL

(* A file holds the notes its person saved last, unless a kill, another    *)
(* export, or an edit between the reading and the writing is to blame.     *)
THEOREM NotesAreKept == Spec => []NotesKept
<1>1. IInv => NotesKept
  BY DEF IInv, TypeOK, NoteOf, NotesKept, Readable
<1> QED
  BY <1>1, Invariance, PTL

(* No link of a finished export, and no link of an OKF index at any time,  *)
(* leads nowhere.                                                          *)
THEOREM LinksLeadToFiles == Spec => []LinksResolve
<1>1. IInv => LinksResolve
  <2> SUFFICES ASSUME IInv PROVE LinksResolve
    OBVIOUS
  <2>1. ASSUME NEW e \in Process, pc[e] = "done", kind[e] = "vault",
               NEW f \in Files(e), NEW p \in f.links
        PROVE  file[p] # None
    <3>1. PICK g \in Files(e) : g.path = p /\ g \in Contents
      BY FileFacts DEF IInv
    <3>2. at[e] \in Nat /\ g.turn \in Nat /\ ~(g.turn > at[e])
      BY <2>1, <3>1 DEF IInv, TypeOK, Contents, Done, Remaining
    <3> QED
      BY <2>1, <3>1, <3>2 DEF IInv, WrittenOf, Written, PastReading
  <2>2. \A k \in Memory : OkfIndex(k) \in Readable => file[OkfIndex(k)] \in Text
    BY DEF Readable, IInv, TypeOK
  <2> QED
    BY <2>1, <2>2 DEF LinksResolve, IInv, IndexInv
<1> QED
  BY <1>1, Invariance, PTL

(* An export that ran alone on a database that stayed as it was leaves a   *)
(* complete and current picture of it, whatever was there before.          *)
THEOREM QuietExportsAreFaithful == Spec => []QuietExportFaithful
<1>1. IInv => QuietExportFaithful
  <2> SUFFICES ASSUME IInv, NEW e \in Process, pc[e] = "done", quiet[e]
               PROVE  /\ \A f \in Files(e) : f.path \in Readable /\ file[f.path].shows = f
                      /\ kind[e] = "vault" =>
                           /\ Files(e) = VaultFiles(row, related)
                           /\ \A k \in Present(row) : Exported(k)
                      /\ kind[e] = "okf" => \A k \in VisibleRows(row) : OkfPage(k, row[k].title) \in Readable
    BY DEF QuietExportFaithful
  <2>1. /\ \A k \in Memory : snapshot[e][k] = Selected(e, k)
        /\ lines[e] = IF kind[e] = "vault" THEN related ELSE {}
        /\ \A f \in Written(e) : file[f.path] \in Text /\ file[f.path].shows = f
    BY DEF IInv, QuietOf, PastReading
  <2>2. \A f \in Files(e) : f \in Contents /\ f.path \in Path
    BY FileFacts DEF IInv
  <2>3. \A f \in Files(e) : f \in Written(e)
    BY <2>2 DEF IInv, TypeOK, Contents, Done, Remaining, Written
  <2>4. \A f \in Files(e) : f.path \in Readable /\ file[f.path].shows = f
    BY <2>1, <2>2, <2>3, ExportAssumption DEF Readable
  <2>5. row \in Rows /\ snapshot[e] \in Rows
    BY DEF IInv, TypeOK
  <2>6. ASSUME kind[e] = "vault"
        PROVE  Files(e) = VaultFiles(row, related) /\ \A k \in Present(row) : Exported(k)
    <3>1. \A k \in Memory : snapshot[e][k] = row[k]
      BY <2>1, <2>6 DEF Selected
    <3>2. snapshot[e] = row /\ lines[e] = related
      BY <2>1, <2>5, <2>6, <3>1 DEF Rows
    <3>3. Files(e) = VaultFiles(row, related)
      BY <2>6, <3>2 DEF Files
    <3>4. ASSUME NEW k \in Present(row) PROVE Exported(k)
      <4>1. PageOf(row, related, k) \in Files(e)
        BY <3>3 DEF VaultFiles
      <4>2. PageOf(row, related, k).path = Page(k, row[k].title)
        BY DEF PageOf, Shown
      <4> QED
        BY <2>4, <4>1, <4>2 DEF Exported, Readable
    <3> QED
      BY <3>3, <3>4
  <2>7. ASSUME kind[e] = "okf", NEW k \in VisibleRows(row)
        PROVE  OkfPage(k, row[k].title) \in Readable
    <3>1. k \in Memory /\ row[k] # None /\ snapshot[e][k] = row[k]
      BY <2>1, <2>7 DEF Selected, VisibleRows, Present
    <3>2. OkfPageOf(snapshot[e], k) \in Files(e)
      BY <2>7, <3>1 DEF Files, OkfFiles, Present
    <3>3. OkfPageOf(snapshot[e], k).path = OkfPage(k, row[k].title)
      BY <3>1 DEF OkfPageOf, Shown
    <3> QED
      BY <2>4, <3>2, <3>3
  <2> QED
    BY <2>4, <2>6, <2>7
<1> QED
  BY <1>1, Invariance, PTL
=============================================================================
