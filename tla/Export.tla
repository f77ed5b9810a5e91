-------------------------------- MODULE Export --------------------------------
(***************************************************************************)
(* `agent-hub export` and `agent-hub export-okf` (agent_hub/exporting,     *)
(* agent_hub/markdown.py): processes that read the tables one query after  *)
(* the other, each at READ COMMITTED, and then write Markdown files one    *)
(* after the other, while others write memory, relate it, and keep their   *)
(* own notes in the exported files.  Each memory has a table of its own.   *)
(***************************************************************************)
EXTENDS Naturals

CONSTANTS
  Tables,     \* number of tables; table k holds at most the memory k
  Title,      \* what a memory may say; its file is named after it
  Note,       \* what a person may write below it
  Process,    \* callers of the two commands
  Seeds,      \* databases to begin with: a title and a status, or None, for each memory
  Kinds,      \* which of the two each may be, a set of functions
  MaxChanges, \* bound: commits to the database
  MaxEdits,   \* bound: notes saved by a person
  MaxRuns,    \* bound: runs of all processes
  Faults,     \* "kill": a process dies
  None, Torn

Memory == 1..Tables
Status == {"draft", "reviewed", "archived"}
Row    == [title : Title, status : Status]

(* The id at the end of a name keeps two memories apart.                   *)
Page(k, t)    == [of |-> "page", memory |-> k, title |-> t]
OkfPage(k, t) == [of |-> "okfpage", memory |-> k, title |-> t]
OkfIndex(k)   == [of |-> "okfindex", memory |-> k, title |-> None]
OkfRoot       == [of |-> "okfroot", memory |-> 0, title |-> None]
Overview      == [of |-> "overview", memory |-> 0, title |-> None]
Path == {Page(k, t) : k \in Memory, t \in Title} \cup {OkfPage(k, t) : k \in Memory, t \in Title}
        \cup {OkfIndex(k) : k \in Memory} \cup {OkfRoot, Overview}

(* What a run puts into a file, and a file with the notes of a person.     *)
Contents == [turn : Nat, path : Path, says : SUBSET [memory : Memory, status : Status],
             links : SUBSET Path]
Text     == [shows : Contents, notes : Note \cup {None}]

ASSUME ExportAssumption ==
  /\ Tables \in Nat /\ {MaxChanges, MaxEdits, MaxRuns} \subseteq Nat
  /\ Kinds \subseteq [Process -> {"vault", "okf"}]
  /\ Seeds \subseteq [Memory -> {None} \cup Row]
  /\ Faults \subseteq {"kill"} /\ None \notin Note
  /\ None \notin Row /\ None \notin Text /\ Torn \notin Text /\ None # Torn

VARIABLES
  row,      \* row[k]: title and status of memory k, or None
  related,  \* pairs of related memories
  file,     \* file[p]: what p shows and the notes in it; None, or Torn
  kind,     \* which command each process runs
  pc, at,   \* where it is; the table it reads, or the turn of the last file
  snapshot, \* the rows it has read
  lines,    \* the relations it has read
  held,     \* the file it is about to write and the notes it has found in it
  mine,     \* the notes the person saved last in each file
  blame,    \* files whose notes are the business of a race or a kill
  quiet,    \* it has run alone on a database nobody changed
  changes, edits, runs

database == <<row, related>>
person   == <<mine, edits>>
reading  == <<snapshot, lines>>
vars == <<database, file, kind, pc, at, reading, held, person, blame, quiet, changes, runs>>

NothingRead == [k \in Memory |-> None]
Present(d) == {k \in Memory : d[k] # None}

FirstTitle == CHOOSE t \in Title : TRUE

Init ==
  /\ row \in Seeds
  /\ related = {}
  /\ file = [p \in Path |-> None]
  /\ kind \in Kinds
  /\ pc = [e \in Process |-> "idle"] /\ at = [e \in Process |-> 1]
  /\ snapshot = [e \in Process |-> NothingRead]
  /\ lines = [e \in Process |-> {}] /\ held = [e \in Process |-> None]
  /\ mine = [p \in Path |-> None] /\ blame = {}
  /\ quiet = [e \in Process |-> FALSE]
  /\ changes = 0 /\ edits = 0 /\ runs = 0

Running(e) == pc[e] \notin {"idle", "done"}

-----------------------------------------------------------------------------
(***************************************************************************)
(* What others commit: remember, inbox, sync, relate.                      *)
(***************************************************************************)
Commits ==
  /\ changes < MaxChanges /\ changes' = changes + 1
  /\ quiet' = [e \in Process |-> FALSE]
  /\ UNCHANGED <<file, kind, pc, at, reading, held, person, blame, runs>>

Remember(k) ==
  /\ row[k] = None
  /\ \E t \in Title, s \in {"draft", "reviewed"} :
       row' = [row EXCEPT ![k] = [title |-> t, status |-> s]]
  /\ UNCHANGED related /\ Commits

Review(k) ==
  /\ row[k] # None /\ row[k].status = "draft"
  /\ \E s \in {"reviewed", "archived"} : row' = [row EXCEPT ![k].status = s]
  /\ UNCHANGED related /\ Commits

Retitle(k) ==
  /\ row[k] # None
  /\ \E t \in Title \ {row[k].title} : row' = [row EXCEPT ![k].title = t]
  /\ UNCHANGED related /\ Commits

Relate(j, k) ==
  /\ row[j] # None /\ row[k] # None /\ <<j, k>> \notin related
  /\ related' = related \cup {<<j, k>>}
  /\ UNCHANGED row /\ Commits

(* The person saves a file with a note of their own.                       *)
Writing(e) == pc[e] \in {"held", "torn"}
Holding(p) == \E e \in Process : Writing(e) /\ held[e].file.path = p

EditNote(p) ==
  /\ edits < MaxEdits /\ edits' = edits + 1
  /\ file[p] \notin {None, Torn} /\ p.of \in {"page", "overview"}
  /\ \E n \in Note :
       /\ file' = [file EXCEPT ![p].notes = n]
       /\ mine' = [mine EXCEPT ![p] = n]
  /\ blame' = IF Holding(p) THEN blame \cup {p} ELSE blame \ {p}
  /\ UNCHANGED <<database, kind, pc, at, reading, held, quiet, changes, runs>>

-----------------------------------------------------------------------------
(***************************************************************************)
(* What a run makes of the rows and relations d, l it has read.            *)
(***************************************************************************)
(* Mutant of VisibleRows: the export is a human read surface, on which     *)
(* read_surface_excluded_statuses hides nothing.                           *)
AllRows(d) == Present(d)

(* visible_overview_rows *)
VisibleRows(d) == {k \in Present(d) : d[k].status = "reviewed"}

(* Mutant of Lines: the other end of a relation need not have been read.   *)
AllLines(d, l) == {r \in l : r[1] \in Present(d) \/ r[2] \in Present(d)}

(* Relations both ends of which are in the object index.                   *)
Lines(d, l) == {r \in l : r[1] \in Present(d) /\ r[2] \in Present(d)}

TitleRead(d, k) == IF d[k] = None THEN FirstTitle ELSE d[k].title
Links(d, ls) == UNION {{Page(r[1], TitleRead(d, r[1])), Page(r[2], TitleRead(d, r[2]))} : r \in ls}

(* The turn says when a run writes it.                                     *)
Shown(turn, p, says, links) == [turn |-> turn, path |-> p, says |-> says, links |-> links]

PageOf(d, l, k) ==
  Shown(k, Page(k, d[k].title), {[memory |-> k, status |-> d[k].status]},
        Links(d, {r \in Lines(d, l) : k \in {r[1], r[2]}}))

(* The compiled pages of the project and of the Hub, as one. *)
OverviewOf(d, l) ==
  Shown(Tables + 1, Overview, {[memory |-> k, status |-> "reviewed"] : k \in VisibleRows(d)},
        Links(d, Lines(d, l)))

OkfRootOf == Shown(1, OkfRoot, {}, {})
OkfPageOf(d, k) ==
  Shown(2 * k, OkfPage(k, d[k].title), {[memory |-> k, status |-> "reviewed"]}, {})
OkfIndexOf(d, k) ==
  Shown(2 * k + 1, OkfIndex(k), {}, IF d[k] = None THEN {} ELSE {OkfPage(k, d[k].title)})

(* The files of a run: the pages first and the overview last; in an OKF    *)
(* bundle the root first, then each section with its index last.           *)
VaultFiles(d, l) == {PageOf(d, l, k) : k \in Present(d)} \cup {OverviewOf(d, l)}
OkfFiles(d) ==
  {OkfRootOf} \cup {OkfPageOf(d, k) : k \in Present(d)} \cup {OkfIndexOf(d, k) : k \in Memory}

Files(e) == IF kind[e] = "vault" THEN VaultFiles(snapshot[e], lines[e]) ELSE OkfFiles(snapshot[e])
Remaining(e) == {f \in Files(e) : f.turn > at[e]}
Turn(e, f)   == f \in Remaining(e) /\ \A g \in Remaining(e) : f.turn <= g.turn

-----------------------------------------------------------------------------
(***************************************************************************)
(* export_all, export_project_okf.                                         *)
(***************************************************************************)
Goto(e, from, to) == pc[e] = from /\ pc' = [pc EXCEPT ![e] = to]

Start(e) ==
  /\ ~Running(e) /\ runs < MaxRuns
  /\ pc' = [pc EXCEPT ![e] = "read"]
  /\ at' = [at EXCEPT ![e] = 1]
  /\ snapshot' = [snapshot EXCEPT ![e] = NothingRead]
  /\ lines' = [lines EXCEPT ![e] = {}]
  /\ runs' = runs + 1
  /\ quiet' = [q \in Process |-> q = e /\ \A o \in Process \ {e} : ~Running(o)]
  /\ UNCHANGED <<database, file, kind, held, person, blame, changes>>

(* The SELECT of the OKF specs asks for reviewed statuses only.            *)
Selected(e, k) ==
  IF kind[e] = "okf" /\ row[k] # None /\ row[k].status # "reviewed" THEN None ELSE row[k]

Read(e) ==
  /\ pc[e] = "read" /\ at[e] <= Tables
  /\ snapshot' = [snapshot EXCEPT ![e][at[e]] = Selected(e, at[e])]
  /\ at' = [at EXCEPT ![e] = @ + 1]
  /\ UNCHANGED <<database, file, kind, pc, lines, held, person, blame, quiet, changes, runs>>

ReadRelations(e) ==
  /\ at[e] > Tables
  /\ Goto(e, "read", "look")
  /\ lines' = [lines EXCEPT ![e] = IF kind[e] = "vault" THEN related ELSE {}]
  /\ at' = [at EXCEPT ![e] = 0]
  /\ UNCHANGED <<database, file, kind, snapshot, held, person, blame, quiet, changes, runs>>

NotesIn(p) == IF file[p] \in {None, Torn} THEN None ELSE file[p].notes

(* Mutant of Look: the notes of the file are not asked for. *)
LookAway(e) ==
  /\ Goto(e, "look", "held")
  /\ \E f \in Files(e) :
       /\ Turn(e, f)
       /\ held' = [held EXCEPT ![e] = [file |-> f, notes |-> None]]
  /\ UNCHANGED <<blame, database, file, kind, at, reading, person, quiet, changes, runs>>

(* write_markdown: the existing file is read for its notes, ...            *)
Look(e) ==
  /\ Goto(e, "look", "held")
  /\ \E f \in Files(e) :
       /\ Turn(e, f)
       /\ held' = [held EXCEPT ![e] =
                     [file  |-> f, notes |-> IF kind[e] = "vault" THEN NotesIn(f.path) ELSE None]]
       /\ blame' = IF file[f.path] = Torn THEN blame \cup {f.path} ELSE blame
  /\ UNCHANGED <<database, file, kind, at, reading, person, quiet, changes, runs>>

(* Mutant of Truncate: a file that is there is left as it is. *)
TruncateNew(e) ==
  /\ pc[e] = "held"
  /\ IF file[held[e].file.path] = None
       THEN /\ file' = [file EXCEPT ![held[e].file.path] = Torn]
            /\ pc' = [pc EXCEPT ![e] = "torn"]
            /\ UNCHANGED <<at, held>>
       ELSE /\ pc' = [pc EXCEPT ![e] = "look"]
            /\ at' = [at EXCEPT ![e] = held[e].file.turn]
            /\ held' = [held EXCEPT ![e] = None]
            /\ UNCHANGED file
  /\ UNCHANGED <<database, kind, reading, person, blame, quiet, changes, runs>>

(* ... then opened for writing, which empties it, ...                      *)
Truncate(e) ==
  /\ Goto(e, "held", "torn")
  /\ file' = [file EXCEPT ![held[e].file.path] = Torn]
  /\ UNCHANGED <<database, kind, at, reading, held, person, blame, quiet, changes, runs>>

(* ... and filled. (Of two writers that have both emptied the file, the    *)
(* later leaves the tail of a longer text of the earlier; that counts as   *)
(* the later text, and the race is in blame.)                              *)
Fill(e) ==
  /\ Goto(e, "torn", "look")
  /\ file' = [file EXCEPT ![held[e].file.path] = [shows |-> held[e].file, notes |-> held[e].notes]]
  /\ held' = [held EXCEPT ![e] = None]
  /\ at' = [at EXCEPT ![e] = held[e].file.turn]
  /\ UNCHANGED <<database, kind, reading, person, blame, quiet, changes, runs>>

Finish(e) ==
  /\ Remaining(e) = {}
  /\ Goto(e, "look", "done")
  /\ UNCHANGED <<database, file, kind, at, reading, held, person, blame, quiet, changes, runs>>

Kill(e) ==
  /\ "kill" \in Faults /\ Running(e)
  /\ pc' = [pc EXCEPT ![e] = "idle"]
  /\ blame' = IF pc[e] = "torn" THEN blame \cup {held[e].file.path} ELSE blame
  /\ held' = [held EXCEPT ![e] = None]
  /\ snapshot' = [snapshot EXCEPT ![e] = NothingRead]
  /\ lines' = [lines EXCEPT ![e] = {}]
  /\ at' = [at EXCEPT ![e] = 1]
  /\ UNCHANGED <<database, file, kind, person, quiet, changes, runs>>

Next ==
  \/ \E k \in Memory : Remember(k) \/ Review(k) \/ Retitle(k) \/ \E j \in Memory : Relate(j, k)
  \/ \E p \in Path : EditNote(p)
  \/ \E e \in Process : \/ Start(e) \/ Read(e) \/ ReadRelations(e) \/ Look(e)
                        \/ Truncate(e) \/ Fill(e) \/ Finish(e) \/ Kill(e)

Spec == Init /\ [][Next]_vars

-----------------------------------------------------------------------------
(***************************************************************************)
(* Properties.                                                             *)
(***************************************************************************)
Readable == {p \in Path : file[p] \notin {None, Torn}}

(* No file calls a memory reviewed that has not been taken out of the      *)
(* inbox, whatever was committed between the queries: not the page itself, *)
(* not a list of the compiled pages, nothing in an OKF bundle.             *)
ReviewedOnly ==
  \A p \in Readable : \A s \in file[p].shows.says :
    s.status = "reviewed" => row[s.memory].status # "draft"

(* The notes of a file are those its person saved last, however often it   *)
(* is exported, unless a process was killed while the file was empty, read *)
(* it while another one had emptied it, or they were saved after they had  *)
(* been read.                                                              *)
NotesKept == \A p \in Readable \ blame : file[p].notes = mine[p]

(* When an export has ended, every link in the files it wrote leads to a   *)
(* file, although rows and relations were read at different times; the     *)
(* index of an OKF section names only files that are there at any time,    *)
(* even if a process was killed between two files.                         *)
LinksResolve ==
  /\ \A e \in Process : pc[e] = "done" /\ kind[e] = "vault" =>
       \A f \in Files(e) : \A p \in f.links : file[p] # None
  /\ \A k \in Memory : OkfIndex(k) \in Readable =>
       \A p \in file[OkfIndex(k)].shows.links : file[p] # None

(* receipts.py: what `exported` means. *)
Exported(k) == file[Page(k, row[k].title)] # None

(* An export that ran alone while nobody changed the database leaves a     *)
(* complete picture of it, whatever killed runs had left: every page and   *)
(* overview shows what is stored, and every receipt says exported.         *)
QuietExportFaithful ==
  \A e \in Process : pc[e] = "done" /\ quiet[e] =>
    /\ \A f \in Files(e) : f.path \in Readable /\ file[f.path].shows = f
    /\ kind[e] = "vault" =>
         /\ Files(e) = VaultFiles(row, related)
         /\ \A k \in Present(row) : Exported(k)
    /\ kind[e] = "okf" => \A k \in VisibleRows(row) : OkfPage(k, row[k].title) \in Readable

=============================================================================
