# A verification project for the Central Agent Data Hub

TLA+ models of the parts of the Hub in which steps of several actors, crashes
and retries meet, checked by TLC on small instances, with theorems that TLAPS
checks for all instances. `PROJECT.json` lists components, runs, mutants,
hazards and theorems, and maps every definition to the lines it models.

## 1. The system and its parts

The Hub is a PostgreSQL database of *reviewed project memory* (facts,
decisions, risks, open questions, reports, sources), a Python command line and
HTTP interface (`agent_hub/`), and shell wrappers (`scripts/`) with which
coding agents start and finish their runs. Several agents, a human operator, a
browser and a scheduled import may act at once; every command is a process of
its own with a database transaction or a few files, and processes are killed.

| part | state it keeps | operations | what makes it correct | hard behaviour |
| --- | --- | --- | --- | --- |
| run lock (`agent_run_lock.py`, called by `agent_start.sh`, `agent_finish.sh`, `agent_lock_recover.sh`) | one lock file per worktree, a flock guard, an archive directory per removal | acquire, validate, release, preview, recover | a run that was told it may work keeps the worktree to itself; a lock is never lost without evidence | kills and power failures between any two steps, stale previews, retries, owners that die |
| offline finish note (`agent_finish.sh`) | `<project>-latest.md` | written when preflight fails | a retry uses the right run id | two worktrees share the file |
| memory writes (`memory.py`, `commands/write.py`, `writeback_routing.py`) | memory rows, their `metadata`, `agent_actions` | remember, answer question, update decision | no reviewed row is lost or changed without an audit record | read-modify-write of metadata, promotion of drafts |
| review inbox (`commands/inbox.py`, `review_api.py`, `reviewers.py`) | `status` and `metadata.agent_hub_review` of draft rows | list, approve, reject | one verdict per draft, true reports of a batch | racing reviewers, deadlocks of batches |
| Hub View (`hub_view_server.py`) | nothing of its own | pages, review POSTs | a POST reaches the inbox only after its guards | the buttons race with the command line |
| import and sync (`importing/`) | rows with `metadata.agent_hub_import`, `sync_events` | plan, create, update, conflict | a note maps to one row, manual changes are not overwritten | plans that are stale when applied, aborted transactions |
| migrations (`migrations.py`) | `schema_migrations` | apply, baseline | each migration takes effect once, in order | a crash between a migration and its record, two migrators |
| relations (`relations.py`, `commands/graph.py`) | `knowledge_relations` | relate | both ends exist in the project, the caller is warned of drafts | the ends change while `relate` runs |
| export, receipts (`exporting/`, `receipts.py`) | Markdown files | export, export-okf | drafts do not appear as reviewed, people's notes survive, links resolve | rows change between queries, files are emptied and then filled, a person edits them |
| registration (`project_registration.py`, `repo_agent_memory.py`, the forms of the Hub View) | a project row, a marked block in `AGENTS.md` | register, install, set up | the block is replaced, the rest of the file stays, what is reported is there | database committed and file not written, plans from a file that has changed |
| database runtime and backups (`db_common.sh`, `db_*.sh`) | dump files, checksums | start, backup, verify, restore | a restore uses a verified dump | partial dumps, a restore that fails halfway |
| retrieval, prepare, gaps, quality, MCP server, pages | daily reports | search, brief, compile, prepare, pages | drafts do not pass as reviewed memory, nothing active is missing, the parts of an answer agree | every answer is put together from several queries at different times |

Interactions: `agent_start.sh` takes the run lock and reads compiled memory;
`agent_finish.sh` validates the lock, may write a report (memory), export and
back up, and releases the lock; the wrappers `project_remember.sh` and the
inbox write rows and audit records; import, sync and migrations write the same
tables. All of these meet in shared state only: the lock directory and the
database, never by messages.

## 2. The modules

### Run lock

`RunLock` models the lock file of one worktree (locks of different worktrees
share no file). A process `p` is one invocation of a script, so its name also
serves as the uuid of the run it starts and of the archive event it makes.

| model | code |
| --- | --- |
| `lock`, `disk` | the lock file; the values its directory entry may have after a power failure. `disk' = {lock}` is `sync_dir` |
| `guard` | the holder of the flock on `.guards/<key>` |
| `files`, `firm`, `moved` | an archive event: names written, names durable, the file in `removed.lock` |
| `Stage`, `Link`, `SyncLock`, `Report` | `acquire`: pending file, `os.link`, `sync_dir`, the printed token |
| `StartReady`, `StartFails` | the rest of `agent_start.sh` and its EXIT trap |
| `FinishBegin`, `Validate`, `Close`, `CloseFails` | `agent_finish.sh` up to the release |
| `Preview` | `agent_lock_recover.sh` without `--apply`, which takes no guard; the operator then names the digest it printed |
| `TakeGuard` ... `EndRemoval` | `archive_remove` step by step, shared by release and recovery |
| `Permits`, `Accepts`, `Reaccepts` | `check_recovery`, `validate`, and their repetition before the move |
| `Crash`, `PowerLoss`, `OwnerDies`, `OutsiderWrites` | the surroundings |

`open` and `revoked` are history: the runs that were told to work and have not
finished, and those whose lock an operator removed with
`--acknowledge-unknown`. A run with a bound owner stops being open when that
owner dies, because the owner represents the lifetime of the work.

`WorktreeLock` is the promise without any mechanism: a register with at most
one claim, granted once, removed only on request. `RunLockRefinement` maps the
protocol to it (a lock file is a claim, the requests are the digests of
removals under way).

### Memory writes and the review inbox

`MemoryReview` models overlapping invocations of `agent-hub inbox`, of the Hub
View buttons, of `answer-question`, `update-decision` and `remember`. Each is
one transaction at READ COMMITTED: `row` and `log` are committed, `work` and
`pend` are a transaction's own versions, `rowLock` and `agentLock` the row
locks PostgreSQL gives to writers (including the upsert of the agent's row,
which every writer performs before its audit record). Every statement is an
action, so that others may act between a SELECT and the UPDATE that depends on
it. `DeadlockVictim` is PostgreSQL's detector; `Abort` is a kill, a lost
connection or a statement that raises; the answer to a `Commit` may be lost,
which `run_inbox` reports as it reports any error.

A status is "absent", "draft", "reviewed" (the reviewed status of the row's
type), "archived", "answered", "closed" or one of `DecisionStatus`. Of a row
only what the properties tell apart is kept: its status, the transaction that
wrote the review record, those that wrote notes and text. The ids of a batch
are a set; one project; the route of a new candidate (draft or auto) is an
input.

`MemoryLedger` is the abstract inbox: rows with a status and at most one
verdict, changed by the atomic steps Store, Decide and Revise.
`MemoryRefinement` maps the transactions to it.

### Import and sync

`ImportSync` models `agent-hub import` and `agent-hub sync --apply`, each one
transaction. An import plans and applies note by note, a sync plans all its
notes first (`PlanNote`, then `LogBlocked`, `LogFails` or `BeginApply`, then
`Insert`/`Update`, `LogSucceeded`, `Commit`). `Planned` is the chain of early
returns of `plan_import_item`, `Route` is `route_candidate`. A hash stands for
what it is the hash of: `last.note` is the content hash, `last.data` the data
hash. `aborted` is PostgreSQL's state after a failed statement, in which every
statement fails and COMMIT rolls back. The import agent's row (`agent`) is
locked from the first write of a run to its end. People edit notes, accept or
reject drafts and revise decisions. `accepted` is history.

What a note says is one of a few records: kind, core text, source, status.
Patterns (secrets, money, customers) are kinds, "decision" stands for risks
and questions as well, which have no source column either. Left out: a `db_id`
that names an existing row, several projects, notes that set
`metadata.source`, a report whose body is not an allowlisted field, an import
path outside the roots, and the user metadata that an update writes back.

### Migrations

`Migrations` models `agent-hub migrate --apply`. What a file does is its
content, the checksum: `effect[v]` holds the contents of file `v` executed on
this database, `record` is `schema_migrations`. A file is one transaction that
executes in autocommit mode and its record is another, so a migrator may be
killed between them (`Execute` and `RecordNext`). `LookTracking`, `LookBase`,
`Fresh`, `Bootstrap` and `RecordBoth`, then `Register` and `RecordBaseline`
(the records are read, the baseline is recorded), lead `apply_migrations` into
its loop, `Skip`, `Changed`, `Pick`, `ExecuteNext`, `RecordNext`,
`RecordFailure` and `Finish` the loop. Several migrators run from checkouts of
different age and content. `RestoreFails` is the empty database a
`pg_restore` leaves when it fails after the `DROP SCHEMA` of `db_restore.sh`;
other restores lead to a database that has been there before. Migration 1 fails
when it is executed twice, 2 creates the tracking table, the others need 1.

### Export

`Export` models `agent-hub export` and `export-okf`: `Read` and
`ReadRelations` are the queries, `VaultFiles` and `OkfFiles` what a run makes
of their replies, each file with the `turn` at which it is written, and `Look`,
`Truncate`, `Fill` the three steps of `write_markdown`. `Retitle` stands for every change of the text
a file is named after. A person keeps notes in the files (`EditNote`). `mine`
and `blame` are history: the notes saved last, and the files whose notes a
kill or a race of another process or person may have cost.

### Surfaces

`Surfaces` models what is read: the commands search, context, brief, compile,
handoff, review, daily, prepare, quality, receipt and relations, their MCP
tools, and the pages of the Hub View. An answer is a list of queries (`plan`:
which memories, with which statuses, in which order, how many), which are
answered one after the other (`Read`) at READ COMMITTED, and a text made of the
replies. Texts are functions of `got`, e.g. `PacketRows`, `Trail`, `BlindSpots`
and `Score` for `prepare` and `quality`. Meanwhile memory is remembered,
reviewed, revised, and related in the two steps of `relate`. As readers change
nothing, one is enough; a `daily` report that is stored is in `written`, and
`alive` and `quiet` are history. A memory's match with the task is a number.

### Onboarding

`Onboarding` models how a project gets into the Hub and the Hub's block into
its `AGENTS.md`: `register-project` with and without `--no-install`, the
installer, the Hub View's form and its Codex setup. A file is a sequence of
pieces: words of a person, the two markers, the slug a block is about;
`Updated` is `update_repo_agent_memory_text`. A process plans (`Plan` reads the
file, AGENTS.md or the one that `--target-file` or `--file` names), registers,
and then empties and fills the file, so another process or a person may come
between any two. `Path.write_text` empties a file when it opens it and writes
from offset 0: if another writer has filled it meanwhile with a longer text,
the tail of that stays (`Over`); if the writer is stopped by a kill or a full
disk, a prefix of its text is left (`Begun`, `Stops`), perhaps with a part of a
piece (`Cut`), which may not be UTF-8 any more, so that `Plan` may fail
(`PlanFails`). The Hub View serves one request at a time, is
restarted, also bound to the local network, and asks each post for its token
and origin. `alone`, `stale`, `struck`, `mine`, `broken`, `raced` and `torn` are
history. The last four speak of files: the words a person keeps in one, whether
a person has taken a marker out of it, whether it was written from an outdated
plan or its writer was stopped after it had emptied it, whether a writer has left
another text in it than it planned.

## 3. The runs

| run | instance | what it shows |
| --- | --- | --- |
| `lock_safety` | 3 invocations, 1 owner, kills, power failures | open runs hold the lock and exclude each other, evidence survives, `completed.json` is final, a lock is removed to the end once, no recovery takes the lock of a running owner, the scripts implement `WorktreeLock` |
| `lock_outsiders` | 2 invocations, failing probes, writers that ignore the guard, fairness | exactly the archived and requested file is moved away, a failed start gives its lock back |
| `memory_reviews` | 3 transactions, a decision, a fact, 2 agent slugs | one verdict, audit records, true reports, no way back to the inbox |
| `memory_pairs` | 2 transactions, a question, a decision, a fact, 1 slug, fairness | with one slug audit records and review records are exact, transactions that lock in opposite orders end, they implement `MemoryLedger` |
| `memory_promotion` | 3 transactions, a question, a decision | violated, see section 5 |
| `import_serial` | 1 caller, 2 notes, people in between | one row per key, manual changes kept, a blocked sync writes nothing, a succeeded one leaves nothing to do |
| `import_overlap` | 2 callers that overlap, 1 note, kills | no ordinary note becomes reviewed memory by itself |
| `sync_logged` | 1 caller, 2 notes | violated, see section 5 |
| `migrations` | 2 migrators, 4 files, checkouts of different age and content, kills, failing statements, a failed restore | records tell the truth, files execute in order, success means executed, a retry repairs everything |
| `export` | 2 exports of a vault or of a bundle that may overlap, 2 memories, 2 commits, a person's note, kills | no draft shown as reviewed, notes survive, links resolve, a quiet export shows the database |
| `surfaces` | 19 surfaces, 3 memories; 2 commits next to brief and prepare, 1 next to the others | no draft passes as reviewed, nothing active is missing, a packet says one thing of each memory, quiet answers agree with the database |
| `onboarding` | a command and 2 requests, 2 projects in 1 folder, 2 files, 1 failure, kill or restart, 1 change by others | unless a text was torn, instructions survive, there is one block, what was reported is there, a retry gets there |

Bounds and why they are enough. Three invocations are what the longest stories
of the lock need: one run holds the lock, one invocation removes it, and a
third takes its place or removes it again on stale evidence; one owner is
enough because owners of different runs do not interact. `lock_safety` takes
probes to be reliable, because `LiveOwnerKept` says nothing otherwise;
`lock_outsiders` does not, and the proofs cover both. Three transactions give
every pair of conflicting writers a third one that comes between them, and two
rows every order of locks; two transactions are enough for a deadlock and for
each kind of writer to overlap each other kind. Two notes make a plan with a
writable and a blocked entry, two callers a plan that another one has outdated.
Callers run commands again and again, so a command may also meet what any
number of earlier ones left: with two callers that includes two rows where one
was planned. `EditBound` and `WorkBound` (at most 2) bound what people do to
notes and rows; a new row needs another type of the same note or a race of two
commands, so `RowCount` never runs out. Symmetry is used in safety runs only,
over process, owner, slug and caller names that no definition distinguishes.
In `RunLock` and `MemoryReview` each process is one invocation, and
`Terminated` marks the state in which all have ended; all runs check deadlock.

Two migrators are enough because a migrator looks at the database, not at the
others; four files are the two special ones, one to fail and one after it.
Three memories fill a list of one row (`Limit`) and leave one out (so here a list that is not empty is full, and what
is checked of a limit is mostly whether a list is empty; the theorems hold for
every limit), with a neighbour of another type or project (`MCCasts` has each type as the one
looked at); two commits let a memory change its status and another one take
its place between two queries. Two exports overlap in each of their steps; with
two tables there is one query before and one after a commit, and with two titles
a file that is renamed. In `onboarding`
one process more than two lets a third one retry what two overlapping ones have
left; files of different folders meet no more than files of one. `export`, `surfaces` and `onboarding` do not check deadlock: each
process or request is there a bounded number of times.

Fairness is weak fairness of the steps a process takes on its own once it
runs: the operating system schedules it, the kernel or PostgreSQL grants a
lock that is free. Nothing forces anyone to invoke a command, to crash, edit or
review. Only two runs use it: in `lock_outsiders` each
invocation takes the guard a bounded number of times, so weak fairness is enough
for it to get it; in `memory_pairs` it also covers the deadlock victim, because
PostgreSQL's detector runs after `deadlock_timeout`.

That a lock file's guard or the import agent's row is given back when its holder
ends is the work of the kernel and of PostgreSQL, and `migrate --apply` is a
loop over a list: no property says that they end.

Every property has a mutant: a plausible bug in the mapped definition (a
dropped guard, a missing fsync, a hash that forgets the status) under which TLC
finds it violated. The mutants stand before the definitions they change.

## 4. What is proved

All theorems hold for any number of processes, owners, rows, slugs and, for
the register, claims. They assume only the named assumptions on constants
(`RunLockAssumption`, `NoneAssumption`, `MemoryAssumption`,
`NoneIsNoMemory`, `MigrationsAssumption`, `ImportAssumption`, `NoneIsNoRow`,
`ExportAssumption`, `OnboardingAssumption`, `SurfacesAssumption`): `None` is not one of the things it
stands in for, switches are Booleans, types of rows are disjoint, a word a
person writes is neither a marker nor a slug. What a theorem needs besides stands in its statement.

* **Run lock** (`RunLockProofs`, invariant in `RunLockInv`). `HeldWhileOpen`
  alone is not inductive: that a release cannot take another run's lock depends
  on what it verified several steps earlier. `IInv` therefore says who holds
  the guard at which step (`GuardInv`), what each step of `archive_remove` has
  already established about lock, digest and archive (`RemoveInv`), where every
  lock file that may reappear came from (`LockInv`), that an unasked recovery
  is at its move only with a dead owner (`RecoverInv`) and how far reported
  runs have got (`RunInv`). It is proved inductive for `Outsiders = FALSE`,
  one step per action; `HeldWhileOpen`, `Exclusion`, `EvidenceKept`,
  `CompletedMeansGone` follow. `OnceInv` adds that
  a lock which a completed event holds is the snapshot of no other removal,
  under way or completed, whence `RemovalsHappenOnce`. `RunningOwnersKeepTheLock` assumes besides that
  probes do not fail. `TypeCorrect` and `RemovalsAreExact` need no assumption on
  outsiders: `NamedInv` says of each step of `archive_remove` that the snapshot
  is what the caller named, and of the last one that the lock still is that
  snapshot.
* **Register** (`RunLockRefinementProofs`). `RunLockImplements` maps every step
  of the scripts to a step or a stutter of `WorktreeLock`, using `IInv`. What is
  proved of the register (`RegisteredAlways`, `RegisterForgets`: a claim that
  was removed is never granted again) therefore holds of the scripts:
  `RemovedLocksStayAway`, once its removal is durable, a run's lock never holds
  the worktree again.
* **Memory** (`MemoryReviewProofs`, invariant in `MemoryReviewInv`). That two
  reviewers cannot both decide a draft rests on the row lock between UPDATE and
  COMMIT: `WorkInv` and `PendInv` say that an uncommitted verdict has the row
  locked and that the row is still a draft for all others, `LogInv` that a
  verdict in the log means the draft is gone, `SourceInv` that whatever a
  transaction has read or will write was written by a committed audit record or
  its own pending one, `BatchInv` and `EndInv` carry the reports: an
  error, which may be the lost answer to a COMMIT, leaves none or all of what
  the batch found in the log, and never a part. From `IInv`
  follow `OneVerdict`, `NeverDraftAgain`, `Explained`, `ReportedReviews` and
  that the transactions implement the ledger.
* **Audit records** (the second part of `MemoryReviewProofs`). If all writers use one agent slug,
  `AuditChain` and `ReviewRecordKept` hold for any rows and invocations. Whoever
  has an action to commit, or reads a row in order to change it, holds the
  agent's row (`LockInv`), so nobody commits between that reading and the
  writing (`ReadInv`, the one step that needs a single slug); then a pending
  action names the statuses its commit will go from and to (`ActionInv`) and a
  version that is no review's carries the review record of the row it replaces
  (`SignedInv`).
* **Migrations** (`MigrationsProofs`). For any number of migrators, files and
  checkouts, killed and failing anywhere: `RecordsAreTrue`, `ExecutedInOrder`
  and `SuccessIsExecution`. The invariant follows each migrator: what it has
  executed without having recorded it yet, and that every file before the one
  it works on has been executed with its content. `RetriesRecover` adds two
  parts: no failure is ever recorded for the baseline, which is applied by the
  time a run reaches the loop over the files (`BaseInv`), and a run that is alone and has
  met no fault finds every file behind it recorded with its own checksum
  (`CleanInv`).
* **Import and sync** (`ImportSyncProofs`). For any number of callers, notes and
  rows. `ReviewIsNeeded` and `BlockedSyncsWriteNothing` hold while commands
  overlap, are killed and meet reviews and edits. The first needs to know why an
  entry planned long before its row is written is still sound: rows stay where
  their key and table are (`RowsStay`), two transactions never create the same
  row (`NewRowsApart`), so a refresh finds the very row that a person had
  accepted when it was planned, or raises (`VInv`). The others assume
  `~Overlap`. For `PeoplesChangesAreKept` an entry to refresh finds an
  unmodified row from its planning to its end (`Careful`). `KeysStayUnique` and
  `SyncsSettle` assume `DistinctKeys` too - two notes with one key are both
  planned before either is created - and say of each entry what it finds before
  and after it is applied (`Unique`, `Settled`); `Honest` ties the event and the
  aborted transaction to the plan.

* **Export** (`ExportProofs`). For any number of tables, memories and exports
  that overlap, are killed, and meet commits and people who save notes. That no
  file calls a draft reviewed rests on what a run keeps from its queries: every
  row it holds is one that its table had at some time, and a memory that has
  left the inbox never comes back (`ReadOf`, `SaysInv`), so a page written long
  after its query still says no more than is true. `NotesKept` follows each note
  from the file into the hands of the writer and back (`HeldOf`, `NoteOf`); it
  needs that a writer finds a file torn only where that is recorded in `blame`.
  `LinksResolve` needs that a file once written never vanishes and that a run's
  files are all written by its end (`Done`, `WrittenOf`), in the order of their
  turns (`IndexInv`: an index comes after the page it names). `QuietOf` ties
  what an undisturbed run has read to what is still there.
* **Onboarding** (`OnboardingProofs`). The first half is about texts: where the
  block of a well-formed text is (`Slot`), what `Updated` puts at each place
  (`UpdatePieces`), that a second update changes nothing (`UpdateTwice`), that
  what is outside the block stays there (`UpdateOutside`, `InsertedText`). The
  invariant then says of each file into which no writer has left another text
  than it planned that it is well-formed and keeps a person's words outside the
  block unless somebody is in the middle of writing it (`TextOf`), and of each
  plan of such a file that it is an update of a well-formed text and
  either keeps those words too or is stale (`PlanOf`); `Fill` turns the one into
  the other when nobody has filled the file in between. `BlocksKeepToThemselves` follows for any texts, projects, folders,
  files and overlapping, stopped or failing writers. For `RetriesRecover`, `AloneOf` says what each step
  of an undisturbed process has established so far, and `JobOf` that the token
  of a request is never newer than the server's, so a refusal stays justified
  after a restart.

* **Surfaces** (`SurfacesProofs`). For any number of memories, any limit and any
  number of commits between the queries of an answer. `TypeOK` already says
  much: a plan consists of the queries that `Form` gives for its surface, and
  has those a property depends on, in an order that matters (`Covers`: drafts
  are counted before the lists are read), so that the properties speak of
  replies that exist. `RepliesFit` relates each reply to the query it answers
  and to the store *as it has become since*: a row read as no draft is no draft
  now, because nothing makes a draft of a memory that is none. `ReportsFit`
  keeps this for stored daily reports and `Warned` for the ends of relations,
  which `relate` looks up one after the other; `DraftsNotPassedOff` follows for
  every part of every surface. `NothingLost` is what `NothingSlipsThrough`
  needs: of the memories that were active all the time, those a count of drafts
  did not include (`Beyond`) are in every later list that was not cut at its
  limit. `PacketOfOneVoice` rests on lemmas about lists that are cut
  (`Ranks`, `Cut`, `CutFirst`, `CutUnique`: the members of a finite set before
  which fewer than `n` others come are `n`, or all, and come before the rest).
  The same lemmas give `QuietAnswersFaithful`: `QuietReplies` makes each reply
  of an undisturbed answer a function of the store, and what several cut lists
  are merged into is shown to be the cut of their union (`SearchIsRight`,
  `PacketIsBest`), although no table sent all it had.

Only model-checked are the liveness properties (`FailedStartCleansUp`,
`TransactionsEnd`), which need fairness and ENABLED. Every safety property of a passing run is a theorem; the
two properties that are violated are not true.

## 5. Where code and documents disagree

Two of them have a run with one violated property, whose trace shows the
steps:

* `memory_promotion`: answering a draft question or accepting a draft decision
  with `update-decision` makes it reviewed memory without a review.
* `sync_logged`: an SQL error while a note is planned leaves no `sync_events`
  row of the attempt.

More can be read off the models, without a run of their own. Import and sync:

* Accepting an imported draft counts as a database change, so its note can
  never be refreshed automatically again (`importing/store.py:310`;
  `README.md:391` names "same-source refreshes of an existing reviewed item").

* Two notes with one import key become two rows in one sync, because all notes
  are planned before one is applied, and every later sync of them is rejected
  (`docs/import-allowlist.md:73` calls the key safe duplicate detection).
  Two overlapping commands do the same with one note. An import of both notes
  keeps one row. `import_serial` gives each note a key of its own.
* Notes that an import lists as imported, with ids, were rolled back with the
  transaction that a later note aborted (`importing/workflow.py:60`).
* A decision accepted and revised in the database blocks every sync although
  its note did not change, because it is routed before the hashes are compared
  (`importing/store.py:290`; `tests/test_sync_workflow.py:170` expects a skip).
* A draft report whose note is turned into a receipt is published by the next
  sync (`writeback_routing.py:228`); `ReviewedMeansAccepted` allows for it.

Export and registration:

* The compiled pages' "Linked Memory" lines are not filtered by status,
  although `README.md:421` leaves drafts out of them.
* A receipt's `exported` says that a file of that name exists, not that it
  shows the memory as it is; two projects' documents with one slug share a file.
* Overlapping exports, or a kill while a file is empty, lose notes that
  `ROADMAP.md:165` says are preserved (`NotesKept` names the cases).
* `scripts/install_repo_agent_memory.sh:14` promises not to replace project
  instructions. With the end marker lost, an install appends a second start,
  and the next one drops what followed the first; what a person adds between
  plan and writing is lost (`InstructionsKept` names the cases). The page shows
  the block before it is installed, but the folder may be another by the click.
* The end marker is lost, too, when a write is stopped half-way
  (`repo_agent_memory.py:165`): the next `register-project` appends a second
  start and prints "ready", and the page, which finds something to update, says
  that the setup is missing. Two writers that have both emptied the file leave
  the shorter text with the tail of the longer, perhaps with a second end. A
  text cut within a character makes every later plan fail, and the page with it.
  `InstructionsKept` and `RetryRecovers` except these files (`torn`).
* After `register-project --target-file`, "ready" is about that file; the page
  looks at AGENTS.md only.

What is read:

* The relations of `prepare`, `quality` and `relations` are not filtered, so
  they may name drafts (`docs/automation-boundaries.md:134`). `Unmarked` lists
  the parts that `DraftsNotPassedOff` leaves out for this reason.
* `prepare` marks superseded decisions and disputed or proposed facts as
  verified, drafts use up the limit of its safety floor, and its blind spots may
  name a type that has matches beyond the limit.
* The counts of a brief include drafts and archived memory; the card with the
  latest report shows draft reports; the memory library lists answered
  questions whose own page answers 404, and omits proposed and deferred ones.
* A search asks table after table and then cuts the merged list, so a change
  in between may leave out a memory that was active all the time;
  `NothingSlipsThrough` therefore does not speak of searches.

Two weaknesses without a document to contradict are recorded as hazards: with
two agent slugs `answer-question` and `update-decision` may erase a review
record they did not read (`ReviewRecordKept` holds for one slug only), and a
sync writes what it planned over a change that was committed since
(`ManualChangesKept` holds when runs are alone).

## 6. What is not modelled

Layout, wording, HTML, translations and the macOS app around the server. The
status and `--all` listings of the run lock only read. Reviewer resolution is
text in the review record. The MCP protocol is a library's; the tools' queries
are in `Surfaces`. The offline finish note is read by a person only. Backups
are dumps and checksums made by other programs; of a restore only the empty
database it may leave is modelled. `project_remember.sh` and
`project_answer_question.sh` call two commands of the model one after the
other. A text is written to a file
by one call of the system: a very long one, which Python writes in several, may
be mixed with another more finely. In `Export` two writers of one page never
leave a tail of the longer text behind; the race is in `blame` all the same. The
rounding of a fact's confidence when it is stored is left out.
Scope and domain hints, `db_id` in notes, several projects in one vault
and the SQL inside a migration are left out.

## 7. What could follow

1. `ImportSync`: a `db_id` that names a row; an abstract specification of a
   vault mirrored into rows, implemented by serial runs.
2. A module of the backups: dump, checksum, pruning, verification and restore
   with partial files.
3. `route_candidate` and the resolution of a responsible reviewer as functions
   with all their inputs, against reference definitions.
