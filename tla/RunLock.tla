------------------------------- MODULE RunLock -------------------------------
(***************************************************************************)
(* The run lock of one worktree: scripts/agent_run_lock.py as it is called *)
(* by scripts/agent_start.sh, agent_finish.sh and agent_lock_recover.sh.   *)
(*                                                                         *)
(* A process is one invocation of one of these scripts, so an element of   *)
(* Proc also names the run a start creates (its fresh uuid) and the        *)
(* archive event a removal creates.  Locks of different worktrees share no *)
(* file, hence one lock file is modelled.                                  *)
(*                                                                         *)
(* The file system is modelled as far as durability goes: a name created   *)
(* or removed in a directory survives a power failure for certain only     *)
(* once sync_dir has run on that directory.                                *)
(***************************************************************************)
CONSTANTS
  Proc,           \* script invocations
  Owner,          \* process identities (host, boot, pid, birth) for --owner-pid
  None,           \* no lock, no guard holder, no owner, no run
  Faults,         \* what may happen: "crash" (a kill, an I/O error), "power"
  ProbesMayFail,  \* whether the probe of a running owner may raise
  Outsiders       \* whether writers that ignore the guard touch the lock

ASSUME RunLockAssumption ==
  /\ None \notin Proc \cup Owner
  /\ Faults \subseteq {"crash", "power"}
  /\ ProbesMayFail \in BOOLEAN /\ Outsiders \in BOOLEAN

(* A lock file: its bytes (form, run_id, rest of the text) and its inode. *)
File == [form : {"v2", "legacy", "malformed"}, run : Proc \cup {None},
         text : {"first", "edited"}, ino : {"first", "other"}]

Own(r)      == [form |-> "v2", run |-> r,    text |-> "first", ino |-> "first"]
Stray(form) == [form |-> form, run |-> None, text |-> "first", ino |-> "first"]

(* SHA-256 of the bytes: the inode is not part of it. *)
Digest(f) == <<f.form, f.run, f.text>>
Digests   == {"v2", "legacy", "malformed"} \X (Proc \cup {None})
               \X {"first", "edited"}

ASSUME NoneAssumption == None \notin File /\ None \notin Digests

VARIABLES
  lock,     \* the lock file, or None
  disk,     \* what the lock's directory entry may be after a power failure
  guard,    \* the process that holds the flock on .guards/<key>
  files,    \* files[p]: names in the archive event of p
  firm,     \* firm[p]: those of them that survive a power failure
  moved,    \* moved[p]: the file in removed.lock of the event of p
  pc,       \* where each invocation is
  role,     \* "start", "finish" or "recover"
  target,   \* the --run-id an invocation acts for
  seen,     \* the --digest an invocation acts on
  snap,     \* the snapshot archive_remove works from
  acks,     \* the --acknowledge-... options of a recovery
  bound,    \* bound[r]: the --owner-pid of the start of run r, or None
  told,     \* runs whose run_id and digest their start has printed
  open,     \* runs started with success, neither finished nor given up
  revoked,  \* runs whose lock an operator removed with --acknowledge-unknown
  life      \* life[o]: "alive", "dead", or of an earlier boot

entry   == <<lock, disk>>
archive == <<files, firm, moved>>
call    == <<role, target, seen, snap, acks>>
runs    == <<bound, told, open, revoked>>
vars    == <<entry, guard, archive, pc, call, runs, life>>

Name == {"original", "prepared", "removed", "completed"}

(* The places at which a process holds the guard, and those of archive_remove. *)
Acquiring == {"staged", "linked", "synced"}
Removing  == {"read", "prepare", "durable", "recheck", "move",
              "moved", "unmarked", "marked"}
Guarded   == Acquiring \cup Removing
Place     == Guarded \cup {"new", "startWait", "context", "finishWait",
                           "closing", "removeWait", "done"}

Transition(p, from, to) == pc[p] = from /\ pc' = [pc EXCEPT ![p] = to]

(***************************************************************************)
(* Owner evidence (owner_status and the nested check_recovery).            *)
(***************************************************************************)
OwnerStatus(f) ==
  IF f.form = "legacy" THEN {"ownerless/legacy"}
  ELSE IF f.run = None \/ bound[f.run] = None \/ life[bound[f.run]] = "pastBoot"
       THEN {"unknown-owner"}
       ELSE {IF life[bound[f.run]] = "alive" THEN "owned/active" ELSE "dead-owner"}
              \cup (IF ProbesMayFail THEN {"unknown-owner"} ELSE {})

(* Mutants of Permits: a missing acknowledgement; one that goes too far. *)
PermitsUnknown(p, status) ==
  \/ status \in {"dead-owner", "unknown-owner"}
  \/ status = "ownerless/legacy" /\ "legacy" \in acks[p]

PermitsActive(p, status) ==
  \/ status = "dead-owner"
  \/ status = "ownerless/legacy" /\ "legacy" \in acks[p]
  \/ status \in {"unknown-owner", "owned/active"} /\ "unknown" \in acks[p]

Permits(p, status) ==
  \/ status = "dead-owner"
  \/ status = "ownerless/legacy" /\ "legacy" \in acks[p]
  \/ status = "unknown-owner" /\ "unknown" \in acks[p]

(* Mutant of OwnedBy: any token opens any lock. *)
OwnedByAnyone(f, r) == f.form = "v2"

(* What validate demands of the caller's token, and of its digest. *)
OwnedBy(f, r) == f.form = "v2" /\ f.run = r

(* Mutant of Accepts: the digest is not compared. *)
AcceptsAny(p, f) ==
  IF role[p] = "recover"
    THEN f.form # "malformed" /\ \E s \in OwnerStatus(f) : Permits(p, s)
    ELSE OwnedBy(f, target[p])

(* The check with which a release or a recovery enters archive_remove. *)
Accepts(p, f) ==
  /\ Digest(f) = seen[p]
  /\ IF role[p] = "recover"
       THEN f.form # "malformed" /\ \E s \in OwnerStatus(f) : Permits(p, s)
       ELSE OwnedBy(f, target[p])

(* Mutant of Reaccepts: the snapshot is not compared. *)
ReacceptsAny(p, f) ==
  role[p] = "recover" => \E s \in OwnerStatus(f) : Permits(p, s)

(* The check it repeats after the archive is durable. *)
Reaccepts(p, f) ==
  /\ f = snap[p]
  /\ role[p] = "recover" => \E s \in OwnerStatus(f) : Permits(p, s)

(* The same checks may refuse: the file differs, or the evidence is against it. *)
Refuses(p, f) ==
  \/ Digest(f) # seen[p]
  \/ role[p] = "recover"
       /\ (f.form = "malformed" \/ \E s \in OwnerStatus(f) : ~Permits(p, s))
  \/ role[p] # "recover" /\ ~OwnedBy(f, target[p])

Rerefuses(p, f) ==
  \/ f # snap[p]
  \/ role[p] = "recover" /\ \E s \in OwnerStatus(f) : ~Permits(p, s)

-----------------------------------------------------------------------------
Init ==
  /\ lock \in {None, Stray("legacy"), Stray("malformed")}
  /\ disk = {lock}
  /\ guard = None
  /\ files = [p \in Proc |-> {}]
  /\ firm = [p \in Proc |-> {}]
  /\ moved = [p \in Proc |-> None]
  /\ pc = [p \in Proc |-> "new"]
  /\ role = [p \in Proc |-> "none"]
  /\ target = [p \in Proc |-> None]
  /\ seen = [p \in Proc |-> None]
  /\ snap = [p \in Proc |-> None]
  /\ acks = [p \in Proc |-> {}]
  /\ bound = [p \in Proc |-> None]
  /\ told = {} /\ open = {} /\ revoked = {}
  /\ life = [o \in Owner |-> "alive"]

(***************************************************************************)
(* agent_start.sh: acquire, then load the context, then report.            *)
(***************************************************************************)
StartBegin(p) ==
  /\ Transition(p, "new", "startWait")
  /\ role' = [role EXCEPT ![p] = "start"]
  /\ target' = [target EXCEPT ![p] = p]
  /\ \E o \in Owner \cup {None} : bound' = [bound EXCEPT ![p] = o]
  /\ UNCHANGED <<entry, guard, archive, seen, snap, acks, told, open, revoked, life>>

OwnerRuns(p) == bound[p] # None => life[bound[p]] = "alive"

(* Under the guard: no lock in the way, owner running, pending file written. *)
Stage(p) ==
  /\ Transition(p, "startWait", "staged")
  /\ guard = None /\ guard' = p
  /\ lock = None /\ OwnerRuns(p)
  /\ UNCHANGED <<entry, archive, call, runs, life>>

StageRefused(p) ==
  /\ Transition(p, "startWait", "done")
  /\ guard = None
  /\ lock # None \/ ~OwnerRuns(p)
  /\ UNCHANGED <<entry, guard, archive, call, runs, life>>

(* os.link publishes the complete file and never replaces one. *)
Link(p) ==
  /\ Transition(p, "staged", "linked")
  /\ lock = None
  /\ lock' = Own(p) /\ disk' = disk \cup {Own(p)}
  /\ UNCHANGED <<guard, archive, call, runs, life>>

LinkRefused(p) ==
  /\ Transition(p, "staged", "done")
  /\ lock # None
  /\ guard' = None
  /\ UNCHANGED <<entry, archive, call, runs, life>>

SyncLock(p) ==
  /\ Transition(p, "linked", "synced")
  /\ disk' = {lock}
  /\ UNCHANGED <<lock, guard, archive, call, runs, life>>

(* Mutant of Report: no digest is kept. *)
ReportNoDigest(p) ==
  /\ Transition(p, "synced", "context")
  /\ guard' = None
  /\ told' = told \cup {p}
  /\ UNCHANGED <<entry, archive, call, bound, open, revoked, life>>

(* The token reaches the wrapper, which sets LOCK_ACQUIRED and prints it. *)
Report(p) ==
  /\ Transition(p, "synced", "context")
  /\ guard' = None
  /\ seen' = [seen EXCEPT ![p] = Digest(Own(p))]
  /\ told' = told \cup {p}
  /\ UNCHANGED <<entry, archive, role, target, snap, acks, bound, open, revoked, life>>

StartReady(p) ==
  /\ role[p] = "start"
  /\ Transition(p, "context", "done")
  /\ open' = IF OwnerRuns(p) THEN open \cup {p} ELSE open
  /\ UNCHANGED <<entry, guard, archive, call, bound, told, revoked, life>>

(* A failing context step: the EXIT trap releases with its own id and digest. *)
StartFails(p) ==
  /\ role[p] = "start"
  /\ Transition(p, "context", "removeWait")
  /\ UNCHANGED <<entry, guard, archive, call, runs, life>>

(***************************************************************************)
(* agent_finish.sh: validate, then the finish steps, then release.         *)
(***************************************************************************)
FinishBegin(p, r) ==
  /\ r \in told /\ pc[r] = "done"
  /\ Transition(p, "new", "finishWait")
  /\ role' = [role EXCEPT ![p] = "finish"]
  /\ target' = [target EXCEPT ![p] = r]
  /\ UNCHANGED <<entry, guard, archive, seen, snap, acks, runs, life>>

Validate(p) ==
  /\ Transition(p, "finishWait", "closing")
  /\ guard = None
  /\ lock # None /\ OwnedBy(lock, target[p])
  /\ seen' = [seen EXCEPT ![p] = Digest(lock)]
  /\ UNCHANGED <<entry, guard, archive, role, target, snap, acks, runs, life>>

ValidateRefused(p) ==
  /\ Transition(p, "finishWait", "done")
  /\ guard = None
  /\ lock # None => ~OwnedBy(lock, target[p])
  /\ UNCHANGED <<entry, guard, archive, call, runs, life>>

(* Preflight, summary, handoff, review, export, backup, actions. *)
Close(p) ==
  /\ Transition(p, "closing", "removeWait")
  /\ UNCHANGED <<entry, guard, archive, call, runs, life>>

CloseFails(p) ==
  /\ Transition(p, "closing", "done")
  /\ UNCHANGED <<entry, guard, archive, call, runs, life>>

(***************************************************************************)
(* agent_lock_recover.sh: the preview reads without the guard; the         *)
(* operator then names the digest it printed.                              *)
(***************************************************************************)
Preview(p) ==
  /\ lock # None
  /\ Transition(p, "new", "removeWait")
  /\ role' = [role EXCEPT ![p] = "recover"]
  /\ seen' = [seen EXCEPT ![p] = Digest(lock)]
  /\ \E a \in SUBSET {"legacy", "unknown"} : acks' = [acks EXCEPT ![p] = a]
  /\ UNCHANGED <<entry, guard, archive, target, snap, runs, life>>

(***************************************************************************)
(* archive_remove, shared by release and recover, under the guard.         *)
(***************************************************************************)
TakeGuard(p) ==
  /\ Transition(p, "removeWait", "read")
  /\ guard = None /\ guard' = p
  /\ UNCHANGED <<entry, archive, call, runs, life>>

ReadSnapshot(p) ==
  /\ Transition(p, "read", "prepare")
  /\ lock # None /\ Accepts(p, lock)
  /\ snap' = [snap EXCEPT ![p] = lock]
  /\ UNCHANGED <<entry, guard, archive, role, target, seen, acks, runs, life>>

ReadRefused(p) ==
  /\ Transition(p, "read", "done")
  /\ lock # None => Refuses(p, lock)
  /\ guard' = None
  /\ UNCHANGED <<entry, archive, call, runs, life>>

(* original.lock and prepared.json, in a directory of their own. *)
PrepareArchive(p) ==
  /\ Transition(p, "prepare", "durable")
  /\ files' = [files EXCEPT ![p] = {"original", "prepared"}]
  /\ UNCHANGED <<entry, guard, firm, moved, call, runs, life>>

(* Mutant of SyncArchive: the event directory is not synced. *)
SyncLockOnly(p) ==
  /\ Transition(p, "durable", "recheck")
  /\ disk' = {lock}
  /\ UNCHANGED <<lock, guard, archive, call, runs, life>>

(* sync_dir on the event, on the archive and on the lock directory. *)
SyncArchive(p) ==
  /\ Transition(p, "durable", "recheck")
  /\ firm' = [firm EXCEPT ![p] = files[p]]
  /\ disk' = {lock}
  /\ UNCHANGED <<lock, guard, files, moved, call, runs, life>>

Recheck(p) ==
  /\ Transition(p, "recheck", "move")
  /\ lock # None /\ Reaccepts(p, lock)
  /\ UNCHANGED <<entry, guard, archive, call, runs, life>>

RecheckRefused(p) ==
  /\ Transition(p, "recheck", "done")
  /\ lock # None => Rerefuses(p, lock)
  /\ guard' = None
  /\ UNCHANGED <<entry, archive, call, runs, life>>

(* os.rename takes whatever file is there now. *)
MoveLock(p) ==
  /\ Transition(p, "move", "moved")
  /\ lock # None
  /\ lock' = None /\ disk' = disk \cup {None}
  /\ files' = [files EXCEPT ![p] = @ \cup {"removed"}]
  /\ moved' = [moved EXCEPT ![p] = lock]
  /\ open' = IF role[p] = "recover" THEN open ELSE open \ {target[p]}
  /\ revoked' = IF role[p] = "recover" /\ "unknown" \in acks[p]
                  THEN revoked \cup ({lock.run} \ {None}) ELSE revoked
  /\ UNCHANGED <<guard, firm, call, bound, told, life>>

(* Mutant of SyncRemoval: the lock directory is not synced. *)
SyncEventOnly(p) ==
  /\ Transition(p, "moved", "unmarked")
  /\ firm' = [firm EXCEPT ![p] = files[p]]
  /\ UNCHANGED <<entry, guard, files, moved, call, runs, life>>

SyncRemoval(p) ==
  /\ Transition(p, "moved", "unmarked")
  /\ firm' = [firm EXCEPT ![p] = files[p]]
  /\ disk' = {lock}
  /\ UNCHANGED <<lock, guard, files, moved, call, runs, life>>

WriteCompleted(p) ==
  /\ Transition(p, "unmarked", "marked")
  /\ files' = [files EXCEPT ![p] = @ \cup {"completed"}]
  /\ UNCHANGED <<entry, guard, firm, moved, call, runs, life>>

EndRemoval(p) ==
  /\ Transition(p, "marked", "done")
  /\ firm' = [firm EXCEPT ![p] = files[p]]
  /\ guard' = None
  /\ UNCHANGED <<entry, files, moved, call, runs, life>>

(***************************************************************************)
(* The surroundings.                                                       *)
(***************************************************************************)
(* A kill, or an OSError that leaves the script: the kernel drops the flock. *)
Crash(p) ==
  /\ "crash" \in Faults
  /\ pc[p] \notin {"new", "done"}
  /\ pc' = [pc EXCEPT ![p] = "done"]
  /\ guard' = IF guard = p THEN None ELSE guard
  /\ UNCHANGED <<entry, archive, call, runs, life>>

(* The owner process represents the lifetime of the work: both end. *)
OwnerDies(o) ==
  /\ life[o] = "alive"
  /\ life' = [life EXCEPT ![o] = "dead"]
  /\ open' = {r \in open : bound[r] # o}
  /\ UNCHANGED <<entry, guard, archive, pc, call, bound, told, revoked>>

(* Names that were not synced are each kept or lost; a new boot begins. *)
PowerLoss ==
  /\ "power" \in Faults
  /\ lock' \in disk /\ disk' = {lock'}
  /\ guard' = None
  /\ pc' = [p \in Proc |-> IF pc[p] = "new" THEN "new" ELSE "done"]
  /\ \E lost \in SUBSET {q \in Proc \X Name : q[2] \in files[q[1]] \ firm[q[1]]} :
       files' = [p \in Proc |-> {n \in files[p] : <<p, n>> \notin lost}]
  /\ firm' = files'
  /\ life' = [o \in Owner |-> "pastBoot"]
  /\ open' = {r \in open : bound[r] = None}
  /\ UNCHANGED <<moved, call, bound, told, revoked>>

(* Older scripts and manual edits, which the documentation asks to pause *)
(* while a lock is being removed: not between the last check and the move. *)
(* What they write is taken to be on disk at once.                         *)
OutsiderFiles ==
  {Stray("legacy"), Stray("malformed")} \cup
  (IF lock = None THEN {} ELSE
     {[lock EXCEPT !.text = t, !.ino = i] :
        t \in {"first", "edited"}, i \in {"first", "other"}})

OutsiderWrites ==
  /\ Outsiders
  /\ \A p \in Proc : pc[p] # "move"
  /\ lock' \in OutsiderFiles \cup {None}
  /\ disk' = {lock'}
  /\ UNCHANGED <<guard, archive, pc, call, runs, life>>

Terminated ==
  /\ \A p \in Proc : pc[p] = "done"
  /\ UNCHANGED vars

-----------------------------------------------------------------------------
StartStep(p) ==
  \/ Stage(p) \/ StageRefused(p) \/ Link(p) \/ LinkRefused(p)
  \/ SyncLock(p) \/ Report(p) \/ StartReady(p) \/ StartFails(p)

FinishStep(p) == Validate(p) \/ ValidateRefused(p) \/ Close(p) \/ CloseFails(p)

RemoveStep(p) ==
  \/ TakeGuard(p) \/ ReadSnapshot(p) \/ ReadRefused(p) \/ PrepareArchive(p)
  \/ SyncArchive(p) \/ Recheck(p) \/ RecheckRefused(p) \/ MoveLock(p)
  \/ SyncRemoval(p) \/ WriteCompleted(p) \/ EndRemoval(p)

(* What an invocation does on its own once it runs. *)
Step(p) == StartStep(p) \/ FinishStep(p) \/ RemoveStep(p)

Invoke(p) == StartBegin(p) \/ (\E r \in Proc : FinishBegin(p, r)) \/ Preview(p)

Environment == (\E o \in Owner : OwnerDies(o)) \/ PowerLoss \/ OutsiderWrites

Next ==
  \/ \E p \in Proc : Invoke(p) \/ Step(p) \/ Crash(p)
  \/ Environment
  \/ Terminated

Spec == Init /\ [][Next]_vars

(* The scheduler runs every started script on; nobody has to invoke one. *)
FairSpec == Spec /\ \A p \in Proc : WF_vars(Step(p))

-----------------------------------------------------------------------------
(***************************************************************************)
(* Properties.                                                             *)
(***************************************************************************)
(* Every variable has its type. *)
TypeOK ==
  /\ lock \in File \cup {None}
  /\ disk \subseteq File \cup {None}
  /\ guard \in Proc \cup {None}
  /\ files \in [Proc -> SUBSET Name] /\ firm \in [Proc -> SUBSET Name]
  /\ moved \in [Proc -> File \cup {None}] /\ snap \in [Proc -> File \cup {None}]
  /\ pc \in [Proc -> Place]
  /\ role \in [Proc -> {"none", "start", "finish", "recover"}]
  /\ target \in [Proc -> Proc \cup {None}]
  /\ seen \in [Proc -> Digests \cup {None}]
  /\ acks \in [Proc -> SUBSET {"legacy", "unknown"}]
  /\ bound \in [Proc -> Owner \cup {None}]
  /\ told \subseteq Proc /\ open \subseteq Proc /\ revoked \subseteq Proc
  /\ life \in [Owner -> {"alive", "dead", "pastBoot"}]

(* A run whose start reported success keeps the lock, on disk as well, until *)
(* its own finish or clean-up removes it, unless an operator acknowledged   *)
(* that its owner is unknown: no other start, finish, retry, recovery,      *)
(* crash or power failure takes it away (acquire, validate, check_recovery). *)
HeldWhileOpen ==
  \A r \in open \ revoked : lock = Own(r) /\ disk = {Own(r)}

(* Two agents work in one worktree at the same time only after an operator *)
(* recovered the lock of one of them by acknowledgement.                   *)
Exclusion == \A r, s \in open \ revoked : r = s

(* The lock of a run that was reported to a caller is never lost: it is in *)
(* place, or its bytes and the prepared audit record are durable in an     *)
(* archive event, whatever step a crash or a power failure interrupts      *)
(* (archive_remove: durable before releasing exclusivity).                 *)
Evidence(p) == {"original", "prepared"} \subseteq firm[p]
EvidenceKept ==
  \A r \in told : \/ lock = Own(r) /\ disk = {Own(r)}
                  \/ \E p \in Proc : snap[p] = Own(r) /\ Evidence(p)

(* completed.json is written only when the lock it names is gone for good: *)
(* removed.lock is durable and no power failure brings that lock back.     *)
CompletedMeansGone ==
  \A p \in Proc : "completed" \in files[p] =>
     "removed" \in firm[p] /\ snap[p] \notin disk \cup {lock}

(* A lock is removed to the end once: no two archive events that are       *)
(* completed hold the same one, whoever released or recovered it first and *)
(* whatever a power failure brought back for another one to remove. The    *)
(* completed events are the history of the worktree's runs.                *)
RemovedOnce ==
  \A p, q \in Proc :
    "completed" \in files[p] \cap files[q] /\ snap[p] = snap[q] => p = q

(* The file that archive_remove moved away is the one it archived, and the *)
(* one that the caller's token or the operator's digest names, although    *)
(* the lock may be rewritten after the digest was taken and again while    *)
(* the archive is being prepared.                                          *)
ExactRemoval ==
  \A p \in Proc : "removed" \in files[p] =>
     /\ moved[p] = snap[p] /\ Digest(moved[p]) = seen[p]
     /\ role[p] # "recover" => OwnedBy(moved[p], target[p])

(* No recovery, acknowledged or not, moves away the lock of a run whose    *)
(* bound owner is running, as long as probing that owner works.            *)
LiveOwnerKept ==
  [][ \A p \in Proc :
        role[p] = "recover" /\ pc[p] = "move" /\ pc'[p] = "moved" =>
          "owned/active" \notin OwnerStatus(lock) ]_vars

(* A start whose context fails after it got the lock gives the lock back.  *)
FailedStartCleansUp ==
  \A p \in Proc : role[p] = "start" /\ pc[p] = "removeWait" ~> lock # Own(p)

=============================================================================
