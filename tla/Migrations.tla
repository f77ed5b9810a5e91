----------------------------- MODULE Migrations -----------------------------
(***************************************************************************)
(* `agent-hub migrate --apply` (agent_hub/migrations.py): the numbered SQL *)
(* files of a checkout and the table schema_migrations that records them.  *)
(*                                                                         *)
(* A file is one SQL transaction of its own, executed in autocommit mode;  *)
(* its record is written by a later transaction.  Several migrators may    *)
(* run at once, from checkouts of different age, and be killed between any *)
(* two steps.  A restore that fails leaves an empty database.              *)
(***************************************************************************)
EXTENDS Naturals

CONSTANTS
  Migrator,   \* callers of migrate --apply, again and again
  Last,       \* number of the newest migration
  Checksum,   \* contents of a migration file; checksum and content are one
  Checkouts,  \* the checkouts they run from: a checksum for each file
  Overlap,    \* FALSE: one migrator at a time
  Faults,     \* "kill": a migrator dies; "sql": a statement fails
  None

(* 1 is the baseline, which fails if it is executed twice; 2 creates the   *)
(* tracking table; the others change what the baseline has created.        *)
Version == 1..Last
BASELINE == 1
TRACKING == 2

ASSUME MigrationsAssumption ==
  /\ Last \in Nat /\ Last >= 2
  /\ \A c \in Checkouts : \E n \in 0..Last : c \in [1..n -> Checksum]
  /\ Overlap \in BOOLEAN /\ Faults \subseteq {"kill", "sql"}
  /\ None \notin {"applied", "failed"}

Record == [status : {"applied", "failed", None}, checksum : Checksum \cup {None}]
NoRecord == [status |-> None, checksum |-> None]
Applied(c) == [status |-> "applied", checksum |-> c]

VARIABLES
  effect,    \* effect[v]: the contents of v executed on this database
  record,    \* schema_migrations
  pc,        \* where each migrator is
  next,      \* the file it works on
  checkout,  \* the files it sees
  clean      \* it has been alone since it started and has met no fault

database == <<effect, record>>
local    == <<next, checkout>>
vars     == <<database, pc, local, clean>>

Database == [effect : [Version -> SUBSET Checksum], record : [Version -> Record]]
Empty    == [effect |-> [v \in Version |-> {}], record |-> [v \in Version |-> NoRecord]]

Place == {"idle", "look", "base", "bootstrap", "fresh", "freshTracking",
          "recordBoth", "register", "recordBaseline", "check", "execute",
          "record", "recordFailure", "ok", "failed"}
Ended == {"idle", "ok", "failed"}

TypeOK ==
  /\ [effect |-> effect, record |-> record] \in Database
  /\ pc \in [Migrator -> Place]
  /\ next \in [Migrator -> 1..(Last + 1)]
  /\ checkout \in [Migrator -> Checkouts]
  /\ clean \in [Migrator -> BOOLEAN]

(* What psql of an older installation may have left: the baseline alone.   *)
Init ==
  /\ record = Empty.record
  /\ \/ effect = Empty.effect
     \/ \E c \in Checkouts : /\ DOMAIN c # {}
                             /\ effect = [Empty.effect EXCEPT ![BASELINE] = {c[BASELINE]}]
  /\ pc = [m \in Migrator |-> "idle"]
  /\ next = [m \in Migrator |-> 1]
  /\ \E c \in Checkouts : checkout = [m \in Migrator |-> c]
  /\ clean = [m \in Migrator |-> FALSE]

Exists(v)  == effect[v] # {}                 \* schema_migrations_exists, base_schema_exists
Has(m, v)  == v \in DOMAIN checkout[m]       \* migration_file_by_id
Running(m) == pc[m] \notin Ended
Alone(m)   == \A q \in Migrator \ {m} : ~Running(q)

Goto(m, from, to) == pc[m] = from /\ pc' = [pc EXCEPT ![m] = to]

Start(m) ==
  /\ ~Running(m)
  /\ Overlap \/ Alone(m)
  /\ \E c \in Checkouts :
       /\ checkout' = [checkout EXCEPT ![m] = c]
       /\ pc' = [pc EXCEPT ![m] = IF DOMAIN c = {} THEN "failed" ELSE "look"]
  /\ clean' = [q \in Migrator |-> IF q = m THEN Alone(m) ELSE FALSE]
  /\ UNCHANGED <<database, next>>

-----------------------------------------------------------------------------
(***************************************************************************)
(* execute_migration_file and record_migration.                            *)
(***************************************************************************)
(* Whether the file's transaction can commit, and whether it may fail: the *)
(* statements of two migrators may be deadlock or duplicate key victims.   *)
Executable(v) ==
  \/ v = TRACKING
  \/ v = BASELINE /\ ~Exists(BASELINE)
  \/ v > TRACKING /\ Exists(BASELINE)
MayFail(m, v) == ~Executable(v) \/ "sql" \in Faults \/ ~Alone(m)

Execute(m, v, from, to) ==
  /\ Goto(m, from, to)
  /\ Executable(v)
  /\ effect' = [effect EXCEPT ![v] = @ \cup {checkout[m][v]}]
  /\ UNCHANGED <<record, local, clean>>

ExecuteFails(m, v, from, to) ==
  /\ Goto(m, from, to)
  /\ MayFail(m, v)
  /\ clean' = [clean EXCEPT ![m] = @ /\ ~Executable(v)]
  /\ UNCHANGED <<database, local>>

(* The upsert of one or two records; the table is there.                   *)
WriteRecords(m, vs, from, to) ==
  /\ Goto(m, from, to)
  /\ record' = [v \in Version |-> IF v \in vs THEN Applied(checkout[m][v]) ELSE record[v]]
  /\ UNCHANGED <<effect, local, clean>>

-----------------------------------------------------------------------------
(***************************************************************************)
(* apply_migrations.                                                       *)
(***************************************************************************)
(* What base_schema_exists answers matters only without a tracking table.  *)
LookTracking(m) ==
  /\ Goto(m, "look", CASE Exists(TRACKING)                     -> "register"
                       [] ~Exists(TRACKING) /\ Has(m, TRACKING) -> "base"
                       [] OTHER                                -> "failed")
  /\ UNCHANGED <<database, local, clean>>

LookBase(m) ==
  /\ Goto(m, "base", IF Exists(BASELINE) THEN "bootstrap" ELSE "fresh")
  /\ UNCHANGED <<database, local, clean>>

(* The schema is there, the tracking table is not.                         *)
Bootstrap(m) ==
  \/ Execute(m, TRACKING, "bootstrap", "recordBoth")
  \/ ExecuteFails(m, TRACKING, "bootstrap", "failed")

(* Neither is there. *)
Fresh(m) ==
  \/ Execute(m, BASELINE, "fresh", "freshTracking")
  \/ ExecuteFails(m, BASELINE, "fresh", "failed")
  \/ Execute(m, TRACKING, "freshTracking", "recordBoth")
  \/ ExecuteFails(m, TRACKING, "freshTracking", "failed")

RecordBoth(m) == WriteRecords(m, {BASELINE, TRACKING}, "recordBoth", "register")

(* Mutant of Register: a baseline without a record is left to the loop.    *)
RegisterNothing(m) ==
  /\ Goto(m, "register", "check")
  /\ next' = [next EXCEPT ![m] = 1]
  /\ UNCHANGED <<database, checkout, clean>>

(* Is this a schema without a record of its baseline? *)
Register(m) ==
  /\ Goto(m, "register", IF Exists(BASELINE) /\ record[BASELINE] = NoRecord
                           THEN "recordBaseline" ELSE "check")
  /\ next' = [next EXCEPT ![m] = 1]
  /\ UNCHANGED <<database, checkout, clean>>

(* The upsert, over whatever the record says by now.                       *)
RecordBaseline(m) == WriteRecords(m, {BASELINE}, "recordBaseline", "check")

AppliedAlready(v) == record[v].status = "applied"

Advance(m) ==
  /\ next' = [next EXCEPT ![m] = @ + 1]
  /\ UNCHANGED <<checkout, clean>>

(* Mutant of Skip: a record of any status will do. *)
SkipRecorded(m) ==
  /\ Has(m, next[m]) /\ record[next[m]] # NoRecord
  /\ Goto(m, "check", "check")
  /\ Advance(m) /\ UNCHANGED database

(* The file is recorded as applied, with the checksum it has now.          *)
Skip(m) ==
  /\ Has(m, next[m]) /\ AppliedAlready(next[m])
  /\ record[next[m]].checksum = checkout[m][next[m]]
  /\ Goto(m, "check", "check")
  /\ Advance(m) /\ UNCHANGED database

(* ... or with another one: the run ends with an error. *)
Changed(m) ==
  /\ Has(m, next[m]) /\ AppliedAlready(next[m])
  /\ record[next[m]].checksum # checkout[m][next[m]]
  /\ Goto(m, "check", "failed")
  /\ UNCHANGED <<database, local, clean>>

Pick(m) ==
  /\ Has(m, next[m]) /\ ~AppliedAlready(next[m])
  /\ Goto(m, "check", "execute")
  /\ UNCHANGED <<database, local, clean>>

(* Mutant of ExecuteNext: a failure is recorded like a success. *)
ExecuteSwallowing(m) ==
  \/ Execute(m, next[m], "execute", "record")
  \/ ExecuteFails(m, next[m], "execute", "record")

ExecuteNext(m) ==
  \/ Execute(m, next[m], "execute", "record")
  \/ ExecuteFails(m, next[m], "execute", "recordFailure")

RecordNext(m) ==
  /\ Goto(m, "record", "check")
  /\ record' = [record EXCEPT ![next[m]] = Applied(checkout[m][next[m]])]
  /\ Advance(m) /\ UNCHANGED effect

(* Mutant of RecordFailure: the loop goes on with the next file. *)
RecordFailureAndGoOn(m) ==
  /\ Goto(m, "recordFailure", "check")
  /\ record' = [record EXCEPT ![next[m]] =
                  [status |-> "failed", checksum |-> checkout[m][next[m]]]]
  /\ Advance(m) /\ UNCHANGED effect

(* The failure is recorded over whatever the record says by now.           *)
RecordFailure(m) ==
  /\ Goto(m, "recordFailure", "failed")
  /\ record' = [record EXCEPT ![next[m]] =
                  [status |-> "failed", checksum |-> checkout[m][next[m]]]]
  /\ UNCHANGED <<effect, local, clean>>

Finish(m) ==
  /\ ~Has(m, next[m])
  /\ Goto(m, "check", "ok")
  /\ UNCHANGED <<database, local, clean>>

Kill(m) ==
  /\ "kill" \in Faults /\ Running(m)
  /\ pc' = [pc EXCEPT ![m] = "idle"]
  /\ UNCHANGED <<database, local, clean>>

-----------------------------------------------------------------------------
(***************************************************************************)
(* db_restore.sh, while nobody migrates: DROP SCHEMA, then pg_restore.  A  *)
(* restored dump is a database some earlier state has had; what is new is  *)
(* the empty one that a pg_restore which fails leaves.                     *)
(***************************************************************************)
RestoreFails ==
  /\ \A m \in Migrator : ~Running(m)
  /\ effect' = Empty.effect /\ record' = Empty.record
  /\ pc' = [m \in Migrator |-> "idle"]
  /\ UNCHANGED <<local, clean>>

Step(m) ==
  \/ LookTracking(m) \/ LookBase(m) \/ Bootstrap(m) \/ Fresh(m) \/ RecordBoth(m)
  \/ Register(m) \/ RecordBaseline(m) \/ Skip(m) \/ Changed(m) \/ Pick(m) \/ ExecuteNext(m)
  \/ RecordNext(m) \/ RecordFailure(m) \/ Finish(m)

Next ==
  \/ \E m \in Migrator : Start(m) \/ Step(m) \/ Kill(m)
  \/ RestoreFails

Spec == Init /\ [][Next]_vars

-----------------------------------------------------------------------------
(***************************************************************************)
(* describe_migrations: what `migrate` and `status` report of a checkout.  *)
(***************************************************************************)
ReportedStatus(c, v) ==
  CASE record[v] = NoRecord -> IF v = BASELINE /\ Exists(v) THEN "applied-untracked"
                               ELSE "pending"
    [] record[v] # NoRecord -> IF AppliedAlready(v) /\ record[v].checksum # c[v]
                               THEN "changed" ELSE record[v].status

OpenItems(c) ==
  {v \in DOMAIN c : ReportedStatus(c, v) \in {"pending", "failed", "changed"}}

-----------------------------------------------------------------------------
(***************************************************************************)
(* Properties.                                                             *)
(***************************************************************************)
(* v has been executed with the content c; of the baseline only the fact   *)
(* is known: a migrator registers the one it finds under its own checksum. *)
Executed(v, c) == IF v = BASELINE THEN Exists(v) ELSE c \in effect[v]

(* What schema_migrations calls applied has been executed, with the        *)
(* content whose checksum it holds, whoever recorded it last and whatever  *)
(* was killed in between.                                                  *)
RecordsTrue == \A v \in Version : AppliedAlready(v) => Executed(v, record[v].checksum)

(* Migrations are executed in the order of their numbers: none is there    *)
(* whose predecessors are not, although each migrator breaks its loop only *)
(* on what it has seen itself.                                             *)
InOrder == \A v, w \in Version : Exists(v) /\ w < v => Exists(w)

(* `migrate --apply` that ends without an error leaves every file of its   *)
(* checkout executed, as its content stood, even if a concurrent one fails *)
(* or records something else.                                              *)
SuccessMeansExecuted ==
  \A m \in Migrator : pc[m] = "ok" =>
    \A v \in DOMAIN checkout[m] : Executed(v, checkout[m][v])

(* A run that is alone and meets no fault repairs what earlier runs left   *)
(* behind, killed or failed: when it ends without an error no migration is *)
(* open, and it fails only over a file that was changed after it had been  *)
(* applied, or a checkout that lacks the first two.                        *)
RetryRecovers ==
  \A m \in Migrator : clean[m] =>
    /\ pc[m] = "ok" => OpenItems(checkout[m]) = {}
    /\ pc[m] = "failed" => \/ \E v \in DOMAIN checkout[m] : ReportedStatus(checkout[m], v) = "changed"
                           \/ ~Has(m, TRACKING)

=============================================================================
