------------------------------ MODULE Onboarding ------------------------------
(***************************************************************************)
(* How a project gets into the Hub and the Hub's block into the project's  *)
(* AGENTS.md: `agent-hub register-project`, the Hub View's form for a new  *)
(* project and its button for the Codex setup, and                         *)
(* `python -m agent_hub.repo_agent_memory`.                                *)
(*                                                                         *)
(* They read and write two things, a row of `projects` and a file, at      *)
(* different times, next to each other and to a person who edits the file. *)
(***************************************************************************)
EXTENDS Naturals, Sequences, FiniteSets

CONSTANTS
  Slug,       \* names of projects
  Folder,     \* local project folders
  Target,     \* names of files in a folder that a block may be put into
  AgentsMd,   \* the one that is meant when none is named
  Command,    \* commands, each run once
  Request,    \* requests to the Hub View, each made once
  Word,       \* what a person writes into AGENTS.md, each once
  Start, End, \* the markers
  Cut,        \* what is left of a piece of which a part was written
  FaultBound, \* bound: kills, restarts of the Hub View and failures
  OtherBound, \* bound: changes made by others
  None

Proc  == Command \cup Request
File  == Folder \X Target
Piece == Word \cup Slug \cup {Start, End}

ASSUME OnboardingAssumption ==
  /\ Command \cap Request = {} /\ {FaultBound, OtherBound} \subseteq Nat
  /\ Start # End /\ {Start, End} \cap (Word \cup Slug) = {} /\ Word \cap Slug = {}
  /\ AgentsMd \in Target /\ Cut \notin Piece
  /\ None \notin Slug \cup Folder \cup Proc /\ None \notin Seq(Piece)

VARIABLES
  project, \* project[s]: None or the row; `agent`: whether it has its codex row
  file,    \* file[f]: its text in pieces, or None
  server,  \* the Hub View: whether it is bound to loopback, and its token
  job,     \* job[p]: what a process was asked
  plan,    \* plan[p]: the text it is going to write, or None
  pc,
  \* What is remembered to state the properties:
  alone,   \* alone[p]: nobody else has changed anything since p began
  stale,   \* stale[p]: others have changed the file since p planned
  struck,  \* struck[p]: something failed that p needed
  mine,    \* mine[f]: words a person wrote outside the block and left there
  broken,  \* broken[f]: a person took a marker out of f
  raced,   \* raced[f]: f was written from a text that was no longer its own,
           \* or its writer stopped after it had emptied it
  torn,    \* torn[f]: a writer has left another text in f than it planned
  faults, others

vars == <<project, file, server, job, plan, pc, alone, stale, struck, mine, broken, raced, torn,
          faults, others>>
ghosts == <<mine, broken, raced, torn>>

Init ==
  /\ project = [s \in Slug |-> None]
  /\ file = [f \in File |-> None]
  /\ server = [loopback |-> TRUE, token |-> 0]
  /\ job = [p \in Proc |-> None] /\ plan = [p \in Proc |-> None]
  /\ pc = [p \in Proc |-> "new"]
  /\ alone = [p \in Proc |-> TRUE] /\ stale = [p \in Proc |-> FALSE]
  /\ struck = [p \in Proc |-> FALSE]
  /\ mine = [f \in File |-> {}] /\ broken = [f \in File |-> FALSE]
  /\ raced = [f \in File |-> FALSE] /\ torn = [f \in File |-> FALSE]
  /\ faults = 0 /\ others = 0

-----------------------------------------------------------------------------
(***************************************************************************)
(* The text of a file.                                                     *)
(***************************************************************************)
Pieces(t) == {t[k] : k \in 1..Len(t)}
Place(t, x) == CHOOSE k \in 1..Len(t) : t[k] = x /\ \A j \in 1..(k - 1) : t[j] # x
Block(s) == <<Start, s, End>>

(* Mutant of Updated: the text ends with the block. *)
UpdatedToTheEnd(t, s) ==
  IF {Start, End} \subseteq Pieces(t)
    THEN SubSeq(t, 1, Place(t, Start) - 1) \o Block(s)
    ELSE t \o Block(s)

(* update_repo_agent_memory_text: from the first start to the first end.   *)
Updated(t, s) ==
  IF {Start, End} \subseteq Pieces(t)
    THEN SubSeq(t, 1, Place(t, Start) - 1) \o Block(s) \o SubSeq(t, Place(t, End) + 1, Len(t))
    ELSE t \o Block(s)

Text(f) == IF file[f] = None THEN <<>> ELSE file[f]
Unchanged(f, s) == file[f] # None /\ Text(f) = Updated(Text(f), s)

(* build_codex_setup_view: what the project's page says.                   *)
CodexState(s) ==
  CASE project[s].path = None                     -> "unknown"
    [] Unchanged(<<project[s].path, AgentsMd>>, s) -> "connected"
    [] OTHER                                      -> "missing"

(* write_text writes from the start of the file. If the file holds a text  *)
(* by then, another one's, and a longer one, the tail of that is left; ... *)
Over(new, old) ==
  {new} \cup {new \o c \o SubSeq(old, k, Len(old)) : c \in {<<>>, <<Cut>>}, k \in 2..(Len(old) + 1)}

(* ... if the writing stops, the beginning is there.                       *)
Begun(t) == UNION {{SubSeq(t, 1, k), SubSeq(t, 1, k - 1) \o <<Cut>>} : k \in 1..Len(t)}

-----------------------------------------------------------------------------
At(p) == <<job[p].folder, job[p].target>>
Running(p) == pc[p] \notin {"new", "ok", "failed", "killed"}
Goto(p, from, to) == pc[p] = from /\ pc' = [pc EXCEPT ![p] = to]
Disturb(p) == alone' = [o \in Proc |-> alone[o] /\ (o = p \/ pc[o] = "new")]
Touch(p, f) ==
  stale' = [o \in Proc |-> stale[o] \/ (o # p /\ plan[o] # None /\ At(o) = f)]
Fault(p) ==
  /\ faults < FaultBound /\ faults' = faults + 1
  /\ struck' = [struck EXCEPT ![p] = TRUE]

(* A writer is stopped: nothing is left of its text, a part or all of it.  *)
Stops(p) ==
  LET f == At(p)
  IN IF pc[p] = "fill"
       THEN /\ \E t \in {Text(f)} \cup UNION {Over(b, Text(f)) : b \in Begun(plan[p])} :
                 /\ file' = [file EXCEPT ![f] = t]
                 /\ torn' = [torn EXCEPT ![f] = @ \/ t \notin {Text(f), plan[p]}]
            /\ raced' = [raced EXCEPT ![f] = TRUE]
            /\ Disturb(p) /\ Touch(p, f)
       ELSE UNCHANGED <<file, torn, raced, alone, stale>>

(***************************************************************************)
(* Commands.                                                               *)
(***************************************************************************)
Register(f, s, t, install) ==
  [how |-> "register", slug |-> s, folder |-> f, target |-> t, install |-> install]
Install(f, s, t) == [how |-> "install", slug |-> s, folder |-> f, target |-> t, install |-> TRUE]

(* run_register_project and main --apply, for AGENTS.md or for the file    *)
(* they are told (--target-file, --file): both plan before anything else.  *)
(* A --dry-run ends there and writes nothing. (The script in front of main *)
(* also asks for a brief, so that the project exists.)                     *)
Begin(p) ==
  /\ Goto(p, "new", "plan")
  /\ \E s \in Slug, f \in Folder, t \in Target, i \in BOOLEAN :
       job' = [job EXCEPT ![p] = IF i THEN Register(f, s, t, i) ELSE Install(f, s, t)]
  /\ UNCHANGED <<project, file, server, plan, alone, stale, struck, ghosts, faults, others>>

(* run_register_project --no-install. *)
BeginNoInstall(p) ==
  /\ Goto(p, "new", "register")
  /\ \E s \in Slug, f \in Folder : job' = [job EXCEPT ![p] = Register(f, s, AgentsMd, FALSE)]
  /\ UNCHANGED <<project, file, server, plan, alone, stale, struck, ghosts, faults, others>>

(* plan_repo_agent_memory: reads the file. *)
Plan(p) ==
  /\ Goto(p, "plan", IF job[p].how = "register" THEN "register" ELSE "truncate")
  /\ plan' = [plan EXCEPT ![p] = Updated(Text(At(p)), job[p].slug)]
  /\ UNCHANGED <<project, file, server, job, alone, stale, struck, ghosts, faults, others>>

(* RepoAgentMemoryError or OSError, or a text that is not UTF-8, as one    *)
(* that was cut within a character is not.                                 *)
PlanFails(p) ==
  /\ Goto(p, "plan", "failed")
  /\ \/ Fault(p)
     \/ Cut \in Pieces(Text(At(p))) /\ UNCHANGED <<struck, faults>>
  /\ UNCHANGED <<project, file, server, job, plan, alone, stale, ghosts, others>>

(* The row a registration leaves: the status and the path are set.         *)
Row(f) == [status |-> "active", path |-> f, agent |-> TRUE]

(* Mutant of RegisterProject: the status of a row that is there stays. *)
RegisterProjectKept(p) ==
  LET s == job[p].slug
      r == Row(job[p].folder)
  IN /\ Goto(p, "register", IF job[p].install THEN "truncate" ELSE "ok")
     /\ project' = [project EXCEPT ![s] =
                      IF @ = None THEN r ELSE [r EXCEPT !.status = project[s].status]]
     /\ Disturb(p)
     /\ UNCHANGED <<file, server, job, plan, stale, struck, ghosts, faults, others>>

(* register_project and its commit: the row of the project and the one of  *)
(* its agent.                                                              *)
RegisterProject(p) ==
  /\ Goto(p, "register", IF job[p].install THEN "truncate" ELSE "ok")
  /\ project' = [project EXCEPT ![job[p].slug] = Row(job[p].folder)]
  /\ Disturb(p)
  /\ UNCHANGED <<file, server, job, plan, stale, struck, ghosts, faults, others>>

(* The preflight, the connection or a statement fails: nothing is stored.  *)
RegisterFails(p) ==
  /\ Goto(p, "register", "failed") /\ Fault(p)
  /\ UNCHANGED <<project, file, server, job, plan, alone, stale, ghosts, others>>

(* install_repo_agent_memory: write_text empties the file, ...             *)
Truncate(p) ==
  /\ Goto(p, "truncate", "fill")
  /\ file' = [file EXCEPT ![At(p)] = <<>>]
  /\ Disturb(p) /\ Touch(p, At(p))
  /\ UNCHANGED <<project, server, job, plan, struck, ghosts, faults, others>>

(* ... then writes the text that was planned, in one piece.                *)
Fill(p) ==
  LET f == At(p)
  IN /\ Goto(p, "fill", "ok")
     /\ \E t \in Over(plan[p], Text(f)) :
          /\ file' = [file EXCEPT ![f] = t]
          /\ torn' = [torn EXCEPT ![f] = @ \/ t # plan[p]]
     /\ plan' = [plan EXCEPT ![p] = None]
     /\ raced' = [raced EXCEPT ![f] = @ \/ stale[p]]
     /\ Disturb(p) /\ Touch(p, f)
     /\ UNCHANGED <<project, server, job, struck, mine, broken, faults, others>>

(* OSError: the file cannot be opened, or not be written to the end. A     *)
(* project that was registered stays registered.                           *)
InstallFails(p) ==
  /\ Goto(p, "truncate", "failed") \/ Goto(p, "fill", "failed")
  /\ Fault(p) /\ Stops(p) /\ plan' = [plan EXCEPT ![p] = None]
  /\ UNCHANGED <<project, server, job, mine, broken, others>>

Kill(p) ==
  /\ Running(p) /\ Fault(p) /\ Stops(p)
  /\ pc' = [pc EXCEPT ![p] = "killed"] /\ plan' = [plan EXCEPT ![p] = None]
  /\ UNCHANGED <<project, server, job, mine, broken, others>>

-----------------------------------------------------------------------------
(***************************************************************************)
(* The Hub View: one request at a time.                                    *)
(***************************************************************************)
Idle == \A q \in Request : ~Running(q)

(* The person clicks on a page of this server or of one before it, or      *)
(* another page sends the form.                                            *)
Post(q) ==
  /\ Idle /\ Goto(q, "new", "guard")
  /\ \E s \in Slug, f \in Folder, how \in {"form", "setup"}, local \in BOOLEAN, t \in 0..server.token :
       job' = [job EXCEPT ![q] =
                 [how |-> how, slug |-> s, folder |-> IF how = "form" THEN f ELSE None,
                  target |-> AgentsMd, install |-> how = "setup", local |-> local, token |-> t]]
  /\ UNCHANGED <<project, file, server, plan, alone, stale, struck, ghosts, faults, others>>

Allowed(q) == server.loopback /\ job[q].local /\ job[q].token = server.token

(* handle_project_onboarding_post: 403, or register_project.               *)
GuardForm(q) ==
  /\ Goto(q, "guard", IF Allowed(q) THEN "register" ELSE "failed")
  /\ job[q].how = "form"
  /\ UNCHANGED <<project, file, server, job, plan, alone, stale, struck, ghosts, faults, others>>

(* handle_codex_setup_post: 403, or a transaction to fetch the project,    *)
(* which must be active and have a folder; the setup goes by what it read. *)
GuardSetup(q) ==
  LET row == project[job[q].slug]
      ready == row # None /\ row.status = "active" /\ row.path # None
  IN /\ Goto(q, "guard", IF Allowed(q) /\ ready THEN "plan" ELSE "failed")
     /\ job[q].how = "setup"
     /\ job' = IF Allowed(q) /\ ready THEN [job EXCEPT ![q].folder = row.path] ELSE job
     /\ UNCHANGED <<project, file, server, plan, alone, stale, struck, ghosts, faults, others>>

(* The server is started again, perhaps bound to the local network; the    *)
(* token is a new one.                                                     *)
Rebind ==
  /\ faults < FaultBound /\ faults' = faults + 1
  /\ \E b \in BOOLEAN : server' = [loopback |-> b, token |-> server.token + 1]

Restart ==
  /\ Idle /\ Rebind
  /\ UNCHANGED <<project, file, job, plan, pc, alone, stale, struck, ghosts, others>>

(* It was stopped in the middle of a request. *)
RestartDuring(q) ==
  /\ Running(q) /\ Rebind /\ Stops(q)
  /\ pc' = [pc EXCEPT ![q] = "killed"] /\ plan' = [plan EXCEPT ![q] = None]
  /\ UNCHANGED <<project, job, struck, mine, broken, others>>

-----------------------------------------------------------------------------
(***************************************************************************)
(* Others.                                                                 *)
(***************************************************************************)
Change == others < OtherBound /\ others' = others + 1 /\ Disturb(None)

(* ensure_project: `remember --create-project` knows no folder.            *)
CreateProject(s) ==
  /\ project[s] = None
  /\ project' = [project EXCEPT ![s] = [status |-> "active", path |-> None, agent |-> TRUE]]
  /\ Change
  /\ UNCHANGED <<file, server, job, plan, pc, stale, struck, ghosts, faults>>

(* An operator archives a project. *)
Archive(s) ==
  /\ project[s] # None /\ project[s].status = "active"
  /\ project' = [project EXCEPT ![s].status = "archived"]
  /\ Change
  /\ UNCHANGED <<file, server, job, plan, pc, stale, struck, ghosts, faults>>

Inside(t, k) ==  \* between the markers
  {Start, End} \subseteq Pieces(t) /\ Place(t, Start) < k /\ k <= Place(t, End)

(* A person writes a word somewhere into a file, ...                       *)
Write(f, w) ==
  LET t == Text(f)
  IN /\ \A g \in File : w \notin mine[g] \cup Pieces(Text(g))
     /\ \A p \in Proc : plan[p] # None => w \notin Pieces(plan[p])
     /\ \E k \in 1..(Len(t) + 1) :
          /\ file' = [file EXCEPT ![f] = SubSeq(t, 1, k - 1) \o <<w>> \o SubSeq(t, k, Len(t))]
          /\ mine' = IF Inside(t, k) THEN mine ELSE [mine EXCEPT ![f] = @ \cup {w}]
     /\ Change /\ Touch(None, f)
     /\ UNCHANGED <<project, server, job, plan, pc, struck, broken, raced, torn, faults>>

(* ... or takes a marker out of it.                                        *)
TakeMarker(f) ==
  /\ ~broken[f] /\ broken' = [broken EXCEPT ![f] = TRUE]
  /\ \E k \in 1..Len(Text(f)) :
       /\ Text(f)[k] \in {Start, End}
       /\ file' = [file EXCEPT ![f] = SubSeq(@, 1, k - 1) \o SubSeq(@, k + 1, Len(@))]
  /\ Change /\ Touch(None, f)
  /\ UNCHANGED <<project, server, job, plan, pc, struck, mine, raced, torn, faults>>

Others ==
  \/ \E s \in Slug : CreateProject(s) \/ Archive(s)
  \/ \E f \in File : TakeMarker(f) \/ \E w \in Word : Write(f, w)

Next ==
  \/ \E p \in Command : Begin(p) \/ BeginNoInstall(p) \/ Kill(p)
  \/ \E q \in Request : Post(q) \/ GuardForm(q) \/ GuardSetup(q) \/ RestartDuring(q)
  \/ \E p \in Proc : \/ Plan(p) \/ PlanFails(p) \/ RegisterProject(p) \/ RegisterFails(p)
                     \/ Truncate(p) \/ Fill(p) \/ InstallFails(p)
  \/ Restart \/ Others

Spec == Init /\ [][Next]_vars

-----------------------------------------------------------------------------
(***************************************************************************)
(* Properties.                                                             *)
(***************************************************************************)
Number(t, x) == Cardinality({k \in 1..Len(t) : t[k] = x})

(* "Installs or updates a marked block [...] without replacing existing    *)
(* project instructions" (scripts/install_repo_agent_memory.sh): whichever *)
(* of the three ways install, one after the other or overlapping, for one  *)
(* project or for several in one folder, a file has one block or none and  *)
(* a second install of the same project changes nothing - unless a person  *)
(* has taken a marker out, or a writer was stopped in the middle of its    *)
(* text or wrote over a longer one of another (write_text does not replace *)
(* a file, it empties it and writes into it). A person's words outside the *)
(* block are kept - unless moreover the file changed between a plan and    *)
(* its writing, or the writer was stopped when it had emptied the file.    *)
InstructionsKept ==
  \A f \in File : ~broken[f] /\ ~torn[f] /\ (\A p \in Proc : pc[p] = "fill" => At(p) # f) =>
    /\ Number(Text(f), Start) = Number(Text(f), End) /\ Number(Text(f), Start) <= 1
    /\ \A s \in Slug : Updated(Updated(Text(f), s), s) = Updated(Text(f), s)
    /\ ~raced[f] => mine[f] \subseteq Pieces(Text(f))

(* A registration or a setup that nobody disturbed tells the truth: after  *)
(* "ready" or "installed" the project is active with the folder it was     *)
(* given, and its page says that the Codex setup is there if the block     *)
(* went to AGENTS.md - whatever others have done to the projects before,   *)
(* and although earlier ones were killed or failed at any point or wrote   *)
(* from outdated plans, unless they have left a torn text, whose markers   *)
(* need not match, or a person has taken one out. A retry fails only if    *)
(* something fails again, if the form came from elsewhere, if there is no  *)
(* active project with a folder to set up, or if what is in the file was   *)
(* cut and cannot be read.                                                 *)
RetryRecovers ==
  \A p \in Proc : alone[p] =>
    LET j == job[p]
    IN /\ pc[p] = "ok" /\ j.how \in {"register", "form"} =>
            LET row == project[j.slug]
            IN row.status = "active" /\ row.path = j.folder /\ row.agent
       /\ /\ pc[p] = "ok" /\ j.how \in {"register", "setup"} /\ j.install
          /\ j.target = AgentsMd /\ ~broken[At(p)] /\ ~torn[At(p)]
          => CodexState(j.slug) = "connected"
       /\ pc[p] = "failed" =>
            \/ struck[p]
            \/ p \in Request /\ ~Allowed(p)
            \/ j.how = "setup" /\ \/ project[j.slug] = None
                                  \/ project[j.slug].status # "active"
                                  \/ project[j.slug].path = None
            \/ \E f \in File : f = At(p) /\ Cut \in Pieces(Text(f))
=============================================================================
