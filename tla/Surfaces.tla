------------------------------- MODULE Surfaces -------------------------------
(***************************************************************************)
(* What agents and people are told: search, context, brief, compile,       *)
(* handoff, review, daily, prepare, quality, receipt and relations, the    *)
(* same answers over MCP, and the pages of the Hub View.                   *)
(*                                                                         *)
(* An answer is put together from the replies to several queries, each at  *)
(* READ COMMITTED, while others review, revise, add and relate memory.     *)
(* Readers change nothing that others read, so one reader is followed; the *)
(* daily report it may store is kept in `written`.                         *)
(***************************************************************************)
EXTENDS Naturals, Sequences, FiniteSets

CONSTANTS
  Items,      \* number of memories, in the order of their ids
  Casts,      \* what each is: its type, whether it belongs to the project,
              \* how well it matches the task (0: not at all), and whether
              \* source, rationale or mitigation are filled in
  Seeds,      \* status and age of each to begin with, or None
  Asked,      \* surfaces that may be asked
  Pairs,      \* what may be given to `relate`
  Limit,      \* --limit
  Busy,       \* surfaces read next to MaxChanges commits
  MaxChanges, \* bound: commits of others (one with the other surfaces)
  None

Item == 1..Items
Type == {"fact", "decision", "risk", "open_question", "report"}
TypeOrder == <<"fact", "decision", "risk", "open_question", "report">>

-----------------------------------------------------------------------------
(***************************************************************************)
(* statuses.py                                                             *)
(***************************************************************************)
Statuses ==
  [fact          |-> {"draft", "proposed", "verified", "disputed", "deprecated", "archived"},
   decision      |-> {"draft", "proposed", "accepted", "rejected", "superseded", "archived"},
   open_question |-> {"draft", "open", "answered", "deferred", "closed", "archived"},
   risk          |-> {"draft", "open", "mitigating", "accepted", "resolved", "archived"},
   report        |-> {"draft", "published", "superseded", "archived"}]

Reviewed ==
  [fact |-> {"verified"}, decision |-> {"accepted"}, risk |-> {"open", "mitigating", "accepted"},
   open_question |-> {"open", "answered"}, report |-> {"published"}]

Inactive ==
  [fact |-> {"archived", "deprecated"}, decision |-> {"archived", "rejected", "superseded"},
   risk |-> {"archived", "resolved"}, open_question |-> {"answered", "closed", "archived"},
   report |-> {"archived", "superseded"}]

(* Mutant of Current: answered questions, and no deferred ones. *)
CurrentIsReviewed == Reviewed

Current == [Reviewed EXCEPT !.open_question = {"open", "deferred"}]

PrepareHidden ==
  [Inactive EXCEPT !.decision = {"archived", "rejected"}, !.report = {"archived"}]

Status == UNION {Statuses[t] : t \in Type}

(* Which statuses of each type a query asks for. *)
Only(s)    == [t \in Type |-> {s}]
Without(h) == [t \in Type |-> Statuses[t] \ h[t]]

(* read_surface_excluded_statuses for the agents' surfaces; on the people's *)
(* it hides nothing.                                                        *)
ReadHidden(drafts, archived) ==
  [t \in Type |-> (IF drafts THEN {} ELSE {"draft"}) \cup (IF archived THEN {} ELSE Inactive[t])]

AgentShown   == Without(ReadHidden(FALSE, FALSE))
PrepareShown == Without(PrepareHidden)

Surface ==
  {"search", "search_drafts", "context", "brief", "compile", "handoff", "review", "daily",
   "daily_report", "prepare", "quality", "receipt", "relations", "workspace", "project",
   "library", "item", "agent_context", "inbox"}

ASSUME SurfacesAssumption ==
  /\ {Items, Limit, MaxChanges} \subseteq Nat /\ Limit > 0
  /\ Busy \subseteq Asked /\ Asked \subseteq Surface
  /\ Casts \subseteq [Item -> [type : Type, own : BOOLEAN, rank : 0..2, complete : BOOLEAN]]
  /\ Seeds \subseteq [Item -> [status : Status, updated : Nat] \cup {None}]
  /\ Pairs \subseteq Item \X Item

ASSUME NoneAssumption ==
  /\ None \notin Item /\ None \notin Surface
  /\ None \notin [status : Status, updated : Nat]
  /\ None \notin [updated : Nat, warned : SUBSET Item]
  /\ None \notin [ends : Item \X Item, drafts : SUBSET Item, found : BOOLEAN]
  /\ None \notin [Type -> SUBSET Status]

VARIABLES
  cast,     \* what each memory is
  row,      \* row[i]: status and updated_at of memory i, or None
  relation, \* relation[j, k]: updated_at, and the ends of which the caller
            \* was warned that they are drafts, or None
  relate,   \* the run of `relate`: its ends and their statuses as read
  surface,  \* what the reader asks, and about which memory
  about,
  plan,     \* the queries it takes
  got,      \* the replies so far
  pc,       \* whether it is "idle", "reading" or "served"
  alive,    \* memories that were there and active all the time since it began
  quiet,    \* nothing has changed since it began
  written,  \* what stored daily reports say
  changes

store   == <<row, relation>>
reader  == <<surface, about, plan, got, pc, written>>
vars    == <<cast, store, relate, reader, alive, quiet, changes>>

Present(i) == row[i] # None
TypeOf(i)  == cast[i].type

Init ==
  /\ cast \in Casts
  /\ row \in {r \in Seeds : \A i \in Item : r[i] # None => r[i].status \in Statuses[cast[i].type]}
  /\ relation = [p \in Item \X Item |-> None]
  /\ relate = None
  /\ surface = None /\ about = None /\ plan = <<>> /\ got = <<>> /\ pc = "idle"
  /\ alive = {} /\ quiet = TRUE /\ written = {}
  /\ changes = 0

-----------------------------------------------------------------------------
(***************************************************************************)
(* A query asks for rows of one type, for their number, for the numbers of *)
(* all types at once, or for relations; `part` names what it is used for.  *)
(***************************************************************************)
All == Items * Items + 1

Query(how, part, t, shown) ==
  [how |-> how, part |-> part, type |-> t, shown |-> shown, since |-> 0, limit |-> All,
   matching |-> FALSE, by |-> "age", lacking |-> FALSE, of |-> None]

Matches(q, i) ==
  /\ Present(i) /\ cast[i].own /\ TypeOf(i) = q.type
  /\ row[i].status \in q.shown[q.type] /\ row[i].updated >= q.since
  /\ q.matching => cast[i].rank > 0
  /\ q.lacking => ~cast[i].complete
  /\ q.of \in {None, i}

(* ORDER BY updated_at DESC, created_at DESC, id DESC; with the task first  *)
(* ORDER BY task_score DESC, created_at DESC, id DESC.                      *)
Before(q, i, j) ==
  LET x == IF q.by = "age" THEN row[i].updated ELSE cast[i].rank
      y == IF q.by = "age" THEN row[j].updated ELSE cast[j].rank
  IN x > y \/ (x = y /\ i > j)

First(q, S) == {i \in S : Cardinality({j \in S : Before(q, j, i)}) < q.limit}

Rows(q) ==
  {[id |-> i, status |-> row[i].status, updated |-> row[i].updated] :
     i \in First(q, {i \in Item : Matches(q, i)})}

Number(q) == Cardinality({i \in Item : Matches(q, i)})

EndShown(q, i) == q.shown = None \/ (Present(i) => row[i].status \in q.shown[TypeOf(i)])

(* Mutant of Relations: only the source is looked at. *)
RelationsBySource(q) ==
  {p \in Item \X Item :
     /\ relation[p] # None /\ (cast[p[1]].own \/ cast[p[2]].own)
     /\ EndShown(q, p[1])
     /\ q.of = None \/ q.of \in {p[1], p[2]}
     /\ relation[p].updated >= q.since}

(* fetch_project_relations: an end in the project, neither end hidden.      *)
Relations(q) ==
  {p \in Item \X Item :
     /\ relation[p] # None /\ (cast[p[1]].own \/ cast[p[2]].own)
     /\ EndShown(q, p[1]) /\ EndShown(q, p[2])
     /\ q.of = None \/ q.of \in {p[1], p[2]}
     /\ relation[p].updated >= q.since}

NewestRelations(q) ==
  LET rs == Relations(q)
      before(p, r) == \/ relation[p].updated > relation[r].updated
                      \/ relation[p].updated = relation[r].updated
                           /\ (p[1] < r[1] \/ (p[1] = r[1] /\ p[2] < r[2]))
  IN {r \in rs : Cardinality({p \in rs : before(p, r)}) < q.limit}

Reply(q) ==
  CASE q.how = "rows"      -> Rows(q)
    [] q.how = "count"     -> Number(q)
    [] q.how = "counts"    -> [t \in Type |-> Number([q EXCEPT !.type = t])]
    [] q.how = "relations" -> NewestRelations(q)

-----------------------------------------------------------------------------
(***************************************************************************)
(* The queries behind each surface, in the order in which they are sent.   *)
(***************************************************************************)
Each(types, q(_)) == [k \in 1..Len(types) |-> q(types[k])]
List(part, t, shown) == [Query("rows", part, t, shown) EXCEPT !.limit = Limit]
Counts(part, shown)  == Query("counts", part, "all", shown)
Linked(part, shown)  == [Query("relations", part, "all", shown) EXCEPT !.limit = Limit]

(* fetch_drafts_awaiting_review, fetch_pending_draft_counts: one count for  *)
(* each table.                                                              *)
DraftCounts == Each(TypeOrder, LAMBDA t : Query("count", "drafts", t, Only("draft")))

(* fetch_recent_rows *)
Recent(part, t, shown) == [List(part, t, shown) EXCEPT !.since = 1]

(* fetch_activity_snapshot; the actions and sync events say nothing of the  *)
(* status of a memory and are left out.                                     *)
Snapshot(part, s) ==
  LET shown == IF s = "daily" THEN Statuses ELSE AgentShown
      linked == IF s = "daily" THEN None ELSE AgentShown
  IN DraftCounts
       \o Each(TypeOrder, LAMBDA t : Recent(part, t, shown))
       \o <<[Linked(part, linked) EXCEPT !.since = 1]>>

(* search_project_memory: one table after the other. *)
Search(drafts, archived) ==
  Each(TypeOrder,
       LAMBDA t : [List("search", t, Without(ReadHidden(drafts, archived))) EXCEPT !.matching = TRUE])

(* fetch_search_payload *)
SearchPayload(drafts, archived) == Search(drafts, archived) \o DraftCounts

(* run_context *)
Context == Snapshot("snapshot", "context") \o Search(FALSE, FALSE) \o <<Linked("relations", AgentShown)>>

(* Mutant of Brief: the drafts are counted after the lists are read. *)
BriefListsFirst ==
  <<Counts("counts", [Statuses EXCEPT !.open_question = AgentShown.open_question])>>
    \o Each(<<"decision", "fact", "open_question", "risk", "report">>,
            LAMBDA t : List("list", t, AgentShown))
    \o DraftCounts
    \o <<Linked("relations", AgentShown)>>

(* fetch_brief_payload: only questions are counted by status. *)
Brief ==
  <<Counts("counts", [Statuses EXCEPT !.open_question = AgentShown.open_question])>>
    \o DraftCounts
    \o Each(<<"decision", "fact", "open_question", "risk", "report">>,
            LAMBDA t : List("list", t, AgentShown))
    \o <<Linked("relations", AgentShown)>>

ReportLimit == IF Limit <= 3 THEN 3 ELSE IF Limit >= 5 THEN 5 ELSE Limit

(* fetch_compiled_payload *)
Compiled ==
  <<Counts("counts", Current)>>
    \o DraftCounts
    \o Each(<<"fact", "decision", "risk", "open_question">>, LAMBDA t : List("list", t, AgentShown))
    \o <<[List("list", "report", AgentShown) EXCEPT !.limit = ReportLimit],
         Linked("relations", AgentShown)>>

(* fetch_receipt_rows *)
Receipt == Each(TypeOrder, LAMBDA t : Recent("receipt", t, Reviewed))

(* run_review *)
ReviewLists ==
  Each(<<"decision", "risk", "open_question">>, LAMBDA t : List("list", t, AgentShown))
    \o <<Linked("relations", AgentShown)>>

(* run_relations *)
RelationList == <<Query("relations", "every relation", "all", None)>>

(* fetch_task_match_prepare_rows, fetch_recent_prepare_rows *)
TaskMatch(t) == [List("match", t, PrepareShown) EXCEPT !.matching = TRUE, !.by = "task"]
RecentRows(t) == List("recent", t, PrepareShown)

Ranked(t)      == <<TaskMatch(t), RecentRows(t)>>
SafetyFloor(t) == <<RecentRows(t), TaskMatch(t)>>

(* fetch_prepare_payload *)
Prepare ==
  <<Linked("packet relations", None)>>
    \o Ranked("fact") \o Ranked("decision")
    \o SafetyFloor("risk") \o SafetyFloor("open_question")
    \o <<[TaskMatch("report") EXCEPT !.limit = ReportLimit],
         [RecentRows("report") EXCEPT !.limit = ReportLimit]>>
    \o <<Counts("active", Current)>> \o DraftCounts

(* fetch_project_quality *)
Quality ==
  Each(<<"fact", "decision", "risk">>,
       LAMBDA t : [Query("rows", "incomplete", t, Reviewed) EXCEPT !.lacking = TRUE])
    \o <<Query("rows", "unresolved", "open_question", Current),
         Query("relations", "every relation", "all", None),
         Counts("quality", Current)>>

(* fetch_drafts, fetch_project_card_counts, fetch_latest_reports_by_project: *)
(* what every page of the Hub View begins with.                              *)
Inbox == Each(TypeOrder, LAMBDA t : Query("rows", "inbox", t, Only("draft")))
CardCounts == Counts("cards", Current)
LatestReport ==
  [Query("rows", "latest", "report", Without(Only("archived"))) EXCEPT !.limit = 1]
Home == Inbox \o <<CardCounts, LatestReport>>

(* build_detail_view *)
Detail == Compiled \o Quality

(* fetch_memory_library_cards *)
Library == Each(TypeOrder, LAMBDA t : Query("rows", "library", t, Reviewed))

(* fetch_memory_item, and the relations of the item that was found (Read). *)
MemoryItem(i) == [Query("rows", "item", TypeOf(i), AgentShown) EXCEPT !.of = i]
ItemPage(i) ==
  Home \o Detail \o <<MemoryItem(i), [Linked("about", AgentShown) EXCEPT !.of = i]>>

(* run_compile with --since and --with-receipt-status, run_handoff,         *)
(* run_daily without and with --write-report                                *)
Compile     == Compiled \o Snapshot("snapshot", "compile") \o Receipt
Handoff     == Snapshot("snapshot", "handoff")
Daily       == Snapshot("snapshot", "daily")
WriteReport == Daily \o Snapshot("report", "daily_report")

(* load_view_model, load_memory_library_view_model,                         *)
(* load_agent_context_view_model                                            *)
ProjectPage      == Home \o Detail
LibraryPage      == Home \o Detail \o Library
AgentContextPage == Home \o Prepare \o Detail

Queries(s, i) ==
  CASE s = "search"        -> SearchPayload(FALSE, FALSE)
    [] s = "search_drafts" -> SearchPayload(TRUE, TRUE)
    [] s = "context"       -> Context
    [] s = "brief"         -> Brief
    [] s = "compile"       -> Compile
    [] s = "handoff"       -> Handoff
    [] s = "review"        -> ReviewLists
    [] s = "daily"         -> Daily
    [] s = "daily_report"  -> WriteReport
    [] s = "prepare"       -> Prepare
    [] s = "quality"       -> Quality
    [] s = "receipt"       -> Receipt
    [] s = "relations"     -> RelationList
    [] s = "workspace"     -> Home
    [] s = "project"       -> ProjectPage
    [] s = "library"       -> LibraryPage
    [] s = "item"          -> ItemPage(i)
    [] s = "agent_context" -> AgentContextPage
    [] s = "inbox"         -> Inbox

-----------------------------------------------------------------------------
(***************************************************************************)
(* The reader.                                                             *)
(***************************************************************************)
Active(i) == Present(i) /\ row[i].status \notin Inactive[TypeOf(i)]

Ask(s) ==
  /\ pc = "idle" /\ pc' = "reading"
  /\ surface' = s
  /\ about' \in {i \in Item : s = "item" => Present(i)}
  /\ s # "item" => about' = 1
  /\ plan' = Queries(s, about')
  /\ alive' = {i \in Item : Active(i) /\ (s \in {"handoff", "context"} => row[i].updated >= 1)}
  /\ quiet' = TRUE
  /\ UNCHANGED <<cast, store, relate, got, written, changes>>

(* load_memory_item_view_model: an item that is gone has no relations.      *)
Read ==
  /\ pc = "reading" /\ Len(got) < Len(plan)
  /\ \E reply \in {Reply(plan[Len(got) + 1])} :
       /\ got' = Append(got, reply)
       /\ plan' = IF plan[Len(got')].part = "item" /\ reply = {} THEN SubSeq(plan, 1, Len(got')) ELSE plan
  /\ UNCHANGED <<cast, store, relate, surface, about, pc, written, alive, quiet, changes>>

Replies(part, t) == {k \in 1..Len(plan) : plan[k].part = part /\ plan[k].type = t}
Has(part, t) == Replies(part, t) # {}
Got(part, t) ==
  IF Has(part, t) THEN got[CHOOSE k \in Replies(part, t) : \A j \in Replies(part, t) : k <= j] ELSE {}

(* write_daily_report: the body made from the second snapshot. *)
DailyReport ==
  [rows |-> UNION {Got("report", t) : t \in Type}, relations |-> Got("report", "all")]

Serve ==
  /\ pc = "reading" /\ Len(got) = Len(plan) /\ pc' = "served"
  /\ written' = IF surface = "daily_report" THEN written \cup {DailyReport} ELSE written
  /\ UNCHANGED <<cast, store, relate, surface, about, plan, got, alive, quiet, changes>>

-----------------------------------------------------------------------------
(***************************************************************************)
(* What the answers make of the replies.                                   *)
(***************************************************************************)
Ids(rs) == {r.id : r \in rs}
Later(r, s) == r.updated > s.updated \/ (r.updated = s.updated /\ r.id > s.id)
Newest(rs, n) == {r \in rs : Cardinality({s \in rs : Later(s, r)}) < n}

(* The tables are merged by updated_at; ties stay in the order of tables.   *)
Table(r) == CHOOSE k \in 1..Len(TypeOrder) : TypeOrder[k] = TypeOf(r.id)
Sooner(r, s) ==
  \/ r.updated > s.updated
  \/ r.updated = s.updated /\ (Table(r) < Table(s) \/ (Table(r) = Table(s) /\ r.id > s.id))
Merged(part) ==
  LET found == UNION {Got(part, t) : t \in Type}
  IN {r \in found : Cardinality({s \in found : Sooner(s, r)}) < Limit}

PacketLimit(t) == IF t = "report" THEN ReportLimit ELSE Limit

(* Mutant of Fill: rows are told apart by all they hold. *)
FillByRow(primary, fallback, n) ==
  primary \cup Newest(fallback \ primary, n - Cardinality(primary))

(* merge_prepare_rows: the fallback fills up what the matches leave.        *)
Fill(primary, fallback, n) ==
  primary \cup Newest({r \in fallback : r.id \notin Ids(primary)}, n - Cardinality(primary))

(* select_ranked_prepare_rows, select_safety_floor_rows *)
PacketRows(t) ==
  IF t \in {"risk", "open_question"} THEN Got("recent", t)
  ELSE Fill(Got("match", t), Got("recent", t), PacketLimit(t))

(* build_prepare_payload *)
PacketReviewed(t) ==
  {r \in PacketRows(t) : r.status # "draft" /\ (t = "open_question" => r.status \notin Inactive[t])}
PacketDrafts(t) == {r \in PacketRows(t) : r.status = "draft"}

(* build_context_trail: every row with the label it gets. *)
Trail(t) ==
  {[id |-> r.id, review_status |-> "verified"] : r \in PacketReviewed(t)}
    \cup {[id |-> r.id, review_status |-> "draft"] : r \in PacketDrafts(t)}

(* gaps.py *)
StaleItems(t) == {r \in PacketRows(t) : r.status \in Reviewed[t] /\ r.updated < 1}
Unanswered ==
  {r \in PacketRows("open_question") : r.status \notin {"draft"} \cup Inactive["open_question"]}
EmptyTypes == {t \in Type : Got("active", "all")[t] = 0}
BlindSpots ==
  {t \in Type : /\ PacketReviewed(t) # {}
                /\ Ids(PacketReviewed(t)) \cap Ids(Got("match", t)) = {}
                /\ Got("match", t) = {} \/ t \in {"risk", "open_question"}}
PendingDrafts(t) == IF Has("drafts", t) THEN Got("drafts", t) ELSE 0

(* fetch_project_quality: the score. *)
AtMost(n, m) == IF n < m THEN n ELSE m
Total(counts) == counts["fact"] + counts["decision"] + counts["risk"]
                   + counts["open_question"] + counts["report"]
Score ==
  LET items == Cardinality(UNION {Got("incomplete", t) : t \in Type})
      open  == Cardinality(Got("unresolved", "open_question"))
      links == Cardinality(Got("every relation", "all"))
      total == Total(Got("quality", "all"))
  IN 100 - AtMost(40, items * 8) - AtMost(25, open * 4)
       - (IF total >= 3 /\ links = 0 THEN 20 ELSE IF 5 * links < total /\ total >= 5 THEN 10 ELSE 0)
QualityStatus == IF Score >= 85 THEN "healthy" ELSE IF Score >= 65 THEN "needs_review" ELSE "weak"

(* build_project_card, workspace_project_row *)
DraftTotal == Cardinality(UNION {Got("inbox", t) : t \in Type})
Attention  == Got("cards", "all")["risk"] + Got("cards", "all")["open_question"]
Signal ==
  IF DraftTotal > 0 THEN "review" ELSE IF Attention > 0 THEN "attention"
  ELSE IF Got("latest", "report") # {} THEN "ready" ELSE "quiet"
WorkspaceState ==
  IF DraftTotal > 0 THEN "review" ELSE IF Attention > 0 THEN "attention"
  ELSE IF Total(Got("cards", "all")) > 0 THEN "ready" ELSE "empty"

(* build_work_state_cards: what needs attention on the project page. *)
WorkStateAttention == Got("list", "risk") \cup Got("list", "open_question")

(* related_memory_cards: the other ends. *)
RelatedCards(i) == {IF p[1] = i THEN p[2] ELSE p[1] : p \in Got("about", "all")}

-----------------------------------------------------------------------------
(***************************************************************************)
(* The others: inbox, answer-question, update-decision, remember, sync.    *)
(***************************************************************************)
Commits ==
  /\ changes < (IF surface \in Busy THEN MaxChanges ELSE 1)
  /\ changes' = changes + 1
  /\ quiet' = FALSE
  /\ UNCHANGED <<cast, reader>>

Stored(i, s) == row' = [row EXCEPT ![i] = [status |-> s, updated |-> changes + 2]]

Remember(i) ==
  /\ ~Present(i)
  /\ \E s \in {"draft"} \cup Reviewed[TypeOf(i)] : Stored(i, s)
  /\ Commits /\ UNCHANGED <<relation, relate, alive>>

(* Nothing makes a draft of a memory that is none.                         *)
Revise(i) ==
  /\ Present(i)
  /\ \E s \in Statuses[TypeOf(i)] \ {"draft"} :
       /\ Stored(i, s)
       /\ alive' = IF s \in Inactive[TypeOf(i)] THEN alive \ {i} ELSE alive
  /\ Commits /\ UNCHANGED <<relation, relate>>

(* run_relate: each end is looked up by a query of its own, ...            *)
FindEnds ==
  /\ relate = None /\ changes < MaxChanges
  /\ \E p \in Pairs :
       /\ Present(p[1]) /\ cast[p[1]].own
       /\ relate' = [ends |-> p, drafts |-> IF row[p[1]].status = "draft" THEN {p[1]} ELSE {},
                     found |-> FALSE]
  /\ UNCHANGED <<cast, store, reader, alive, quiet, changes>>

FindTarget ==
  /\ relate # None /\ ~relate.found
  /\ LET k == relate.ends[2]
     IN relate' =
          IF Present(k) /\ cast[k].own
            THEN [relate EXCEPT !.found = TRUE,
                                !.drafts = IF row[k].status = "draft" THEN @ \cup {k} ELSE @]
            ELSE None
  /\ UNCHANGED <<cast, store, reader, alive, quiet, changes>>

(* ... then the relation is stored, or the one that was there touched, and *)
(* the caller warned of the drafts it had found.                           *)
StoreRelation ==
  /\ relate # None /\ relate.found
  /\ relation' = [relation EXCEPT ![relate.ends] =
                    [updated |-> changes + 2, warned |-> relate.drafts]]
  /\ relate' = None
  /\ Commits /\ UNCHANGED <<row, alive>>

Next ==
  \/ \E s \in Asked : Ask(s)
  \/ Read \/ Serve
  \/ \E i \in Item : Remember(i) \/ Revise(i)
  \/ FindEnds \/ FindTarget \/ StoreRelation

Spec == Init /\ [][Next]_vars

-----------------------------------------------------------------------------
(***************************************************************************)
(* Properties.                                                             *)
(***************************************************************************)
Served == pc = "served"

(* Parts that are not presented as reviewed memory: the inbox, the card    *)
(* with the latest report, the packet (looked at below), what people and   *)
(* callers with --include-drafts see, and the relations of prepare,        *)
(* quality and `relations`, which carry no status.                         *)
Unmarked(part) ==
  \/ part \in {"inbox", "latest", "match", "recent", "packet relations", "every relation"}
  \/ part = "snapshot" /\ surface \in {"daily", "daily_report"}
  \/ part = "search" /\ surface = "search_drafts"

IsDraft(i) == row[i].status = "draft"

(* Whatever is reviewed, revised or related between the queries of an      *)
(* answer, no memory that is still a draft is presented as reviewed: not   *)
(* as a row, not as the end of a relation, not in the packet of prepare,   *)
(* not in a daily report that was stored; and nobody related a draft       *)
(* without having been told.                                               *)
DraftsNotPassedOff ==
  /\ \A k \in 1..Len(got) : ~Unmarked(plan[k].part) =>
       /\ plan[k].how = "rows" => \A i \in Ids(got[k]) : ~IsDraft(i)
       /\ plan[k].how = "relations" => \A p \in got[k] : ~IsDraft(p[1]) /\ ~IsDraft(p[2])
  /\ Served /\ surface \in {"prepare", "agent_context"} =>
       \A t \in Type : \A s \in Trail(t) : s.review_status = "verified" => ~IsDraft(s.id)
  /\ \A w \in written : /\ \A i \in Ids(w.rows) : ~IsDraft(i)
                        /\ \A p \in w.relations : ~IsDraft(p[1]) /\ ~IsDraft(p[2])
  /\ \A p \in Item \X Item : relation[p] # None =>
       \A i \in {p[1], p[2]} : IsDraft(i) => i \in relation[p].warned

Watched(t) == {i \in alive : cast[i].own /\ TypeOf(i) = t}
ListPart == IF surface \in {"brief", "compile"} THEN "list" ELSE "snapshot"
ListLimit(t) == IF surface = "compile" THEN PacketLimit(t) ELSE Limit

(* A memory that is there and active while an answer is put together does  *)
(* not fall between its queries, although reviews are committed between    *)
(* them: brief, compile, handoff and context have it in their list or in   *)
(* the number of drafts, the project page in its list or in the inbox, the *)
(* packet has it, unless the list is full.                                 *)
NothingSlipsThrough ==
  Served => \A t \in {TypeOf(i) : i \in alive} :
    /\ surface \in {"brief", "compile", "handoff", "context"} =>
         \/ Cardinality(Got(ListPart, t)) = ListLimit(t)
         \/ PendingDrafts(t) + Cardinality(Got(ListPart, t)) >= Cardinality(Watched(t))
    /\ surface = "project" =>
         \/ Cardinality(Got("list", t)) = PacketLimit(t)
         \/ Watched(t) \subseteq Ids(Got("inbox", t)) \cup Ids(Got("list", t))
    /\ surface \in {"prepare", "agent_context"} =>
         \/ Cardinality(PacketRows(t)) = PacketLimit(t)
         \/ Watched(t) \subseteq Ids(PacketRows(t))

(* The packet says one thing of each memory, although it may have changed  *)
(* between the query for matches and the one for recent rows; it keeps to  *)
(* its limit and loses no match.                                           *)
PacketOfOneVoice ==
  Served /\ surface \in {"prepare", "agent_context"} => \A t \in Type :
    /\ \A r, s \in PacketRows(t) : r.id = s.id => r = s
    /\ \A r, s \in Trail(t) : r.id = s.id => r = s
    /\ Cardinality(PacketRows(t)) <= PacketLimit(t)
    /\ t \notin {"risk", "open_question"} => Ids(Got("match", t)) \subseteq Ids(PacketRows(t))

Own(t)   == {i \in Item : Present(i) /\ cast[i].own /\ TypeOf(i) = t}
With(S, shown, t) == {i \in S : row[i].status \in shown[t]}
Drafts(t) == {i \in Own(t) : IsDraft(i)}

(* The best n of S: matches first, the newest of the others after them.    *)
BestFor(S, n) ==
  LET better(i, j) ==
        IF cast[i].rank # cast[j].rank /\ cast[i].rank + cast[j].rank > 0
          THEN cast[i].rank > cast[j].rank
          ELSE IF cast[i].rank = 0 THEN row[i].updated > row[j].updated
                                        \/ (row[i].updated = row[j].updated /\ i > j)
          ELSE i > j
  IN {i \in S : Cardinality({j \in S : better(j, i)}) < n}

QuietSearch ==
  LET found == UNION {With({i \in Own(t) : cast[i].rank > 0}, AgentShown, t) : t \in Type}
      shown == Ids(Merged("search"))
  IN /\ shown \subseteq found
     /\ Cardinality(shown) = AtMost(Cardinality(found), Limit)
     /\ \A i \in shown, j \in found \ shown : row[i].updated >= row[j].updated

QuietPacket ==
  /\ \A t \in {"fact", "decision", "report"} :
       Ids(PacketRows(t)) = BestFor(With(Own(t), PrepareShown, t), PacketLimit(t))
  /\ \A t \in Type : /\ Drafts(t) \subseteq Ids(PacketDrafts(t))
                          \/ Cardinality(PacketRows(t)) = PacketLimit(t)
                     /\ PendingDrafts(t) = Cardinality(Drafts(t))
                     /\ \A r \in StaleItems(t) : row[r.id].updated < 1 /\ ~IsDraft(r.id)
                     /\ t \in EmptyTypes => With(Own(t), Current, t) = {}
                     /\ t \in BlindSpots \ {"risk", "open_question"} =>
                          \A i \in With(Own(t), PrepareShown, t) : cast[i].rank = 0
  /\ Ids(Unanswered) \subseteq With(Own("open_question"), Current, "open_question")

QuietQuality ==
  /\ Score = 100 =>
       /\ With(Own("open_question"), Current, "open_question") = {}
       /\ \A t \in {"fact", "decision", "risk"} :
            \A i \in With(Own(t), Reviewed, t) : cast[i].complete
  /\ QualityStatus = "weak" => \E t \in Type : With(Own(t), Current, t) # {}

(* Card, project page and item page agree on what needs attention, and     *)
(* every line of the project page leads to a page of its own.              *)
QuietPages ==
  /\ surface \in {"workspace", "project"} =>
       /\ (Signal = "review") = (\E t \in Type : Drafts(t) # {})
       /\ (Signal = "attention") = (WorkspaceState = "attention")
  /\ surface = "project" =>
       /\ (Attention > 0) = (WorkStateAttention # {})
       /\ \A t \in Type : \A i \in Ids(Got("list", t)) : row[i].status \in AgentShown[t]
  /\ surface = "item" => \A i \in RelatedCards(about) : row[i].status \in AgentShown[TypeOf(i)]

(* An answer during which nothing changed says what the database holds:    *)
(* the merged and cut lists are the best of all tables, the gaps and the   *)
(* score follow from the rows, the numbers are those of the rows.          *)
QuietAnswersFaithful ==
  Served /\ quiet =>
    /\ surface = "search" => QuietSearch
    /\ surface \in {"prepare", "agent_context"} => QuietPacket
    /\ surface \in {"quality", "project"} => QuietQuality
    /\ QuietPages
=============================================================================
