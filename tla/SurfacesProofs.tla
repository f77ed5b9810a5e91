--------------------------- MODULE SurfacesProofs ---------------------------
(***************************************************************************)
(* Proofs about Surfaces, for every number of memories, every limit and    *)
(* every number of commits between the queries of an answer.               *)
(***************************************************************************)
EXTENDS Surfaces, FiniteSetTheorems, SequenceTheorems, TLAPS

-----------------------------------------------------------------------------
(* Numbers, and lists that are cut.                                        *)
LEMMA LeastNumber ==
  ASSUME NEW S \in SUBSET Nat, S # {}
  PROVE  \E k \in S : \A j \in S : k <= j
<1> DEFINE Less == {ss \in Nat \X Nat : ss[1] < ss[2]}
<1>1. IsWellFoundedOn(Less, Nat)
  BY NatLessThanWellFounded DEF OpToRel
<1>2. PICK k \in S : \A j \in S : <<j, k>> \notin Less
  BY <1>1, WFMin
<1>3. ASSUME NEW j \in S PROVE k <= j
  <2>1. <<j, k>> \in Nat \X Nat /\ ~(<<j, k>>[1] < <<j, k>>[2])
    BY <1>2, <1>3
  <2>2. QED
    BY <2>1
<1>4. QED
  BY <1>3

(* Lists that are cut: the members of S before which fewer than n of S    *)
(* come, in an order R of S.                                               *)
Ahead(R, S, i) == {j \in S : <<j, i>> \in R}
FirstOf(R, S, n) == {i \in S : Cardinality(Ahead(R, S, i)) < n}
StrictOrder(R, S) ==
  /\ \A i \in S : <<i, i>> \notin R
  /\ \A i, j, k \in S : <<i, j>> \in R /\ <<j, k>> \in R => <<i, k>> \in R
  /\ \A i, j \in S : i = j \/ <<i, j>> \in R \/ <<j, i>> \in R

LEMMA Ranks ==
  ASSUME NEW S, IsFiniteSet(S), NEW R, StrictOrder(R, S)
  PROVE  /\ \A i \in S : Cardinality(Ahead(R, S, i)) \in Nat
         /\ \A i, j \in S : <<i, j>> \in R =>
              Cardinality(Ahead(R, S, i)) < Cardinality(Ahead(R, S, j))
<1>1. ASSUME NEW i \in S
      PROVE  IsFiniteSet(Ahead(R, S, i)) /\ Cardinality(Ahead(R, S, i)) \in Nat
  <2>1. Ahead(R, S, i) \in SUBSET S
    BY DEF Ahead
  <2>2. QED
    BY <2>1, FS_Subset, FS_CardinalityType
<1>2. ASSUME NEW i \in S, NEW j \in S, <<i, j>> \in R
      PROVE  Cardinality(Ahead(R, S, i)) < Cardinality(Ahead(R, S, j))
  <2>1. Ahead(R, S, i) \in SUBSET Ahead(R, S, j)
    BY <1>2 DEF StrictOrder, Ahead
  <2>2. i \in Ahead(R, S, j) /\ i \notin Ahead(R, S, i)
    BY <1>2 DEF StrictOrder, Ahead
  <2>3. /\ Cardinality(Ahead(R, S, i)) <= Cardinality(Ahead(R, S, j))
        /\ Cardinality(Ahead(R, S, i)) # Cardinality(Ahead(R, S, j))
    BY <1>1, <2>1, <2>2, FS_Subset
  <2>4. QED
    BY <1>1, <2>3
<1>3. QED
  BY <1>1, <1>2

(* A list is no longer than its limit, and holds everything if shorter.   *)
LEMMA Cut ==
  ASSUME NEW S, IsFiniteSet(S), NEW R, StrictOrder(R, S), NEW n \in Nat
  PROVE  /\ IsFiniteSet(FirstOf(R, S, n))
         /\ Cardinality(FirstOf(R, S, n)) \in 0..n
         /\ Cardinality(FirstOf(R, S, n)) = n \/ FirstOf(R, S, n) = S
<1> DEFINE F == FirstOf(R, S, n)
           rank == [i \in S |-> Cardinality(Ahead(R, S, i))]
<1>1. F \in SUBSET S /\ IsFiniteSet(F) /\ Cardinality(F) \in Nat
  BY FS_Subset, FS_CardinalityType DEF FirstOf
<1>2. rank \in [S -> Nat] /\ \A i, j \in S : rank[i] = rank[j] => i = j
  <2>1. rank \in [S -> Nat]
    BY Ranks
  <2>2. ASSUME NEW i \in S, NEW j \in S, rank[i] = rank[j] PROVE i = j
    <3>1. /\ Cardinality(Ahead(R, S, i)) = Cardinality(Ahead(R, S, j))
          /\ Cardinality(Ahead(R, S, i)) \in Nat
      BY <2>2, Ranks
    <3>2. <<i, j>> \notin R /\ <<j, i>> \notin R
      BY <3>1, Ranks
    <3>3. QED
      BY <3>2 DEF StrictOrder
  <2>3. QED
    BY <2>1, <2>2
<1>3. Cardinality(F) <= n
  <2> DEFINE f == [i \in F |-> rank[i]]
  <2>1. f \in [F -> 0..(n - 1)]
    BY <1>1, <1>2 DEF FirstOf
  <2>2. f \in Injection(F, 0..(n - 1))
    BY <1>1, <1>2, <2>1 DEF Injection, IsInjective
  <2>3. IsFiniteSet(0..(n - 1)) /\ Cardinality(0..(n - 1)) = n
    BY FS_Interval
  <2>4. QED
    BY <2>2, <2>3, FS_Injection
<1>4. ASSUME Cardinality(F) < n, F # S PROVE FALSE
  <2> DEFINE missing == {rank[i] : i \in S \ F}
  <2>1. missing \in SUBSET Nat /\ missing # {}
    BY <1>1, <1>2, <1>4
  <2>2. PICK m \in S \ F : \A i \in S \ F : rank[m] <= rank[i]
    <3>1. PICK k \in missing : \A j \in missing : k <= j
      BY <2>1, LeastNumber
    <3>2. QED
      BY <3>1
  <2>3. Ahead(R, S, m) \in SUBSET F
    <3>1. ASSUME NEW j \in S, <<j, m>> \in R, j \notin F PROVE FALSE
      BY <1>2, <2>2, <3>1, Ranks
    <3>2. QED
      BY <3>1 DEF Ahead
  <2>4. Cardinality(Ahead(R, S, m)) <= Cardinality(F)
    BY <1>1, <2>3, FS_Subset
  <2>5. m \in F
    BY <1>1, <1>4, <2>2, <2>4, Ranks DEF FirstOf
  <2>6. QED
    BY <2>2, <2>5
<1>5. QED
  BY <1>1, <1>3, <1>4

(* What is in a cut list comes before what is not, ...                     *)
LEMMA CutFirst ==
  ASSUME NEW S, IsFiniteSet(S), NEW R, StrictOrder(R, S), NEW n \in Nat,
         NEW i \in FirstOf(R, S, n), NEW j \in S \ FirstOf(R, S, n)
  PROVE  <<i, j>> \in R
<1>1. i \in S /\ Cardinality(Ahead(R, S, i)) < n /\ ~(Cardinality(Ahead(R, S, j)) < n)
  BY DEF FirstOf
<1>2. <<j, i>> \notin R
  BY <1>1, Ranks
<1>3. QED
  BY <1>1, <1>2 DEF StrictOrder

(* ... and there is no other list of that length, or complete, like that.  *)
LEMMA CutUnique ==
  ASSUME NEW S, IsFiniteSet(S), NEW R, StrictOrder(R, S), NEW n \in Nat,
         NEW P \in SUBSET S, Cardinality(P) <= n, Cardinality(P) = n \/ P = S,
         \A i \in P, j \in S \ P : <<i, j>> \in R
  PROVE  P = FirstOf(R, S, n)
<1> DEFINE F == FirstOf(R, S, n)
<1>1. IsFiniteSet(P) /\ Cardinality(P) \in Nat
  BY FS_Subset, FS_CardinalityType
<1>2. P \in SUBSET F
  <2> SUFFICES ASSUME NEW i \in P PROVE i \in F
    OBVIOUS
  <2>1. Ahead(R, S, i) \in SUBSET P
    <3>1. ASSUME NEW j \in S \ P, <<j, i>> \in R PROVE FALSE
      BY <3>1 DEF StrictOrder
    <3>2. QED
      BY <3>1 DEF Ahead
  <2>2. i \notin Ahead(R, S, i)
    BY DEF Ahead, StrictOrder
  <2>3. /\ Cardinality(Ahead(R, S, i)) <= Cardinality(P)
        /\ Cardinality(Ahead(R, S, i)) # Cardinality(P)
    BY <1>1, <2>1, <2>2, FS_Subset
  <2>4. Cardinality(Ahead(R, S, i)) \in Nat
    BY Ranks
  <2>5. QED
    BY <1>1, <2>3, <2>4 DEF FirstOf
<1>3. F \in SUBSET S /\ IsFiniteSet(F) /\ Cardinality(F) \in 0..n
  BY Cut DEF FirstOf
<1>4. CASE Cardinality(P) = n
  <2>1. Cardinality(P) <= Cardinality(F)
    BY <1>2, <1>3, FS_Subset
  <2>2. Cardinality(P) = Cardinality(F)
    BY <1>1, <1>3, <1>4, <2>1
  <2>3. QED
    BY <1>2, <1>3, <2>2, FS_Subset
<1>5. QED
  BY <1>2, <1>3, <1>4

-----------------------------------------------------------------------------
(***************************************************************************)
(* The query that surface s, asked about i, sends for part p and type t.   *)
(***************************************************************************)
AllTypes == {"counts", "active", "cards", "quality", "relations", "packet relations",
             "every relation", "about"}
Listed   == {"list", "match", "recent"}
ByType   == Listed \cup {"drafts", "search", "receipt", "incomplete", "unresolved", "inbox",
                         "latest", "library", "item"}
Part     == AllTypes \cup ByType \cup {"snapshot", "report"}

TypesOf(p) ==
  IF p \in AllTypes THEN {"all"}
  ELSE IF p = "incomplete" THEN {"fact", "decision", "risk"}
  ELSE IF p \in ByType THEN Type ELSE Type \cup {"all"}

CountShown(s) ==
  IF s = "brief" THEN [Statuses EXCEPT !.open_question = AgentShown.open_question] ELSE Current
IsDaily(s, p) == p = "snapshot" /\ s \in {"daily", "daily_report"}
WithDrafts(s) == Without(ReadHidden(s = "search_drafts", s = "search_drafts"))
Limited(q, t, s) == IF t = "report" /\ s # "brief" THEN [q EXCEPT !.limit = ReportLimit] ELSE q

Form(s, i, p, t) ==
  CASE p = "counts"  -> Counts("counts", CountShown(s))
    [] p \in {"active", "cards", "quality"} -> Counts(p, Current)
    [] p = "relations" -> Linked(p, AgentShown)
    [] p = "packet relations" -> Linked(p, None)
    [] p = "every relation" -> Query("relations", p, "all", None)
    [] p = "about"   -> [Linked(p, AgentShown) EXCEPT !.of = i]
    [] p = "list"    -> Limited(List(p, t, AgentShown), t, s)
    [] p = "match"   -> Limited(TaskMatch(t), t, s)
    [] p = "recent"  -> Limited(RecentRows(t), t, s)
    [] p = "drafts"  -> Query("count", p, t, Only("draft"))
    [] p = "search"  -> [List(p, t, WithDrafts(s)) EXCEPT !.matching = TRUE]
    [] p = "receipt" -> Recent(p, t, Reviewed)
    [] p = "incomplete" -> [Query("rows", p, t, Reviewed) EXCEPT !.lacking = TRUE]
    [] p = "unresolved" -> Query("rows", p, t, Current)
    [] p = "inbox"   -> Query("rows", p, t, Only("draft"))
    [] p = "latest"  -> [Query("rows", p, t, Without(Only("archived"))) EXCEPT !.limit = 1]
    [] p = "library" -> Query("rows", p, t, Reviewed)
    [] p = "item"    -> [Query("rows", p, t, AgentShown) EXCEPT !.of = i]
    [] p \in {"snapshot", "report"} /\ t = "all" ->
         [Linked(p, IF IsDaily(s, p) THEN None ELSE AgentShown) EXCEPT !.since = 1]
    [] p \in {"snapshot", "report"} /\ t # "all" ->
         Recent(p, t, IF IsDaily(s, p) THEN Statuses ELSE AgentShown)

Parts(s) == IF s = "item" THEN Part ELSE Part \ {"item", "about"}

Sent(s, i) == UNION {{Form(s, i, p, t) : t \in TypesOf(p)} : p \in Parts(s)}

(* How a part is asked for.                                                *)
HowAsked(p, t) ==
  IF p \in {"counts", "active", "cards", "quality"} THEN "counts"
  ELSE IF p = "drafts" THEN "count"
  ELSE IF t = "all" THEN "relations" ELSE "rows"

LEMMA HowFacts ==
  ASSUME NEW p \in Part, NEW t \in TypesOf(p)
  PROVE  /\ HowAsked(p, t) \in {"rows", "count", "counts", "relations"}
         /\ HowAsked(p, t) = "rows" => t \in Type
         /\ HowAsked(p, t) = "relations" => t = "all"
         /\ HowAsked(p, t) = "count" => p = "drafts"
<1>1. CASE p \in AllTypes
  BY <1>1 DEF AllTypes, TypesOf, HowAsked
<1>2. CASE p \in ByType
  BY <1>2 DEF AllTypes, ByType, Listed, TypesOf, HowAsked, Type
<1>3. CASE p \in {"snapshot", "report"}
  BY <1>3 DEF AllTypes, ByType, Listed, TypesOf, HowAsked
<1>4. QED
  BY <1>1, <1>2, <1>3 DEF Part

(* A query names its part and its type.                                    *)
LEMMA FormNamed ==
  ASSUME NEW s, NEW i, NEW p \in Part, NEW t \in TypesOf(p)
  PROVE  /\ Form(s, i, p, t).part = p /\ Form(s, i, p, t).type = t
         /\ Form(s, i, p, t).how = HowAsked(p, t)
<1> USE DEF Query, Counts, Linked, List, TypesOf, HowAsked, AllTypes, ByType, Listed, Type
<1>1. CASE p \in AllTypes
  BY <1>1 DEF Form
<1>2. CASE p \in Listed
  BY <1>2 DEF Form, Limited, TaskMatch, RecentRows
<1>3. CASE p \in ByType \ Listed
  BY <1>3 DEF Form, Recent
<1>4. CASE p \in {"snapshot", "report"} /\ t = "all"
  BY <1>4 DEF Form
<1>5. CASE p \in {"snapshot", "report"} /\ t # "all"
  <2>1. Form(s, i, p, t) = Recent(p, t, IF IsDaily(s, p) THEN Statuses ELSE AgentShown)
    BY <1>5 DEF Form
  <2>2. QED
    BY <1>5, <2>1 DEF Recent
<1>6. QED
  BY <1>1, <1>2, <1>3, <1>4, <1>5 DEF Part

-----------------------------------------------------------------------------
(* Sequences of queries.                                                   *)
LEMMA FunctionsAreSequences ==
  ASSUME NEW S, NEW n \in Nat, NEW f \in [1..n -> S]
  PROVE  f \in Seq(S) /\ Len(f) = n
<1>1. f \in Seq(S)
  BY SeqDef
<1>2. Len(f) \in Nat /\ DOMAIN f = 1..Len(f) /\ DOMAIN f = 1..n
  BY <1>1, LenProperties
<1>3. QED
  BY <1>1, <1>2

(* Q is a sequence of queries of surface s about i, all for part p; it has *)
(* one for each type in T.                                                 *)
Sends(Q, s, i, p, T) ==
  /\ Q \in Seq(Sent(s, i))
  /\ \A k \in 1..Len(Q) : Q[k].part = p
  /\ \A t \in T : \E k \in 1..Len(Q) : Q[k].type = t

LEMMA FormSent ==
  ASSUME NEW s, NEW i, NEW p \in Parts(s), NEW t \in TypesOf(p)
  PROVE  Form(s, i, p, t) \in Sent(s, i)
BY DEF Sent

Spread(Q, s, i, p, types, n) == Q = [k \in 1..n |-> Form(s, i, p, types[k])]

LEMMA EachSends ==
  ASSUME NEW s, NEW i, NEW p \in Parts(s) \ AllTypes, NEW n \in Nat,
         NEW types \in [1..n -> Type \cap TypesOf(p)],
         NEW T, \A t \in T : \E k \in 1..n : types[k] = t,
         NEW Q, Spread(Q, s, i, p, types, n)
  PROVE  Sends(Q, s, i, p, T)
<1>2. ASSUME NEW k \in 1..n
      PROVE  Q[k] \in Sent(s, i) /\ Q[k].part = p /\ Q[k].type = types[k]
  BY FormSent, FormNamed DEF Spread, Parts
<1>3. Q \in [1..n -> Sent(s, i)]
  BY <1>2 DEF Spread
<1>4. Q \in Seq(Sent(s, i)) /\ Len(Q) = n
  BY <1>3, FunctionsAreSequences
<1>5. QED
  BY <1>2, <1>4 DEF Sends

LEMMA OneSends ==
  ASSUME NEW s, NEW i, NEW p \in Parts(s), NEW t \in TypesOf(p)
  PROVE  Sends(<<Form(s, i, p, t)>>, s, i, p, {t})
<1> DEFINE q == Form(s, i, p, t)
<1>1. q \in Sent(s, i) /\ q.part = p /\ q.type = t
  BY FormSent, FormNamed DEF Parts
<1> HIDE DEF q
<1>2. <<q>> \in Seq(Sent(s, i)) /\ Len(<<q>>) = 1 /\ <<q>>[1] = q
  BY <1>1
<1>3. QED
  BY <1>1, <1>2 DEF Sends, q

LEMMA TypeOrderFacts ==
  /\ TypeOrder \in [1..5 -> Type] /\ Len(TypeOrder) = 5
  /\ \A t \in Type : \E k \in 1..5 : TypeOrder[k] = t
<1>1. TypeOrder \in [1..5 -> Type] /\ Len(TypeOrder) = 5
  BY DEF TypeOrder, Type
<1>2. ASSUME NEW t \in Type PROVE \E k \in 1..5 : TypeOrder[k] = t
  BY DEF TypeOrder, Type
<1>3. QED
  BY <1>1, <1>2

(* One query for each table.                                               *)
LEMMA TablesSends ==
  ASSUME NEW s, NEW i, NEW p \in Parts(s) \ AllTypes, p # "incomplete",
         NEW Q, Spread(Q, s, i, p, TypeOrder, 5)
  PROVE  Sends(Q, s, i, p, Type)
<1>1. Type \cap TypesOf(p) = Type
  BY DEF TypesOf
<1>2. QED
  BY <1>1, TypeOrderFacts, EachSends

(* Q asks part p about every type in T, ...                                *)
Holds(Q, p, T) == \A t \in T : \E k \in 1..Len(Q) : Q[k].part = p /\ Q[k].type = t

(* ... and does so before it asks for any list.                            *)
NoList(Q, n) == \A k \in 1..n : Q[k].part \notin {"list", "snapshot"}
Opens(Q, p, T) ==
  \E n \in 0..Len(Q) :
    /\ NoList(Q, n)
    /\ \A t \in T : \E k \in 1..n : Q[k].part = p /\ Q[k].type = t

LEMMA SendsHolds ==
  ASSUME NEW s, NEW i, NEW p, NEW T, NEW Q, Sends(Q, s, i, p, T)
  PROVE  /\ Q \in Seq(Sent(s, i)) /\ Holds(Q, p, T)
         /\ p \notin {"list", "snapshot"} => NoList(Q, Len(Q)) /\ Opens(Q, p, T)
<1>1. Q \in Seq(Sent(s, i)) /\ Len(Q) \in Nat
  BY DEF Sends
<1>2. Holds(Q, p, T)
  BY DEF Sends, Holds
<1>3. p \notin {"list", "snapshot"} => NoList(Q, Len(Q))
  BY DEF Sends, NoList
<1>4. QED
  BY <1>1, <1>2, <1>3 DEF Opens, Holds

LEMMA Chain ==
  ASSUME NEW S, NEW A \in Seq(S), NEW B \in Seq(S)
  PROVE  /\ A \o B \in Seq(S) /\ Len(A \o B) = Len(A) + Len(B)
         /\ Len(A) \in Nat /\ Len(B) \in Nat
         /\ \A k \in 1..Len(A) : (A \o B)[k] = A[k]
         /\ \A k \in 1..Len(B) : (A \o B)[Len(A) + k] = B[k]
<1>1. /\ A \o B \in Seq(S) /\ Len(A \o B) = Len(A) + Len(B)
      /\ Len(A) \in Nat /\ Len(B) \in Nat
      /\ \A i \in 1..(Len(A) + Len(B)) :
           (A \o B)[i] = IF i <= Len(A) THEN A[i] ELSE B[i - Len(A)]
  BY ConcatProperties, LenProperties
<1>2. ASSUME NEW k \in 1..Len(A) PROVE (A \o B)[k] = A[k]
  BY <1>1, <1>2
<1>3. ASSUME NEW k \in 1..Len(B) PROVE (A \o B)[Len(A) + k] = B[k]
  <2>1. /\ Len(A) + k \in 1..(Len(A) + Len(B)) /\ ~(Len(A) + k <= Len(A))
        /\ (Len(A) + k) - Len(A) = k
    BY <1>1, <1>3
  <2>2. QED
    BY <1>1, <2>1
<1>4. QED
  BY <1>1, <1>2, <1>3

LEMMA ChainHolds ==
  ASSUME NEW S, NEW A \in Seq(S), NEW B \in Seq(S), NEW p, NEW T,
         Holds(A, p, T) \/ Holds(B, p, T)
  PROVE  Holds(A \o B, p, T)
<1> SUFFICES ASSUME NEW t \in T
             PROVE  \E k \in 1..Len(A \o B) : (A \o B)[k].part = p /\ (A \o B)[k].type = t
  BY DEF Holds
<1>1. CASE Holds(A, p, T)
  <2>1. PICK k \in 1..Len(A) : A[k].part = p /\ A[k].type = t
    BY <1>1 DEF Holds
  <2>2. k \in 1..Len(A \o B) /\ (A \o B)[k] = A[k]
    BY Chain
  <2>3. QED
    BY <2>1, <2>2
<1>2. CASE Holds(B, p, T)
  <2>1. PICK k \in 1..Len(B) : B[k].part = p /\ B[k].type = t
    BY <1>2 DEF Holds
  <2>2. Len(A) + k \in 1..Len(A \o B) /\ (A \o B)[Len(A) + k] = B[k]
    BY Chain
  <2>3. QED
    BY <2>1, <2>2
<1>3. QED
  BY <1>1, <1>2

LEMMA ChainOpens ==
  ASSUME NEW S, NEW A \in Seq(S), NEW B \in Seq(S), NEW p, NEW T,
         Opens(A, p, T) \/ (NoList(A, Len(A)) /\ Opens(B, p, T))
  PROVE  Opens(A \o B, p, T)
<1>1. CASE Opens(A, p, T)
  <2>1. PICK n \in 0..Len(A) :
          NoList(A, n) /\ \A t \in T : \E k \in 1..n : A[k].part = p /\ A[k].type = t
    BY <1>1 DEF Opens
  <2>2. n \in 0..Len(A \o B) /\ \A k \in 1..n : (A \o B)[k] = A[k]
    BY Chain
  <2>3. NoList(A \o B, n)
    BY <2>1, <2>2 DEF NoList
  <2>4. QED
    BY <2>1, <2>2, <2>3 DEF Opens
<1>2. CASE NoList(A, Len(A)) /\ Opens(B, p, T)
  <2>1. PICK n \in 0..Len(B) :
          NoList(B, n) /\ \A t \in T : \E k \in 1..n : B[k].part = p /\ B[k].type = t
    BY <1>2 DEF Opens
  <2>2. Len(A) + n \in 0..Len(A \o B) /\ Len(A) \in Nat
    BY Chain
  <2>3. ASSUME NEW k \in 1..(Len(A) + n)
        PROVE  (A \o B)[k].part \notin {"list", "snapshot"}
    <3>1. CASE k <= Len(A)
      BY <1>2, <2>2, <3>1, Chain DEF NoList
    <3>2. CASE k > Len(A)
      <4>1. PICK j \in 1..n : k = Len(A) + j
        <5>1. k - Len(A) \in 1..n /\ k = Len(A) + (k - Len(A))
          BY <2>2, <3>2
        <5>2. QED
          BY <5>1
      <4>2. (A \o B)[Len(A) + j] = B[j]
        BY Chain
      <4>3. QED
        BY <2>1, <4>1, <4>2 DEF NoList
    <3>3. QED
      BY <2>2, <3>1, <3>2
  <2>4. ASSUME NEW t \in T
        PROVE  \E k \in 1..(Len(A) + n) : (A \o B)[k].part = p /\ (A \o B)[k].type = t
    <3>1. PICK j \in 1..n : B[j].part = p /\ B[j].type = t
      BY <2>1
    <3>2. Len(A) + j \in 1..(Len(A) + n) /\ (A \o B)[Len(A) + j] = B[j]
      BY <2>2, Chain
    <3>3. QED
      BY <3>1, <3>2
  <2>5. QED
    BY <2>2, <2>3, <2>4 DEF Opens, NoList
<1>3. QED
  BY <1>1, <1>2

(* What every surface may send.                                            *)
LEMMA PartsFacts ==
  ASSUME NEW s
  PROVE  /\ {"drafts", "search", "receipt", "incomplete", "unresolved", "inbox", "latest",
              "library", "list", "match", "recent", "snapshot", "report"} \subseteq Parts(s) \ AllTypes
         /\ {"counts", "active", "cards", "quality", "relations", "packet relations",
              "every relation"} \subseteq Parts(s)
BY DEF Parts, Part, AllTypes, ByType, Listed

LEMMA DraftCountsSends ==
  ASSUME NEW s, NEW i PROVE Sends(DraftCounts, s, i, "drafts", Type)
<1>1. \A t \in Type : Form(s, i, "drafts", t) = Query("count", "drafts", t, Only("draft"))
  BY DEF Form, AllTypes
<1>2. Spread(DraftCounts, s, i, "drafts", TypeOrder, 5)
  BY <1>1, TypeOrderFacts DEF DraftCounts, Each, Spread
<1>3. QED
  BY <1>2, TablesSends, PartsFacts

(* Q is a sequence of queries that surface s, asked about i, sends.        *)
Plans(Q, s, i) == Q \in Seq(Sent(s, i))

LEMMA ChainPlans ==
  ASSUME NEW s, NEW i, NEW A, NEW B, Plans(A, s, i), Plans(B, s, i)
  PROVE  /\ Plans(A \o B, s, i)
         /\ \A p, T : Holds(A, p, T) \/ Holds(B, p, T) => Holds(A \o B, p, T)
         /\ \A p, T : Opens(A, p, T) => Opens(A \o B, p, T)
         /\ \A p, T : NoList(A, Len(A)) /\ Opens(B, p, T) => Opens(A \o B, p, T)
<1>1. Plans(A \o B, s, i)
  BY Chain DEF Plans
<1>2. ASSUME NEW p, NEW T, Holds(A, p, T) \/ Holds(B, p, T) PROVE Holds(A \o B, p, T)
  BY <1>2, ChainHolds DEF Plans
<1>3. ASSUME NEW p, NEW T, Opens(A, p, T) \/ (NoList(A, Len(A)) /\ Opens(B, p, T))
      PROVE  Opens(A \o B, p, T)
  BY <1>3, ChainOpens DEF Plans
<1>4. QED
  BY <1>1, <1>2, <1>3

LEMMA SendsPlans ==
  ASSUME NEW s, NEW i, NEW p, NEW T, NEW Q, Sends(Q, s, i, p, T)
  PROVE  /\ Plans(Q, s, i) /\ Holds(Q, p, T)
         /\ p \notin {"list", "snapshot"} => NoList(Q, Len(Q)) /\ Opens(Q, p, T)
BY SendsHolds DEF Plans

LEMMA PairPlans ==
  ASSUME NEW s, NEW i, NEW p1 \in Parts(s), NEW t1 \in TypesOf(p1),
         NEW p2 \in Parts(s), NEW t2 \in TypesOf(p2),
         NEW q1, NEW q2, q1 = Form(s, i, p1, t1), q2 = Form(s, i, p2, t2)
  PROVE  /\ Plans(<<q1, q2>>, s, i)
         /\ Holds(<<q1, q2>>, p1, {t1}) /\ Holds(<<q1, q2>>, p2, {t2})
<1>1. /\ q1 \in Sent(s, i) /\ q1.part = p1 /\ q1.type = t1
      /\ q2 \in Sent(s, i) /\ q2.part = p2 /\ q2.type = t2
  BY FormSent, FormNamed DEF Parts
<1>2. /\ <<q1, q2>> \in Seq(Sent(s, i)) /\ Len(<<q1, q2>>) = 2
      /\ <<q1, q2>>[1] = q1 /\ <<q1, q2>>[2] = q2
  BY <1>1
<1>3. QED
  BY <1>1, <1>2 DEF Plans, Holds

LEMMA TriplePlans ==
  ASSUME NEW s, NEW i, NEW p1 \in Parts(s), NEW t1 \in TypesOf(p1),
         NEW p2 \in Parts(s), NEW t2 \in TypesOf(p2), NEW p3 \in Parts(s), NEW t3 \in TypesOf(p3),
         NEW q1, NEW q2, NEW q3,
         q1 = Form(s, i, p1, t1), q2 = Form(s, i, p2, t2), q3 = Form(s, i, p3, t3)
  PROVE  /\ Plans(<<q1, q2, q3>>, s, i) /\ Holds(<<q1, q2, q3>>, p1, {t1})
         /\ Holds(<<q1, q2, q3>>, p2, {t2}) /\ Holds(<<q1, q2, q3>>, p3, {t3})
<1>1. /\ q1 \in Sent(s, i) /\ q1.part = p1 /\ q1.type = t1
      /\ q2 \in Sent(s, i) /\ q2.part = p2 /\ q2.type = t2
      /\ q3 \in Sent(s, i) /\ q3.part = p3 /\ q3.type = t3
  BY FormSent, FormNamed DEF Parts
<1>2. /\ <<q1, q2, q3>> \in Seq(Sent(s, i)) /\ Len(<<q1, q2, q3>>) = 3
      /\ <<q1, q2, q3>>[1] = q1 /\ <<q1, q2, q3>>[2] = q2 /\ <<q1, q2, q3>>[3] = q3
  BY <1>1
<1>3. QED
  BY <1>1, <1>2 DEF Plans, Holds

LEMMA HoldsEach ==
  ASSUME NEW Q, NEW p, NEW T, \A t \in T : Holds(Q, p, {t}) PROVE Holds(Q, p, T)
BY DEF Holds

LEMMA SinglePlans ==
  ASSUME NEW s, NEW i, NEW p \in Parts(s), NEW t \in TypesOf(p), NEW q, q = Form(s, i, p, t)
  PROVE  /\ Plans(<<q>>, s, i) /\ Holds(<<q>>, p, {t})
         /\ p \notin {"list", "snapshot"} => NoList(<<q>>, Len(<<q>>))
<1>1. <<q>> = <<Form(s, i, p, t)>>
  OBVIOUS
<1>2. Sends(<<q>>, s, i, p, {t})
  BY <1>1, OneSends
<1>3. QED
  BY <1>2, SendsPlans

-----------------------------------------------------------------------------
(* What the surfaces send.                                                 *)
LEMMA PartFacts ==
  /\ AllTypes \subseteq Part /\ ByType \subseteq Part \ AllTypes
  /\ {"snapshot", "report"} \subseteq Part \ AllTypes
  /\ \A p \in AllTypes : TypesOf(p) = {"all"}
  /\ \A p \in ByType \ {"incomplete"} : TypesOf(p) = Type
  /\ \A p \in ByType : TypesOf(p) \subseteq Type
  /\ \A p \in Listed : TypesOf(p) = Type
  /\ \A p \in {"snapshot", "report"} : TypesOf(p) = Type \cup {"all"}
  /\ "all" \notin Type /\ Listed \subseteq ByType
BY DEF Part, AllTypes, ByType, Listed, TypesOf, Type

LEMMA SnapshotPlans ==
  ASSUME NEW s, NEW i, NEW p \in {"snapshot", "report"}, NEW r, (r = "daily") <=> IsDaily(s, p)
  PROVE  /\ Plans(Snapshot(p, r), s, i)
         /\ Holds(Snapshot(p, r), p, Type) /\ Holds(Snapshot(p, r), p, {"all"})
         /\ Opens(Snapshot(p, r), "drafts", Type)
<1> DEFINE shown == IF r = "daily" THEN Statuses ELSE AgentShown
           recent == [k \in 1..Len(TypeOrder) |-> Recent(p, TypeOrder[k], shown)]
           linked == <<[Linked(p, IF r = "daily" THEN None ELSE AgentShown) EXCEPT !.since = 1]>>
<1>1. Snapshot(p, r) = (DraftCounts \o recent) \o linked
  BY DEF Snapshot, Each
<1>2. Sends(DraftCounts, s, i, "drafts", Type)
  BY DraftCountsSends
<1>3. Sends(recent, s, i, p, Type)
  <2>1. ASSUME NEW t \in Type PROVE Form(s, i, p, t) = Recent(p, t, shown)
    <3>1. t # "all"
      BY PartFacts
    <3>2. QED
      BY <3>1 DEF Form, AllTypes
  <2>2. Spread(recent, s, i, p, TypeOrder, 5)
    BY <2>1, TypeOrderFacts DEF Spread
  <2>3. QED
    BY <2>2, TablesSends, PartsFacts
<1>4. Sends(linked, s, i, p, {"all"})
  <2>1. linked = <<Form(s, i, p, "all")>>
    BY DEF Form, AllTypes
  <2> HIDE DEF linked
  <2>2. Sends(<<Form(s, i, p, "all")>>, s, i, p, {"all"})
    <3>1. p \in Parts(s)
      BY PartsFacts
    <3>2. "all" \in TypesOf(p)
      BY PartFacts
    <3>3. QED
      BY <3>1, <3>2, OneSends
  <2>3. QED
    BY <2>1, <2>2
<1> HIDE DEF recent, linked, shown
<1>5. Plans(DraftCounts, s, i) /\ Opens(DraftCounts, "drafts", Type)
  BY <1>2, SendsPlans
<1>6. Plans(recent, s, i) /\ Holds(recent, p, Type)
  BY <1>3, SendsPlans
<1>7. Plans(linked, s, i) /\ Holds(linked, p, {"all"})
  BY <1>4, SendsPlans
<1>8. /\ Plans(DraftCounts \o recent, s, i) /\ Holds(DraftCounts \o recent, p, Type)
      /\ Opens(DraftCounts \o recent, "drafts", Type)
  BY <1>5, <1>6, ChainPlans
<1>9. QED
  BY <1>1, <1>7, <1>8, ChainPlans

LEMMA SearchPlans ==
  ASSUME NEW s, NEW i, NEW b \in BOOLEAN, b <=> s = "search_drafts"
  PROVE  Plans(Search(b, b), s, i) /\ Holds(Search(b, b), "search", Type)
<1>1. \A t \in Type : Form(s, i, "search", t) =
        [List("search", t, Without(ReadHidden(b, b))) EXCEPT !.matching = TRUE]
  BY DEF Form, AllTypes, WithDrafts
<1>2. Spread(Search(b, b), s, i, "search", TypeOrder, 5)
  BY <1>1, TypeOrderFacts DEF Search, Each, Spread
<1>3. QED
  BY <1>2, TablesSends, SendsPlans, PartsFacts

LEMMA ReceiptPlans ==
  ASSUME NEW s, NEW i PROVE Plans(Receipt, s, i) /\ Holds(Receipt, "receipt", Type)
<1>1. \A t \in Type : Form(s, i, "receipt", t) = Recent("receipt", t, Reviewed)
  BY DEF Form, AllTypes
<1>2. Spread(Receipt, s, i, "receipt", TypeOrder, 5)
  BY <1>1, TypeOrderFacts DEF Receipt, Each, Spread
<1>3. QED
  BY <1>2, TablesSends, SendsPlans, PartsFacts

LEMMA LibraryPlans ==
  ASSUME NEW s, NEW i PROVE Plans(Library, s, i) /\ Holds(Library, "library", Type)
<1>1. \A t \in Type : Form(s, i, "library", t) = Query("rows", "library", t, Reviewed)
  BY DEF Form, AllTypes
<1>2. Spread(Library, s, i, "library", TypeOrder, 5)
  BY <1>1, TypeOrderFacts DEF Library, Each, Spread
<1>3. QED
  BY <1>2, TablesSends, SendsPlans, PartsFacts

LEMMA InboxSends ==
  ASSUME NEW s, NEW i PROVE Sends(Inbox, s, i, "inbox", Type)
<1>1. \A t \in Type : Form(s, i, "inbox", t) = Query("rows", "inbox", t, Only("draft"))
  BY DEF Form, AllTypes
<1>2. Spread(Inbox, s, i, "inbox", TypeOrder, 5)
  BY <1>1, TypeOrderFacts DEF Inbox, Each, Spread
<1>3. QED
  BY <1>2, TablesSends, PartsFacts

LEMMA HomePlans ==
  ASSUME NEW s, NEW i
  PROVE  /\ Plans(Home, s, i) /\ Opens(Home, "inbox", Type) /\ Holds(Home, "inbox", Type)
         /\ Holds(Home, "cards", {"all"}) /\ Holds(Home, "latest", {"report"})
<1>1. Plans(Inbox, s, i) /\ Holds(Inbox, "inbox", Type) /\ Opens(Inbox, "inbox", Type)
  BY InboxSends, SendsPlans
<1>2. CardCounts = Form(s, i, "cards", "all")
  BY DEF CardCounts, Form
<1>3. LatestReport = Form(s, i, "latest", "report")
  BY DEF LatestReport, Form, AllTypes
<1>4. "cards" \in Parts(s) /\ "latest" \in Parts(s) /\ "all" \in TypesOf("cards") /\ "report" \in TypesOf("latest")
  BY DEF Parts, Part, AllTypes, ByType, TypesOf, Type
<1>5. /\ Plans(<<CardCounts, LatestReport>>, s, i)
      /\ Holds(<<CardCounts, LatestReport>>, "cards", {"all"})
      /\ Holds(<<CardCounts, LatestReport>>, "latest", {"report"})
  BY <1>2, <1>3, <1>4, PairPlans
<1>6. QED
  BY <1>1, <1>5, ChainPlans DEF Home

LEMMA LinkedPlans ==
  ASSUME NEW s, NEW i
  PROVE  /\ Plans(<<Linked("relations", AgentShown)>>, s, i)
         /\ Plans(<<Linked("packet relations", None)>>, s, i)
         /\ Plans(<<Query("relations", "every relation", "all", None)>>, s, i)
<1>1. {"relations", "packet relations", "every relation"} \subseteq Parts(s) \cap AllTypes
  BY PartsFacts DEF AllTypes
<1>2. /\ Form(s, i, "relations", "all") = Linked("relations", AgentShown)
      /\ Form(s, i, "packet relations", "all") = Linked("packet relations", None)
      /\ Form(s, i, "every relation", "all") = Query("relations", "every relation", "all", None)
  BY DEF Form
<1>3. QED
  BY <1>1, <1>2, SinglePlans, PartFacts

LEMMA CountsPlans ==
  ASSUME NEW s, NEW i
  PROVE  /\ Plans(<<Counts("counts", CountShown(s))>>, s, i)
         /\ NoList(<<Counts("counts", CountShown(s))>>, Len(<<Counts("counts", CountShown(s))>>))
<1>1. "counts" \in Parts(s) \cap AllTypes
  BY PartsFacts DEF AllTypes
<1>2. Form(s, i, "counts", "all") = Counts("counts", CountShown(s))
  BY DEF Form
<1>3. QED
  BY <1>1, <1>2, SinglePlans, PartFacts

LEMMA BriefPlans ==
  ASSUME NEW s, NEW i, s = "brief"
  PROVE  Plans(Brief, s, i) /\ Opens(Brief, "drafts", Type) /\ Holds(Brief, "list", Type)
<1> DEFINE types  == <<"decision", "fact", "open_question", "risk", "report">>
           counts == <<Counts("counts", CountShown(s))>>
           lists  == [k \in 1..Len(types) |-> List("list", types[k], AgentShown)]
<1>1. Brief = ((counts \o DraftCounts) \o lists) \o <<Linked("relations", AgentShown)>>
  BY DEF Brief, CountShown, Each
<1>2. Plans(counts, s, i) /\ NoList(counts, Len(counts))
  BY CountsPlans
<1>3. Plans(DraftCounts, s, i) /\ Opens(DraftCounts, "drafts", Type)
  BY DraftCountsSends, SendsPlans
<1>4. Plans(lists, s, i) /\ Holds(lists, "list", Type)
  <2>1. types \in [1..5 -> Type] /\ Len(types) = 5
    BY DEF Type
  <2>2. \A t \in Type : \E k \in 1..5 : types[k] = t
    BY DEF Type
  <2>3. \A t \in Type : Form(s, i, "list", t) = List("list", t, AgentShown)
    BY DEF Form, AllTypes, Limited
  <2>4. lists = [k \in 1..5 |-> Form(s, i, "list", types[k])]
    BY <2>1, <2>3
  <2> HIDE DEF types
  <2>5. Spread(lists, s, i, "list", types, 5)
    BY <2>4 DEF Spread
  <2>6. Sends(lists, s, i, "list", Type)
    <3>1. "list" \in Parts(s) \ AllTypes /\ Type \cap TypesOf("list") = Type
      BY PartsFacts, PartFacts DEF Listed
    <3>2. QED
      BY <2>1, <2>2, <2>5, <3>1, EachSends
  <2>7. QED
    BY <2>6, SendsPlans
<1> HIDE DEF counts, lists
<1>5. Plans(counts \o DraftCounts, s, i) /\ Opens(counts \o DraftCounts, "drafts", Type)
  BY <1>2, <1>3, ChainPlans
<1>6. /\ Plans((counts \o DraftCounts) \o lists, s, i)
      /\ Opens((counts \o DraftCounts) \o lists, "drafts", Type)
      /\ Holds((counts \o DraftCounts) \o lists, "list", Type)
  BY <1>4, <1>5, ChainPlans
<1>7. QED
  BY <1>1, <1>6, LinkedPlans, ChainPlans

LEMMA CompiledPlans ==
  ASSUME NEW s, NEW i, s # "brief"
  PROVE  /\ Plans(Compiled, s, i)
         /\ Opens(Compiled, "drafts", Type) /\ Holds(Compiled, "list", Type)
<1> DEFINE types  == <<"fact", "decision", "risk", "open_question">>
           counts == <<Counts("counts", CountShown(s))>>
           lists  == [k \in 1..Len(types) |-> List("list", types[k], AgentShown)]
           report == [List("list", "report", AgentShown) EXCEPT !.limit = ReportLimit]
           last   == <<report, Linked("relations", AgentShown)>>
<1>1. Compiled = ((counts \o DraftCounts) \o lists) \o last
  BY DEF Compiled, CountShown, Each
<1>2. Plans(counts, s, i) /\ NoList(counts, Len(counts))
  BY CountsPlans
<1>3. Plans(DraftCounts, s, i) /\ Opens(DraftCounts, "drafts", Type)
  BY DraftCountsSends, SendsPlans
<1>4. Plans(lists, s, i) /\ Holds(lists, "list", Type \ {"report"})
  <2>1. types \in [1..4 -> Type] /\ Len(types) = 4 /\ \A k \in 1..4 : types[k] # "report"
    BY DEF Type
  <2>2. \A t \in Type \ {"report"} : \E k \in 1..4 : types[k] = t
    BY DEF Type
  <2>3. \A t \in Type \ {"report"} : Form(s, i, "list", t) = List("list", t, AgentShown)
    BY DEF Form, AllTypes, Limited
  <2>4. lists = [k \in 1..4 |-> Form(s, i, "list", types[k])]
    BY <2>1, <2>3
  <2> HIDE DEF types
  <2>5. Spread(lists, s, i, "list", types, 4)
    BY <2>4 DEF Spread
  <2>6. Sends(lists, s, i, "list", Type \ {"report"})
    BY <2>1, <2>2, <2>5, EachSends, PartsFacts, PartFacts DEF Listed
  <2>7. QED
    BY <2>6, SendsPlans
<1>5. Plans(last, s, i) /\ Holds(last, "list", {"report"})
  <2>1. report = Form(s, i, "list", "report")
    BY DEF Form, AllTypes, Limited
  <2>2. Linked("relations", AgentShown) = Form(s, i, "relations", "all")
    BY DEF Form
  <2>3. /\ "list" \in Parts(s) /\ "relations" \in Parts(s)
        /\ "report" \in TypesOf("list") /\ "all" \in TypesOf("relations")
    BY DEF Parts, Part, AllTypes, ByType, Listed, TypesOf, Type
  <2> HIDE DEF report
  <2>4. QED
    BY <2>1, <2>2, <2>3, PairPlans
<1> HIDE DEF counts, lists, last
<1>6. Plans(counts \o DraftCounts, s, i) /\ Opens(counts \o DraftCounts, "drafts", Type)
  BY <1>2, <1>3, ChainPlans
<1>7. /\ Plans((counts \o DraftCounts) \o lists, s, i)
      /\ Opens((counts \o DraftCounts) \o lists, "drafts", Type)
      /\ Holds((counts \o DraftCounts) \o lists, "list", Type \ {"report"})
  BY <1>4, <1>6, ChainPlans
<1>8. /\ Plans(Compiled, s, i) /\ Opens(Compiled, "drafts", Type)
      /\ Holds(Compiled, "list", Type \ {"report"}) /\ Holds(Compiled, "list", {"report"})
  BY <1>1, <1>5, <1>7, ChainPlans
<1>9. QED
  BY <1>8 DEF Holds

LEMMA ReviewPlans ==
  ASSUME NEW s, NEW i, s # "brief" PROVE Plans(ReviewLists, s, i)
<1> DEFINE types == <<"decision", "risk", "open_question">>
           lists == [k \in 1..Len(types) |-> List("list", types[k], AgentShown)]
<1>1. ReviewLists = lists \o <<Linked("relations", AgentShown)>>
  BY DEF ReviewLists, Each
<1>2. types \in [1..3 -> Type] /\ Len(types) = 3 /\ \A k \in 1..3 : types[k] # "report"
  BY DEF Type
<1>3. \A t \in Type \ {"report"} : Form(s, i, "list", t) = List("list", t, AgentShown)
  BY DEF Form, AllTypes, Limited
<1>4. lists = [k \in 1..3 |-> Form(s, i, "list", types[k])]
  BY <1>2, <1>3
<1> HIDE DEF types
<1>5. Spread(lists, s, i, "list", types, 3)
  BY <1>4 DEF Spread
<1>6. Sends(lists, s, i, "list", {})
  BY <1>2, <1>5, EachSends, PartsFacts, PartFacts DEF Listed
<1>7. Plans(lists, s, i)
  BY <1>6, SendsPlans
<1> HIDE DEF lists
<1>8. QED
  BY <1>1, <1>7, LinkedPlans, ChainPlans

LEMMA MatchedPlans ==
  ASSUME NEW s, NEW i, NEW t \in Type \ {"report"}
  PROVE  /\ Plans(Ranked(t), s, i) /\ Holds(Ranked(t), "match", {t}) /\ Holds(Ranked(t), "recent", {t})
         /\ Plans(SafetyFloor(t), s, i)
         /\ Holds(SafetyFloor(t), "match", {t}) /\ Holds(SafetyFloor(t), "recent", {t})
<1>1. TaskMatch(t) = Form(s, i, "match", t) /\ RecentRows(t) = Form(s, i, "recent", t)
  BY DEF Form, AllTypes, Limited
<1>2. /\ "match" \in Parts(s) /\ "recent" \in Parts(s)
      /\ t \in TypesOf("match") /\ t \in TypesOf("recent")
  BY PartFacts, PartsFacts DEF Listed
<1>3. QED
  BY <1>1, <1>2, PairPlans DEF Ranked, SafetyFloor

LEMMA PreparePlans ==
  ASSUME NEW s, NEW i, s # "brief"
  PROVE  /\ Plans(Prepare, s, i)
         /\ Holds(Prepare, "match", Type) /\ Holds(Prepare, "recent", Type)
         /\ Holds(Prepare, "active", {"all"}) /\ Holds(Prepare, "drafts", Type)
<1> DEFINE reports == <<[TaskMatch("report") EXCEPT !.limit = ReportLimit],
                        [RecentRows("report") EXCEPT !.limit = ReportLimit]>>
           P0 == <<Linked("packet relations", None)>>
           P1 == P0 \o Ranked("fact")
           P2 == P1 \o Ranked("decision")
           P3 == P2 \o SafetyFloor("risk")
           P4 == P3 \o SafetyFloor("open_question")
           P5 == P4 \o reports
           active == <<Counts("active", Current)>>
           P6 == P5 \o active
           Both(Q, t) == Holds(Q, "match", {t}) /\ Holds(Q, "recent", {t})
<1>1. Prepare = P6 \o DraftCounts
  BY DEF Prepare
<1>2. \A t \in Type \ {"report"} : /\ Plans(Ranked(t), s, i) /\ Both(Ranked(t), t)
                                   /\ Plans(SafetyFloor(t), s, i) /\ Both(SafetyFloor(t), t)
  BY MatchedPlans
<1>3. Plans(reports, s, i) /\ Both(reports, "report")
  <2>1. /\ [TaskMatch("report") EXCEPT !.limit = ReportLimit] = Form(s, i, "match", "report")
        /\ [RecentRows("report") EXCEPT !.limit = ReportLimit] = Form(s, i, "recent", "report")
    BY DEF Form, AllTypes, Limited
  <2>2. /\ "match" \in Parts(s) /\ "recent" \in Parts(s)
        /\ "report" \in TypesOf("match") /\ "report" \in TypesOf("recent")
    BY PartFacts, PartsFacts DEF Listed, Type
  <2>3. QED
    BY <2>1, <2>2, PairPlans
<1>4. Plans(active, s, i) /\ Holds(active, "active", {"all"})
  <2>1. "active" \in Parts(s) /\ "all" \in TypesOf("active")
    BY PartsFacts, PartFacts DEF AllTypes
  <2>2. Counts("active", Current) = Form(s, i, "active", "all")
    BY DEF Form
  <2>3. QED
    BY <2>1, <2>2, SinglePlans
<1>5. Plans(P0, s, i)
  BY LinkedPlans
<1> HIDE DEF reports, active, P0
<1>6. /\ Both(Ranked("fact"), "fact") /\ Plans(Ranked("fact"), s, i)
      /\ Both(Ranked("decision"), "decision") /\ Plans(Ranked("decision"), s, i)
      /\ Both(SafetyFloor("risk"), "risk") /\ Plans(SafetyFloor("risk"), s, i)
      /\ Both(SafetyFloor("open_question"), "open_question")
      /\ Plans(SafetyFloor("open_question"), s, i)
  <2>1. {"fact", "decision", "risk", "open_question"} \subseteq Type \ {"report"}
    BY DEF Type
  <2> HIDE DEF Both
  <2>2. QED
    BY <1>2, <2>1
<1>7. Plans(P1, s, i) /\ Both(P1, "fact")
  BY <1>5, <1>6, ChainPlans
<1> HIDE DEF P1
<1>8. Plans(P2, s, i) /\ Both(P2, "fact") /\ Both(P2, "decision")
  BY <1>6, <1>7, ChainPlans
<1> HIDE DEF P2
<1>9. Plans(P3, s, i) /\ Both(P3, "fact") /\ Both(P3, "decision") /\ Both(P3, "risk")
  BY <1>6, <1>8, ChainPlans
<1> HIDE DEF P3
<1>10. /\ Plans(P4, s, i) /\ Both(P4, "fact") /\ Both(P4, "decision") /\ Both(P4, "risk")
       /\ Both(P4, "open_question")
  BY <1>6, <1>9, ChainPlans
<1> HIDE DEF P4
<1>11. /\ Plans(P5, s, i) /\ Both(P5, "fact") /\ Both(P5, "decision") /\ Both(P5, "risk")
       /\ Both(P5, "open_question") /\ Both(P5, "report")
  BY <1>3, <1>10, ChainPlans
<1>12. Plans(P5, s, i) /\ Holds(P5, "match", Type) /\ Holds(P5, "recent", Type)
  <2>1. \A t \in Type : Both(P5, t)
    <3> HIDE DEF Both
    <3>1. QED
      BY <1>11 DEF Type
  <2> HIDE DEF P5
  <2>2. QED
    BY <1>11, <2>1, HoldsEach
<1> HIDE DEF P5
<1>13. /\ Plans(P6, s, i) /\ Holds(P6, "match", Type) /\ Holds(P6, "recent", Type)
       /\ Holds(P6, "active", {"all"})
  BY <1>4, <1>12, ChainPlans
<1> HIDE DEF P6
<1>14. Plans(DraftCounts, s, i) /\ Holds(DraftCounts, "drafts", Type)
  BY DraftCountsSends, SendsPlans
<1>15. QED
  BY <1>1, <1>13, <1>14, ChainPlans

LEMMA QualityPlans ==
  ASSUME NEW s, NEW i
  PROVE  /\ Plans(Quality, s, i)
         /\ Holds(Quality, "incomplete", {"fact", "decision", "risk"})
         /\ Holds(Quality, "unresolved", {"open_question"})
         /\ Holds(Quality, "every relation", {"all"}) /\ Holds(Quality, "quality", {"all"})
<1> DEFINE types == <<"fact", "decision", "risk">>
           lists == [k \in 1..Len(types) |->
                       [Query("rows", "incomplete", types[k], Reviewed) EXCEPT !.lacking = TRUE]]
           q1 == Query("rows", "unresolved", "open_question", Current)
           q2 == Query("relations", "every relation", "all", None)
           q3 == Counts("quality", Current)
           last == <<q1, q2, q3>>
<1>1. Quality = lists \o last
  BY DEF Quality, Each
<1>2. Plans(lists, s, i) /\ Holds(lists, "incomplete", {"fact", "decision", "risk"})
  <2>1. /\ types \in [1..3 -> Type \cap TypesOf("incomplete")] /\ Len(types) = 3
        /\ \A t \in {"fact", "decision", "risk"} : \E k \in 1..3 : types[k] = t
    <3>1. TypesOf("incomplete") = {"fact", "decision", "risk"}
      BY DEF TypesOf, AllTypes
    <3>2. QED
      BY <3>1 DEF Type
  <2>2. \A t \in Type : Form(s, i, "incomplete", t) =
          [Query("rows", "incomplete", t, Reviewed) EXCEPT !.lacking = TRUE]
    BY DEF Form, AllTypes
  <2>3. lists = [k \in 1..3 |-> Form(s, i, "incomplete", types[k])]
    BY <2>1, <2>2
  <2> HIDE DEF types
  <2>4. Spread(lists, s, i, "incomplete", types, 3)
    BY <2>3 DEF Spread
  <2>5. "incomplete" \in Parts(s) \ AllTypes
    BY PartsFacts
  <2>6. Sends(lists, s, i, "incomplete", {"fact", "decision", "risk"})
    BY <2>1, <2>4, <2>5, EachSends
  <2>7. QED
    BY <2>6, SendsPlans
<1>3. /\ Plans(last, s, i) /\ Holds(last, "unresolved", {"open_question"})
      /\ Holds(last, "every relation", {"all"}) /\ Holds(last, "quality", {"all"})
  <2>1. q1 = Form(s, i, "unresolved", "open_question")
    BY DEF Form, AllTypes
  <2>2. q2 = Form(s, i, "every relation", "all")
    BY DEF Form
  <2>3. q3 = Form(s, i, "quality", "all")
    BY DEF Form
  <2> HIDE DEF q1, q2, q3
  <2>4. /\ "unresolved" \in Parts(s) /\ "every relation" \in Parts(s) /\ "quality" \in Parts(s)
        /\ "open_question" \in TypesOf("unresolved")
        /\ "all" \in TypesOf("every relation") /\ "all" \in TypesOf("quality")
    BY DEF Parts, Part, AllTypes, ByType, TypesOf, Type
  <2>5. QED
    BY <2>1, <2>2, <2>3, <2>4, TriplePlans
<1> HIDE DEF lists, last
<1>4. QED
  BY <1>1, <1>2, <1>3, ChainPlans

LEMMA DetailPlans ==
  ASSUME NEW s, NEW i, s # "brief"
  PROVE  /\ Plans(Detail, s, i) /\ Holds(Detail, "list", Type)
         /\ Holds(Detail, "incomplete", {"fact", "decision", "risk"})
         /\ Holds(Detail, "unresolved", {"open_question"})
         /\ Holds(Detail, "every relation", {"all"}) /\ Holds(Detail, "quality", {"all"})
<1>1. Plans(Compiled, s, i) /\ Holds(Compiled, "list", Type)
  BY CompiledPlans
<1>2. /\ Plans(Quality, s, i) /\ Holds(Quality, "incomplete", {"fact", "decision", "risk"})
      /\ Holds(Quality, "unresolved", {"open_question"})
      /\ Holds(Quality, "every relation", {"all"}) /\ Holds(Quality, "quality", {"all"})
  BY QualityPlans
<1>3. QED
  BY <1>1, <1>2, ChainPlans DEF Detail

(* What the properties need to know of the queries behind each surface.    *)
Covers(Q, s) ==
  /\ s \in {"brief", "compile"} => Opens(Q, "drafts", Type) /\ Holds(Q, "list", Type)
  /\ s \in {"handoff", "context"} => Opens(Q, "drafts", Type) /\ Holds(Q, "snapshot", Type)
  /\ s = "project" => Opens(Q, "inbox", Type) /\ Holds(Q, "list", Type)
  /\ s \in {"prepare", "agent_context"} =>
       /\ Holds(Q, "match", Type) /\ Holds(Q, "recent", Type)
       /\ Holds(Q, "active", {"all"}) /\ Holds(Q, "drafts", Type)
  /\ s = "search" => Holds(Q, "search", Type)
  /\ s \in {"quality", "project"} =>
       /\ Holds(Q, "incomplete", {"fact", "decision", "risk"})
       /\ Holds(Q, "unresolved", {"open_question"})
       /\ Holds(Q, "every relation", {"all"}) /\ Holds(Q, "quality", {"all"})
  /\ s \in {"workspace", "project"} =>
       /\ Holds(Q, "inbox", Type) /\ Holds(Q, "cards", {"all"}) /\ Holds(Q, "latest", {"report"})

LEMMA PagesPlans ==
  ASSUME NEW s, NEW i, s # "brief"
  PROVE  /\ Plans(ProjectPage, s, i) /\ (s = "project" => Covers(ProjectPage, s))
         /\ Plans(LibraryPage, s, i)
         /\ Plans(AgentContextPage, s, i)
         /\ s = "agent_context" => Covers(AgentContextPage, s)
<1>1. /\ Plans(Home, s, i) /\ Opens(Home, "inbox", Type) /\ Holds(Home, "inbox", Type)
      /\ Holds(Home, "cards", {"all"}) /\ Holds(Home, "latest", {"report"})
  BY HomePlans
<1>2. /\ Plans(Detail, s, i) /\ Holds(Detail, "list", Type)
      /\ Holds(Detail, "incomplete", {"fact", "decision", "risk"})
      /\ Holds(Detail, "unresolved", {"open_question"})
      /\ Holds(Detail, "every relation", {"all"}) /\ Holds(Detail, "quality", {"all"})
  BY DetailPlans
<1>3. /\ Plans(ProjectPage, s, i) /\ Opens(ProjectPage, "inbox", Type)
      /\ Holds(ProjectPage, "inbox", Type) /\ Holds(ProjectPage, "list", Type)
      /\ Holds(ProjectPage, "cards", {"all"}) /\ Holds(ProjectPage, "latest", {"report"})
  BY <1>1, <1>2, ChainPlans DEF ProjectPage
<1>4. /\ Holds(ProjectPage, "incomplete", {"fact", "decision", "risk"})
      /\ Holds(ProjectPage, "unresolved", {"open_question"})
      /\ Holds(ProjectPage, "every relation", {"all"}) /\ Holds(ProjectPage, "quality", {"all"})
  BY <1>1, <1>2, ChainPlans DEF ProjectPage
<1>5. Plans(LibraryPage, s, i)
  <2>1. Plans(Home \o Detail, s, i) /\ Plans(Library, s, i)
    BY <1>1, <1>2, ChainPlans, LibraryPlans
  <2>2. QED
    BY <2>1, ChainPlans DEF LibraryPage
<1>6. /\ Plans(Prepare, s, i) /\ Holds(Prepare, "match", Type) /\ Holds(Prepare, "recent", Type)
      /\ Holds(Prepare, "active", {"all"}) /\ Holds(Prepare, "drafts", Type)
  BY PreparePlans
<1>7. /\ Plans(Home \o Prepare, s, i)
      /\ Holds(Home \o Prepare, "match", Type) /\ Holds(Home \o Prepare, "recent", Type)
      /\ Holds(Home \o Prepare, "active", {"all"}) /\ Holds(Home \o Prepare, "drafts", Type)
  BY <1>1, <1>6, ChainPlans
<1>8. /\ Plans(AgentContextPage, s, i)
      /\ Holds(AgentContextPage, "match", Type) /\ Holds(AgentContextPage, "recent", Type)
      /\ Holds(AgentContextPage, "active", {"all"}) /\ Holds(AgentContextPage, "drafts", Type)
  BY <1>7, <1>2, ChainPlans DEF AgentContextPage
<1>9. QED
  BY <1>3, <1>4, <1>5, <1>8 DEF Covers

LEMMA ItemPlans ==
  ASSUME NEW s, NEW i \in Item, s = "item", TypeOf(i) \in Type
  PROVE  Plans(ItemPage(i), s, i)
<1> DEFINE about1 == [Linked("about", AgentShown) EXCEPT !.of = i]
<1>1. MemoryItem(i) = Form(s, i, "item", TypeOf(i))
  BY DEF MemoryItem, Form, AllTypes
<1>2. about1 = Form(s, i, "about", "all")
  BY DEF Form
<1>3. /\ "item" \in Parts(s) /\ "about" \in Parts(s)
      /\ TypeOf(i) \in TypesOf("item") /\ "all" \in TypesOf("about")
  BY DEF Parts, Part, AllTypes, ByType, TypesOf
<1> HIDE DEF about1
<1>4. Plans(<<MemoryItem(i), about1>>, s, i)
  BY <1>1, <1>2, <1>3, PairPlans
<1>5. Plans(Home \o Detail, s, i)
  BY HomePlans, DetailPlans, ChainPlans
<1>6. ItemPage(i) = (Home \o Detail) \o <<MemoryItem(i), about1>>
  BY DEF ItemPage, about1
<1>7. QED
  BY <1>4, <1>5, <1>6, ChainPlans

LEMMA CommandsPlans ==
  ASSUME NEW s, NEW i
  PROVE  /\ s = "context" => Plans(Context, s, i) /\ Covers(Context, s)
         /\ s = "compile" => Plans(Compile, s, i) /\ Covers(Compile, s)
         /\ s = "handoff" => Plans(Handoff, s, i) /\ Covers(Handoff, s)
         /\ s = "daily" => Plans(Daily, s, i) /\ Covers(Daily, s)
         /\ s = "daily_report" => Plans(WriteReport, s, i) /\ Covers(WriteReport, s)
         /\ s = "search" => Plans(SearchPayload(FALSE, FALSE), s, i)
                             /\ Covers(SearchPayload(FALSE, FALSE), s)
         /\ s = "search_drafts" => Plans(SearchPayload(TRUE, TRUE), s, i)
                             /\ Covers(SearchPayload(TRUE, TRUE), s)
<1>1. CASE s = "context"
  <2>1. /\ Plans(Snapshot("snapshot", "context"), s, i)
        /\ Holds(Snapshot("snapshot", "context"), "snapshot", Type)
        /\ Opens(Snapshot("snapshot", "context"), "drafts", Type)
    BY <1>1, SnapshotPlans DEF IsDaily
  <2>2. Plans(Search(FALSE, FALSE), s, i)
    BY <1>1, SearchPlans
  <2>3. /\ Plans(Snapshot("snapshot", "context") \o Search(FALSE, FALSE), s, i)
        /\ Holds(Snapshot("snapshot", "context") \o Search(FALSE, FALSE), "snapshot", Type)
        /\ Opens(Snapshot("snapshot", "context") \o Search(FALSE, FALSE), "drafts", Type)
    BY <2>1, <2>2, ChainPlans
  <2>4. Plans(Context, s, i) /\ Holds(Context, "snapshot", Type) /\ Opens(Context, "drafts", Type)
    BY <2>3, LinkedPlans, ChainPlans DEF Context
  <2>5. QED
    BY <1>1, <2>4 DEF Covers
<1>2. CASE s = "compile"
  <2>1. Plans(Snapshot("snapshot", "compile"), s, i)
    BY <1>2, SnapshotPlans DEF IsDaily
  <2>2. Plans(Compiled, s, i) /\ Holds(Compiled, "list", Type) /\ Opens(Compiled, "drafts", Type)
    BY <1>2, CompiledPlans
  <2>3. /\ Plans(Compiled \o Snapshot("snapshot", "compile"), s, i)
        /\ Holds(Compiled \o Snapshot("snapshot", "compile"), "list", Type)
        /\ Opens(Compiled \o Snapshot("snapshot", "compile"), "drafts", Type)
    BY <2>1, <2>2, ChainPlans
  <2>4. Plans(Compile, s, i) /\ Holds(Compile, "list", Type) /\ Opens(Compile, "drafts", Type)
    BY <2>3, ReceiptPlans, ChainPlans DEF Compile
  <2>5. QED
    BY <1>2, <2>4 DEF Covers
<1>3. CASE s = "handoff"
  BY <1>3, SnapshotPlans DEF IsDaily, Handoff, Covers
<1>4. CASE s = "daily"
  BY <1>4, SnapshotPlans DEF IsDaily, Daily, Covers
<1>5. CASE s = "daily_report"
  <2>1. Plans(Daily, s, i)
    BY <1>5, SnapshotPlans DEF IsDaily, Daily
  <2>2. Plans(Snapshot("report", "daily_report"), s, i)
    BY <1>5, SnapshotPlans DEF IsDaily
  <2>3. QED
    BY <1>5, <2>1, <2>2, ChainPlans DEF WriteReport, Covers
<1>6. ASSUME NEW b \in BOOLEAN, b <=> s = "search_drafts"
      PROVE  Plans(SearchPayload(b, b), s, i) /\ Holds(SearchPayload(b, b), "search", Type)
  <2>1. Plans(Search(b, b), s, i) /\ Holds(Search(b, b), "search", Type)
    BY <1>6, SearchPlans
  <2>2. Plans(DraftCounts, s, i)
    BY DraftCountsSends, SendsPlans
  <2>3. QED
    BY <2>1, <2>2, ChainPlans DEF SearchPayload
<1>7. CASE s = "search"
  BY <1>6, <1>7 DEF Covers
<1>8. CASE s = "search_drafts"
  BY <1>6, <1>8 DEF Covers
<1>9. QED
  BY <1>1, <1>2, <1>3, <1>4, <1>5, <1>7, <1>8

(* Every surface sends the queries of its forms, and those it needs.       *)
LEMMA QueriesPlans ==
  ASSUME NEW s \in Surface, NEW i \in Item, TypeOf(i) \in Type
  PROVE  Queries(s, i) \in Seq(Sent(s, i)) /\ Covers(Queries(s, i), s)
<1>1. CASE s \in {"context", "compile", "handoff", "daily", "daily_report", "search",
                  "search_drafts"}
  BY <1>1, CommandsPlans DEF Queries, Plans
<1>2. CASE s = "brief"
  BY <1>2, BriefPlans DEF Queries, Plans, Covers
<1>3. CASE s \in {"review", "receipt", "relations"}
  BY <1>3, ReviewPlans, ReceiptPlans, LinkedPlans DEF Queries, Plans, RelationList, Covers
<1>4. CASE s = "prepare"
  BY <1>4, PreparePlans DEF Queries, Plans, Covers
<1>5. CASE s = "quality"
  BY <1>5, QualityPlans DEF Queries, Plans, Covers
<1>6. CASE s \in {"workspace", "inbox"}
  BY <1>6, HomePlans, InboxSends, SendsPlans DEF Queries, Plans, Covers
<1>7. CASE s \in {"project", "library", "agent_context"}
  <2>1. Plans(ProjectPage, s, i) /\ (s = "project" => Covers(ProjectPage, s))
    BY <1>7, PagesPlans
  <2>2. Plans(LibraryPage, s, i) /\ (s = "library" => Covers(LibraryPage, s))
    BY <1>7, PagesPlans DEF Covers
  <2>3. Plans(AgentContextPage, s, i) /\ (s = "agent_context" => Covers(AgentContextPage, s))
    BY <1>7, PagesPlans
  <2>4. QED
    BY <1>7, <2>1, <2>2, <2>3 DEF Queries, Plans
<1>8. CASE s = "item"
  BY <1>8, ItemPlans DEF Queries, Plans, Covers
<1>9. QED
  BY <1>1, <1>2, <1>3, <1>4, <1>5, <1>6, <1>7, <1>8 DEF Surface

-----------------------------------------------------------------------------
(***************************************************************************)
(* The inductive invariant.                                                *)
(***************************************************************************)

RowRec == [id : Item, status : Status, updated : Nat]
Answer == (SUBSET RowRec) \cup Nat \cup [Type -> Nat] \cup SUBSET (Item \X Item)

StoreOK ==
  /\ cast \in Casts
  /\ row \in [Item -> [status : Status, updated : Nat] \cup {None}]
  /\ \A i \in Item : Present(i) => row[i].status \in Statuses[TypeOf(i)]
  /\ relation \in [Item \X Item -> [updated : Nat, warned : SUBSET Item] \cup {None}]
  /\ relate \in [ends : Item \X Item, drafts : SUBSET Item, found : BOOLEAN] \cup {None}
  /\ alive \in SUBSET Item /\ quiet \in BOOLEAN /\ changes \in Nat

ReaderOK ==
  /\ surface \in Asked \cup {None} /\ about \in Item \cup {None}
  /\ pc \in {"idle", "reading", "served"}
  /\ plan \in Seq(Sent(surface, about)) /\ got \in Seq(Answer) /\ Len(got) <= Len(plan)
  /\ \A w \in written : w.rows \in SUBSET RowRec /\ w.relations \in SUBSET (Item \X Item)
  /\ pc = "idle" => plan = <<>> /\ got = <<>>
  /\ pc # "idle" => /\ surface \in Asked /\ about \in Item
                    /\ Covers(plan, surface)
  /\ pc = "served" => Len(got) = Len(plan)

TypeOK == StoreOK /\ ReaderOK

Told(i, warned) == Present(i) /\ (IsDraft(i) => i \in warned)
Warned ==
  /\ \A p \in Item \X Item : relation[p] # None =>
       \A i \in {p[1], p[2]} : Told(i, relation[p].warned)
  /\ relate # None => /\ Told(relate.ends[1], relate.drafts)
                      /\ relate.found => Told(relate.ends[2], relate.drafts)

NoDraft(i) == Present(i) /\ ~IsDraft(i)
RowsFit(q, a) ==
  /\ a \in SUBSET RowRec /\ IsFiniteSet(a) /\ Cardinality(a) <= q.limit
  /\ \A r, s \in a : r.id = s.id => r = s
  /\ \A r \in a : /\ TypeOf(r.id) = q.type /\ r.status \in q.shown[q.type]
                  /\ r.status # "draft" => NoDraft(r.id)
LinksFit(q, a) ==
  \A p \in a : p \in Item \X Item /\ (q.shown = AgentShown => NoDraft(p[1]) /\ NoDraft(p[2]))
Fits(q, a) == /\ q.how = "rows" => RowsFit(q, a)
              /\ q.how = "count" => a \in Nat
              /\ q.how = "relations" => LinksFit(q, a)
RepliesFit == \A k \in 1..Len(got) : Fits(plan[k], got[k])

ReportsFit == \A w \in written : /\ \A r \in w.rows : NoDraft(r.id)
                                 /\ \A p \in w.relations : NoDraft(p[1]) /\ NoDraft(p[2])

Complete(q, a, S) == Cardinality(a) = q.limit \/ S \subseteq Ids(a)
ListsAll(q) == q.part = "list" \/ (q.part = "snapshot" /\ surface \in {"handoff", "context"})
Beyond(k, D) ==
  LET rest == Watched(plan[k].type) \ D
  IN /\ \A i \in rest : ~IsDraft(i)
     /\ \A j \in (k + 1)..Len(got) : ListsAll(plan[j]) /\ plan[j].type = plan[k].type =>
          Complete(plan[j], got[j], rest)
AliveOK == \A i \in alive : Active(i) /\ (surface \in {"handoff", "context"} => row[i].updated >= 1)
NothingLost ==
  \A k \in 1..Len(got) :
    /\ plan[k].part = "recent" => Complete(plan[k], got[k], Watched(plan[k].type))
    /\ plan[k].part = "drafts" => \E D \in SUBSET Item : Cardinality(D) <= got[k] /\ Beyond(k, D)
    /\ plan[k].part = "inbox" => Beyond(k, Ids(got[k]))

QuietReplies == quiet => \A k \in 1..Len(got) : got[k] = Reply(plan[k])

-----------------------------------------------------------------------------
(* Facts about the constants.                                              *)
LEMMA StatusFacts ==
  /\ \A t \in Type : Statuses[t] \subseteq Status /\ "draft" \in Statuses[t]
  /\ \A t \in Type : AgentShown[t] = Statuses[t] \ ({"draft"} \cup Inactive[t])
  /\ \A t \in Type : PrepareShown[t] = Statuses[t] \ PrepareHidden[t]
  /\ \A t \in Type : PrepareHidden[t] \subseteq Inactive[t]
  /\ \A t \in Type : "draft" \notin Reviewed[t] /\ "draft" \notin Current[t]
  /\ \A t \in Type : "draft" \notin Inactive[t] /\ Reviewed[t] \subseteq Statuses[t]
  /\ AgentShown # None
<1>1. \A t \in Type : Statuses[t] \subseteq Status
  BY DEF Status
<1>2. \A t \in Type : "draft" \in Statuses[t]
  BY DEF Statuses, Type
<1>3. \A t \in Type : AgentShown[t] = Statuses[t] \ ({"draft"} \cup Inactive[t])
  BY DEF AgentShown, Without, ReadHidden
<1>4. \A t \in Type : PrepareShown[t] = Statuses[t] \ PrepareHidden[t]
  BY DEF PrepareShown, Without
<1>5. \A t \in Type : PrepareHidden[t] \subseteq Inactive[t]
  <2>1. PrepareHidden["decision"] \subseteq Inactive["decision"]
    BY DEF PrepareHidden, Inactive
  <2>2. PrepareHidden["report"] \subseteq Inactive["report"]
    BY DEF PrepareHidden, Inactive
  <2>3. \A t \in {"fact", "risk", "open_question"} : PrepareHidden[t] = Inactive[t]
    BY DEF PrepareHidden, Inactive
  <2>4. QED
    BY <2>1, <2>2, <2>3 DEF Type
<1>6. \A t \in Type : "draft" \notin Reviewed[t] /\ "draft" \notin Current[t]
  BY DEF Reviewed, Current, Type
<1>7. \A t \in Type : "draft" \notin Inactive[t]
  BY DEF Inactive, Type
<1>8. \A t \in Type : Reviewed[t] \subseteq Statuses[t]
  BY DEF Reviewed, Statuses, Type
<1>9. AgentShown # None
  <2>1. AgentShown \in [Type -> SUBSET Status]
    <3>1. AgentShown = [t \in Type |-> AgentShown[t]]
      BY DEF AgentShown, Without
    <3>2. \A t \in Type : AgentShown[t] \in SUBSET Status
      BY <1>1, <1>3
    <3>3. QED
      BY <3>1, <3>2
  <2>2. QED
    BY <2>1, NoneAssumption
<1>10. QED
  BY <1>1, <1>2, <1>3, <1>4, <1>5, <1>6, <1>7, <1>8, <1>9

LEMMA NumberFacts ==
  /\ Items \in Nat /\ Limit \in Nat /\ Limit > 0 /\ ReportLimit \in Nat /\ All \in Nat
  /\ IsFiniteSet(Item) /\ Cardinality(Item) = Items
<1>1. Items \in Nat /\ Limit \in Nat /\ Limit > 0
  BY SurfacesAssumption
<1>2. IsFiniteSet(Item) /\ Cardinality(Item) = Items
  BY <1>1, FS_Interval DEF Item
<1>3. ReportLimit \in Nat /\ All \in Nat
  BY <1>1 DEF ReportLimit, All
<1>4. QED
  BY <1>1, <1>2, <1>3

LEMMA CastFacts ==
  ASSUME cast \in Casts
  PROVE  \A i \in Item : TypeOf(i) \in Type /\ cast[i].rank \in 0..2
BY SurfacesAssumption DEF TypeOf

-----------------------------------------------------------------------------
(* Facts about the forms.                                                  *)
LEMMA FormLimit ==
  ASSUME NEW s, NEW i, NEW p \in Part, NEW t \in TypesOf(p)
  PROVE  Form(s, i, p, t).limit \in Nat
<1> USE NumberFacts DEF Query, Counts, Linked, List, AllTypes, ByType, Listed
<1>1. CASE p \in AllTypes
  BY <1>1 DEF Form
<1>2. CASE p \in Listed
  BY <1>2 DEF Form, Limited, TaskMatch, RecentRows
<1>3. CASE p \in ByType \ Listed
  BY <1>3 DEF Form, Recent
<1>4. CASE p \in {"snapshot", "report"} /\ t = "all"
  BY <1>4 DEF Form
<1>5. CASE p \in {"snapshot", "report"} /\ t # "all"
  <2>1. Form(s, i, p, t) = Recent(p, t, IF IsDaily(s, p) THEN Statuses ELSE AgentShown)
    BY <1>5 DEF Form
  <2>2. QED
    BY <1>5, <2>1 DEF Recent
<1>6. QED
  BY <1>1, <1>2, <1>3, <1>4, <1>5 DEF Part

LEMMA SentForms ==
  ASSUME NEW s, NEW i, NEW q \in Sent(s, i)
  PROVE  /\ q.part \in Parts(s) /\ q.part \in Part /\ q.type \in TypesOf(q.part)
         /\ q = Form(s, i, q.part, q.type) /\ q.how = HowAsked(q.part, q.type) /\ q.limit \in Nat
<1>1. PICK p \in Parts(s) : \E t \in TypesOf(p) : q = Form(s, i, p, t)
  BY DEF Sent
<1>2. PICK t \in TypesOf(p) : q = Form(s, i, p, t)
  BY <1>1
<1>3. QED
  BY <1>2, FormNamed, FormLimit DEF Parts

-----------------------------------------------------------------------------
(***************************************************************************)
(* Replies.                                                                *)
(***************************************************************************)
OrderOf(q, S) == {e \in S \X S : Before(q, e[1], e[2])}

LEMMA RowFacts ==
  ASSUME TypeOK, NEW i \in Item, Present(i)
  PROVE  row[i].updated \in Nat /\ row[i].status \in Status /\ row[i].status \in Statuses[TypeOf(i)]
<1>1. row[i] \in [status : Status, updated : Nat] /\ row[i].status \in Statuses[TypeOf(i)]
  BY DEF TypeOK, StoreOK, Present
<1>2. QED
  BY <1>1

LEMMA RankFacts ==
  ASSUME TypeOK, NEW i \in Item PROVE TypeOf(i) \in Type /\ cast[i].rank \in Nat
BY CastFacts DEF TypeOK, StoreOK

LEMMA BeforeOrders ==
  ASSUME TypeOK, NEW q, NEW S \in SUBSET {i \in Item : Present(i)}
  PROVE  StrictOrder(OrderOf(q, S), S) /\ First(q, S) = FirstOf(OrderOf(q, S), S, q.limit)
<1>1. PICK key \in [S -> Nat] :
        \A i \in S : key[i] = IF q.by = "age" THEN row[i].updated ELSE cast[i].rank
  <2>1. \A i \in S : (IF q.by = "age" THEN row[i].updated ELSE cast[i].rank) \in Nat
    BY RowFacts, RankFacts
  <2> DEFINE f == [i \in S |-> IF q.by = "age" THEN row[i].updated ELSE cast[i].rank]
  <2>2. f \in [S -> Nat]
    BY <2>1
  <2>3. QED
    BY <2>2
<1>2. \A i, j \in S : Before(q, i, j) <=> key[i] > key[j] \/ (key[i] = key[j] /\ i > j)
  BY <1>1 DEF Before
<1>3. \A i, j \in S : <<i, j>> \in OrderOf(q, S) <=> Before(q, i, j)
  BY DEF OrderOf
<1>4. S \in SUBSET Nat
  BY NumberFacts DEF Item
<1>5. StrictOrder(OrderOf(q, S), S)
  BY <1>2, <1>3, <1>4 DEF StrictOrder
<1>6. ASSUME NEW i \in S PROVE {j \in S : Before(q, j, i)} = Ahead(OrderOf(q, S), S, i)
  BY <1>3 DEF Ahead
<1>7. QED
  BY <1>5, <1>6 DEF First, FirstOf

Found(q) == {i \in Item : Matches(q, i)}
RowOf(i) == [id |-> i, status |-> row[i].status, updated |-> row[i].updated]

LEMMA RowsReply ==
  ASSUME TypeOK, NEW q, q.limit \in Nat
  PROVE  /\ IsFiniteSet(Found(q)) /\ Found(q) \in SUBSET Item
         /\ Rows(q) \in SUBSET RowRec
         /\ \A r \in Rows(q) : r = RowOf(r.id) /\ Matches(q, r.id)
         /\ IsFiniteSet(Rows(q)) /\ Cardinality(Rows(q)) <= q.limit
         /\ Cardinality(Rows(q)) = q.limit \/ Ids(Rows(q)) = Found(q)
         /\ Cardinality(Rows(q)) \in 0..Items
<1> DEFINE S == Found(q)
           F == First(q, S)
<1>1. S \in SUBSET Item /\ S \in SUBSET {i \in Item : Present(i)} /\ IsFiniteSet(S)
  BY NumberFacts, FS_Subset DEF Found, Matches
<1>2. /\ F \in SUBSET S /\ IsFiniteSet(F) /\ Cardinality(F) \in 0..q.limit
      /\ Cardinality(F) = q.limit \/ F = S
  <2>1. StrictOrder(OrderOf(q, S), S) /\ F = FirstOf(OrderOf(q, S), S, q.limit)
    BY <1>1, BeforeOrders
  <2>2. F \in SUBSET S
    BY DEF First
  <2> HIDE DEF S, F
  <2>3. QED
    BY <1>1, <2>1, <2>2, Cut
<1>3. Rows(q) = {RowOf(i) : i \in F}
  BY DEF Rows, RowOf, Found
<1>4. \A i \in S : RowOf(i) \in RowRec /\ RowOf(i).id = i /\ Matches(q, i)
  BY <1>1, RowFacts DEF RowOf, RowRec, Found
<1> HIDE DEF S, F
<1>5. Ids(Rows(q)) = F
  BY <1>2, <1>3, <1>4 DEF Ids
<1>6. IsFiniteSet(Rows(q)) /\ Cardinality(Rows(q)) = Cardinality(F)
  <2> DEFINE f == [i \in F |-> RowOf(i)]
  <2>1. f \in Bijection(F, Rows(q))
    <3>1. f \in [F -> Rows(q)]
      BY <1>3
    <3>2. \A i, j \in F : f[i] = f[j] => i = j
      BY <1>2, <1>4
    <3>3. \A r \in Rows(q) : \E i \in F : f[i] = r
      BY <1>3
    <3>4. QED
      BY <3>1, <3>2, <3>3 DEF Bijection, Injection, Surjection, IsInjective
  <2>2. QED
    BY <1>2, <2>1, FS_Bijection DEF ExistsBijection
<1>7. Cardinality(F) \in 0..Items
  <2>1. F \in SUBSET Item
    BY <1>1, <1>2
  <2>2. Cardinality(F) <= Cardinality(Item) /\ Cardinality(F) \in Nat
    BY <2>1, NumberFacts, FS_Subset, FS_CardinalityType
  <2>3. QED
    BY <2>2, NumberFacts
<1>8. QED
  BY <1>1, <1>2, <1>3, <1>4, <1>5, <1>6, <1>7 DEF S

LEMMA Numbers ==
  ASSUME TypeOK, NEW q
  PROVE  Number(q) \in Nat /\ Number(q) = Cardinality(Found(q)) /\ IsFiniteSet(Found(q))
<1>1. Found(q) \in SUBSET Item /\ IsFiniteSet(Found(q))
  BY NumberFacts, FS_Subset DEF Found
<1>2. QED
  BY <1>1, FS_CardinalityType DEF Number, Found

LEMMA LinksReply ==
  ASSUME TypeOK, NEW q
  PROVE  /\ NewestRelations(q) \in SUBSET (Item \X Item)
         /\ \A p \in NewestRelations(q) :
              relation[p] # None /\ EndShown(q, p[1]) /\ EndShown(q, p[2])
BY DEF NewestRelations, Relations

LEMMA ReplyFits ==
  ASSUME TypeOK, Warned, NEW q \in Sent(surface, about)
  PROVE  Reply(q) \in Answer /\ Fits(q, Reply(q))
<1>1. q.how \in {"rows", "count", "counts", "relations"} /\ q.limit \in Nat
      /\ (q.how = "rows" => q.type \in Type)
  BY SentForms, HowFacts
<1>2. CASE q.how = "rows"
  <2>1. Reply(q) = Rows(q)
    BY <1>2 DEF Reply
  <2>2. ASSUME NEW r \in Rows(q)
        PROVE  /\ TypeOf(r.id) = q.type /\ r.status \in q.shown[q.type]
               /\ r.status # "draft" => NoDraft(r.id)
    <3>1. r = RowOf(r.id) /\ Matches(q, r.id)
      BY <1>1, RowsReply
    <3>2. r.status = row[r.id].status
      BY <3>1 DEF RowOf
    <3>3. QED
      BY <3>1, <3>2 DEF Matches, NoDraft, IsDraft
  <2>3. \A r, s \in Rows(q) : r.id = s.id => r = s
    BY <1>1, RowsReply
  <2>4. RowsFit(q, Rows(q))
    BY <1>1, <2>2, <2>3, RowsReply DEF RowsFit
  <2>5. Rows(q) \in Answer
    BY <1>1, RowsReply DEF Answer
  <2>6. QED
    BY <1>2, <2>1, <2>4, <2>5 DEF Fits
<1>3. CASE q.how = "count"
  BY <1>3, Numbers DEF Reply, Fits, Answer
<1>4. CASE q.how = "counts"
  <2>1. Reply(q) = [t \in Type |-> Number([q EXCEPT !.type = t])]
    BY <1>4 DEF Reply
  <2>2. Reply(q) \in [Type -> Nat]
    BY <2>1, Numbers
  <2>3. QED
    BY <1>4, <2>2 DEF Fits, Answer
<1>5. CASE q.how = "relations"
  <2>1. Reply(q) = NewestRelations(q)
    BY <1>5 DEF Reply
  <2>2. ASSUME NEW p \in NewestRelations(q), q.shown = AgentShown, NEW i \in {p[1], p[2]}
        PROVE  NoDraft(i)
    <3>1. p \in Item \X Item /\ relation[p] # None /\ EndShown(q, i) /\ i \in Item
      BY <2>2, LinksReply
    <3>2. Present(i)
      BY <2>2, <3>1 DEF Warned, Told
    <3>3. row[i].status \in AgentShown[TypeOf(i)] /\ TypeOf(i) \in Type
      BY <2>2, <3>1, <3>2, StatusFacts, RankFacts DEF EndShown
    <3>4. QED
      BY <3>2, <3>3, StatusFacts DEF NoDraft, IsDraft
  <2>3. LinksFit(q, NewestRelations(q))
    BY <2>2, LinksReply DEF LinksFit
  <2>4. NewestRelations(q) \in Answer
    BY LinksReply DEF Answer
  <2>5. QED
    BY <1>5, <2>1, <2>3, <2>4 DEF Fits
<1>6. QED
  BY <1>1, <1>2, <1>3, <1>4, <1>5

-----------------------------------------------------------------------------
(***************************************************************************)
(* What others do leaves: what is there stays, and what is no draft never  *)
(* becomes one.                                                            *)
(***************************************************************************)
LEMMA StoredFacts ==
  ASSUME TypeOK, NEW i \in Item, NEW s \in Statuses[TypeOf(i)], Stored(i, s)
  PROVE  /\ row' \in [Item -> [status : Status, updated : Nat] \cup {None}]
         /\ row'[i] # None /\ row'[i].status = s /\ row'[i].updated = changes + 2
         /\ \A j \in Item \ {i} : row'[j] = row[j]
<1>1. [status |-> s, updated |-> changes + 2] \in [status : Status, updated : Nat]
  BY StatusFacts, RankFacts DEF TypeOK, StoreOK
<1>2. row \in [Item -> [status : Status, updated : Nat] \cup {None}]
  BY DEF TypeOK, StoreOK
<1>3. row' = [row EXCEPT ![i] = [status |-> s, updated |-> changes + 2]]
  BY DEF Stored
<1>4. QED
  BY <1>1, <1>2, <1>3, NoneAssumption

LEMMA RememberFacts ==
  ASSUME TypeOK, NEW i \in Item, Remember(i)
  PROVE  /\ ~Present(i) /\ cast' = cast /\ reader' = reader /\ changes' = changes + 1 /\ quiet' = FALSE
         /\ \E s \in Statuses[TypeOf(i)] : Stored(i, s)
BY StatusFacts, RankFacts DEF Remember, Commits

LEMMA ReviseFacts ==
  ASSUME TypeOK, NEW i \in Item, Revise(i)
  PROVE  /\ Present(i) /\ cast' = cast /\ reader' = reader /\ changes' = changes + 1 /\ quiet' = FALSE
         /\ \E s \in Statuses[TypeOf(i)] \ {"draft"} : Stored(i, s)
BY DEF Revise, Commits

Keeps(i) == (Present(i) => Present(i)') /\ (NoDraft(i) => NoDraft(i)')

LEMMA Monotone ==
  ASSUME TypeOK, [Next]_vars PROVE cast' = cast /\ \A i \in Item : Keeps(i)
<1>1. ASSUME NEW j \in Item, Remember(j) PROVE cast' = cast /\ \A i \in Item : Keeps(i)
  <2>1. PICK s \in Statuses[TypeOf(j)] : Stored(j, s)
    BY <1>1, RememberFacts
  <2>2. QED
    BY <1>1, <2>1, RememberFacts, StoredFacts DEF Keeps, Present, NoDraft, IsDraft
<1>2. ASSUME NEW j \in Item, Revise(j) PROVE cast' = cast /\ \A i \in Item : Keeps(i)
  <2>1. PICK s \in Statuses[TypeOf(j)] \ {"draft"} : Stored(j, s)
    BY <1>2, ReviseFacts
  <2>2. QED
    BY <1>2, <2>1, ReviseFacts, StoredFacts DEF Keeps, Present, NoDraft, IsDraft
<1>3. ASSUME row' = row, cast' = cast PROVE cast' = cast /\ \A i \in Item : Keeps(i)
  BY <1>3 DEF Keeps, Present, NoDraft, IsDraft
<1>4. CASE (\E s \in Asked : Ask(s)) \/ Read \/ Serve \/ FindEnds \/ FindTarget \/ UNCHANGED vars
  BY <1>3, <1>4 DEF Ask, Read, Serve, FindEnds, FindTarget, vars, store
<1>5. CASE StoreRelation
  BY <1>3, <1>5 DEF StoreRelation, Commits
<1>6. QED
  BY <1>1, <1>2, <1>4, <1>5 DEF Next

-----------------------------------------------------------------------------
(* The types.                                                              *)
LEMMA StoreInit == Init => StoreOK
<1> SUFFICES ASSUME Init PROVE StoreOK
  OBVIOUS
<1>1. row \in [Item -> [status : Status, updated : Nat] \cup {None}]
  BY SurfacesAssumption DEF Init
<1>2. \A i \in Item : Present(i) => row[i].status \in Statuses[TypeOf(i)]
  BY DEF Init, Present, TypeOf
<1>3. QED
  BY <1>1, <1>2 DEF Init, StoreOK

LEMMA ReaderInit == Init => ReaderOK
BY DEF Init, ReaderOK

LEMMA StoreStep ==
  ASSUME TypeOK, [Next]_vars PROVE StoreOK'
<1> USE DEF StoreOK
<1>1. ASSUME NEW i \in Item, Remember(i) \/ Revise(i) PROVE StoreOK'
  <2>1. /\ cast' = cast /\ relation' = relation /\ relate' = relate
        /\ changes' = changes + 1 /\ alive' \in SUBSET alive
    BY <1>1 DEF Remember, Revise, Commits
  <2>6. quiet' \in BOOLEAN
    BY <1>1 DEF Remember, Revise, Commits
  <2>2. PICK s \in Statuses[TypeOf(i)] : Stored(i, s)
    BY <1>1, RememberFacts, ReviseFacts
  <2>3. \A j \in Item : Present(j)' => row'[j].status \in Statuses[TypeOf(j)']
    <3>1. \A j \in Item : TypeOf(j)' = TypeOf(j)
      BY <2>1 DEF TypeOf
    <3>2. row'[i].status = s /\ \A j \in Item \ {i} : row'[j] = row[j]
      BY <2>2, StoredFacts
    <3>3. \A j \in Item : Present(j) => row[j].status \in Statuses[TypeOf(j)]
      BY DEF TypeOK
    <3>4. QED
      BY <2>2, <3>1, <3>2, <3>3 DEF Present
  <2>4. row' \in [Item -> [status : Status, updated : Nat] \cup {None}]
    BY <2>2, StoredFacts
  <2>5. QED
    BY <2>1, <2>6, <2>3, <2>4 DEF TypeOK
<1>2. ASSUME UNCHANGED <<cast, row, relation, relate>>, alive' \in SUBSET Item,
             quiet' \in BOOLEAN, changes' \in Nat
      PROVE  StoreOK'
  BY <1>2 DEF TypeOK, Present, TypeOf
<1>3. ASSUME NEW s \in Asked, Ask(s) PROVE StoreOK'
  BY <1>2, <1>3 DEF TypeOK, Ask, store
<1>4. CASE Read \/ Serve \/ UNCHANGED vars
  BY <1>2, <1>4 DEF TypeOK, Read, Serve, vars, store
<1>5. CASE FindEnds
  <2>1. UNCHANGED <<cast, row, relation, alive, quiet, changes>>
    BY <1>5 DEF FindEnds, store
  <2>2. PICK p \in Pairs :
          relate' = [ends |-> p, drafts |-> IF row[p[1]].status = "draft" THEN {p[1]} ELSE {},
                     found |-> FALSE]
    BY <1>5 DEF FindEnds
  <2>3. p \in Item \X Item /\ p[1] \in Item
    BY SurfacesAssumption
  <2>4. relate' \in [ends : Item \X Item, drafts : SUBSET Item, found : BOOLEAN]
    BY <2>2, <2>3
  <2>5. QED
    BY <2>1, <2>4 DEF TypeOK, Present, TypeOf
<1>6. CASE FindTarget
  <2>1. UNCHANGED <<cast, row, relation, alive, quiet, changes>> /\ relate # None
    BY <1>6 DEF FindTarget, store
  <2>2. relate \in [ends : Item \X Item, drafts : SUBSET Item, found : BOOLEAN]
    BY <2>1 DEF TypeOK
  <2>3. relate' \in [ends : Item \X Item, drafts : SUBSET Item, found : BOOLEAN] \cup {None}
    BY <1>6, <2>2 DEF FindTarget
  <2>4. QED
    BY <2>1, <2>3 DEF TypeOK, Present, TypeOf
<1>7. CASE StoreRelation
  <2>1. /\ UNCHANGED <<cast, row, alive>> /\ relate # None /\ relate' = None
        /\ changes' = changes + 1
        /\ relation' = [relation EXCEPT ![relate.ends] =
                          [updated |-> changes + 2, warned |-> relate.drafts]]
    BY <1>7 DEF StoreRelation, Commits
  <2>6. quiet' \in BOOLEAN
    BY <1>7 DEF StoreRelation, Commits
  <2>2. relate \in [ends : Item \X Item, drafts : SUBSET Item, found : BOOLEAN]
    BY <2>1 DEF TypeOK
  <2>3. [updated |-> changes + 2, warned |-> relate.drafts] \in [updated : Nat, warned : SUBSET Item]
    BY <2>2 DEF TypeOK
  <2>4. relation' \in [Item \X Item -> [updated : Nat, warned : SUBSET Item] \cup {None}]
    <3>1. relate.ends \in Item \X Item
      BY <2>2
    <3>2. QED
      BY <2>1, <2>3, <3>1 DEF TypeOK
  <2>5. QED
    BY <2>1, <2>6, <2>4 DEF TypeOK, Present, TypeOf
<1>8. QED
  BY <1>1, <1>3, <1>4, <1>5, <1>6, <1>7 DEF Next

(* The part of Read: the reply is added, and the plan ends with an item     *)
(* that is gone.                                                           *)
LEMMA ReadFacts ==
  ASSUME TypeOK, Read
  PROVE  /\ Len(got) + 1 \in 1..Len(plan) /\ plan[Len(got) + 1] \in Sent(surface, about)
         /\ got' = Append(got, Reply(plan[Len(got) + 1])) /\ Len(got') = Len(got) + 1
         /\ got'[Len(got) + 1] = Reply(plan[Len(got) + 1])
         /\ \A k \in 1..Len(got) : got'[k] = got[k]
         /\ plan' \in Seq(Sent(surface, about)) /\ Len(got') <= Len(plan')
         /\ \A k \in 1..Len(got') : k \in 1..Len(plan) /\ plan'[k] = plan[k]
         /\ surface # "item" => plan' = plan
<1> DEFINE n == Len(got) + 1
           a == Reply(plan[n])
<1>1. /\ plan \in Seq(Sent(surface, about)) /\ got \in Seq(Answer)
      /\ Len(got) \in Nat /\ Len(plan) \in Nat /\ Len(got) < Len(plan)
  BY LenProperties DEF TypeOK, ReaderOK, Read
<1>2. n \in 1..Len(plan) /\ plan[n] \in Sent(surface, about)
  BY <1>1
<1>3. /\ got' = Append(got, a)
      /\ plan' = IF plan[Len(got')].part = "item" /\ a = {} THEN SubSeq(plan, 1, Len(got')) ELSE plan
  BY DEF Read
<1>4. /\ Len(got') = n /\ got'[n] = a /\ \A k \in 1..Len(got) : got'[k] = got[k]
  <2> HIDE DEF a
  <2>1. got \in Seq(Answer \cup {a})
    BY <1>1
  <2>2. QED
    BY <1>1, <1>3, <2>1, AppendProperties
<1>5. /\ SubSeq(plan, 1, n) \in Seq(Sent(surface, about)) /\ Len(SubSeq(plan, 1, n)) = n
      /\ \A k \in 1..n : SubSeq(plan, 1, n)[k] = plan[k]
  BY <1>1, <1>2, SubSeqProperties
<1>6. surface # "item" => plan' = plan
  BY <1>2, <1>3, <1>4, SentForms DEF Parts
<1> HIDE DEF a
<1>7. QED
  BY <1>1, <1>2, <1>3, <1>4, <1>5, <1>6 DEF a

(* The first query for a part and a type answers for it.                   *)
LEMMA GotFirst ==
  ASSUME TypeOK, Len(got) = Len(plan), NEW p, NEW t, Has(p, t)
  PROVE  \E k \in 1..Len(got) :
           /\ plan[k] \in Sent(surface, about) /\ plan[k].part = p /\ plan[k].type = t
           /\ Got(p, t) = got[k]
           /\ \A j \in 1..Len(got) : plan[j].part = p /\ plan[j].type = t => k <= j
<1> DEFINE S == Replies(p, t)
           m == CHOOSE k \in S : \A j \in S : k <= j
<1>1. plan \in Seq(Sent(surface, about)) /\ Len(plan) \in Nat
  BY LenProperties DEF TypeOK, ReaderOK
<1>2. S \in SUBSET Nat /\ S # {} /\ S = {k \in 1..Len(plan) : plan[k].part = p /\ plan[k].type = t}
  BY <1>1 DEF Has, Replies
<1>3. m \in S /\ \A j \in S : m <= j
  BY <1>2, LeastNumber
<1>4. Got(p, t) = got[m]
  BY DEF Got
<1> HIDE DEF m
<1>5. QED
  BY <1>1, <1>2, <1>3, <1>4

LEMMA GotFits ==
  ASSUME TypeOK, RepliesFit, Len(got) = Len(plan), NEW p \in Part, NEW t \in TypesOf(p)
  PROVE  Got(p, t) = {} \/ (Has(p, t) /\ Fits(Form(surface, about, p, t), Got(p, t)))
<1>1. CASE ~Has(p, t)
  BY <1>1 DEF Got
<1>2. CASE Has(p, t)
  <2>1. PICK k \in 1..Len(got) : /\ plan[k] \in Sent(surface, about)
                                /\ plan[k].part = p /\ plan[k].type = t /\ Got(p, t) = got[k]
    BY <1>2, GotFirst
  <2>2. Fits(plan[k], got[k]) /\ plan[k] = Form(surface, about, p, t)
    BY <2>1, SentForms DEF RepliesFit
  <2>3. QED
    BY <1>2, <2>1, <2>2
<1>3. QED
  BY <1>1, <1>2

(* What a daily report is made of.                                         *)
LEMMA ReportFacts ==
  ASSUME TypeOK, RepliesFit, Len(got) = Len(plan)
  PROVE  /\ DailyReport.rows \in SUBSET RowRec
         /\ DailyReport.relations \in SUBSET (Item \X Item)
         /\ \A r \in DailyReport.rows : NoDraft(r.id)
         /\ \A p \in DailyReport.relations : NoDraft(p[1]) /\ NoDraft(p[2])
<1>1. "report" \in Part /\ TypesOf("report") = Type \cup {"all"} /\ "all" \notin Type
  BY PartFacts
<1>2. ASSUME NEW t \in Type, NEW r \in Got("report", t) PROVE r \in RowRec /\ NoDraft(r.id)
  <2> DEFINE q == Form(surface, about, "report", t)
  <2>1. Fits(q, Got("report", t))
    BY <1>1, <1>2, GotFits
  <2>2. q = Recent("report", t, AgentShown)
    BY <1>1 DEF Form, AllTypes, IsDaily
  <2>3. q.how = "rows" /\ q.type = t /\ q.shown = AgentShown
    BY <2>2 DEF Recent, List, Query
  <2> HIDE DEF q
  <2>4. r \in RowRec /\ r.status \in AgentShown[t] /\ (r.status # "draft" => NoDraft(r.id))
    BY <1>2, <2>1, <2>3 DEF Fits, RowsFit
  <2>5. QED
    BY <2>4, StatusFacts
<1>3. ASSUME NEW p \in Got("report", "all")
      PROVE  p \in Item \X Item /\ NoDraft(p[1]) /\ NoDraft(p[2])
  <2> DEFINE q == Form(surface, about, "report", "all")
  <2>1. Fits(q, Got("report", "all"))
    BY <1>1, <1>3, GotFits
  <2>2. q = [Linked("report", AgentShown) EXCEPT !.since = 1]
    BY DEF Form, AllTypes, IsDaily
  <2>3. q.how = "relations" /\ q.shown = AgentShown
    BY <2>2 DEF Linked, Query
  <2> HIDE DEF q
  <2>4. QED
    BY <1>3, <2>1, <2>3 DEF Fits, LinksFit
<1>4. /\ DailyReport.rows = UNION {Got("report", t) : t \in Type}
      /\ DailyReport.relations = Got("report", "all")
  BY DEF DailyReport
<1>5. QED
  BY <1>2, <1>3, <1>4

LEMMA ReaderStep ==
  ASSUME TypeOK, Warned, RepliesFit, [Next]_vars PROVE ReaderOK'
<1>1. ASSUME reader' = reader PROVE ReaderOK'
  BY <1>1 DEF TypeOK, ReaderOK, reader
<1>2. ASSUME NEW s \in Asked, Ask(s) PROVE ReaderOK'
  <2>1. /\ pc = "idle" /\ pc' = "reading" /\ surface' = s /\ about' \in Item
        /\ plan' = Queries(s, about') /\ got' = got /\ written' = written
    BY <1>2, SurfacesAssumption DEF Ask
  <2>2. got' = <<>>
    BY <2>1 DEF TypeOK, ReaderOK
  <2>3. s \in Surface /\ TypeOf(about') \in Type
    BY <2>1, SurfacesAssumption, RankFacts
  <2>4. plan' \in Seq(Sent(s, about')) /\ Covers(plan', s)
    BY <2>1, <2>3, QueriesPlans
  <2>5. Len(got') = 0 /\ Len(plan') \in Nat
    BY <2>2, <2>4, LenProperties
  <2>6. QED
    BY <2>1, <2>2, <2>4, <2>5 DEF TypeOK, ReaderOK
<1>3. CASE Read
  <2>1. /\ UNCHANGED <<surface, about, pc, written>> /\ pc = "reading"
    BY <1>3 DEF Read
  <2>2. surface \in Asked /\ about \in Item /\ Covers(plan, surface)
    BY <2>1 DEF TypeOK, ReaderOK
  <2>3. Covers(plan', surface)
    BY <1>3, <2>2, ReadFacts DEF Covers
  <2>4. got' \in Seq(Answer)
    <3> DEFINE a == Reply(plan[Len(got) + 1])
    <3>1. a \in Answer /\ got' = Append(got, a)
      BY <1>3, ReadFacts, ReplyFits
    <3>2. got \in Seq(Answer)
      BY DEF TypeOK, ReaderOK
    <3> HIDE DEF a
    <3>3. QED
      BY <3>1, <3>2, AppendProperties
  <2>5. plan' \in Seq(Sent(surface, about)) /\ Len(got') <= Len(plan')
    BY <1>3, ReadFacts
  <2>6. QED
    BY <2>1, <2>2, <2>3, <2>4, <2>5 DEF TypeOK, ReaderOK
<1>4. CASE Serve
  <2>1. DailyReport.rows \in SUBSET RowRec /\ DailyReport.relations \in SUBSET (Item \X Item)
    BY <1>4, ReportFacts DEF Serve
  <2>2. QED
    BY <1>4, <2>1 DEF TypeOK, ReaderOK, Serve
<1>5. QED
  BY <1>1, <1>2, <1>3, <1>4 DEF Next, Remember, Revise, FindEnds, FindTarget, StoreRelation, Commits, vars

-----------------------------------------------------------------------------
(* Who stored a relation was told of the drafts at its ends.               *)
LEMMA ToldStays ==
  ASSUME TypeOK, [Next]_vars, NEW i \in Item, NEW w, NEW v, w \subseteq v, Told(i, w)
  PROVE  Told(i, v)'
<1>1. Keeps(i)
  BY Monotone
<1>2. QED
  BY <1>1 DEF Keeps, Told, NoDraft

LEMMA WarnedStep ==
  ASSUME TypeOK, Warned, [Next]_vars PROVE Warned'
<1> DEFINE Relations1 == \A p \in Item \X Item : relation[p] # None =>
                           \A i \in {p[1], p[2]} : Told(i, relation[p].warned)
           Running == relate # None => /\ Told(relate.ends[1], relate.drafts)
                                       /\ relate.found => Told(relate.ends[2], relate.drafts)
<1>1. relate # None => /\ relate.ends \in Item \X Item
                       /\ relate.ends[1] \in Item /\ relate.ends[2] \in Item
  BY DEF TypeOK, StoreOK
<1>2. ASSUME relation' = relation PROVE Relations1'
  BY <1>2, ToldStays DEF Warned
<1>3. ASSUME relate' = relate PROVE Running'
  BY <1>1, <1>3, ToldStays DEF Warned
<1>4. CASE UNCHANGED <<relation, relate>>
  BY <1>2, <1>3, <1>4 DEF Warned
<1>5. CASE FindEnds
  <2>1. relation' = relation /\ row' = row
    BY <1>5 DEF FindEnds, store
  <2>2. PICK p \in Pairs :
          /\ Present(p[1])
          /\ relate' = [ends |-> p, drafts |-> IF row[p[1]].status = "draft" THEN {p[1]} ELSE {},
                        found |-> FALSE]
    BY <1>5 DEF FindEnds
  <2>3. Running'
    BY <2>1, <2>2 DEF Told, Present, IsDraft
  <2>4. QED
    BY <1>2, <2>1, <2>3 DEF Warned
<1>6. CASE FindTarget
  <2>1. relation' = relation /\ row' = row /\ relate # None
    BY <1>6 DEF FindTarget, store
  <2>2. relate \in [ends : Item \X Item, drafts : SUBSET Item, found : BOOLEAN]
    BY <2>1 DEF TypeOK, StoreOK
  <2> DEFINE k == relate.ends[2]
             more == IF row[k].status = "draft" THEN relate.drafts \cup {k} ELSE relate.drafts
  <2>3. CASE Present(k) /\ cast[k].own
    <3>1. relate' = [relate EXCEPT !.found = TRUE,
                                   !.drafts = IF row[k].status = "draft" THEN @ \cup {k} ELSE @]
      BY <1>6, <2>3 DEF FindTarget
    <3>2. relate'.ends = relate.ends /\ relate'.drafts = more
      BY <2>2, <3>1
    <3>3. Told(relate.ends[1], relate.drafts)
      BY <2>1 DEF Warned
    <3>4. Told(relate.ends[1], more) /\ Told(k, more)
      BY <2>3, <3>3 DEF Told, IsDraft
    <3>5. row' = row
      BY <2>1
    <3> HIDE DEF more
    <3>6. Running'
      BY <3>2, <3>4, <3>5 DEF Told, Present, IsDraft
    <3>7. QED
      BY <1>2, <2>1, <3>6 DEF Warned
  <2>4. CASE ~(Present(k) /\ cast[k].own)
    <3>1. relate' = None
      BY <1>6, <2>4 DEF FindTarget
    <3>2. QED
      BY <1>2, <2>1, <3>1 DEF Warned
  <2>5. QED
    BY <2>3, <2>4
<1>7. CASE StoreRelation
  <2>1. /\ relate # None /\ relate.found /\ relate' = None /\ row' = row
        /\ relation' = [relation EXCEPT ![relate.ends] =
                          [updated |-> changes + 2, warned |-> relate.drafts]]
    BY <1>7 DEF StoreRelation
  <2>2. \A p \in Item \X Item \ {relate.ends} : relation'[p] = relation[p]
    BY <2>1 DEF TypeOK, StoreOK
  <2>3. relation'[relate.ends].warned = relate.drafts
    BY <1>1, <2>1 DEF TypeOK, StoreOK
  <2>4. Told(relate.ends[1], relate.drafts) /\ Told(relate.ends[2], relate.drafts)
    BY <2>1 DEF Warned
  <2>5. Relations1'
    BY <2>1, <2>2, <2>3, <2>4 DEF Warned, Told, Present, IsDraft
  <2>6. QED
    BY <2>1, <2>5 DEF Warned
<1>8. QED
  BY <1>4, <1>5, <1>6, <1>7 DEF Next, Ask, Read, Serve, Remember, Revise, vars, store

-----------------------------------------------------------------------------
(* What a reply says stays true.                                           *)
LEMMA FitsStays ==
  ASSUME TypeOK, [Next]_vars, NEW q, NEW a, Fits(q, a)
  PROVE  Fits(q, a)'
<1>1. /\ \A i \in Item : NoDraft(i) => NoDraft(i)'
      /\ \A i : TypeOf(i)' = TypeOf(i)
  BY Monotone DEF Keeps, TypeOf
<1>2. RowsFit(q, a) => RowsFit(q, a)'
  BY <1>1 DEF RowsFit, RowRec
<1>3. LinksFit(q, a) => LinksFit(q, a)'
  BY <1>1 DEF LinksFit
<1>4. QED
  BY <1>2, <1>3 DEF Fits

LEMMA RepliesFitStep ==
  ASSUME TypeOK, Warned, RepliesFit, [Next]_vars PROVE RepliesFit'
<1>1. ASSUME plan' = plan, got' = got PROVE RepliesFit'
  <2>1. ASSUME NEW k \in 1..Len(got) PROVE Fits(plan[k], got[k])'
    <3>1. Fits(plan[k], got[k])
      BY DEF RepliesFit
    <3>2. QED
      BY <1>1, <3>1, FitsStays
  <2>2. QED
    BY <1>1, <2>1 DEF RepliesFit
<1>2. CASE Read
  <2>1. Len(got) \in Nat /\ Len(got') = Len(got) + 1
    BY <1>2, ReadFacts, LenProperties DEF TypeOK, ReaderOK
  <2>2. ASSUME NEW k \in 1..Len(got') PROVE Fits(plan[k], got[k])'
    <3>1. plan'[k] = plan[k]
      BY <1>2, ReadFacts
    <3>2. CASE k \in 1..Len(got)
      BY <1>2, <3>1, <3>2, ReadFacts, FitsStays DEF RepliesFit
    <3>3. CASE k = Len(got) + 1
      <4>1. Fits(plan[k], Reply(plan[k])) /\ got'[k] = Reply(plan[k])
        BY <1>2, <3>3, ReadFacts, ReplyFits
      <4>2. QED
        BY <3>1, <4>1, FitsStays
    <3>4. QED
      BY <2>1, <3>2, <3>3
  <2>3. QED
    BY <2>2 DEF RepliesFit
<1>3. ASSUME NEW s \in Asked, Ask(s) PROVE RepliesFit'
  <2>1. got' = <<>>
    BY <1>3 DEF Ask, TypeOK, ReaderOK
  <2>2. QED
    BY <2>1 DEF RepliesFit
<1>4. QED
  BY <1>1, <1>2, <1>3 DEF Next, Serve, Remember, Revise, FindEnds, FindTarget, StoreRelation,
                          Commits, reader, vars

LEMMA ReportsFitStep ==
  ASSUME TypeOK, RepliesFit, ReportsFit, [Next]_vars PROVE ReportsFit'
<1>1. \A i \in Item : NoDraft(i) => NoDraft(i)'
  BY Monotone DEF Keeps
<1>2. \A w \in written : w.rows \in SUBSET RowRec /\ w.relations \in SUBSET (Item \X Item)
  BY DEF TypeOK, ReaderOK
<1>3. CASE Serve
  <2>1. written' \subseteq written \cup {DailyReport}
    BY <1>3 DEF Serve
  <2>2. \A w \in {DailyReport} :
          /\ w.rows \in SUBSET RowRec /\ w.relations \in SUBSET (Item \X Item)
          /\ \A r \in w.rows : NoDraft(r.id)
          /\ \A p \in w.relations : NoDraft(p[1]) /\ NoDraft(p[2])
    BY <1>3, ReportFacts DEF Serve
  <2>3. QED
    BY <1>1, <1>2, <2>1, <2>2 DEF ReportsFit, RowRec
<1>4. CASE written' = written
  BY <1>1, <1>2, <1>4 DEF ReportsFit, RowRec
<1>5. QED
  BY <1>3, <1>4 DEF Next, Ask, Read, Remember, Revise, FindEnds, FindTarget, StoreRelation,
                    Commits, reader, vars

-----------------------------------------------------------------------------
(* What is watched stays watched as long as it is there and active.        *)
LEMMA AliveStep ==
  ASSUME TypeOK, AliveOK, [Next]_vars PROVE AliveOK'
<1>1. ASSUME UNCHANGED <<cast, row, surface, alive>> PROVE AliveOK'
  BY <1>1 DEF AliveOK, Active, Present, TypeOf
<1>2. ASSUME NEW s \in Asked, Ask(s) PROVE AliveOK'
  <2>1. /\ row' = row /\ cast' = cast /\ surface' = s
        /\ alive' = {i \in Item : Active(i) /\ (s \in {"handoff", "context"} => row[i].updated >= 1)}
    BY <1>2 DEF Ask, store
  <2>2. QED
    BY <2>1 DEF AliveOK, Active, Present, TypeOf
<1>3. ASSUME NEW j \in Item, Remember(j) PROVE AliveOK'
  <2>1. /\ ~Present(j) /\ cast' = cast /\ surface' = surface /\ alive' = alive
        /\ alive \in SUBSET Item
    BY <1>3 DEF Remember, Commits, reader, TypeOK, StoreOK
  <2>2. \A i \in Item \ {j} : row'[i] = row[i]
    BY <1>3, RememberFacts, StoredFacts
  <2>3. j \notin alive
    BY <2>1 DEF AliveOK, Active
  <2>4. QED
    BY <2>1, <2>2, <2>3 DEF AliveOK, Active, Present, TypeOf
<1>4. ASSUME NEW j \in Item, Revise(j) PROVE AliveOK'
  <2>1. PICK s \in Statuses[TypeOf(j)] \ {"draft"} :
          /\ Stored(j, s)
          /\ alive' = IF s \in Inactive[TypeOf(j)] THEN alive \ {j} ELSE alive
    BY <1>4 DEF Revise
  <2>2. cast' = cast /\ surface' = surface /\ alive \in SUBSET Item /\ changes \in Nat
    BY <1>4 DEF Revise, Commits, reader, TypeOK, StoreOK
  <2>3. /\ row'[j] # None /\ row'[j].status = s /\ row'[j].updated = changes + 2
        /\ \A i \in Item \ {j} : row'[i] = row[i]
    BY <2>1, StoredFacts
  <2>4. ASSUME NEW i \in alive' PROVE (Active(i) /\ (surface \in {"handoff", "context"} => row[i].updated >= 1))'
    <3>1. CASE i = j
      BY <2>1, <2>2, <2>3, <2>4, <3>1 DEF Active, Present, TypeOf
    <3>2. CASE i # j
      BY <2>1, <2>2, <2>3, <2>4, <3>2 DEF AliveOK, Active, Present, TypeOf
    <3>3. QED
      BY <3>1, <3>2
  <2>5. QED
    BY <2>4 DEF AliveOK
<1>5. QED
  BY <1>1, <1>2, <1>3, <1>4 DEF Next, Read, Serve, FindEnds, FindTarget, StoreRelation,
                                Commits, reader, vars, store

(* The lists that a watched memory must be in.                             *)
LEMMA ListForms ==
  ASSUME NEW q \in Sent(surface, about), ListsAll(q) \/ q.part = "recent", q.type \in Type
  PROVE  /\ q.how = "rows" /\ ~q.matching /\ ~q.lacking /\ q.of = None
         /\ q.part # "recent" => q.shown = AgentShown
         /\ q.part = "recent" => q.shown = PrepareShown
         /\ q.since = 0 \/ (q.since = 1 /\ surface \in {"handoff", "context"})
<1>1. q.part \in Part /\ q.type \in TypesOf(q.part) /\ q = Form(surface, about, q.part, q.type)
  BY SentForms
<1>2. CASE q.part = "list"
  <2>1. q = Limited(List("list", q.type, AgentShown), q.type, surface)
    BY <1>1, <1>2 DEF Form, AllTypes
  <2>2. QED
    BY <1>2, <2>1 DEF Limited, List, Query
<1>3. CASE q.part = "recent"
  <2>1. q = Limited(RecentRows(q.type), q.type, surface)
    BY <1>1, <1>3 DEF Form, AllTypes
  <2>2. QED
    BY <1>3, <2>1 DEF Limited, RecentRows, List, Query
<1>4. CASE q.part = "snapshot" /\ surface \in {"handoff", "context"}
  <2>1. q.type # "all" /\ ~IsDaily(surface, "snapshot")
    BY <1>4, PartFacts DEF IsDaily
  <2>2. q = Recent("snapshot", q.type, AgentShown)
    BY <1>1, <1>4, <2>1 DEF Form, AllTypes
  <2>3. QED
    BY <1>4, <2>2 DEF Recent, List, Query
<1>5. QED
  BY <1>2, <1>3, <1>4 DEF ListsAll

LEMMA WatchedFacts ==
  ASSUME TypeOK, AliveOK, NEW t \in Type, NEW i \in Watched(t)
  PROVE  /\ i \in Item /\ Present(i) /\ cast[i].own /\ TypeOf(i) = t
         /\ row[i].status \in PrepareShown[t]
         /\ ~IsDraft(i) => row[i].status \in AgentShown[t]
         /\ row[i].updated \in Nat
         /\ surface \in {"handoff", "context"} => row[i].updated >= 1
<1>1. i \in Item /\ i \in alive /\ cast[i].own /\ TypeOf(i) = t
  BY DEF Watched, TypeOK, StoreOK
<1>2. Present(i) /\ row[i].status \notin Inactive[t] /\ row[i].status \in Statuses[t]
  BY <1>1, RowFacts DEF AliveOK, Active
<1>3. QED
  BY <1>1, <1>2, RowFacts, StatusFacts DEF AliveOK, IsDraft

(* A list of this moment has every memory watched, unless it is full.      *)
LEMMA ListComplete ==
  ASSUME TypeOK, AliveOK, NEW q \in Sent(surface, about), ListsAll(q) \/ q.part = "recent",
         q.type \in Type, NEW S \in SUBSET Watched(q.type),
         q.part # "recent" => \A i \in S : ~IsDraft(i)
  PROVE  Complete(q, Reply(q), S)
<1>1. /\ q.how = "rows" /\ ~q.matching /\ ~q.lacking /\ q.of = None
      /\ q.part # "recent" => q.shown = AgentShown
      /\ q.part = "recent" => q.shown = PrepareShown
      /\ q.since = 0 \/ (q.since = 1 /\ surface \in {"handoff", "context"})
  BY ListForms
<1>2. q.limit \in Nat /\ Reply(q) = Rows(q)
  BY <1>1, SentForms DEF Reply
<1>3. ASSUME NEW i \in S PROVE i \in Found(q)
  <2>1. i \in Watched(q.type)
    OBVIOUS
  <2>2. QED
    BY <1>1, <2>1, WatchedFacts DEF Found, Matches
<1>4. QED
  BY <1>2, <1>3, RowsReply DEF Complete

(* Memories only leave what is watched while an answer is put together.    *)
LEMMA BeyondStays ==
  ASSUME TypeOK, AliveOK, [Next]_vars,
         UNCHANGED <<plan, got, surface>>, alive' \in SUBSET alive,
         NEW k \in 1..Len(got), plan[k].type \in Type, NEW D
  PROVE  /\ Complete(plan[k], got[k], Watched(plan[k].type)) =>
              Complete(plan[k], got[k], Watched(plan[k].type))'
         /\ Beyond(k, D) => Beyond(k, D)'
<1> DEFINE t == plan[k].type
<1>1. cast' = cast /\ \A i \in Item : Keeps(i)
  BY Monotone
<1>2. Watched(t)' \in SUBSET Watched(t)
  BY <1>1 DEF Watched, TypeOf
<1>3. \A S, T : \A j \in 1..Len(got) :
        T \subseteq S /\ Complete(plan[j], got[j], S) => Complete(plan[j], got[j], T)
  BY DEF Complete
<1>4. \A i \in Watched(t) : ~IsDraft(i) => ~IsDraft(i)'
  BY <1>1, WatchedFacts DEF Keeps, NoDraft
<1>5. Complete(plan[k], got[k], Watched(t)) => Complete(plan[k], got[k], Watched(t))'
  BY <1>2 DEF Complete
<1>6. ASSUME Beyond(k, D) PROVE Beyond(k, D)'
  <2>1. \A i \in (Watched(t) \ D)' : ~IsDraft(i)'
    BY <1>2, <1>4, <1>6 DEF Beyond
  <2>2. ASSUME NEW j \in (k + 1)..Len(got), ListsAll(plan[j]), plan[j].type = t
        PROVE  Complete(plan[j], got[j], Watched(t) \ D)'
    <3>1. Complete(plan[j], got[j], Watched(t) \ D)
      BY <1>6, <2>2 DEF Beyond
    <3>2. QED
      BY <1>2, <3>1 DEF Complete
  <2>3. QED
    BY <2>1, <2>2 DEF Beyond, ListsAll
<1>7. QED
  BY <1>5, <1>6

LEMMA LostForms ==
  ASSUME NEW q \in Sent(surface, about), q.part \in {"recent", "drafts", "inbox"}
  PROVE  /\ q.type \in Type
         /\ q.part = "drafts" => q = Query("count", "drafts", q.type, Only("draft"))
         /\ q.part = "inbox" => q = Query("rows", "inbox", q.type, Only("draft"))
<1>1. q.type \in TypesOf(q.part) /\ q = Form(surface, about, q.part, q.type)
  BY SentForms
<1>2. q.type \in Type
  BY <1>1, PartFacts DEF ByType, Listed
<1>3. q.part = "drafts" => q = Query("count", "drafts", q.type, Only("draft"))
  BY <1>1 DEF Form, AllTypes
<1>4. q.part = "inbox" => q = Query("rows", "inbox", q.type, Only("draft"))
  BY <1>1 DEF Form, AllTypes
<1>5. QED
  BY <1>2, <1>3, <1>4

(* All drafts of a type, as counted or as listed.                          *)
LEMMA DraftsFound ==
  ASSUME TypeOK, AliveOK, NEW q \in Sent(surface, about), q.part \in {"drafts", "inbox"}
  PROVE  /\ \A i \in Watched(q.type) : IsDraft(i) => i \in Found(q)
         /\ q.part = "drafts" => Cardinality(Found(q)) <= Reply(q) /\ Found(q) \in SUBSET Item
         /\ q.part = "inbox" => Ids(Reply(q)) = Found(q)
<1>1. q.type \in Type /\ q.limit \in Nat
  BY LostForms, SentForms
<1>2. \A t \in Type : Only("draft")[t] = {"draft"}
  BY DEF Only
<1>3. /\ q.shown = Only("draft") /\ q.since = 0 /\ ~q.matching /\ ~q.lacking /\ q.of = None
      /\ q.how = (IF q.part = "drafts" THEN "count" ELSE "rows") /\ q.limit = All
  BY LostForms DEF Query
<1>4. \A i \in Watched(q.type) : IsDraft(i) => i \in Found(q)
  BY <1>1, <1>2, <1>3, WatchedFacts DEF Found, Matches, IsDraft
<1>5. q.part = "drafts" => Cardinality(Found(q)) <= Reply(q) /\ Found(q) \in SUBSET Item
  BY <1>3, Numbers DEF Reply, Found
<1>6. ASSUME q.part = "inbox" PROVE Ids(Reply(q)) = Found(q)
  <2>1. Reply(q) = Rows(q)
    BY <1>3, <1>6 DEF Reply
  <2>2. Items < All
    <3>1. Items \in Nat /\ All = Items * Items + 1
      BY NumberFacts DEF All
    <3>2. Items * Items >= Items
      BY <3>1
    <3>3. QED
      BY <3>1, <3>2
  <2>3. Cardinality(Rows(q)) \in 0..Items /\ Items \in Nat /\ All \in Nat
    BY <1>1, RowsReply, NumberFacts
  <2>4. QED
    BY <1>1, <1>3, <2>1, <2>2, <2>3, RowsReply
<1>7. QED
  BY <1>4, <1>5, <1>6

(* The next reply keeps that.                                              *)
LEMMA ReadBeyond ==
  ASSUME TypeOK, AliveOK, Read, NEW k \in 1..Len(got'), plan[k].type \in Type, NEW D,
         k \in 1..Len(got) => Beyond(k, D),
         k = Len(got) + 1 => \A i \in Watched(plan[k].type) : IsDraft(i) => i \in D
  PROVE  Beyond(k, D)'
<1> DEFINE n == Len(got) + 1
           t == plan[k].type
           rest == Watched(t) \ D
<1>1. UNCHANGED <<cast, row, surface, alive>> /\ Len(got) \in Nat /\ Len(got') = n
  BY ReadFacts, LenProperties DEF Read, store, TypeOK, ReaderOK
<1>2. /\ n \in 1..Len(plan) /\ plan[n] \in Sent(surface, about) /\ got'[n] = Reply(plan[n])
      /\ \A j \in 1..Len(got) : got'[j] = got[j]
      /\ \A j \in 1..n : plan'[j] = plan[j]
  BY <1>1, ReadFacts
<1>3. \A i \in rest : ~IsDraft(i)
  BY <1>1 DEF Beyond
<1>4. ASSUME NEW j \in (k + 1)..n, ListsAll(plan[j]), plan[j].type = t
      PROVE  Complete(plan[j], got'[j], rest)
  <2>1. CASE j = n
    <3>1. Complete(plan[n], Reply(plan[n]), rest)
      BY <1>2, <1>3, <1>4, <2>1, ListComplete
    <3>2. QED
      BY <1>2, <2>1, <3>1
  <2>2. CASE j # n
    <3>1. j \in (k + 1)..Len(got) /\ k \in 1..Len(got) /\ j \in 1..Len(got)
      BY <1>1, <2>2
    <3>2. Complete(plan[j], got[j], rest)
      BY <1>4, <3>1 DEF Beyond
    <3>3. QED
      BY <1>2, <3>1, <3>2
  <2>3. QED
    BY <2>1, <2>2
<1>6. plan'[k] = plan[k]
  BY <1>1, <1>2
<1>7. \A i : IsDraft(i)' = IsDraft(i)
  BY <1>1 DEF IsDraft
<1>8. \A j \in (k + 1)..n : plan'[j] = plan[j] /\ (ListsAll(plan[j])' <=> ListsAll(plan[j]))
  BY <1>1, <1>2 DEF ListsAll
<1>9. (Watched(plan[k].type) \ D)' = rest
  BY <1>1, <1>6 DEF Watched, TypeOf
<1> HIDE DEF rest
<1>10. QED
  BY <1>1, <1>3, <1>4, <1>6, <1>7, <1>8, <1>9 DEF Beyond

LEMMA NothingLostStep ==
  ASSUME TypeOK, AliveOK, NothingLost, [Next]_vars PROVE NothingLost'
<1>0. \A k \in 1..Len(got) : plan[k] \in Sent(surface, about)
  BY LenProperties DEF TypeOK, ReaderOK
<1>1. ASSUME UNCHANGED <<plan, got, surface>>, alive' \in SUBSET alive PROVE NothingLost'
  <2> SUFFICES ASSUME NEW k \in 1..Len(got)
      PROVE  /\ plan[k].part = "recent" => Complete(plan[k], got[k], Watched(plan[k].type))'
             /\ plan[k].part = "drafts" =>
                  \E D \in SUBSET Item : Cardinality(D) <= got[k] /\ Beyond(k, D)'
             /\ plan[k].part = "inbox" => Beyond(k, Ids(got[k]))'
    BY <1>1 DEF NothingLost
  <2>1. plan[k].part \in {"recent", "drafts", "inbox"} => plan[k].type \in Type
    BY <1>0, LostForms
  <2>2. ASSUME plan[k].part = "recent" PROVE Complete(plan[k], got[k], Watched(plan[k].type))'
    BY <1>1, <2>1, <2>2, BeyondStays DEF NothingLost
  <2>3. ASSUME plan[k].part = "drafts"
        PROVE  \E D \in SUBSET Item : Cardinality(D) <= got[k] /\ Beyond(k, D)'
    <3>1. PICK D \in SUBSET Item : Cardinality(D) <= got[k] /\ Beyond(k, D)
      BY <2>3 DEF NothingLost
    <3>2. QED
      BY <1>1, <2>1, <2>3, <3>1, BeyondStays
  <2>4. ASSUME plan[k].part = "inbox" PROVE Beyond(k, Ids(got[k]))'
    <3>1. PICK D : D = Ids(got[k]) /\ Beyond(k, D)
      BY <2>4 DEF NothingLost
    <3>2. Beyond(k, D)'
      BY <1>1, <2>1, <2>4, <3>1, BeyondStays
    <3>3. Ids(got[k])' = D
      BY <1>1, <3>1 DEF Ids
    <3>4. QED
      BY <3>2, <3>3 DEF Beyond
  <2>5. QED
    BY <2>2, <2>3, <2>4
<1>2. ASSUME NEW s \in Asked, Ask(s) PROVE NothingLost'
  <2>1. got' = <<>>
    BY <1>2 DEF Ask, TypeOK, ReaderOK
  <2>2. QED
    BY <2>1 DEF NothingLost
<1>3. CASE Read
  <2> DEFINE n == Len(got) + 1
  <2>1. UNCHANGED <<cast, alive>> /\ Len(got) \in Nat /\ Len(got') = n
    BY <1>3, ReadFacts, LenProperties DEF Read, TypeOK, ReaderOK
  <2>2. /\ n \in 1..Len(plan) /\ plan[n] \in Sent(surface, about) /\ got'[n] = Reply(plan[n])
        /\ \A j \in 1..Len(got) : got'[j] = got[j]
        /\ \A j \in 1..n : plan'[j] = plan[j]
    BY <1>3, <2>1, ReadFacts
  <2>3. ASSUME NEW k \in 1..n PROVE plan[k] \in Sent(surface, about)
    BY <1>0, <2>1, <2>2
  <2>4. ASSUME NEW k \in 1..n, plan[k].part \in {"recent", "drafts", "inbox"}
        PROVE  plan[k].type \in Type
    BY <2>3, <2>4, LostForms
  <2>5. ASSUME NEW k \in 1..n, plan[k].part = "recent"
        PROVE  Complete(plan[k], got'[k], Watched(plan[k].type))
    <3>1. CASE k = n
      BY <2>2, <2>4, <2>5, <3>1, ListComplete
    <3>2. CASE k # n
      BY <2>1, <2>2, <2>5, <3>2 DEF NothingLost
    <3>3. QED
      BY <3>1, <3>2
  <2>6. ASSUME NEW k \in 1..n, plan[k].part = "drafts"
        PROVE  \E D \in SUBSET Item : Cardinality(D) <= got'[k] /\ Beyond(k, D)'
    <3>1. CASE k = n
      <4>1. PICK D \in SUBSET Item : /\ Cardinality(D) <= got'[k]
                                    /\ \A i \in Watched(plan[k].type) : IsDraft(i) => i \in D
        BY <2>2, <2>6, <3>1, DraftsFound
      <4>2. k \notin 1..Len(got)
        BY <2>1, <3>1
      <4>3. Beyond(k, D)'
        BY <1>3, <2>1, <2>4, <2>6, <4>1, <4>2, ReadBeyond
      <4>4. QED
        BY <4>1, <4>3
    <3>2. CASE k # n
      <4>1. k \in 1..Len(got)
        BY <2>1, <3>2
      <4>2. PICK D \in SUBSET Item : Cardinality(D) <= got[k] /\ Beyond(k, D)
        BY <2>6, <4>1 DEF NothingLost
      <4>3. Beyond(k, D)'
        BY <1>3, <2>1, <2>4, <2>6, <3>2, <4>2, ReadBeyond
      <4>4. QED
        BY <2>2, <4>1, <4>2, <4>3
    <3>3. QED
      BY <3>1, <3>2
  <2>7. ASSUME NEW k \in 1..n, plan[k].part = "inbox"
        PROVE  Beyond(k, Ids(got[k]))'
    <3>1. PICK D : /\ D = Ids(got'[k])
                   /\ k \in 1..Len(got) => Beyond(k, D)
                   /\ k = n => \A i \in Watched(plan[k].type) : IsDraft(i) => i \in D
      <4>1. CASE k = n
        <5>1. k \notin 1..Len(got)
          BY <2>1, <4>1
        <5>2. QED
          BY <2>2, <2>7, <4>1, <5>1, DraftsFound
      <4>2. CASE k # n
        <5>1. k \in 1..Len(got)
          BY <2>1, <4>2
        <5>2. QED
          BY <2>2, <2>7, <4>2, <5>1 DEF NothingLost
      <4>3. QED
        BY <4>1, <4>2
    <3>2. Beyond(k, D)'
      BY <1>3, <2>1, <2>4, <2>7, <3>1, ReadBeyond
    <3>3. Ids(got[k])' = D
      BY <3>1 DEF Ids
    <3>4. QED
      BY <3>2, <3>3 DEF Beyond
  <2>8. ASSUME NEW k \in 1..n, plan[k].part = "recent"
        PROVE  Complete(plan[k], got[k], Watched(plan[k].type))'
    BY <2>1, <2>2, <2>5, <2>8 DEF Complete, Watched, TypeOf
  <2>9. QED
    BY <2>1, <2>2, <2>6, <2>7, <2>8 DEF NothingLost
<1>4. ASSUME NEW i \in Item, Remember(i) \/ Revise(i) PROVE NothingLost'
  BY <1>1, <1>4 DEF Remember, Revise, Commits, reader
<1>5. QED
  BY <1>1, <1>2, <1>3, <1>4 DEF Next, Serve, FindEnds, FindTarget, StoreRelation,
                                Commits, reader, vars

-----------------------------------------------------------------------------
(***************************************************************************)
(* What the answers make of the replies.                                   *)
(***************************************************************************)
OneEach(rs) == \A r, s \in rs : r.id = s.id => r = s

LEMMA IdsCount ==
  ASSUME NEW rs, IsFiniteSet(rs), OneEach(rs)
  PROVE  IsFiniteSet(Ids(rs)) /\ Cardinality(Ids(rs)) = Cardinality(rs)
<1> DEFINE f == [r \in rs |-> r.id]
<1>1. f \in Bijection(rs, Ids(rs))
  <2>1. f \in [rs -> Ids(rs)]
    BY DEF Ids
  <2>2. \A r, s \in rs : f[r] = f[s] => r = s
    BY DEF OneEach
  <2>3. \A i \in Ids(rs) : \E r \in rs : f[r] = i
    BY DEF Ids
  <2>4. QED
    BY <2>1, <2>2, <2>3 DEF Bijection, Injection, Surjection, IsInjective
<1>2. QED
  BY <1>1, FS_Bijection DEF ExistsBijection

LEMMA NewestCut ==
  ASSUME NEW rs \in SUBSET RowRec, IsFiniteSet(rs), OneEach(rs), NEW n \in Nat
  PROVE  /\ Newest(rs, n) \in SUBSET rs /\ IsFiniteSet(Newest(rs, n))
         /\ Cardinality(Newest(rs, n)) \in 0..n
         /\ Cardinality(Newest(rs, n)) = n \/ Newest(rs, n) = rs
         /\ \A r \in Newest(rs, n), s \in rs \ Newest(rs, n) : Later(r, s)
<1> DEFINE R == {e \in rs \X rs : Later(e[1], e[2])}
<1>1. \A r \in rs : r.updated \in Nat /\ r.id \in Nat
  BY NumberFacts DEF RowRec, Item
<1>2. \A r, s \in rs : <<r, s>> \in R <=> Later(r, s)
  OBVIOUS
<1> HIDE DEF R
<1>3. StrictOrder(R, rs)
  <2>1. \A r \in rs : <<r, r>> \notin R
    BY <1>1, <1>2 DEF Later
  <2>2. \A r, s, q \in rs : <<r, s>> \in R /\ <<s, q>> \in R => <<r, q>> \in R
    BY <1>1, <1>2 DEF Later
  <2>3. ASSUME NEW r \in rs, NEW s \in rs PROVE r = s \/ <<r, s>> \in R \/ <<s, r>> \in R
    <3>1. r.id = s.id => r = s
      BY DEF OneEach
    <3>2. r.id > s.id \/ r.id = s.id \/ s.id > r.id
      BY <1>1
    <3>3. r.updated > s.updated \/ r.updated = s.updated \/ s.updated > r.updated
      BY <1>1
    <3>4. QED
      BY <1>2, <3>1, <3>2, <3>3 DEF Later
  <2>4. QED
    BY <2>1, <2>2, <2>3 DEF StrictOrder
<1>4. Newest(rs, n) = FirstOf(R, rs, n)
  <2>1. \A r \in rs : {s \in rs : Later(s, r)} = Ahead(R, rs, r)
    BY <1>2 DEF Ahead
  <2>2. QED
    BY <2>1 DEF Newest, FirstOf
<1>5. FirstOf(R, rs, n) \in SUBSET rs
  BY DEF FirstOf
<1>6. ASSUME NEW r \in FirstOf(R, rs, n), NEW s \in rs \ FirstOf(R, rs, n) PROVE Later(r, s)
  <2>1. <<r, s>> \in R
    BY <1>3, CutFirst
  <2>2. QED
    BY <1>2, <1>5, <2>1
<1>7. QED
  BY <1>3, <1>4, <1>5, <1>6, Cut

(* The packet of one type: never longer than its limit, one row for each   *)
(* memory, and nothing is left out before it is full.                      *)
LEMMA Fills ==
  ASSUME NEW primary \in SUBSET RowRec, IsFiniteSet(primary), OneEach(primary),
         NEW fallback \in SUBSET RowRec, IsFiniteSet(fallback), OneEach(fallback),
         NEW n \in Nat, Cardinality(primary) <= n
  PROVE  LET P == Fill(primary, fallback, n)
         IN /\ P \in SUBSET (primary \cup fallback) /\ primary \in SUBSET P
            /\ IsFiniteSet(P) /\ OneEach(P) /\ Cardinality(P) \in 0..n
            /\ Cardinality(P) = n \/ Ids(fallback) \in SUBSET Ids(P)
            /\ \A r \in P \ primary :
                 /\ r \in fallback /\ r.id \notin Ids(primary) /\ Cardinality(primary) < n
                 /\ \A s \in fallback : s.id \notin Ids(P) => Later(r, s)
<1> DEFINE rest == {r \in fallback : r.id \notin Ids(primary)}
           m == n - Cardinality(primary)
           new == Newest(rest, m)
           P == primary \cup new
<1>1. Cardinality(primary) \in Nat /\ m \in Nat
  BY FS_CardinalityType
<1>2. rest \in SUBSET RowRec /\ IsFiniteSet(rest) /\ OneEach(rest) /\ rest \in SUBSET fallback
  BY FS_Subset DEF OneEach
<1>3. /\ new \in SUBSET rest /\ IsFiniteSet(new) /\ Cardinality(new) \in 0..m
      /\ Cardinality(new) = m \/ new = rest
      /\ \A r \in new, s \in rest \ new : Later(r, s)
  <2> HIDE DEF rest, m
  <2>1. QED
    BY <1>1, <1>2, NewestCut
<1> HIDE DEF new
<1>4. primary \cap new = {} /\ \A r \in primary, s \in new : r.id # s.id
  BY <1>3 DEF Ids
<1>5. IsFiniteSet(P) /\ Cardinality(P) = Cardinality(primary) + Cardinality(new)
  <2>1. IsFiniteSet(P) /\ Cardinality(P) =
          Cardinality(primary) + Cardinality(new) - Cardinality(primary \cap new)
    BY <1>3, FS_Union
  <2>2. Cardinality(primary \cap new) = 0
    BY <1>4, FS_EmptySet
  <2>3. QED
    BY <1>1, <1>3, <2>1, <2>2
<1>6. OneEach(P)
  BY <1>2, <1>3, <1>4 DEF OneEach
<1>7. Cardinality(P) \in 0..n /\ (Cardinality(new) = m => Cardinality(P) = n)
  BY <1>1, <1>3, <1>5
<1>8. new = rest => Ids(fallback) \in SUBSET Ids(P)
  <2>1. ASSUME new = rest, NEW r \in fallback PROVE r.id \in Ids(P)
    BY <2>1 DEF Ids
  <2>2. QED
    BY <2>1 DEF Ids
<1>9. Fill(primary, fallback, n) = P
  BY DEF Fill, new
<1>10. P \in SUBSET (primary \cup fallback) /\ primary \in SUBSET P
  BY <1>2, <1>3
<1>11. ASSUME NEW r \in P \ primary
       PROVE  /\ r \in fallback /\ r.id \notin Ids(primary) /\ Cardinality(primary) < n
              /\ \A s \in fallback : s.id \notin Ids(P) => Later(r, s)
  <2>1. r \in new /\ r \in rest
    BY <1>3, <1>11
  <2>2. Cardinality(new) # 0
    BY <1>3, <2>1, FS_EmptySet
  <2>3. Cardinality(primary) < n
    BY <1>1, <1>3, <2>2
  <2>4. ASSUME NEW s \in fallback, s.id \notin Ids(P) PROVE Later(r, s)
    <3>1. s \notin new /\ s.id \notin Ids(primary)
      BY <2>4 DEF Ids
    <3>2. QED
      BY <1>3, <2>1, <3>1
  <2>5. QED
    BY <2>1, <2>3, <2>4
<1> HIDE DEF P
<1>12. QED
  BY <1>3, <1>5, <1>6, <1>7, <1>8, <1>9, <1>10, <1>11

(* The packet, once all replies are there.                                 *)
Packet == surface \in {"prepare", "agent_context"}

LEMMA PacketForms ==
  ASSUME NEW p \in {"match", "recent"}, NEW t \in Type, surface # "brief"
  PROVE  LET q == Form(surface, about, p, t)
         IN q.how = "rows" /\ q.type = t /\ q.limit = PacketLimit(t) /\ q.shown = PrepareShown
<1> DEFINE q == Form(surface, about, p, t)
<1>1. CASE p = "match"
  <2>1. q = Limited(TaskMatch(t), t, surface)
    BY <1>1 DEF Form, AllTypes
  <2>2. QED
    BY <2>1 DEF Limited, TaskMatch, List, Query, PacketLimit
<1>2. CASE p = "recent"
  <2>1. q = Limited(RecentRows(t), t, surface)
    BY <1>2 DEF Form, AllTypes
  <2>2. QED
    BY <2>1 DEF Limited, RecentRows, List, Query, PacketLimit
<1>3. QED
  BY <1>1, <1>2

LEMMA LimitFacts ==
  ASSUME NEW t PROVE PacketLimit(t) \in Nat
BY NumberFacts DEF PacketLimit

LEMMA PacketFacts ==
  ASSUME TypeOK, RepliesFit, Len(got) = Len(plan), Packet, NEW t \in Type
  PROVE  /\ PacketRows(t) \in SUBSET (Got("match", t) \cup Got("recent", t))
         /\ PacketRows(t) \in SUBSET RowRec /\ IsFiniteSet(PacketRows(t))
         /\ OneEach(PacketRows(t)) /\ Cardinality(PacketRows(t)) \in 0..PacketLimit(t)
         /\ \A r \in PacketRows(t) : r.status # "draft" => NoDraft(r.id)
         /\ t \notin {"risk", "open_question"} => Got("match", t) \in SUBSET PacketRows(t)
         /\ OneEach(Got("recent", t)) /\ IsFiniteSet(Got("recent", t))
         /\ Cardinality(PacketRows(t)) = PacketLimit(t) \/ Ids(Got("recent", t)) \in SUBSET Ids(PacketRows(t))
<1>1. surface # "brief" /\ {"match", "recent"} \in SUBSET Part
      /\ (\A p \in {"match", "recent"} : t \in TypesOf(p))
  BY PartFacts DEF Packet, Listed
<1>2. ASSUME NEW p \in {"match", "recent"}
      PROVE  /\ Got(p, t) \in SUBSET RowRec /\ IsFiniteSet(Got(p, t)) /\ OneEach(Got(p, t))
             /\ Cardinality(Got(p, t)) \in 0..PacketLimit(t)
             /\ \A r \in Got(p, t) : r.status # "draft" => NoDraft(r.id)
  <2>1. CASE Got(p, t) = {}
    BY <2>1, LimitFacts, FS_EmptySet DEF OneEach
  <2>2. CASE Got(p, t) # {}
    <3>1. Fits(Form(surface, about, p, t), Got(p, t))
      BY <1>1, <2>2, GotFits
    <3>2. RowsFit(Form(surface, about, p, t), Got(p, t))
      BY <1>1, <3>1, PacketForms DEF Fits
    <3>3. Cardinality(Got(p, t)) <= PacketLimit(t)
      BY <1>1, <3>2, PacketForms DEF RowsFit
    <3>4. QED
      BY <3>2, <3>3, LimitFacts, FS_CardinalityType DEF RowsFit, OneEach
  <2>3. QED
    BY <2>1, <2>2
<1>3. CASE t \in {"risk", "open_question"}
  <2>1. PacketRows(t) = Got("recent", t)
    BY <1>3 DEF PacketRows
  <2>2. QED
    BY <1>2, <1>3, <2>1
<1>4. CASE t \notin {"risk", "open_question"}
  <2>1. PacketRows(t) = Fill(Got("match", t), Got("recent", t), PacketLimit(t))
    BY <1>4 DEF PacketRows
  <2> DEFINE A == Got("match", t)
             B == Got("recent", t)
             n == PacketLimit(t)
             P == Fill(A, B, n)
  <2>2. /\ A \in SUBSET RowRec /\ IsFiniteSet(A) /\ OneEach(A) /\ Cardinality(A) <= n
        /\ B \in SUBSET RowRec /\ IsFiniteSet(B) /\ OneEach(B) /\ n \in Nat
        /\ \A r \in A \cup B : r.status # "draft" => NoDraft(r.id)
    BY <1>2, LimitFacts
  <2> HIDE DEF A, B, n
  <2>3. /\ P \in SUBSET (A \cup B) /\ A \in SUBSET P
        /\ IsFiniteSet(P) /\ OneEach(P) /\ Cardinality(P) \in 0..n
        /\ Cardinality(P) = n \/ Ids(B) \in SUBSET Ids(P)
    BY <2>2, Fills
  <2>4. PacketRows(t) = P
    BY <2>1 DEF A, B, n
  <2> HIDE DEF P
  <2>5. QED
    BY <2>2, <2>3, <2>4 DEF A, B, n
<1>5. QED
  BY <1>3, <1>4

LEMMA TrailFacts ==
  ASSUME NEW t, OneEach(PacketRows(t))
  PROVE  /\ \A r, s \in Trail(t) : r.id = s.id => r = s
         /\ \A s \in Trail(t) : s.review_status = "verified" =>
              \E r \in PacketRows(t) : r.id = s.id /\ r.status # "draft"
<1>1. \A s \in Trail(t) : \E r \in PacketRows(t) :
        /\ s = [id |-> r.id, review_status |-> s.review_status]
        /\ s.review_status = (IF r.status = "draft" THEN "draft" ELSE "verified")
  BY DEF Trail, PacketReviewed, PacketDrafts
<1>2. ASSUME NEW r \in Trail(t), NEW s \in Trail(t), r.id = s.id PROVE r = s
  <2>1. PICK x \in PacketRows(t) :
          /\ r = [id |-> x.id, review_status |-> r.review_status]
          /\ r.review_status = (IF x.status = "draft" THEN "draft" ELSE "verified")
    BY <1>1
  <2>2. PICK y \in PacketRows(t) :
          /\ s = [id |-> y.id, review_status |-> s.review_status]
          /\ s.review_status = (IF y.status = "draft" THEN "draft" ELSE "verified")
    BY <1>1
  <2>3. r.id = x.id /\ s.id = y.id
    BY <2>1, <2>2
  <2>4. x = y
    BY <1>2, <2>3 DEF OneEach
  <2>5. QED
    BY <1>2, <2>1, <2>2, <2>4
<1>3. ASSUME NEW s \in Trail(t), s.review_status = "verified"
      PROVE  \E r \in PacketRows(t) : r.id = s.id /\ r.status # "draft"
  <2>1. PICK r \in PacketRows(t) :
          /\ s = [id |-> r.id, review_status |-> s.review_status]
          /\ s.review_status = (IF r.status = "draft" THEN "draft" ELSE "verified")
    BY <1>1
  <2>2. s.id = r.id
    BY <2>1
  <2>3. QED
    BY <1>3, <2>1, <2>2
<1>4. QED
  BY <1>2, <1>3

LEMMA OneVoice ==
  ASSUME TypeOK, RepliesFit PROVE PacketOfOneVoice
<1> SUFFICES ASSUME Served, Packet, NEW t \in Type
             PROVE  /\ OneEach(PacketRows(t))
                    /\ \A r, s \in Trail(t) : r.id = s.id => r = s
                    /\ Cardinality(PacketRows(t)) <= PacketLimit(t)
                    /\ t \notin {"risk", "open_question"} =>
                         Ids(Got("match", t)) \subseteq Ids(PacketRows(t))
  BY DEF PacketOfOneVoice, Packet, OneEach
<1>1. Len(got) = Len(plan)
  BY DEF Served, TypeOK, ReaderOK
<1>2. QED
  BY <1>1, PacketFacts, TrailFacts, LimitFacts DEF Ids

-----------------------------------------------------------------------------
(* What is presented as reviewed was asked for without drafts.             *)
LEMMA MarkedForms ==
  ASSUME NEW q \in Sent(surface, about), ~Unmarked(q.part)
  PROVE  /\ q.how = "rows" => "draft" \notin q.shown[q.type]
         /\ q.how = "relations" => q.shown = AgentShown
<1>1. /\ q.part \in Part /\ q.type \in TypesOf(q.part) /\ q.how = HowAsked(q.part, q.type)
      /\ q = Form(surface, about, q.part, q.type)
  BY SentForms
<1>2. q.part \notin {"inbox", "latest", "match", "recent", "packet relations", "every relation"}
  BY DEF Unmarked
<1>3. q.part \in {"snapshot", "report"} => ~IsDaily(surface, q.part)
  BY DEF Unmarked, IsDaily
<1>4. CASE q.part \in AllTypes
  <2>1. q.type = "all" /\ q.how # "rows"
    BY <1>1, <1>4, PartFacts DEF HowAsked
  <2>2. q.part \in {"relations", "about"} => q.shown = AgentShown
    BY <1>1 DEF Form, Linked, Query
  <2>3. q.part \notin {"relations", "about"} => q.how # "relations"
    BY <1>1, <1>2, <1>4 DEF HowAsked, AllTypes
  <2>4. QED
    BY <2>1, <2>2, <2>3
<1>5. CASE q.part \in ByType
  <2>1. /\ q.type \in Type /\ q.type # "all" /\ q.how # "relations"
        /\ q.part = "drafts" => q.how = "count"
    <3>1. q.type \in Type
      BY <1>1, <1>5, PartFacts
    <3>2. q.type # "all"
      BY <3>1, PartFacts
    <3>3. QED
      BY <1>1, <3>1, <3>2 DEF HowAsked
  <2>2. CASE q.part \in {"list", "item"}
    <3>1. q.shown = AgentShown
      BY <1>1, <2>2 DEF Form, AllTypes, Limited, List, Query
    <3>2. QED
      BY <2>1, <3>1, StatusFacts
  <2>3. CASE q.part = "search"
    <3>1. q.shown = WithDrafts(surface) /\ surface # "search_drafts"
      BY <1>1, <2>3 DEF Form, AllTypes, List, Query, Unmarked
    <3>2. q.shown = AgentShown
      BY <3>1 DEF WithDrafts, AgentShown
    <3>3. QED
      BY <2>1, <3>2, StatusFacts
  <2>4. CASE q.part \in {"receipt", "incomplete", "library"}
    <3>1. CASE q.part = "receipt"
      BY <1>1, <2>1, <3>1, StatusFacts DEF Form, AllTypes, Recent, List, Query
    <3>2. CASE q.part = "incomplete"
      BY <1>1, <2>1, <3>2, StatusFacts DEF Form, AllTypes, Query
    <3>3. CASE q.part = "library"
      BY <1>1, <2>1, <3>3, StatusFacts DEF Form, AllTypes, Query
    <3>4. QED
      BY <2>4, <3>1, <3>2, <3>3
  <2>5. CASE q.part = "unresolved"
    <3>1. q.shown = Current
      BY <1>1, <2>5 DEF Form, AllTypes, Query
    <3>2. QED
      BY <2>1, <3>1, StatusFacts
  <2>6. CASE q.part = "drafts"
    BY <1>1, <2>1, <2>6 DEF HowAsked
  <2>7. QED
    BY <1>2, <1>5, <2>2, <2>3, <2>4, <2>5, <2>6 DEF ByType, Listed
<1>6. CASE q.part \in {"snapshot", "report"} /\ q.type = "all"
  <2>1. q = [Linked(q.part, AgentShown) EXCEPT !.since = 1]
    BY <1>1, <1>3, <1>6 DEF Form, AllTypes
  <2>2. q.how = "relations" /\ q.shown = AgentShown
    BY <2>1 DEF Linked, Query
  <2>3. QED
    BY <2>2
<1>7. CASE q.part \in {"snapshot", "report"} /\ q.type # "all"
  <2>1. q = Recent(q.part, q.type, AgentShown)
    BY <1>1, <1>3, <1>7 DEF Form, AllTypes
  <2>2. q.how = "rows" /\ q.shown = AgentShown
    BY <2>1 DEF Recent, List, Query
  <2>3. q.type \in Type
    BY <1>1, <1>7, PartFacts
  <2>4. QED
    BY <2>2, <2>3, StatusFacts
<1>8. QED
  BY <1>1, <1>4, <1>5, <1>6, <1>7 DEF Part

LEMMA NotPassedOff ==
  ASSUME TypeOK, Warned, RepliesFit, ReportsFit PROVE DraftsNotPassedOff
<1>1. ASSUME NEW k \in 1..Len(got), ~Unmarked(plan[k].part)
      PROVE  /\ plan[k].how = "rows" => \A i \in Ids(got[k]) : ~IsDraft(i)
             /\ plan[k].how = "relations" => \A p \in got[k] : ~IsDraft(p[1]) /\ ~IsDraft(p[2])
  <2>1. plan[k] \in Sent(surface, about) /\ Fits(plan[k], got[k])
    BY LenProperties DEF TypeOK, ReaderOK, RepliesFit
  <2>2. /\ plan[k].how = "rows" => "draft" \notin plan[k].shown[plan[k].type]
        /\ plan[k].how = "relations" => plan[k].shown = AgentShown
    BY <1>1, <2>1, MarkedForms
  <2>3. ASSUME plan[k].how = "rows", NEW r \in got[k] PROVE ~IsDraft(r.id)
    BY <2>1, <2>2, <2>3 DEF Fits, RowsFit, NoDraft
  <2>4. ASSUME plan[k].how = "relations", NEW p \in got[k]
        PROVE  ~IsDraft(p[1]) /\ ~IsDraft(p[2])
    BY <2>1, <2>2, <2>4 DEF Fits, LinksFit, NoDraft
  <2>5. QED
    BY <2>3, <2>4 DEF Ids
<1>2. ASSUME Served, Packet, NEW t \in Type, NEW s \in Trail(t), s.review_status = "verified"
      PROVE  ~IsDraft(s.id)
  <2>1. Len(got) = Len(plan)
    BY <1>2 DEF Served, TypeOK, ReaderOK
  <2>2. OneEach(PacketRows(t)) /\ \A r \in PacketRows(t) : r.status # "draft" => NoDraft(r.id)
    BY <1>2, <2>1, PacketFacts
  <2>3. PICK r \in PacketRows(t) : r.id = s.id /\ r.status # "draft"
    BY <1>2, <2>2, TrailFacts
  <2>4. QED
    BY <2>2, <2>3 DEF NoDraft
<1>3. \A w \in written : /\ \A i \in Ids(w.rows) : ~IsDraft(i)
                         /\ \A p \in w.relations : ~IsDraft(p[1]) /\ ~IsDraft(p[2])
  BY DEF ReportsFit, Ids, NoDraft
<1>4. \A p \in Item \X Item : relation[p] # None =>
        \A i \in {p[1], p[2]} : IsDraft(i) => i \in relation[p].warned
  BY DEF Warned, Told
<1>5. QED
  BY <1>1, <1>2, <1>3, <1>4 DEF DraftsNotPassedOff, Packet

-----------------------------------------------------------------------------
(* The drafts are counted, or listed, before the list they complete.       *)
LEMMA CountedFirst ==
  ASSUME TypeOK, Len(got) = Len(plan), NEW p, p \notin {"list", "snapshot"}, NEW l \in {"list", "snapshot"},
         NEW t \in Type, Opens(plan, p, Type), Holds(plan, l, Type)
  PROVE  \E k \in 1..Len(got) : \E j \in (k + 1)..Len(got) :
           /\ Has(p, t) /\ plan[k].part = p /\ plan[k].type = t /\ Got(p, t) = got[k]
           /\ plan[j].part = l /\ plan[j].type = t /\ Got(l, t) = got[j]
<1>0. Len(got) \in Nat
  BY LenProperties DEF TypeOK, ReaderOK
<1>1. PICK n \in 0..Len(plan) :
        /\ NoList(plan, n)
        /\ \A u \in Type : \E k \in 1..n : plan[k].part = p /\ plan[k].type = u
  BY DEF Opens
<1>2. PICK e \in 1..n : plan[e].part = p /\ plan[e].type = t
  BY <1>1
<1>3. Has(p, t) /\ Has(l, t)
  BY <1>0, <1>2 DEF Has, Replies, Holds
<1>4. PICK k \in 1..Len(got) : /\ plan[k].part = p /\ plan[k].type = t /\ Got(p, t) = got[k]
                               /\ k <= e
  BY <1>0, <1>2, <1>3, GotFirst
<1>5. PICK j \in 1..Len(got) : plan[j].part = l /\ plan[j].type = t /\ Got(l, t) = got[j]
  BY <1>3, GotFirst
<1>6. j > n
  BY <1>0, <1>1, <1>5 DEF NoList
<1>7. j \in (k + 1)..Len(got)
  BY <1>0, <1>2, <1>4, <1>5, <1>6
<1>8. QED
  BY <1>3, <1>4, <1>5, <1>7

LEMMA ListLimits ==
  ASSUME NEW q \in Sent(surface, about), q.type \in Type
  PROVE  /\ q.part = "list" => q.limit = (IF surface = "brief" THEN Limit ELSE PacketLimit(q.type))
         /\ q.part = "snapshot" => q.limit = Limit
<1>1. q = Form(surface, about, q.part, q.type)
  BY SentForms
<1>2. CASE q.part = "list"
  <2>1. q = Limited(List("list", q.type, AgentShown), q.type, surface)
    BY <1>1, <1>2 DEF Form, AllTypes
  <2>2. QED
    BY <1>2, <2>1 DEF Limited, List, Query, PacketLimit
<1>3. CASE q.part = "snapshot"
  <2>1. q.type # "all"
    BY PartFacts
  <2>2. q = Recent("snapshot", q.type, IF IsDaily(surface, "snapshot") THEN Statuses ELSE AgentShown)
    BY <1>1, <1>3, <2>1 DEF Form, AllTypes
  <2>3. QED
    BY <1>3, <2>2 DEF Recent, List, Query
<1>4. QED
  BY <1>2, <1>3

LEMMA WatchedTypes ==
  ASSUME TypeOK PROVE alive \in SUBSET Item /\ \A i \in alive : TypeOf(i) \in Type
BY RankFacts DEF TypeOK, StoreOK

LEMMA NothingSlips ==
  ASSUME TypeOK, RepliesFit, AliveOK, NothingLost PROVE NothingSlipsThrough
<1> SUFFICES ASSUME Served, NEW t \in {TypeOf(i) : i \in alive}
    PROVE  /\ surface \in {"brief", "compile", "handoff", "context"} =>
                \/ Cardinality(Got(ListPart, t)) = ListLimit(t)
                \/ PendingDrafts(t) + Cardinality(Got(ListPart, t)) >= Cardinality(Watched(t))
           /\ surface = "project" =>
                \/ Cardinality(Got("list", t)) = PacketLimit(t)
                \/ Watched(t) \subseteq Ids(Got("inbox", t)) \cup Ids(Got("list", t))
           /\ surface \in {"prepare", "agent_context"} =>
                \/ Cardinality(PacketRows(t)) = PacketLimit(t)
                \/ Watched(t) \subseteq Ids(PacketRows(t))
  BY DEF NothingSlipsThrough
<1>1. t \in Type /\ Len(got) = Len(plan) /\ Covers(plan, surface) /\ Len(got) \in Nat
  BY WatchedTypes, LenProperties DEF Served, TypeOK, ReaderOK
<1>2. \A k \in 1..Len(got) : plan[k] \in Sent(surface, about) /\ Fits(plan[k], got[k])
  BY LenProperties DEF TypeOK, ReaderOK, RepliesFit
<1>3. Watched(t) \in SUBSET Item /\ IsFiniteSet(Watched(t)) /\ Cardinality(Watched(t)) \in Nat
  BY WatchedTypes, NumberFacts, FS_Subset, FS_CardinalityType DEF Watched
<1>4. ASSUME surface \in {"brief", "compile", "handoff", "context"}
      PROVE  \/ Cardinality(Got(ListPart, t)) = ListLimit(t)
             \/ PendingDrafts(t) + Cardinality(Got(ListPart, t)) >= Cardinality(Watched(t))
  <2>1. /\ ListPart \in {"list", "snapshot"} /\ Opens(plan, "drafts", Type) /\ Holds(plan, ListPart, Type)
        /\ ListPart = "snapshot" => surface \in {"handoff", "context"}
    BY <1>1, <1>4 DEF ListPart, Covers
  <2>2. PICK k \in 1..Len(got) : \E j \in (k + 1)..Len(got) :
          /\ Has("drafts", t) /\ plan[k].part = "drafts" /\ plan[k].type = t
          /\ Got("drafts", t) = got[k]
          /\ plan[j].part = ListPart /\ plan[j].type = t /\ Got(ListPart, t) = got[j]
    BY <1>1, <2>1, CountedFirst
  <2>3. PICK j \in (k + 1)..Len(got) :
          /\ Has("drafts", t) /\ plan[k].part = "drafts" /\ plan[k].type = t
          /\ Got("drafts", t) = got[k]
          /\ plan[j].part = ListPart /\ plan[j].type = t /\ Got(ListPart, t) = got[j]
    BY <2>2
  <2>4. j \in 1..Len(got) /\ ListsAll(plan[j])
    BY <1>1, <2>1, <2>3 DEF ListsAll
  <2>5. PICK D \in SUBSET Item : Cardinality(D) <= got[k] /\ Beyond(k, D)
    BY <2>3 DEF NothingLost
  <2>6. Complete(plan[j], got[j], Watched(t) \ D)
    BY <2>3, <2>4, <2>5 DEF Beyond
  <2>7. plan[j].limit = ListLimit(t)
    BY <1>1, <1>2, <1>4, <2>3, <2>4, ListLimits DEF ListLimit, ListPart
  <2>8. plan[j].how = "rows" /\ RowsFit(plan[j], got[j])
    BY <1>1, <1>2, <2>3, <2>4, ListForms DEF Fits
  <2>9. /\ IsFiniteSet(got[j]) /\ OneEach(got[j]) /\ Cardinality(got[j]) \in Nat
        /\ IsFiniteSet(Ids(got[j])) /\ Cardinality(Ids(got[j])) = Cardinality(got[j])
    BY <2>8, IdsCount, FS_CardinalityType DEF RowsFit, OneEach
  <2>10. got[k] \in Nat /\ PendingDrafts(t) = got[k]
    <3>1. plan[k].how = "count"
      BY <1>2, <2>3, LostForms DEF Query
    <3>2. QED
      BY <1>2, <2>3, <3>1 DEF Fits, PendingDrafts
  <2>11. ASSUME Watched(t) \ D \subseteq Ids(got[j])
         PROVE  got[k] + Cardinality(got[j]) >= Cardinality(Watched(t))
    <3>1. IsFiniteSet(D) /\ Cardinality(D) \in Nat
      BY NumberFacts, FS_Subset, FS_CardinalityType
    <3>2. /\ IsFiniteSet(D \cup Ids(got[j]))
          /\ Cardinality(D \cup Ids(got[j])) =
               Cardinality(D) + Cardinality(Ids(got[j])) - Cardinality(D \cap Ids(got[j]))
          /\ Cardinality(D \cap Ids(got[j])) \in Nat
      BY <2>9, <3>1, FS_Union, FS_Intersection, FS_CardinalityType
    <3>3. Cardinality(Watched(t)) <= Cardinality(D \cup Ids(got[j]))
      BY <2>11, <3>2, FS_Subset
    <3>4. QED
      BY <1>3, <2>5, <2>9, <2>10, <3>1, <3>2, <3>3
  <2>12. QED
    BY <2>3, <2>6, <2>7, <2>10, <2>11 DEF Complete
<1>5. ASSUME surface = "project"
      PROVE  \/ Cardinality(Got("list", t)) = PacketLimit(t)
             \/ Watched(t) \subseteq Ids(Got("inbox", t)) \cup Ids(Got("list", t))
  <2>1. Opens(plan, "inbox", Type) /\ Holds(plan, "list", Type)
    BY <1>1, <1>5 DEF Covers
  <2>2. PICK k \in 1..Len(got) : \E j \in (k + 1)..Len(got) :
          /\ plan[k].part = "inbox" /\ plan[k].type = t /\ Got("inbox", t) = got[k]
          /\ plan[j].part = "list" /\ plan[j].type = t /\ Got("list", t) = got[j]
    BY <1>1, <2>1, CountedFirst
  <2>3. PICK j \in (k + 1)..Len(got) :
          /\ plan[k].part = "inbox" /\ plan[k].type = t /\ Got("inbox", t) = got[k]
          /\ plan[j].part = "list" /\ plan[j].type = t /\ Got("list", t) = got[j]
    BY <2>2
  <2>4. Complete(plan[j], got[j], Watched(t) \ Ids(got[k]))
    BY <2>3 DEF NothingLost, Beyond, ListsAll
  <2>5. plan[j].limit = PacketLimit(t)
    BY <1>1, <1>2, <1>5, <2>3, ListLimits
  <2>6. QED
    BY <2>3, <2>4, <2>5 DEF Complete
<1>6. ASSUME Packet
      PROVE  \/ Cardinality(PacketRows(t)) = PacketLimit(t)
             \/ Watched(t) \subseteq Ids(PacketRows(t))
  <2>1. Holds(plan, "recent", Type) /\ surface # "brief"
    BY <1>1, <1>6 DEF Covers, Packet
  <2>2. Has("recent", t)
    BY <1>1, <2>1 DEF Has, Replies, Holds
  <2>3. PICK k \in 1..Len(got) :
          plan[k].part = "recent" /\ plan[k].type = t /\ Got("recent", t) = got[k]
    BY <1>1, <2>2, GotFirst
  <2>4. Complete(plan[k], got[k], Watched(t))
    BY <2>3 DEF NothingLost
  <2>5. plan[k].limit = PacketLimit(t)
    <3>1. plan[k] = Form(surface, about, "recent", t)
      BY <1>2, <2>3, SentForms
    <3>2. QED
      BY <1>1, <2>1, <3>1, PacketForms
  <2>6. /\ IsFiniteSet(PacketRows(t)) /\ OneEach(PacketRows(t))
        /\ Cardinality(PacketRows(t)) \in 0..PacketLimit(t) /\ PacketLimit(t) \in Nat
        /\ OneEach(got[k]) /\ IsFiniteSet(got[k])
        /\ Cardinality(PacketRows(t)) = PacketLimit(t) \/ Ids(got[k]) \in SUBSET Ids(PacketRows(t))
    BY <1>1, <1>6, <2>3, PacketFacts, LimitFacts
  <2>7. ASSUME Ids(got[k]) \in SUBSET Ids(PacketRows(t)), Cardinality(got[k]) = PacketLimit(t)
        PROVE  Cardinality(PacketRows(t)) = PacketLimit(t)
    <3>1. /\ IsFiniteSet(Ids(PacketRows(t)))
          /\ Cardinality(Ids(PacketRows(t))) = Cardinality(PacketRows(t))
          /\ Cardinality(Ids(got[k])) = PacketLimit(t)
      BY <2>6, <2>7, IdsCount
    <3>2. PacketLimit(t) <= Cardinality(PacketRows(t))
      BY <2>7, <3>1, FS_Subset
    <3>3. QED
      BY <2>6, <3>2
  <2>8. QED
    BY <2>4, <2>5, <2>6, <2>7 DEF Complete
<1>7. QED
  BY <1>4, <1>5, <1>6 DEF Packet

-----------------------------------------------------------------------------
(* While nothing changes, every reply is what it would be now.             *)
LEMMA ReplyStays ==
  ASSUME UNCHANGED <<cast, row, relation>>, NEW q PROVE Reply(q)' = Reply(q)
<1>1. \A x, i : Matches(x, i)' <=> Matches(x, i)
  BY DEF Matches, Present, TypeOf
<1>2. \A x, i, j : Before(x, i, j)' <=> Before(x, i, j)
  BY DEF Before
<1>3. \A x, S : First(x, S)' = First(x, S)
  BY <1>2 DEF First
<1>4. Rows(q)' = Rows(q)
  <2>1. {i \in Item : Matches(q, i)}' = {i \in Item : Matches(q, i)}
    BY <1>1
  <2>2. First(q, {i \in Item : Matches(q, i)})' = First(q, {i \in Item : Matches(q, i)})
    BY <1>1, <1>2 DEF First
  <2>3. QED
    BY <2>2 DEF Rows
<1>5. \A x : Number(x)' = Number(x)
  BY <1>1 DEF Number
<1>6. Relations(q)' = Relations(q)
  BY DEF Relations, EndShown, Present, TypeOf
<1>7. NewestRelations(q)' = NewestRelations(q)
  BY <1>6 DEF NewestRelations
<1>8. QED
  BY <1>4, <1>5, <1>7 DEF Reply

LEMMA QuietStep ==
  ASSUME TypeOK, QuietReplies, [Next]_vars PROVE QuietReplies'
<1>1. ASSUME UNCHANGED <<cast, row, relation, plan, got, quiet>> PROVE QuietReplies'
  <2> SUFFICES ASSUME quiet, NEW k \in 1..Len(got) PROVE got[k] = Reply(plan[k])'
    BY <1>1 DEF QuietReplies
  <2>1. PICK q : q = plan[k] /\ got[k] = Reply(q)
    BY DEF QuietReplies
  <2>2. Reply(q)' = Reply(q)
    BY <1>1, ReplyStays
  <2>3. Reply(plan[k])' = Reply(q)'
    BY <1>1, <2>1
  <2>4. QED
    BY <2>1, <2>2, <2>3
<1>2. ASSUME NEW s \in Asked, Ask(s) PROVE QuietReplies'
  <2>1. got' = <<>>
    BY <1>2 DEF Ask, TypeOK, ReaderOK
  <2>2. QED
    BY <2>1 DEF QuietReplies
<1>3. CASE Read
  <2>1. UNCHANGED <<cast, row, relation, quiet>> /\ Len(got) \in Nat /\ Len(got') = Len(got) + 1
    BY <1>3, ReadFacts, LenProperties DEF Read, store, TypeOK, ReaderOK
  <2> SUFFICES ASSUME quiet, NEW k \in 1..Len(got') PROVE got'[k] = Reply(plan[k])'
    BY <2>1 DEF QuietReplies
  <2>2. PICK q : q = plan[k] /\ got'[k] = Reply(q)
    <3>1. CASE k = Len(got) + 1
      BY <1>3, <3>1, ReadFacts
    <3>2. CASE k # Len(got) + 1
      BY <1>3, <2>1, <3>2, ReadFacts DEF QuietReplies
    <3>3. QED
      BY <3>1, <3>2
  <2>3. Reply(q)' = Reply(q)
    BY <2>1, ReplyStays
  <2>4. plan'[k] = q
    BY <1>3, <2>2, ReadFacts
  <2>5. Reply(plan[k])' = Reply(q)'
    BY <2>4
  <2>6. QED
    BY <2>2, <2>3, <2>5
<1>4. ASSUME quiet' = FALSE PROVE QuietReplies'
  BY <1>4 DEF QuietReplies
<1>5. ASSUME NEW i \in Item, Remember(i) \/ Revise(i) PROVE QuietReplies'
  <2>1. quiet' = FALSE
    BY <1>5 DEF Remember, Revise, Commits
  <2>2. QED
    BY <1>4, <2>1
<1>6. CASE Serve \/ FindEnds \/ FindTarget \/ UNCHANGED vars
  <2>1. UNCHANGED <<cast, row, relation, plan, got>>
    BY <1>6 DEF Serve, FindEnds, FindTarget, vars, store, reader
  <2>2. UNCHANGED quiet
    BY <1>6 DEF Serve, FindEnds, FindTarget, vars
  <2>3. QED
    BY <1>1, <2>1, <2>2
<1>7. CASE StoreRelation
  <2>1. quiet' = FALSE
    BY <1>7 DEF StoreRelation, Commits
  <2>2. QED
    BY <1>4, <2>1
<1>8. QED
  BY <1>2, <1>3, <1>5, <1>6, <1>7 DEF Next

-----------------------------------------------------------------------------
(***************************************************************************)
(* Answers during which nothing changed.                                   *)
(***************************************************************************)
LEMMA HoldsHas ==
  ASSUME NEW p, NEW T, Holds(plan, p, T), NEW t \in T PROVE Has(p, t)
BY DEF Holds, Has, Replies

LEMMA QuietGot ==
  ASSUME TypeOK, QuietReplies, quiet, Len(got) = Len(plan), NEW p, NEW t, Has(p, t)
  PROVE  /\ Form(surface, about, p, t) \in Sent(surface, about)
         /\ Got(p, t) = Reply(Form(surface, about, p, t))
<1>1. PICK k \in 1..Len(got) : /\ plan[k] \in Sent(surface, about) /\ plan[k].part = p
                              /\ plan[k].type = t /\ Got(p, t) = got[k]
  BY GotFirst
<1>2. plan[k] = Form(surface, about, p, t)
  BY <1>1, SentForms
<1>3. QED
  BY <1>1, <1>2 DEF QuietReplies

(* What q finds: the memories of the project with the statuses asked for.  *)
LEMMA FoundOwn ==
  ASSUME TypeOK, NEW q, q.type \in Type, q.since = 0, q.of = None
  PROVE  Found(q) = {i \in With(Own(q.type), q.shown, q.type) :
                       (q.matching => cast[i].rank > 0) /\ (q.lacking => ~cast[i].complete)}
<1>1. \A i \in Item : Present(i) => row[i].updated \in Nat
  BY RowFacts
<1>2. QED
  BY <1>1 DEF Found, Matches, With, Own

LEMMA RowsInOrder ==
  ASSUME TypeOK, NEW q, q.limit \in Nat, NEW i \in Ids(Rows(q)), NEW j \in Found(q) \ Ids(Rows(q))
  PROVE  Before(q, i, j)
<1> DEFINE S == Found(q)
           F == First(q, S)
           R == OrderOf(q, S)
<1>1. S \in SUBSET {x \in Item : Present(x)} /\ IsFiniteSet(S)
  BY NumberFacts, FS_Subset DEF Found, Matches
<1>2. StrictOrder(R, S) /\ F = FirstOf(R, S, q.limit)
  BY <1>1, BeforeOrders
<1>3. Ids(Rows(q)) = F
  <2>1. Rows(q) = {RowOf(x) : x \in F}
    BY DEF Rows, RowOf, Found
  <2>2. \A x : RowOf(x).id = x
    BY DEF RowOf
  <2> HIDE DEF F
  <2>3. QED
    BY <2>1, <2>2 DEF Ids
<1>4. i \in FirstOf(R, S, q.limit) /\ j \in S \ FirstOf(R, S, q.limit)
  BY <1>2, <1>3
<1> HIDE DEF S, R
<1>5. <<i, j>> \in R
  BY <1>1, <1>2, <1>4, CutFirst
<1>6. QED
  BY <1>5 DEF R, OrderOf

LEMMA CountZero ==
  ASSUME NEW S, IsFiniteSet(S) PROVE (Cardinality(S) = 0 <=> S = {}) /\ Cardinality(S) \in Nat
BY FS_EmptySet, FS_CardinalityType

(* A query without a limit, or one that finds nothing.                     *)
LEMMA RowsEmpty ==
  ASSUME TypeOK, NEW q, q.limit \in Nat, q.limit > 0
  PROVE  /\ Rows(q) = {} <=> Found(q) = {}
         /\ q.limit > Items => Ids(Rows(q)) = Found(q)
<1>1. /\ Cardinality(Rows(q)) \in 0..Items /\ IsFiniteSet(Rows(q)) /\ Items \in Nat
      /\ Cardinality(Rows(q)) = q.limit \/ Ids(Rows(q)) = Found(q)
      /\ \A r \in Rows(q) : Matches(q, r.id) /\ r \in RowRec
  BY RowsReply, NumberFacts
<1>2. Rows(q) # {} => Found(q) # {}
  BY <1>1 DEF Found, RowRec
<1>3. Rows(q) = {} => Found(q) = {}
  <2>1. Rows(q) = {} => Cardinality(Rows(q)) = 0
    BY <1>1, CountZero
  <2>2. Rows(q) = {} => Ids(Rows(q)) = {}
    BY DEF Ids
  <2>3. QED
    BY <1>1, <2>1, <2>2
<1>4. q.limit > Items => Ids(Rows(q)) = Found(q)
  BY <1>1
<1>5. QED
  BY <1>2, <1>3, <1>4

LEMMA AllFacts == All \in Nat /\ All > Items /\ All > 0 /\ Items \in Nat
<1>1. Items \in Nat /\ All = Items * Items + 1
  BY NumberFacts DEF All
<1>2. Items * Items >= Items
  BY <1>1
<1>3. QED
  BY <1>1, <1>2

(* What the database holds is what the replies were made from.             *)
LEMMA OwnFacts ==
  ASSUME TypeOK, NEW t \in Type
  PROVE  /\ Own(t) \in SUBSET Item /\ IsFiniteSet(Own(t))
         /\ \A i \in Own(t) : Present(i) /\ cast[i].own /\ TypeOf(i) = t
         /\ \A shown : IsFiniteSet(With(Own(t), shown, t))
         /\ Drafts(t) = With(Own(t), Only("draft"), t) /\ IsFiniteSet(Drafts(t))
<1>1. Own(t) \in SUBSET Item /\ IsFiniteSet(Own(t))
  BY NumberFacts, FS_Subset DEF Own
<1>2. ASSUME NEW shown PROVE IsFiniteSet(With(Own(t), shown, t))
  <2>1. With(Own(t), shown, t) \in SUBSET Own(t)
    BY DEF With
  <2>2. QED
    BY <1>1, <2>1, FS_Subset
<1>3. Drafts(t) = With(Own(t), Only("draft"), t)
  BY DEF Drafts, With, Only, IsDraft
<1>4. QED
  BY <1>1, <1>2, <1>3 DEF Own

LEMMA QuietCounts ==
  ASSUME TypeOK, QuietReplies, quiet, Len(got) = Len(plan), NEW p \in {"active", "cards", "quality"},
         Has(p, "all"), NEW t \in Type
  PROVE  /\ Got(p, "all")[t] = Cardinality(With(Own(t), Current, t))
         /\ Got(p, "all")[t] \in Nat
         /\ Got(p, "all")[t] = 0 <=> With(Own(t), Current, t) = {}
<1> DEFINE q == Form(surface, about, p, "all")
           x == [q EXCEPT !.type = t]
<1>1. q = Counts(p, Current)
  BY DEF Form
<1>2. q.how = "counts"
  BY <1>1 DEF Counts, Query
<1>3. /\ x.type = t /\ x.since = 0 /\ x.of = None /\ ~x.matching /\ ~x.lacking /\ x.shown = Current
  BY <1>1 DEF Counts, Query
<1>4. Got(p, "all") = [u \in Type |-> Number([q EXCEPT !.type = u])]
  BY <1>2, QuietGot DEF Reply
<1>5. Got(p, "all")[t] = Number(x)
  BY <1>4
<1> HIDE DEF q, x
<1>6. Found(x) = With(Own(t), Current, t)
  BY <1>3, FoundOwn
<1>7. Got(p, "all")[t] = Cardinality(With(Own(t), Current, t))
  BY <1>5, <1>6, Numbers
<1>8. QED
  BY <1>7, OwnFacts, CountZero

LEMMA FiniteParts ==
  ASSUME NEW f, \A t \in Type : IsFiniteSet(f[t])
  PROVE  IsFiniteSet(UNION {f[t] : t \in Type})
<1> DEFINE u1 == f["fact"] \cup f["decision"]
           u2 == u1 \cup f["risk"]
           u3 == u2 \cup f["open_question"]
           u4 == u3 \cup f["report"]
<1>1. /\ IsFiniteSet(f["fact"]) /\ IsFiniteSet(f["decision"]) /\ IsFiniteSet(f["risk"])
      /\ IsFiniteSet(f["open_question"]) /\ IsFiniteSet(f["report"])
  BY DEF Type
<1>2. IsFiniteSet(u1)
  BY <1>1, FS_Union
<1> HIDE DEF u1
<1>3. IsFiniteSet(u2)
  BY <1>1, <1>2, FS_Union
<1> HIDE DEF u2
<1>4. IsFiniteSet(u3)
  BY <1>1, <1>3, FS_Union
<1> HIDE DEF u3
<1>5. IsFiniteSet(u4)
  BY <1>1, <1>4, FS_Union
<1>6. UNION {f[t] : t \in Type} = u4
  BY DEF Type, u1, u2, u3
<1>7. QED
  BY <1>5, <1>6

(* The replies to a part that lists rows of each type.                     *)
LEMMA RowParts ==
  ASSUME TypeOK, RepliesFit, Len(got) = Len(plan), NEW p \in ByType, p # "drafts", NEW t \in Type
  PROVE  Got(p, t) \in SUBSET RowRec /\ IsFiniteSet(Got(p, t)) /\ OneEach(Got(p, t))
<1>1. CASE Got(p, t) = {}
  BY <1>1, FS_EmptySet DEF OneEach
<1>2. CASE Got(p, t) # {}
  <2>1. Has(p, t)
    BY <1>2 DEF Got
  <2>2. PICK k \in 1..Len(got) : /\ plan[k] \in Sent(surface, about) /\ plan[k].part = p
                                /\ plan[k].type = t /\ Got(p, t) = got[k]
    BY <2>1, GotFirst
  <2>3. Fits(plan[k], got[k]) /\ plan[k].how = HowAsked(p, t)
    BY <2>2, SentForms DEF RepliesFit
  <2>4. HowAsked(p, t) = "rows"
    BY DEF HowAsked, ByType, Listed, Type
  <2>5. QED
    BY <2>2, <2>3, <2>4 DEF Fits, RowsFit, OneEach
<1>3. QED
  BY <1>1, <1>2

LEMMA UnionParts ==
  ASSUME TypeOK, RepliesFit, Len(got) = Len(plan), NEW p \in ByType, p # "drafts"
  PROVE  LET U == UNION {Got(p, t) : t \in Type}
         IN /\ IsFiniteSet(U) /\ Cardinality(U) \in Nat
            /\ Cardinality(U) = 0 <=> \A t \in Type : Got(p, t) = {}
<1> DEFINE f == [t \in Type |-> Got(p, t)]
           U == UNION {Got(p, t) : t \in Type}
<1>1. \A t \in Type : IsFiniteSet(f[t])
  BY RowParts
<1>2. U = UNION {f[t] : t \in Type}
  OBVIOUS
<1> HIDE DEF f
<1>3. IsFiniteSet(U)
  BY <1>1, <1>2, FiniteParts
<1>4. U = {} <=> \A t \in Type : Got(p, t) = {}
  OBVIOUS
<1>5. QED
  BY <1>3, <1>4, CountZero

(* The quality score: nothing to complain about means nothing incomplete   *)
(* and no open question, and a weak project has something.                 *)
LEMMA IncompleteFound ==
  ASSUME TypeOK, QuietReplies, quiet, Len(got) = Len(plan), NEW t \in {"fact", "decision", "risk"},
         Has("incomplete", t)
  PROVE  Got("incomplete", t) = {} <=> \A i \in With(Own(t), Reviewed, t) : cast[i].complete
<1> DEFINE q == Form(surface, about, "incomplete", t)
<1>1. q = [Query("rows", "incomplete", t, Reviewed) EXCEPT !.lacking = TRUE]
  BY DEF Form, AllTypes
<1>2. /\ q.how = "rows" /\ q.type = t /\ q.shown = Reviewed /\ q.since = 0 /\ q.of = None
      /\ ~q.matching /\ q.lacking /\ q.limit = All
  BY <1>1 DEF Query
<1>3. Got("incomplete", t) = Reply(q)
  BY QuietGot
<1>4. t \in Type
  BY DEF Type
<1> HIDE DEF q
<1>5. Found(q) = {i \in With(Own(t), Reviewed, t) : ~cast[i].complete}
  BY <1>2, <1>4, FoundOwn
<1>6. Got("incomplete", t) = {} <=> Found(q) = {}
  BY <1>2, <1>3, RowsEmpty, AllFacts DEF Reply
<1>7. QED
  BY <1>5, <1>6

LEMMA UnresolvedFound ==
  ASSUME TypeOK, QuietReplies, quiet, Len(got) = Len(plan), Has("unresolved", "open_question")
  PROVE  Got("unresolved", "open_question") = {}
           <=> With(Own("open_question"), Current, "open_question") = {}
<1> DEFINE t == "open_question"
           q == Form(surface, about, "unresolved", t)
<1>1. q = Query("rows", "unresolved", t, Current)
  BY DEF Form, AllTypes
<1>2. /\ q.how = "rows" /\ q.type = t /\ q.shown = Current /\ q.since = 0 /\ q.of = None
      /\ ~q.matching /\ ~q.lacking /\ q.limit = All
  BY <1>1 DEF Query
<1>3. Got("unresolved", t) = Reply(q)
  BY QuietGot
<1>4. t \in Type
  BY DEF Type
<1> HIDE DEF q
<1>5. Found(q) = With(Own(t), Current, t)
  BY <1>2, <1>4, FoundOwn
<1>6. Got("unresolved", t) = {} <=> Found(q) = {}
  BY <1>2, <1>3, RowsEmpty, AllFacts DEF Reply
<1>7. QED
  BY <1>5, <1>6

LEMMA QualityIsRight ==
  ASSUME TypeOK, RepliesFit, QuietReplies, quiet, Len(got) = Len(plan), Covers(plan, surface),
         surface \in {"quality", "project"}
  PROVE  QuietQuality
<1> DEFINE items == Cardinality(UNION {Got("incomplete", t) : t \in Type})
           open  == Cardinality(Got("unresolved", "open_question"))
           links == Cardinality(Got("every relation", "all"))
           total == Total(Got("quality", "all"))
           penalty == IF total >= 3 /\ links = 0 THEN 20
                      ELSE IF 5 * links < total /\ total >= 5 THEN 10 ELSE 0
<1>1. /\ \A t \in {"fact", "decision", "risk"} : Has("incomplete", t)
      /\ Has("unresolved", "open_question") /\ Has("quality", "all")
  BY HoldsHas DEF Covers
<1>2. /\ items \in Nat /\ (items = 0 <=> \A t \in Type : Got("incomplete", t) = {})
      /\ open \in Nat /\ (open = 0 <=> Got("unresolved", "open_question") = {})
  <2>1. "incomplete" \in ByType /\ "unresolved" \in ByType /\ "open_question" \in Type
    BY DEF ByType, Type
  <2>2. QED
    BY <2>1, UnionParts, RowParts, CountZero
<1>3. Score = 100 - AtMost(40, items * 8) - AtMost(25, open * 4) - penalty
  BY DEF Score
<1>4. \A t \in {"open_question", "report"} : Got("incomplete", t) = {}
  <2>1. ASSUME NEW t \in {"open_question", "report"}, Has("incomplete", t) PROVE FALSE
    <3>1. t \in TypesOf("incomplete")
      BY <2>1, GotFirst, SentForms
    <3>2. QED
      BY <3>1 DEF TypesOf, AllTypes
  <2>2. QED
    BY <2>1 DEF Got
<1> HIDE DEF items, open, links
<1>5. ASSUME Score = 100 PROVE items = 0 /\ open = 0
  BY <1>2, <1>3, <1>5 DEF AtMost
<1>6. Score = 100 =>
        /\ With(Own("open_question"), Current, "open_question") = {}
        /\ \A t \in {"fact", "decision", "risk"} :
             \A i \in With(Own(t), Reviewed, t) : cast[i].complete
  <2>1. {"fact", "decision", "risk"} \subseteq Type
    BY DEF Type
  <2>2. QED
    BY <1>1, <1>2, <1>5, <2>1, IncompleteFound, UnresolvedFound
<1>7. ASSUME \A t \in Type : With(Own(t), Current, t) = {} PROVE Score = 100
  <2>1. \A t \in Type : Got("quality", "all")[t] = 0
    BY <1>1, <1>7, QuietCounts
  <2>2. total = 0
    BY <2>1 DEF Total, Type
  <2>3. items = 0
    <3>1. \A t \in {"fact", "decision", "risk"} : Reviewed[t] = Current[t] /\ t \in Type
      BY DEF Reviewed, Current, Type
    <3>2. \A t \in {"fact", "decision", "risk"} : With(Own(t), Reviewed, t) = With(Own(t), Current, t)
      BY <3>1 DEF With
    <3>3. \A t \in {"fact", "decision", "risk"} : Got("incomplete", t) = {}
      BY <1>1, <1>7, <3>1, <3>2, IncompleteFound
    <3>4. QED
      BY <1>2, <1>4, <3>3 DEF Type
  <2>4. open = 0
    BY <1>1, <1>2, <1>7, UnresolvedFound DEF Type
  <2>5. penalty = 0
    BY <2>2
  <2>6. QED
    BY <1>3, <2>3, <2>4, <2>5 DEF AtMost
<1>8. QualityStatus = "weak" => \E t \in Type : With(Own(t), Current, t) # {}
  BY <1>7 DEF QualityStatus
<1>9. QED
  BY <1>6, <1>8 DEF QuietQuality

(* The pages: what needs review or attention.                              *)
LEMMA InboxFound ==
  ASSUME TypeOK, QuietReplies, quiet, Len(got) = Len(plan), NEW t \in Type, Has("inbox", t)
  PROVE  Got("inbox", t) = {} <=> Drafts(t) = {}
<1> DEFINE q == Form(surface, about, "inbox", t)
<1>1. q = Query("rows", "inbox", t, Only("draft"))
  BY DEF Form, AllTypes
<1>2. /\ q.how = "rows" /\ q.type = t /\ q.shown = Only("draft") /\ q.since = 0 /\ q.of = None
      /\ ~q.matching /\ ~q.lacking /\ q.limit = All
  BY <1>1 DEF Query
<1>3. Got("inbox", t) = Reply(q)
  BY QuietGot
<1> HIDE DEF q
<1>4. Found(q) = Drafts(t)
  <2>1. Found(q) = With(Own(t), Only("draft"), t)
    BY <1>2, FoundOwn
  <2>2. QED
    BY <2>1, OwnFacts
<1>5. Got("inbox", t) = {} <=> Found(q) = {}
  BY <1>2, <1>3, RowsEmpty, AllFacts DEF Reply
<1>6. QED
  BY <1>4, <1>5

LEMMA ListFound ==
  ASSUME TypeOK, QuietReplies, quiet, Len(got) = Len(plan), NEW t \in Type, Has("list", t)
  PROVE  /\ Got("list", t) = {} <=> With(Own(t), AgentShown, t) = {}
         /\ \A i \in Ids(Got("list", t)) : row[i].status \in AgentShown[t]
<1> DEFINE q == Form(surface, about, "list", t)
<1>1. q = Limited(List("list", t, AgentShown), t, surface)
  BY DEF Form, AllTypes
<1>2. /\ q.how = "rows" /\ q.type = t /\ q.shown = AgentShown /\ q.since = 0 /\ q.of = None
      /\ ~q.matching /\ ~q.lacking /\ q.limit \in {Limit, ReportLimit}
  BY <1>1 DEF Limited, List, Query
<1>3. Got("list", t) = Rows(q)
  BY <1>2, QuietGot DEF Reply
<1>4. Limit > 0 /\ ReportLimit > 0 /\ Limit \in Nat /\ ReportLimit \in Nat
  BY NumberFacts DEF ReportLimit
<1> HIDE DEF q
<1>5. Found(q) = With(Own(t), AgentShown, t)
  BY <1>2, FoundOwn
<1>6. Got("list", t) = {} <=> Found(q) = {}
  BY <1>2, <1>3, <1>4, RowsEmpty
<1>7. \A r \in Got("list", t) : row[r.id].status \in AgentShown[t]
  BY <1>2, <1>3, <1>4, RowsReply DEF Matches
<1>8. QED
  BY <1>5, <1>6, <1>7 DEF Ids

LEMMA RelatedFound ==
  ASSUME TypeOK, Warned, QuietReplies, quiet, Len(got) = Len(plan), NEW i \in RelatedCards(about)
  PROVE  row[i].status \in AgentShown[TypeOf(i)]
<1> DEFINE q == Form(surface, about, "about", "all")
<1>1. PICK p \in Got("about", "all") : i \in {p[1], p[2]}
  BY DEF RelatedCards
<1>2. Has("about", "all")
  BY <1>1 DEF Got
<1>3. q = [Linked("about", AgentShown) EXCEPT !.of = about]
  BY DEF Form
<1>4. q.how = "relations" /\ q.shown = AgentShown
  BY <1>3 DEF Linked, Query
<1>5. Got("about", "all") = NewestRelations(q)
  BY <1>2, <1>4, QuietGot DEF Reply
<1> HIDE DEF q
<1>6. p \in Item \X Item /\ relation[p] # None /\ EndShown(q, p[1]) /\ EndShown(q, p[2])
  BY <1>1, <1>5, LinksReply
<1>7. Present(i)
  BY <1>1, <1>6 DEF Warned, Told
<1>8. QED
  BY <1>1, <1>4, <1>6, <1>7, StatusFacts DEF EndShown

LEMMA PagesAreRight ==
  ASSUME TypeOK, Warned, RepliesFit, QuietReplies, quiet, Len(got) = Len(plan),
         Covers(plan, surface)
  PROVE  QuietPages
<1>1. ASSUME surface \in {"workspace", "project"}
      PROVE  /\ (Signal = "review") = (\E t \in Type : Drafts(t) # {})
             /\ (Signal = "attention") = (WorkspaceState = "attention")
  <2>1. \A t \in Type : Has("inbox", t)
    BY <1>1, HoldsHas DEF Covers
  <2>2. DraftTotal \in Nat /\ (DraftTotal = 0 <=> \A t \in Type : Got("inbox", t) = {})
    BY UnionParts DEF DraftTotal, ByType
  <2>3. DraftTotal > 0 <=> \E t \in Type : Drafts(t) # {}
    BY <2>1, <2>2, InboxFound
  <2>4. (Signal = "review") <=> DraftTotal > 0
    BY DEF Signal
  <2>5. (Signal = "attention") <=> (WorkspaceState = "attention")
    BY DEF Signal, WorkspaceState
  <2>6. QED
    BY <2>3, <2>4, <2>5
<1>2. ASSUME surface = "project"
      PROVE  /\ (Attention > 0) = (WorkStateAttention # {})
             /\ \A t \in Type : \A i \in Ids(Got("list", t)) : row[i].status \in AgentShown[t]
  <2>1. Has("cards", "all") /\ \A t \in Type : Has("list", t)
    BY <1>2, HoldsHas DEF Covers
  <2>2. /\ "risk" \in Type /\ "open_question" \in Type
        /\ Current["risk"] = AgentShown["risk"]
        /\ Current["open_question"] = AgentShown["open_question"]
    <3>1. "risk" \in Type /\ "open_question" \in Type
      BY DEF Type
    <3>2. Current["risk"] = AgentShown["risk"]
      BY <3>1, StatusFacts DEF Current, Reviewed, Statuses, Inactive
    <3>3. Current["open_question"] = AgentShown["open_question"]
      BY <3>1, StatusFacts DEF Current, Reviewed, Statuses, Inactive
    <3>4. QED
      BY <3>1, <3>2, <3>3
  <2>3. \A t \in {"risk", "open_question"} :
          /\ Got("cards", "all")[t] \in Nat
          /\ Got("cards", "all")[t] = 0 <=> Got("list", t) = {}
    <3>1. \A t \in {"risk", "open_question"} : With(Own(t), Current, t) = With(Own(t), AgentShown, t)
      BY <2>2 DEF With
    <3>2. QED
      BY <2>1, <2>2, <3>1, QuietCounts, ListFound
  <2>4. Attention > 0 <=> WorkStateAttention # {}
    BY <2>3 DEF Attention, WorkStateAttention
  <2>5. QED
    BY <2>1, <2>4, ListFound
<1>3. QED
  BY <1>1, <1>2, RelatedFound DEF QuietPages

(* The packet: the best matches first, then the newest of the others.      *)
BetterThan(i, j) ==
  IF cast[i].rank # cast[j].rank /\ cast[i].rank + cast[j].rank > 0
    THEN cast[i].rank > cast[j].rank
    ELSE IF cast[i].rank = 0 THEN row[i].updated > row[j].updated
                                  \/ (row[i].updated = row[j].updated /\ i > j)
    ELSE i > j

LEMMA BestIsFirst ==
  ASSUME TypeOK, NEW S \in SUBSET {i \in Item : Present(i)}, NEW n
  PROVE  LET R == {e \in S \X S : BetterThan(e[1], e[2])}
         IN /\ StrictOrder(R, S) /\ BestFor(S, n) = FirstOf(R, S, n)
            /\ \A i, j \in S : <<i, j>> \in R <=> BetterThan(i, j)
<1> DEFINE R == {e \in S \X S : BetterThan(e[1], e[2])}
<1>1. \A i \in S : i \in Nat /\ cast[i].rank \in Nat /\ row[i].updated \in Nat
  BY RowFacts, RankFacts, NumberFacts DEF Item
<1>2. \A i, j \in S : <<i, j>> \in R <=> BetterThan(i, j)
  OBVIOUS
<1> HIDE DEF R
<1>3. StrictOrder(R, S)
  <2>1. \A i \in S : ~BetterThan(i, i)
    BY <1>1 DEF BetterThan
  <2>2. \A i, j, k \in S : BetterThan(i, j) /\ BetterThan(j, k) => BetterThan(i, k)
    BY <1>1 DEF BetterThan
  <2>3. ASSUME NEW i \in S, NEW j \in S PROVE i = j \/ BetterThan(i, j) \/ BetterThan(j, i)
    <3>1. /\ i \in Nat /\ cast[i].rank \in Nat /\ row[i].updated \in Nat
          /\ j \in Nat /\ cast[j].rank \in Nat /\ row[j].updated \in Nat
      BY <1>1
    <3>2. CASE cast[i].rank = cast[j].rank
      BY <3>1, <3>2 DEF BetterThan
    <3>3. CASE cast[i].rank # cast[j].rank
      BY <3>1, <3>3 DEF BetterThan
    <3>4. QED
      BY <3>2, <3>3
  <2>4. QED
    BY <1>2, <2>1, <2>2, <2>3 DEF StrictOrder
<1>4. BestFor(S, n) = FirstOf(R, S, n)
  <2>1. \A i \in S : {j \in S : BetterThan(j, i)} = Ahead(R, S, i)
    BY <1>2 DEF Ahead
  <2>2. BestFor(S, n) = {i \in S : Cardinality({j \in S : BetterThan(j, i)}) < n}
    BY DEF BestFor, BetterThan
  <2>3. QED
    BY <2>1, <2>2 DEF FirstOf
<1>5. QED
  BY <1>2, <1>3, <1>4 DEF R

Shown(t) == With(Own(t), PrepareShown, t)

(* The two lists of the packet, when nothing has changed.                  *)
LEMMA PacketLists ==
  ASSUME TypeOK, QuietReplies, quiet, Len(got) = Len(plan), Packet, NEW t \in Type,
         NEW p \in {"match", "recent"}, Has(p, t)
  PROVE  LET q == Form(surface, about, p, t)
         IN /\ Got(p, t) = Rows(q) /\ q.limit = PacketLimit(t) /\ q.limit \in Nat /\ q.limit > 0
            /\ q.by = (IF p = "match" THEN "task" ELSE "age")
            /\ Found(q) = {i \in Shown(t) : p = "match" => cast[i].rank > 0}
<1> DEFINE q == Form(surface, about, p, t)
<1>1. surface # "brief"
  BY DEF Packet
<1>2. q.how = "rows" /\ q.type = t /\ q.limit = PacketLimit(t) /\ q.shown = PrepareShown
  BY <1>1, PacketForms
<1>3. /\ q.since = 0 /\ q.of = None /\ ~q.lacking /\ (q.matching <=> p = "match")
      /\ q.by = (IF p = "match" THEN "task" ELSE "age")
  <2>1. CASE p = "match"
    <3>1. q = Limited(TaskMatch(t), t, surface)
      BY <2>1 DEF Form, AllTypes
    <3>2. QED
      BY <2>1, <3>1 DEF Limited, TaskMatch, List, Query
  <2>2. CASE p = "recent"
    <3>1. q = Limited(RecentRows(t), t, surface)
      BY <2>2 DEF Form, AllTypes
    <3>2. QED
      BY <2>2, <3>1 DEF Limited, RecentRows, List, Query
  <2>3. QED
    BY <2>1, <2>2
<1>4. Got(p, t) = Rows(q)
  BY <1>2, QuietGot DEF Reply
<1>5. PacketLimit(t) \in Nat /\ PacketLimit(t) > 0
  BY NumberFacts DEF PacketLimit, ReportLimit
<1> HIDE DEF q
<1>6. Found(q) = {i \in Shown(t) : p = "match" => cast[i].rank > 0}
  <2>1. Found(q) = {i \in With(Own(q.type), q.shown, q.type) :
                      (q.matching => cast[i].rank > 0) /\ (q.lacking => ~cast[i].complete)}
    BY <1>2, <1>3, FoundOwn
  <2>2. QED
    BY <1>2, <1>3, <2>1 DEF Shown
<1>7. QED
  BY <1>2, <1>3, <1>4, <1>5, <1>6 DEF q

LEMMA ShownFacts ==
  ASSUME TypeOK, NEW t \in Type
  PROVE  Shown(t) \in SUBSET {i \in Item : Present(i)} /\ IsFiniteSet(Shown(t))
BY OwnFacts DEF Shown, With

LEMMA PacketIsBest ==
  ASSUME TypeOK, RepliesFit, QuietReplies, quiet, Len(got) = Len(plan), Packet,
         NEW t \in {"fact", "decision", "report"}, Has("match", t), Has("recent", t)
  PROVE  Ids(PacketRows(t)) = BestFor(Shown(t), PacketLimit(t))
<1> DEFINE A == Got("match", t)
           B == Got("recent", t)
           n == PacketLimit(t)
           S == Shown(t)
           P == PacketRows(t)
           qm == Form(surface, about, "match", t)
           qr == Form(surface, about, "recent", t)
<1>0. t \in Type /\ t \notin {"risk", "open_question"} /\ n \in Nat
  BY LimitFacts DEF Type
<1>1. /\ A = Rows(qm) /\ qm.limit = n /\ qm.by = "task" /\ Found(qm) = {i \in S : cast[i].rank > 0}
      /\ B = Rows(qr) /\ qr.limit = n /\ qr.by = "age" /\ Found(qr) = S
  BY <1>0, PacketLists
<1>2. S \in SUBSET {i \in Item : Present(i)} /\ IsFiniteSet(S)
  BY <1>0, ShownFacts
<1>3. \A i \in S : i \in Nat /\ cast[i].rank \in Nat /\ row[i].updated \in Nat
  BY <1>2, RowFacts, RankFacts, NumberFacts DEF Item
<1>4. P = Fill(A, B, n)
  BY <1>0 DEF PacketRows
<1>5. /\ A \in SUBSET RowRec /\ IsFiniteSet(A) /\ OneEach(A) /\ B \in SUBSET RowRec
      /\ IsFiniteSet(B) /\ OneEach(B)
  BY <1>0, RowParts DEF ByType, Listed
<1> HIDE DEF A, B, n, S, qm, qr
<1>5a. qm.limit \in Nat /\ qr.limit \in Nat
  BY <1>0, <1>1
<1>5b. /\ \A r \in A : r = RowOf(r.id) /\ Matches(qm, r.id)
       /\ Cardinality(A) <= n /\ (Cardinality(A) = n \/ Ids(A) = Found(qm))
  <2>1. /\ \A r \in A : r = RowOf(r.id) /\ Matches(qm, r.id)
        /\ Cardinality(A) <= qm.limit /\ (Cardinality(A) = qm.limit \/ Ids(A) = Found(qm))
    BY <1>1, <1>5a, RowsReply
  <2>2. QED
    BY <1>1, <2>1
<1>5c. /\ \A r \in B : r = RowOf(r.id) /\ Matches(qr, r.id)
       /\ Cardinality(B) <= n /\ (Cardinality(B) = n \/ Ids(B) = Found(qr))
  <2>1. /\ \A r \in B : r = RowOf(r.id) /\ Matches(qr, r.id)
        /\ Cardinality(B) <= qr.limit /\ (Cardinality(B) = qr.limit \/ Ids(B) = Found(qr))
    BY <1>1, <1>5a, RowsReply
  <2>2. QED
    BY <1>1, <2>1
<1>6. /\ \A r \in A \cup B : r = RowOf(r.id)
      /\ Ids(A) \in SUBSET Found(qm) /\ Cardinality(A) <= n /\ Cardinality(A) \in Nat
      /\ (Cardinality(A) = n \/ Ids(A) = Found(qm))
      /\ Ids(B) \in SUBSET Found(qr)
      /\ (Cardinality(B) = n \/ Ids(B) = Found(qr))
  <2>1. Ids(A) \in SUBSET Found(qm)
    BY <1>5, <1>5b DEF Ids, Found, RowRec
  <2>2. Ids(B) \in SUBSET Found(qr)
    BY <1>5, <1>5c DEF Ids, Found, RowRec
  <2>3. QED
    BY <1>5, <1>5b, <1>5c, <2>1, <2>2, FS_CardinalityType
<1>7. /\ P \in SUBSET (A \cup B) /\ A \in SUBSET P
      /\ IsFiniteSet(P) /\ OneEach(P) /\ Cardinality(P) \in 0..n
      /\ Cardinality(P) = n \/ Ids(B) \in SUBSET Ids(P)
      /\ \A r \in P \ A :
           /\ r \in B /\ r.id \notin Ids(A) /\ Cardinality(A) < n
           /\ \A s \in B : s.id \notin Ids(P) => Later(r, s)
  BY <1>0, <1>4, <1>5, <1>6, Fills
<1> HIDE DEF P
<1>8. Ids(P) \in SUBSET S
  <2>1. Ids(P) \in SUBSET (Ids(A) \cup Ids(B))
    BY <1>7 DEF Ids
  <2>2. QED
    BY <1>1, <1>6, <2>1
<1>9. Cardinality(Ids(P)) = Cardinality(P) /\ (Cardinality(P) = n \/ Ids(P) = S)
  <2>1. /\ IsFiniteSet(Ids(P)) /\ Cardinality(Ids(P)) = Cardinality(P)
        /\ Cardinality(Ids(B)) = Cardinality(B)
    BY <1>5, <1>7, IdsCount
  <2>2. ASSUME Ids(B) \in SUBSET Ids(P), Cardinality(B) = n PROVE Cardinality(P) = n
    <3>1. n <= Cardinality(P)
      BY <2>1, <2>2, FS_Subset
    <3>2. QED
      BY <1>0, <1>7, <3>1
  <2>3. ASSUME Ids(B) \in SUBSET Ids(P), Ids(B) = Found(qr) PROVE Ids(P) = S
    BY <1>1, <1>8, <2>3
  <2>4. QED
    BY <1>6, <1>7, <2>1, <2>2, <2>3
<1>10. ASSUME NEW i \in Ids(P), NEW j \in S \ Ids(P) PROVE BetterThan(i, j)
  <2>1. PICK r \in P : r.id = i
    BY DEF Ids
  <2>2. i \in S /\ j \in S /\ j \notin Ids(A)
    BY <1>7, <1>8 DEF Ids
  <2>3. CASE r \in A
    <3>1. i \in Ids(A) /\ cast[i].rank > 0
      BY <1>1, <1>6, <2>1, <2>3 DEF Ids
    <3>2. CASE cast[j].rank = 0
      BY <1>3, <2>2, <3>1, <3>2 DEF BetterThan
    <3>3. CASE cast[j].rank # 0
      <4>1. j \in Found(qm) \ Ids(Rows(qm)) /\ i \in Ids(Rows(qm)) /\ qm.limit \in Nat
        BY <1>0, <1>1, <1>3, <2>2, <3>1, <3>3
      <4>2. Before(qm, i, j)
        BY <4>1, RowsInOrder
      <4>3. cast[i].rank > cast[j].rank \/ (cast[i].rank = cast[j].rank /\ i > j)
        BY <1>1, <4>2 DEF Before
      <4>4. QED
        BY <1>3, <2>2, <3>1, <4>3 DEF BetterThan
    <3>4. QED
      BY <3>2, <3>3
  <2>4. CASE r \notin A
    <3>1. /\ r \in B /\ i \notin Ids(A) /\ Cardinality(A) < n
          /\ \A s \in B : s.id \notin Ids(P) => Later(r, s)
      BY <1>7, <2>1, <2>4
    <3>2. Ids(A) = Found(qm)
      BY <1>0, <1>6, <3>1
    <3>3. cast[i].rank = 0 /\ cast[j].rank = 0
      BY <1>1, <1>3, <2>2, <3>1, <3>2
    <3>4. row[i].updated > row[j].updated \/ (row[i].updated = row[j].updated /\ i > j)
      <4>1. CASE j \in Ids(B)
        <5>1. PICK s \in B : s.id = j
          BY <4>1 DEF Ids
        <5>2. Later(r, s)
          BY <3>1, <5>1
        <5>3. r.updated = row[i].updated /\ s.updated = row[j].updated
          BY <1>6, <2>1, <3>1, <5>1 DEF RowOf
        <5>4. QED
          BY <2>1, <5>1, <5>2, <5>3 DEF Later
      <4>2. CASE j \notin Ids(B)
        <5>1. i \in Ids(Rows(qr)) /\ j \in Found(qr) \ Ids(Rows(qr)) /\ qr.limit \in Nat
          BY <1>0, <1>1, <2>1, <2>2, <3>1, <4>2 DEF Ids
        <5>2. Before(qr, i, j)
          BY <5>1, RowsInOrder
        <5>3. QED
          BY <1>1, <5>2 DEF Before
      <4>3. QED
        BY <4>1, <4>2
    <3>5. QED
      BY <1>3, <2>2, <3>3, <3>4 DEF BetterThan
  <2>5. QED
    BY <2>3, <2>4
<1> DEFINE R == {e \in S \X S : BetterThan(e[1], e[2])}
<1>11. /\ StrictOrder(R, S) /\ BestFor(S, n) = FirstOf(R, S, n)
       /\ \A i, j \in S : <<i, j>> \in R <=> BetterThan(i, j)
  BY <1>2, BestIsFirst
<1> HIDE DEF R
<1>12. \A i \in Ids(P), j \in S \ Ids(P) : <<i, j>> \in R
  BY <1>8, <1>10, <1>11
<1>13. /\ Cardinality(Ids(P)) <= n /\ (Cardinality(Ids(P)) = n \/ Ids(P) = S)
  BY <1>0, <1>7, <1>9
<1>14. Ids(P) = FirstOf(R, S, n)
  BY <1>0, <1>2, <1>8, <1>11, <1>12, <1>13, CutUnique
<1>15. QED
  BY <1>11, <1>14 DEF P, S, n

(* Every row of the packet is one of the memories that may be shown, as it *)
(* is; a packet that is not full has them all.                             *)
LEMMA PacketHolds ==
  ASSUME TypeOK, RepliesFit, QuietReplies, quiet, Len(got) = Len(plan), Packet,
         NEW t \in Type, Has("match", t), Has("recent", t)
  PROVE  /\ \A r \in PacketRows(t) : r = RowOf(r.id) /\ r.id \in Shown(t)
         /\ Cardinality(PacketRows(t)) = PacketLimit(t) \/ Ids(PacketRows(t)) = Shown(t)
         /\ Got("match", t) = {} => \A i \in Shown(t) : cast[i].rank = 0
<1> DEFINE A == Got("match", t)
           B == Got("recent", t)
           P == PacketRows(t)
           S == Shown(t)
           n == PacketLimit(t)
           qm == Form(surface, about, "match", t)
           qr == Form(surface, about, "recent", t)
<1>1. /\ A = Rows(qm) /\ qm.limit = n /\ Found(qm) = {i \in S : cast[i].rank > 0}
      /\ B = Rows(qr) /\ qr.limit = n /\ Found(qr) = S /\ n \in Nat /\ n > 0
  BY PacketLists
<1>2. /\ P \in SUBSET (A \cup B) /\ P \in SUBSET RowRec /\ IsFiniteSet(P) /\ OneEach(P)
      /\ Cardinality(P) \in 0..n /\ OneEach(B) /\ IsFiniteSet(B)
      /\ (Cardinality(P) = n \/ Ids(B) \in SUBSET Ids(P))
  BY PacketFacts
<1>3. \A i \in S : i \in Item /\ cast[i].rank \in Nat
  BY ShownFacts, RankFacts
<1> HIDE DEF A, B, P, S, n, qm, qr
<1>4. \A r \in A : r = RowOf(r.id) /\ r \in RowRec /\ Matches(qm, r.id)
  BY <1>1, RowsReply
<1>5. /\ \A r \in B : r = RowOf(r.id) /\ r \in RowRec /\ Matches(qr, r.id)
      /\ Cardinality(B) = n \/ Ids(B) = S
  BY <1>1, RowsReply
<1>6. \A r \in A \cup B : r.id \in S
  BY <1>1, <1>4, <1>5 DEF Found, RowRec
<1>7. Cardinality(P) = n \/ Ids(P) = S
  <2>1. Ids(P) \in SUBSET S
    BY <1>2, <1>6 DEF Ids
  <2>2. CASE Ids(B) = S /\ Ids(B) \in SUBSET Ids(P)
    BY <2>1, <2>2
  <2>3. CASE Cardinality(B) = n /\ Ids(B) \in SUBSET Ids(P)
    <3>1. /\ IsFiniteSet(Ids(P)) /\ Cardinality(Ids(P)) = Cardinality(P)
          /\ Cardinality(Ids(B)) = Cardinality(B)
      BY <1>2, IdsCount
    <3>2. n <= Cardinality(P)
      BY <2>3, <3>1, FS_Subset
    <3>3. QED
      BY <1>1, <1>2, <3>2
  <2>4. QED
    BY <1>2, <1>5, <2>2, <2>3
<1>8. A = {} => \A i \in S : cast[i].rank = 0
  <2>1. A = {} => Found(qm) = {}
    BY <1>1, RowsEmpty
  <2>2. QED
    BY <1>1, <1>3, <2>1
<1>9. \A r \in P : r = RowOf(r.id) /\ r.id \in S
  BY <1>2, <1>4, <1>5, <1>6
<1>10. QED
  BY <1>7, <1>8, <1>9 DEF A, P, S, n

LEMMA DraftsCounted ==
  ASSUME TypeOK, QuietReplies, quiet, Len(got) = Len(plan), NEW t \in Type, Has("drafts", t)
  PROVE  PendingDrafts(t) = Cardinality(Drafts(t))
<1> DEFINE q == Form(surface, about, "drafts", t)
<1>1. q = Query("count", "drafts", t, Only("draft"))
  BY DEF Form, AllTypes
<1>2. /\ q.how = "count" /\ q.type = t /\ q.shown = Only("draft") /\ q.since = 0 /\ q.of = None
      /\ ~q.matching /\ ~q.lacking
  BY <1>1 DEF Query
<1>3. Got("drafts", t) = Reply(q)
  BY QuietGot
<1> HIDE DEF q
<1>4. Got("drafts", t) = Cardinality(Found(q))
  BY <1>2, <1>3 DEF Reply, Number, Found
<1>5. Found(q) = With(Own(t), Only("draft"), t)
  BY <1>2, FoundOwn
<1>6. QED
  BY <1>4, <1>5, OwnFacts DEF PendingDrafts

(* What the packet says of one type: its drafts, gaps and blind spots.     *)
LEMMA GapsAreRight ==
  ASSUME TypeOK, RepliesFit, QuietReplies, quiet, Len(got) = Len(plan), Packet,
         Covers(plan, surface), NEW t \in Type
  PROVE  /\ Drafts(t) \subseteq Ids(PacketDrafts(t)) \/ Cardinality(PacketRows(t)) = PacketLimit(t)
         /\ PendingDrafts(t) = Cardinality(Drafts(t))
         /\ \A r \in StaleItems(t) : row[r.id].updated < 1 /\ ~IsDraft(r.id)
         /\ t \in EmptyTypes => With(Own(t), Current, t) = {}
         /\ t \in BlindSpots \ {"risk", "open_question"} =>
              \A i \in With(Own(t), PrepareShown, t) : cast[i].rank = 0
<1>1. /\ Has("match", t) /\ Has("recent", t) /\ Has("active", "all") /\ Has("drafts", t)
  BY HoldsHas DEF Covers, Packet
<1>2. /\ \A r \in PacketRows(t) : r = RowOf(r.id) /\ r.id \in Shown(t)
      /\ Cardinality(PacketRows(t)) = PacketLimit(t) \/ Ids(PacketRows(t)) = Shown(t)
      /\ Got("match", t) = {} => \A i \in Shown(t) : cast[i].rank = 0
  BY <1>1, PacketHolds
<1>3. Drafts(t) \subseteq Shown(t)
  BY StatusFacts DEF Drafts, Shown, With, IsDraft
<1>4. \A r \in PacketRows(t) : r.status = row[r.id].status /\ r.updated = row[r.id].updated
  BY <1>2 DEF RowOf
<1>5. Drafts(t) \subseteq Ids(PacketDrafts(t)) \/ Cardinality(PacketRows(t)) = PacketLimit(t)
  <2>1. ASSUME Ids(PacketRows(t)) = Shown(t), NEW i \in Drafts(t) PROVE i \in Ids(PacketDrafts(t))
    <3>1. PICK r \in PacketRows(t) : r.id = i
      BY <1>3, <2>1 DEF Ids
    <3>2. r.status = "draft"
      BY <1>4, <2>1, <3>1 DEF Drafts, IsDraft
    <3>3. QED
      BY <3>1, <3>2 DEF PacketDrafts, Ids
  <2>2. QED
    BY <1>2, <2>1
<1>6. \A r \in StaleItems(t) : row[r.id].updated < 1 /\ ~IsDraft(r.id)
  BY <1>4, StatusFacts DEF StaleItems, IsDraft
<1>7. t \in EmptyTypes => With(Own(t), Current, t) = {}
  BY <1>1, QuietCounts DEF EmptyTypes
<1>8. t \in BlindSpots \ {"risk", "open_question"} => \A i \in Shown(t) : cast[i].rank = 0
  BY <1>2 DEF BlindSpots
<1>9. PendingDrafts(t) = Cardinality(Drafts(t))
  BY <1>1, DraftsCounted
<1>10. QED
  BY <1>5, <1>6, <1>7, <1>8, <1>9 DEF Shown

LEMMA PacketIsRight ==
  ASSUME TypeOK, RepliesFit, QuietReplies, quiet, Len(got) = Len(plan), Packet,
         Covers(plan, surface)
  PROVE  QuietPacket
<1>1. \A t \in Type : Has("match", t) /\ Has("recent", t)
  BY HoldsHas DEF Covers, Packet
<1>2. \A t \in {"fact", "decision", "report"} :
        Ids(PacketRows(t)) = BestFor(With(Own(t), PrepareShown, t), PacketLimit(t))
  <2>1. {"fact", "decision", "report"} \subseteq Type
    BY DEF Type
  <2>2. QED
    BY <1>1, <2>1, PacketIsBest DEF Shown
<1>3. Ids(Unanswered) \subseteq With(Own("open_question"), Current, "open_question")
  <2> DEFINE t == "open_question"
  <2>1. t \in Type /\ Statuses[t] \ ({"draft"} \cup Inactive[t]) \subseteq Current[t]
    BY DEF Type, Statuses, Inactive, Current, Reviewed
  <2>2. ASSUME NEW r \in Unanswered PROVE r.id \in With(Own(t), Current, t)
    <3>1. r = RowOf(r.id) /\ r.id \in Shown(t)
      BY <1>1, <2>1, <2>2, PacketHolds DEF Unanswered
    <3>2. r.id \in Own(t) /\ r.id \in Item /\ Present(r.id) /\ TypeOf(r.id) = t
      BY <3>1 DEF Shown, With, Own
    <3>3. r.status = row[r.id].status /\ row[r.id].status \in Statuses[t]
      BY <3>1, <3>2, RowFacts DEF RowOf
    <3>4. r.status \notin {"draft"} \cup Inactive[t]
      BY <2>2 DEF Unanswered
    <3>5. QED
      BY <2>1, <3>2, <3>3, <3>4 DEF With
  <2>3. QED
    BY <2>2 DEF Ids
<1>4. QED
  BY <1>2, <1>3, GapsAreRight DEF QuietPacket

(* The search: one table after the other, merged and cut.                  *)
Sought(t) == With({i \in Own(t) : cast[i].rank > 0}, AgentShown, t)

LEMMA SearchFound ==
  ASSUME TypeOK, QuietReplies, quiet, Len(got) = Len(plan), surface = "search",
         NEW t \in Type, Has("search", t)
  PROVE  LET q == Form(surface, about, "search", t)
         IN Got("search", t) = Rows(q) /\ q.limit = Limit /\ q.by = "age" /\ Found(q) = Sought(t)
<1> DEFINE q == Form(surface, about, "search", t)
<1>1. q = [List("search", t, AgentShown) EXCEPT !.matching = TRUE]
  <2>1. WithDrafts(surface) = AgentShown
    BY DEF WithDrafts, AgentShown, ReadHidden
  <2>2. q = [List("search", t, WithDrafts(surface)) EXCEPT !.matching = TRUE]
    BY DEF Form, AllTypes
  <2>3. QED
    BY <2>1, <2>2
<1>2. /\ q.how = "rows" /\ q.type = t /\ q.shown = AgentShown /\ q.since = 0 /\ q.of = None
      /\ q.matching /\ ~q.lacking /\ q.limit = Limit /\ q.by = "age"
  BY <1>1 DEF List, Query
<1>3. Got("search", t) = Rows(q)
  BY <1>2, QuietGot DEF Reply
<1> HIDE DEF q
<1>4. Found(q) = Sought(t)
  <2>1. Found(q) = {i \in With(Own(t), AgentShown, t) : cast[i].rank > 0}
    BY <1>2, FoundOwn
  <2>2. QED
    BY <2>1 DEF Sought, With
<1>5. QED
  BY <1>2, <1>3, <1>4 DEF q

(* What one table contributes.                                             *)
LEMMA TableReply ==
  ASSUME TypeOK, QuietReplies, quiet, Len(got) = Len(plan), surface = "search",
         NEW t \in Type, Has("search", t)
  PROVE  /\ Got("search", t) \in SUBSET RowRec /\ IsFiniteSet(Got("search", t))
         /\ \A r \in Got("search", t) : r = RowOf(r.id) /\ r.id \in Sought(t)
         /\ Cardinality(Got("search", t)) = Limit \/ Ids(Got("search", t)) = Sought(t)
         /\ \A r \in Got("search", t), j \in Sought(t) \ Ids(Got("search", t)) :
              row[r.id].updated >= row[j].updated
<1> DEFINE q == Form(surface, about, "search", t)
           G == Got("search", t)
<1>1. G = Rows(q) /\ q.limit = Limit /\ q.by = "age" /\ Found(q) = Sought(t)
  BY SearchFound
<1>2. q.limit \in Nat
  BY <1>1, NumberFacts
<1> HIDE DEF q, G
<1>3. /\ G \in SUBSET RowRec /\ IsFiniteSet(G)
      /\ \A r \in G : r = RowOf(r.id) /\ Matches(q, r.id)
      /\ Cardinality(G) = Limit \/ Ids(G) = Sought(t)
  BY <1>1, <1>2, RowsReply
<1>4. \A r \in G : r.id \in Sought(t)
  BY <1>1, <1>3 DEF Found, RowRec
<1>5. ASSUME NEW r \in G, NEW j \in Sought(t) \ Ids(G) PROVE row[r.id].updated >= row[j].updated
  <2>1. r.id \in Ids(Rows(q)) /\ j \in Found(q) \ Ids(Rows(q))
    BY <1>1 DEF Ids
  <2>2. Before(q, r.id, j)
    BY <1>2, <2>1, RowsInOrder
  <2>3. j \in Item /\ Present(j) /\ r.id \in Item /\ Present(r.id)
    BY <1>1, <1>3, <2>1 DEF Found, Matches, RowRec
  <2>4. row[r.id].updated \in Nat /\ row[j].updated \in Nat
    BY <2>3, RowFacts
  <2>5. QED
    BY <1>1, <2>2, <2>4 DEF Before
<1>6. QED
  BY <1>3, <1>4, <1>5 DEF G

LEMMA SoonerOrders ==
  ASSUME TypeOK, NEW F \in SUBSET RowRec, OneEach(F)
  PROVE  StrictOrder({e \in F \X F : Sooner(e[1], e[2])}, F)
<1> DEFINE R == {e \in F \X F : Sooner(e[1], e[2])}
<1>1. \A r \in F : r.updated \in Nat /\ r.id \in Nat
  BY NumberFacts DEF RowRec, Item
<1>2. \A r \in F : Table(r) \in Nat
  <2> SUFFICES ASSUME NEW r \in F PROVE Table(r) \in Nat
    OBVIOUS
  <2>1. TypeOf(r.id) \in Type
    BY RankFacts DEF RowRec
  <2>2. Len(TypeOrder) = 5 /\ \E k \in 1..5 : TypeOrder[k] = TypeOf(r.id)
    BY <2>1 DEF Type, TypeOrder
  <2>3. Table(r) \in 1..5
    BY <2>2 DEF Table
  <2>4. QED
    BY <2>3
<1>3. \A r, s \in F : <<r, s>> \in R <=> Sooner(r, s)
  OBVIOUS
<1> HIDE DEF R
<1>4. \A r \in F : <<r, r>> \notin R
  BY <1>1, <1>2, <1>3 DEF Sooner
<1>5. \A r, s, q \in F : <<r, s>> \in R /\ <<s, q>> \in R => <<r, q>> \in R
  BY <1>1, <1>2, <1>3 DEF Sooner
<1>6. ASSUME NEW r \in F, NEW s \in F PROVE r = s \/ <<r, s>> \in R \/ <<s, r>> \in R
  <2>1. r.id = s.id => r = s
    BY DEF OneEach
  <2>2. /\ (r.updated > s.updated \/ r.updated = s.updated \/ s.updated > r.updated)
        /\ (r.id > s.id \/ r.id = s.id \/ s.id > r.id)
        /\ (Table(r) < Table(s) \/ Table(r) = Table(s) \/ Table(s) < Table(r))
    BY <1>1, <1>2
  <2>3. QED
    BY <1>3, <2>1, <2>2 DEF Sooner
<1>7. QED
  BY <1>4, <1>5, <1>6 DEF StrictOrder, R

LEMMA MergedCut ==
  ASSUME TypeOK, NEW part, NEW F, F = UNION {Got(part, t) : t \in Type},
         F \in SUBSET RowRec, OneEach(F), IsFiniteSet(F)
  PROVE  LET M == Merged(part)
         IN /\ M \in SUBSET F /\ IsFiniteSet(M) /\ Cardinality(M) \in 0..Limit
            /\ Cardinality(M) = Limit \/ M = F
            /\ \A r \in M : Cardinality({s \in F : Sooner(s, r)}) < Limit
            /\ \A r \in M, s \in F \ M : Sooner(r, s)
<1> DEFINE R == {e \in F \X F : Sooner(e[1], e[2])}
           M == Merged(part)
<1>1. StrictOrder(R, F)
  BY SoonerOrders
<1>2. \A r, s \in F : <<r, s>> \in R <=> Sooner(r, s)
  OBVIOUS
<1> HIDE DEF R
<1>3. \A r \in F : {s \in F : Sooner(s, r)} = Ahead(R, F, r)
  BY <1>2 DEF Ahead
<1>4. M = {r \in F : Cardinality({s \in F : Sooner(s, r)}) < Limit}
  BY DEF Merged
<1>5. M = FirstOf(R, F, Limit)
  BY <1>3, <1>4 DEF FirstOf
<1>6. Limit \in Nat
  BY NumberFacts
<1> HIDE DEF M
<1>7. ASSUME NEW r \in M, NEW s \in F \ M PROVE Sooner(r, s)
  <2>1. r \in FirstOf(R, F, Limit) /\ s \in F \ FirstOf(R, F, Limit) /\ r \in F
    BY <1>4, <1>5
  <2>2. <<r, s>> \in R
    BY <1>1, <1>6, <2>1, CutFirst
  <2>3. QED
    BY <1>2, <2>1, <2>2
<1>8. /\ IsFiniteSet(M) /\ Cardinality(M) \in 0..Limit
      /\ Cardinality(M) = Limit \/ M = F
  BY <1>1, <1>5, <1>6, Cut
<1>9. QED
  BY <1>4, <1>7, <1>8 DEF M

LEMMA SearchIsRight ==
  ASSUME TypeOK, RepliesFit, QuietReplies, quiet, Len(got) = Len(plan), surface = "search",
         Covers(plan, surface)
  PROVE  QuietSearch
<1> DEFINE F == UNION {Got("search", t) : t \in Type}
           M == Merged("search")
           found == UNION {Sought(t) : t \in Type}
           G(t) == Got("search", t)
<1>1. \A t \in Type :
        /\ G(t) \in SUBSET RowRec /\ IsFiniteSet(G(t))
        /\ \A r \in G(t) : r = RowOf(r.id) /\ r.id \in Sought(t)
        /\ Cardinality(G(t)) = Limit \/ Ids(G(t)) = Sought(t)
        /\ \A r \in G(t), j \in Sought(t) \ Ids(G(t)) : row[r.id].updated >= row[j].updated
  <2>1. \A t \in Type : Has("search", t)
    BY HoldsHas DEF Covers
  <2>2. QED
    BY <2>1, TableReply
<1>2. \A t \in Type : G(t) \in SUBSET F
  OBVIOUS
<1>3. F \in SUBSET RowRec /\ IsFiniteSet(F) /\ OneEach(F) /\ \A r \in F : r = RowOf(r.id)
  <2>1. "search" \in ByType
    BY DEF ByType
  <2>2. IsFiniteSet(F)
    BY <2>1, UnionParts
  <2>3. QED
    BY <1>1, <2>2 DEF OneEach
<1>4. /\ M \in SUBSET F /\ IsFiniteSet(M) /\ Cardinality(M) \in 0..Limit
      /\ Cardinality(M) = Limit \/ M = F
      /\ \A r \in M : Cardinality({s \in F : Sooner(s, r)}) < Limit
      /\ \A r \in M, s \in F \ M : Sooner(r, s)
  <2> HIDE DEF M
  <2>1. F = UNION {Got("search", t) : t \in Type}
    OBVIOUS
  <2> HIDE DEF F
  <2>2. QED
    BY <1>3, <2>1, MergedCut DEF M
<1>5. IsFiniteSet(found) /\ \A j \in found : j \in Item /\ Present(j) /\ row[j].updated \in Nat
  <2>1. found \in SUBSET Item /\ \A j \in found : Present(j)
    BY DEF Sought, With, Own
  <2>2. QED
    BY <2>1, NumberFacts, FS_Subset, RowFacts
<1>6. Ids(F) \in SUBSET found
  BY <1>1 DEF Ids
<1>7. Limit \in Nat
  BY NumberFacts
<1> HIDE DEF M, F, found, G
<1>8. OneEach(M) /\ Ids(M) \in SUBSET found
  BY <1>3, <1>4, <1>6 DEF OneEach, Ids
<1>9. IsFiniteSet(Ids(M)) /\ Cardinality(Ids(M)) = Cardinality(M)
  BY <1>4, <1>8, IdsCount
<1>10. Cardinality(M) = Limit \/ Ids(M) = found
  <2> SUFFICES ASSUME M = F, Cardinality(M) # Limit PROVE found \in SUBSET Ids(M)
    BY <1>4, <1>8
  <2>1. \A t \in Type : Ids(G(t)) = Sought(t)
    <3> SUFFICES ASSUME NEW t \in Type, Cardinality(G(t)) = Limit PROVE FALSE
      BY <1>1
    <3>1. Limit <= Cardinality(M)
      BY <1>2, <1>4, FS_Subset
    <3>2. QED
      BY <1>4, <1>7, <3>1
  <2>2. QED
    BY <1>2, <2>1 DEF Ids, found
<1>11. Cardinality(Ids(M)) = AtMost(Cardinality(found), Limit)
  <2>1. Cardinality(found) \in Nat /\ Cardinality(Ids(M)) <= Cardinality(found)
    BY <1>5, <1>8, FS_Subset, FS_CardinalityType
  <2>2. QED
    BY <1>4, <1>7, <1>9, <1>10, <2>1 DEF AtMost
<1>12. ASSUME NEW i \in Ids(M), NEW j \in found \ Ids(M) PROVE row[i].updated >= row[j].updated
  <2>1. PICK r \in M : r.id = i
    BY DEF Ids
  <2>2. r = RowOf(i) /\ r.updated = row[i].updated /\ row[i].updated \in Nat /\ row[j].updated \in Nat
    BY <1>3, <1>4, <1>5, <1>8, <2>1 DEF RowOf
  <2>3. CASE j \in Ids(F)
    <3>1. PICK s \in F : s.id = j
      BY <2>3 DEF Ids
    <3>2. s.updated = row[j].updated
      BY <1>3, <3>1 DEF RowOf
    <3>3. Sooner(r, s)
      BY <1>4, <1>12, <2>1, <3>1 DEF Ids
    <3>4. QED
      BY <2>2, <3>2, <3>3 DEF Sooner
  <2>4. CASE j \notin Ids(F)
    <3>1. PICK t \in Type : j \in Sought(t)
      BY <1>12 DEF found
    <3>2. j \notin Ids(G(t))
      BY <1>2, <2>4 DEF Ids
    <3>3. Cardinality(G(t)) = Limit
      BY <1>1, <3>1, <3>2
    <3>4. SUFFICES ASSUME ~(row[i].updated >= row[j].updated) PROVE FALSE
      OBVIOUS
    <3>5. ASSUME NEW s \in G(t) PROVE s \in F /\ Sooner(s, r)
      <4>1. s \in F /\ s.updated = row[s.id].updated /\ s.updated \in Nat
        BY <1>1, <1>2, <3>5 DEF RowOf, RowRec
      <4>2. row[s.id].updated >= row[j].updated
        BY <1>1, <3>1, <3>2, <3>5
      <4>3. s.updated > r.updated
        BY <2>2, <3>4, <4>1, <4>2
      <4>4. QED
        BY <4>1, <4>3 DEF Sooner
    <3> DEFINE ahead == {s \in F : Sooner(s, r)}
    <3>6. G(t) \in SUBSET ahead /\ IsFiniteSet(ahead)
      BY <1>3, <3>5, FS_Subset
    <3> HIDE DEF ahead
    <3>7. Cardinality(ahead) \in Nat /\ Limit <= Cardinality(ahead)
      BY <3>3, <3>6, FS_Subset, FS_CardinalityType
    <3>8. Cardinality(ahead) < Limit
      BY <1>4, <2>1 DEF ahead
    <3>9. QED
      BY <1>7, <3>7, <3>8
  <2>5. QED
    BY <2>3, <2>4
<1>13. found = UNION {With({i \in Own(t) : cast[i].rank > 0}, AgentShown, t) : t \in Type}
  BY DEF found, Sought
<1>14. QED
  BY <1>8, <1>11, <1>12, <1>13 DEF QuietSearch, M

LEMMA AnswersAreRight ==
  ASSUME TypeOK, Warned, RepliesFit, QuietReplies PROVE QuietAnswersFaithful
<1> SUFFICES ASSUME Served, quiet
             PROVE  /\ surface = "search" => QuietSearch
                    /\ surface \in {"prepare", "agent_context"} => QuietPacket
                    /\ surface \in {"quality", "project"} => QuietQuality
                    /\ QuietPages
  BY DEF QuietAnswersFaithful
<1>1. Len(got) = Len(plan) /\ Covers(plan, surface)
  BY DEF Served, TypeOK, ReaderOK
<1>2. QED
  BY <1>1, SearchIsRight, PacketIsRight, QualityIsRight, PagesAreRight DEF Packet

-----------------------------------------------------------------------------
(***************************************************************************)
(* The theorems.                                                           *)
(***************************************************************************)
IInv == TypeOK /\ Warned /\ RepliesFit /\ ReportsFit /\ AliveOK /\ NothingLost /\ QuietReplies

LEMMA InitIInv == Init => IInv
<1> SUFFICES ASSUME Init PROVE IInv
  OBVIOUS
<1>1. TypeOK
  BY StoreInit, ReaderInit DEF TypeOK
<1>2. got = <<>> /\ alive = {} /\ written = {} /\ relate = None
      /\ \A p \in Item \X Item : relation[p] = None
  BY DEF Init
<1>3. QED
  BY <1>1, <1>2 DEF IInv, Warned, RepliesFit, ReportsFit, AliveOK, NothingLost, QuietReplies

LEMMA StepIInv == IInv /\ [Next]_vars => IInv'
<1> SUFFICES ASSUME IInv, [Next]_vars PROVE IInv'
  OBVIOUS
<1> USE DEF IInv
<1>1. StoreOK' /\ ReaderOK'
  BY StoreStep, ReaderStep
<1>2. Warned' /\ RepliesFit' /\ ReportsFit'
  BY WarnedStep, RepliesFitStep, ReportsFitStep
<1>3. AliveOK' /\ NothingLost' /\ QuietReplies'
  BY AliveStep, NothingLostStep, QuietStep
<1>4. QED
  BY <1>1, <1>2, <1>3 DEF TypeOK

(* The inductive invariant of readers, writers and `relate`: whatever is    *)
(* committed between two queries, every reply fits the query it answers.   *)
THEOREM Invariance == Spec => []IInv
<1>1. QED
  BY InitIInv, StepIInv, PTL DEF Spec

(* Every variable has its type; the replies are to queries of the surface  *)
(* that was asked.                                                         *)
THEOREM TypeCorrect == Spec => []TypeOK
<1>1. IInv => TypeOK
  BY DEF IInv
<1>2. QED
  BY <1>1, Invariance, PTL

(* No memory that is still a draft is presented as reviewed, whatever is   *)
(* committed between the queries of an answer (fetch_brief_payload,        *)
(* fetch_prepare_payload, write_daily_report, run_relate and the others).  *)
THEOREM DraftsStayMarked == Spec => []DraftsNotPassedOff
<1>1. IInv => DraftsNotPassedOff
  BY NotPassedOff DEF IInv
<1>2. QED
  BY <1>1, Invariance, PTL

(* A memory that is there and active all the time is in the list, among    *)
(* the drafts counted or listed before it, or the list is full: the drafts *)
(* are read before the lists of reviewed memory.                           *)
THEOREM ActiveMemoryIsFound == Spec => []NothingSlipsThrough
<1>1. IInv => NothingSlipsThrough
  BY NothingSlips DEF IInv
<1>2. QED
  BY <1>1, Invariance, PTL

(* The packet of prepare has one row for each memory, keeps to its limit   *)
(* and loses no match (merge_prepare_rows).                                *)
THEOREM PacketIsConsistent == Spec => []PacketOfOneVoice
<1>1. IInv => PacketOfOneVoice
  BY OneVoice DEF IInv
<1>2. QED
  BY <1>1, Invariance, PTL

(* An answer during which nothing changed says what the database holds:    *)
(* the search and the packet show the best of all tables, gaps, counts and *)
(* score follow from the rows, and the pages agree on what needs attention *)
(* (search_project_memory, merge_prepare_rows, gaps.py,                    *)
(* fetch_project_quality, build_project_card, related_memory_cards).       *)
THEOREM QuietAnswersAreRight == Spec => []QuietAnswersFaithful
<1>1. IInv => QuietAnswersFaithful
  BY AnswersAreRight DEF IInv
<1>2. QED
  BY <1>1, Invariance, PTL

=============================================================================
