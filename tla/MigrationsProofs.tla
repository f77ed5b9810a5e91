-------------------------- MODULE MigrationsProofs --------------------------
(***************************************************************************)
(* The records of schema_migrations are true, migrations are executed in   *)
(* order, and a run that ends without an error has executed its checkout:  *)
(* for any number of migrators, checkouts and files, and with kills.       *)
(***************************************************************************)
EXTENDS Migrations, TLAPS

(* Files with a smaller number than next that m sees have been executed.   *)
Behind(m) == \A v \in DOMAIN checkout[m] : v < next[m] => Executed(v, checkout[m][v])

InLoop == {"check", "execute", "record", "recordFailure"}

(* What a migrator may rely on where it stands, whatever the others do.    *)
Stands(m) ==
  /\ pc[m] \in {"base", "bootstrap", "fresh", "freshTracking", "recordBoth"} => Has(m, TRACKING)
  /\ pc[m] \in {"bootstrap", "freshTracking", "recordBoth"} => Exists(BASELINE)
  /\ pc[m] = "recordBoth" => Executed(TRACKING, checkout[m][TRACKING])
  /\ pc[m] \in {"register", "recordBaseline"} \cup InLoop =>
       Exists(TRACKING) /\ DOMAIN checkout[m] # {}
  /\ pc[m] \in {"recordBaseline"} \cup InLoop => Behind(m)
  /\ pc[m] = "recordBaseline" => Exists(BASELINE)
  /\ pc[m] \in InLoop \ {"check"} => Has(m, next[m])
  /\ pc[m] = "record" => Executed(next[m], checkout[m][next[m]])
  /\ pc[m] = "look" => DOMAIN checkout[m] # {}
  /\ pc[m] = "ok" => \A v \in DOMAIN checkout[m] : Executed(v, checkout[m][v])

IInv ==
  /\ TypeOK
  /\ RecordsTrue
  /\ InOrder
  /\ \A m \in Migrator : Stands(m)

-----------------------------------------------------------------------------
(* The files of a checkout are numbered from 1 without a gap. *)
LEMMA Contiguous ==
  ASSUME NEW c \in Checkouts
  PROVE  \E n \in 0..Last : c \in [1..n -> Checksum]
  BY MigrationsAssumption

LEMMA Files ==
  ASSUME TypeOK, NEW m \in Migrator
  PROVE  /\ DOMAIN checkout[m] \subseteq Version
         /\ \A v \in DOMAIN checkout[m] : checkout[m][v] \in Checksum
         /\ \A v \in DOMAIN checkout[m], w \in Version : w < v => w \in DOMAIN checkout[m]
         /\ DOMAIN checkout[m] # {} => BASELINE \in DOMAIN checkout[m]
         /\ \A v \in Nat \ DOMAIN checkout[m] : \A w \in DOMAIN checkout[m] : v >= 1 => w < v
<1>1. PICK n \in 0..Last : checkout[m] \in [1..n -> Checksum]
  BY Contiguous DEF TypeOK
<1>2. DOMAIN checkout[m] = 1..n
  BY <1>1
<1> QED
  BY <1>1, <1>2, MigrationsAssumption DEF Version, BASELINE

(* A step that undoes nothing keeps what every other migrator relies on.   *)
LEMMA Grows ==
  ASSUME TypeOK, NEW q \in Migrator, Stands(q),
         \A v \in Version : effect[v] \subseteq effect'[v],
         pc'[q] = pc[q], next'[q] = next[q], checkout'[q] = checkout[q]
  PROVE  Stands(q)'
<1>1. DOMAIN checkout[q] \subseteq Version
  BY Files
<1>2. BASELINE \in Version /\ TRACKING \in Version
  BY MigrationsAssumption DEF Version, BASELINE, TRACKING
<1> QED
  BY <1>1, <1>2 DEF Stands, Behind, InLoop, Has, Executed, Exists

(* A step of m alone, which undoes nothing, leaves the others where they    *)
(* stand.                                                                  *)
LEMMA Others ==
  ASSUME IInv, NEW m \in Migrator,
         \A v \in Version : effect[v] \subseteq effect'[v],
         \A q \in Migrator \ {m} : pc'[q] = pc[q] /\ next'[q] = next[q] /\ checkout'[q] = checkout[q],
         Stands(m)'
  PROVE  \A q \in Migrator : Stands(q)'
<1> SUFFICES ASSUME NEW q \in Migrator, q # m PROVE Stands(q)'
  OBVIOUS
<1> QED
  BY Grows DEF IInv

(* What a step that leaves the database alone need not look at.            *)
LEMMA Quiet ==
  ASSUME IInv, UNCHANGED database
  PROVE  /\ RecordsTrue' /\ InOrder'
         /\ \A v \in Version : effect[v] \subseteq effect'[v]
  BY DEF IInv, database, RecordsTrue, InOrder, AppliedAlready, Executed, Exists

(* Executing a file of its checkout, when the files before it are there.   *)
LEMMA Executes ==
  ASSUME IInv, NEW m \in Migrator, NEW v \in Version, NEW from, NEW to \in Place,
         Has(m, v), Execute(m, v, from, to),
         \A w \in Version : w < v => Exists(w)
  PROVE  /\ TypeOK' /\ RecordsTrue' /\ InOrder'
         /\ \A w \in Version : effect[w] \subseteq effect'[w]
         /\ Executed(v, checkout[m][v])' /\ Exists(v)'
         /\ pc' = [pc EXCEPT ![m] = to] /\ UNCHANGED local
<1>1. checkout[m][v] \in Checksum
  BY Files DEF Has, IInv
<1>2. effect' = [effect EXCEPT ![v] = @ \cup {checkout[m][v]}] /\ UNCHANGED <<record, local, clean>>
      /\ pc' = [pc EXCEPT ![m] = to]
  BY DEF Execute, Goto
<1>3. effect \in [Version -> SUBSET Checksum] /\ record \in [Version -> Record]
  BY DEF IInv, TypeOK, Database
<1>4. effect' \in [Version -> SUBSET Checksum]
  BY <1>1, <1>2, <1>3
<1>5. \A w \in Version : effect[w] \subseteq effect'[w]
  BY <1>2, <1>3
<1>6. TypeOK'
  BY <1>2, <1>3, <1>4 DEF IInv, TypeOK, Database, local
<1>7. RecordsTrue'
  BY <1>2, <1>5 DEF IInv, RecordsTrue, AppliedAlready, Executed, Exists
<1>8. InOrder'
  <2> SUFFICES ASSUME NEW x \in Version, NEW w \in Version, effect'[x] # {}, w < x
               PROVE  effect'[w] # {}
    BY DEF InOrder, Exists
  <2>1. CASE x = v
    BY <2>1, <1>5 DEF Exists
  <2>2. CASE x # v
    BY <2>2, <1>2, <1>3, <1>5 DEF IInv, InOrder, Exists
  <2> QED
    BY <2>1, <2>2
<1>9. Executed(v, checkout[m][v])' /\ Exists(v)'
  BY <1>2, <1>3 DEF Executed, Exists, local
<1> QED
  BY <1>2, <1>5, <1>6, <1>7, <1>8, <1>9

(* The upsert of records of files that have been executed.                 *)
LEMMA Writes ==
  ASSUME IInv, UNCHANGED effect, record' \in [Version -> Record],
         \A v \in Version : \/ record'[v] = record[v]
                           \/ record'[v].status # "applied"
                           \/ Executed(v, record'[v].checksum)
  PROVE  /\ RecordsTrue' /\ InOrder'
         /\ \A v \in Version : effect[v] \subseteq effect'[v]
  BY DEF IInv, RecordsTrue, InOrder, AppliedAlready, Executed, Exists

-----------------------------------------------------------------------------
(***************************************************************************)
(* One lemma per step: what m relies on after it, and the rest of IInv.    *)
(***************************************************************************)
(* m has moved, the database has only grown. *)
LEMMA Conclude ==
  ASSUME IInv, NEW m \in Migrator, TypeOK', RecordsTrue', InOrder', Stands(m)',
         \A v \in Version : effect[v] \subseteq effect'[v],
         \A q \in Migrator \ {m} : pc'[q] = pc[q] /\ next'[q] = next[q] /\ checkout'[q] = checkout[q]
  PROVE  IInv'
<1>1. \A q \in Migrator : Stands(q)'
  BY Others
<1> QED
  BY <1>1 DEF IInv

LEMMA Numbers == BASELINE \in Version /\ TRACKING \in Version /\ BASELINE < TRACKING
  BY MigrationsAssumption DEF Version, BASELINE, TRACKING

LEMMA RecordTypes ==
  ASSUME NEW c \in Checksum
  PROVE  Applied(c) \in Record /\ [status |-> "failed", checksum |-> c] \in Record
         /\ Applied(c).status = "applied" /\ Applied(c).checksum = c
  BY DEF Applied, Record

LEMMA StartInv ==
  ASSUME IInv, NEW m \in Migrator, Start(m) PROVE IInv'
<1>1. PICK c \in Checkouts :
        /\ checkout' = [checkout EXCEPT ![m] = c]
        /\ pc' = [pc EXCEPT ![m] = IF DOMAIN c = {} THEN "failed" ELSE "look"]
  BY DEF Start
<1>2. UNCHANGED database /\ next' = next /\ clean' \in [Migrator -> BOOLEAN]
  BY DEF Start, Alone, Running
<1>3. TypeOK'
  BY <1>1, <1>2 DEF IInv, TypeOK, database, Place
<1>4. Stands(m)'
  BY <1>1, <1>2 DEF IInv, TypeOK, Stands, InLoop
<1> QED
  BY <1>1, <1>2, <1>3, <1>4, Quiet, Conclude DEF IInv, TypeOK

LEMMA LookInv ==
  ASSUME IInv, NEW m \in Migrator, LookTracking(m) \/ LookBase(m) PROVE IInv'
<1>1. UNCHANGED <<database, local, clean>>
  BY DEF LookTracking, LookBase
<1>2. PICK p \in Place : pc' = [pc EXCEPT ![m] = p]
  BY DEF LookTracking, LookBase, Goto, Place
<1>3. TypeOK'
  BY <1>1, <1>2 DEF IInv, TypeOK, database, local
<1>4. Stands(m)'
  BY <1>1 DEF IInv, TypeOK, Stands, InLoop, LookTracking, LookBase, Goto, Has, database, local, Exists, Executed
<1> QED
  BY <1>1, <1>2, <1>3, <1>4, Quiet, Conclude DEF IInv, TypeOK, local

LEMMA FailsInv ==
  ASSUME IInv, NEW m \in Migrator, NEW v, NEW from, NEW to \in {"failed", "recordFailure"},
         ExecuteFails(m, v, from, to), to = "recordFailure" => from = "execute"
  PROVE  IInv'
<1>1. UNCHANGED <<database, local>> /\ pc[m] = from /\ pc' = [pc EXCEPT ![m] = to]
  BY DEF ExecuteFails, Goto
<1>2. clean' \in [Migrator -> BOOLEAN]
  <2>1. clean \in [Migrator -> BOOLEAN] /\ clean' = [clean EXCEPT ![m] = clean[m] /\ ~Executable(v)]
    BY DEF ExecuteFails, IInv, TypeOK
  <2>2. (clean[m] /\ ~Executable(v)) \in BOOLEAN
    OBVIOUS
  <2> QED
    BY <2>1, <2>2, Zenon
<1>3. TypeOK'
  BY <1>1, <1>2 DEF IInv, TypeOK, database, local, Place
<1>4. Stands(m)'
  BY <1>1 DEF IInv, TypeOK, Stands, InLoop, Has, database, local, Exists, Executed, Behind
<1> QED
  BY <1>1, <1>3, <1>4, Quiet, Conclude DEF IInv, TypeOK, local

LEMMA BootstrapInv ==
  ASSUME IInv, NEW m \in Migrator, Bootstrap(m) PROVE IInv'
<1>1. CASE Execute(m, TRACKING, "bootstrap", "recordBoth")
  <2>1. pc[m] = "bootstrap" /\ "recordBoth" \in Place
    BY <1>1 DEF Execute, Goto, Place
  <2>2. Has(m, TRACKING) /\ Exists(BASELINE)
    BY <2>1 DEF IInv, Stands
  <2>3. \A w \in Version : w < TRACKING => Exists(w)
    BY <2>2 DEF Version, BASELINE, TRACKING
  <2>4. /\ TypeOK' /\ RecordsTrue' /\ InOrder'
        /\ \A w \in Version : effect[w] \subseteq effect'[w]
        /\ Executed(TRACKING, checkout[m][TRACKING])' /\ Exists(TRACKING)'
        /\ pc' = [pc EXCEPT ![m] = "recordBoth"] /\ UNCHANGED local
    BY <1>1, <2>1, <2>2, <2>3, Numbers, Executes
  <2>5. Stands(m)'
    BY <2>2, <2>4, Numbers DEF Stands, InLoop, IInv, TypeOK, Has, local, Exists
  <2> QED
    BY <2>4, <2>5, Conclude DEF IInv, TypeOK, local
<1>2. CASE ExecuteFails(m, TRACKING, "bootstrap", "failed")
  BY <1>2, FailsInv
<1> QED
  BY <1>1, <1>2 DEF Bootstrap

LEMMA FreshInv ==
  ASSUME IInv, NEW m \in Migrator, Fresh(m) PROVE IInv'
<1>1. CASE Execute(m, BASELINE, "fresh", "freshTracking")
  <2>1. pc[m] = "fresh" /\ "freshTracking" \in Place
    BY <1>1 DEF Execute, Goto, Place
  <2>2. Has(m, TRACKING) /\ Has(m, BASELINE)
    BY <2>1, Files, Numbers DEF IInv, Stands, Has
  <2>3. \A w \in Version : w < BASELINE => Exists(w)
    BY DEF Version, BASELINE
  <2>4. /\ TypeOK' /\ RecordsTrue' /\ InOrder'
        /\ \A w \in Version : effect[w] \subseteq effect'[w]
        /\ Exists(BASELINE)'
        /\ pc' = [pc EXCEPT ![m] = "freshTracking"] /\ UNCHANGED local
    BY <1>1, <2>1, <2>2, <2>3, Numbers, Executes
  <2>5. Stands(m)'
    BY <2>2, <2>4 DEF Stands, InLoop, IInv, TypeOK, Has, local
  <2> QED
    BY <2>4, <2>5, Conclude DEF IInv, TypeOK, local
<1>2. CASE Execute(m, TRACKING, "freshTracking", "recordBoth")
  <2>1. pc[m] = "freshTracking" /\ "recordBoth" \in Place
    BY <1>2 DEF Execute, Goto, Place
  <2>2. Has(m, TRACKING) /\ Exists(BASELINE)
    BY <2>1 DEF IInv, Stands
  <2>3. \A w \in Version : w < TRACKING => Exists(w)
    BY <2>2 DEF Version, BASELINE, TRACKING
  <2>4. /\ TypeOK' /\ RecordsTrue' /\ InOrder'
        /\ \A w \in Version : effect[w] \subseteq effect'[w]
        /\ Executed(TRACKING, checkout[m][TRACKING])' /\ Exists(TRACKING)'
        /\ pc' = [pc EXCEPT ![m] = "recordBoth"] /\ UNCHANGED local
    BY <1>2, <2>1, <2>2, <2>3, Numbers, Executes
  <2>5. Stands(m)'
    BY <2>2, <2>4, Numbers DEF Stands, InLoop, IInv, TypeOK, Has, local, Exists
  <2> QED
    BY <2>4, <2>5, Conclude DEF IInv, TypeOK, local
<1>3. CASE \/ ExecuteFails(m, BASELINE, "fresh", "failed")
           \/ ExecuteFails(m, TRACKING, "freshTracking", "failed")
  BY <1>3, FailsInv
<1> QED
  BY <1>1, <1>2, <1>3 DEF Fresh

LEMMA RecordBothInv ==
  ASSUME IInv, NEW m \in Migrator, RecordBoth(m) PROVE IInv'
<1>1. /\ pc[m] = "recordBoth" /\ pc' = [pc EXCEPT ![m] = "register"]
      /\ record' = [v \in Version |-> IF v \in {BASELINE, TRACKING} THEN Applied(checkout[m][v]) ELSE record[v]]
      /\ UNCHANGED <<effect, local, clean>>
  BY DEF RecordBoth, WriteRecords, Goto
<1>2. Has(m, TRACKING) /\ Has(m, BASELINE)
      /\ Exists(BASELINE) /\ Executed(TRACKING, checkout[m][TRACKING])
  BY <1>1, Files, Numbers DEF IInv, Stands, Has
<1>3. checkout[m][BASELINE] \in Checksum /\ checkout[m][TRACKING] \in Checksum
  BY <1>2, Files DEF Has, IInv
<1>4. record' \in [Version -> Record]
  BY <1>1, <1>3, RecordTypes DEF IInv, TypeOK, Database
<1>5. \A v \in Version : record'[v] = record[v] \/ Executed(v, record'[v].checksum)
  BY <1>1, <1>2, <1>3, RecordTypes DEF Executed
<1>6. TypeOK'
  BY <1>1, <1>4 DEF IInv, TypeOK, Database, local, Place
<1>7. Stands(m)'
  BY <1>1, <1>2 DEF Stands, InLoop, IInv, TypeOK, Has, local, Exists, Executed, BASELINE, TRACKING
<1> QED
  BY <1>1, <1>4, <1>5, <1>6, <1>7, Writes, Conclude DEF IInv, TypeOK, local

LEMMA RegisterInv ==
  ASSUME IInv, NEW m \in Migrator, Register(m) PROVE IInv'
<1> DEFINE to == IF Exists(BASELINE) /\ record[BASELINE] = NoRecord
                   THEN "recordBaseline" ELSE "check"
<1>1. /\ pc[m] = "register" /\ pc' = [pc EXCEPT ![m] = to]
      /\ next' = [next EXCEPT ![m] = 1]
      /\ UNCHANGED <<database, checkout, clean>>
  BY DEF Register, Goto
<1>2. DOMAIN checkout[m] # {} /\ Exists(TRACKING)
  BY <1>1 DEF IInv, Stands
<1>3. /\ to \in {"recordBaseline", "check"}
      /\ to = "recordBaseline" => Exists(BASELINE)
  OBVIOUS
<1> HIDE DEF to
<1>4. TypeOK'
  BY <1>1, <1>3, MigrationsAssumption DEF IInv, TypeOK, Database, database, Place
<1>5. Stands(m)'
  <2>1. next'[m] = 1 /\ pc'[m] = to
    BY <1>1 DEF IInv, TypeOK
  <2>2. DOMAIN checkout[m] \subseteq Version
    BY Files DEF IInv
  <2>3. Behind(m)'
    BY <1>1, <2>1, <2>2 DEF Behind, Version
  <2>4. /\ Exists(TRACKING)' /\ DOMAIN checkout'[m] # {}
        /\ to = "recordBaseline" => Exists(BASELINE)'
    BY <1>1, <1>2, <1>3 DEF Exists, database
  <2> QED
    BY <1>3, <2>1, <2>3, <2>4 DEF Stands, InLoop
<1> QED
  BY <1>1, <1>4, <1>5, Quiet, Conclude DEF IInv, TypeOK

LEMMA RecordBaselineInv ==
  ASSUME IInv, NEW m \in Migrator, RecordBaseline(m) PROVE IInv'
<1>1. /\ pc[m] = "recordBaseline" /\ pc' = [pc EXCEPT ![m] = "check"]
      /\ record' = [v \in Version |-> IF v \in {BASELINE} THEN Applied(checkout[m][v]) ELSE record[v]]
      /\ UNCHANGED <<effect, local, clean>>
  BY DEF RecordBaseline, WriteRecords, Goto
<1>2. DOMAIN checkout[m] # {} /\ Exists(TRACKING) /\ Exists(BASELINE) /\ Behind(m)
  BY <1>1 DEF IInv, Stands
<1>3. checkout[m][BASELINE] \in Checksum
  BY <1>2, Files DEF IInv
<1>4. record' \in [Version -> Record]
  BY <1>1, <1>3, RecordTypes DEF IInv, TypeOK, Database
<1>5. \A v \in Version : record'[v] = record[v] \/ Executed(v, record'[v].checksum)
  BY <1>1, <1>2 DEF Executed
<1>6. TypeOK'
  BY <1>1, <1>4 DEF IInv, TypeOK, Database, local, Place
<1>7. Stands(m)'
  <2>1. pc'[m] = "check" /\ Behind(m)'
    BY <1>1, <1>2 DEF IInv, TypeOK, Behind, Executed, Exists, local
  <2> QED
    BY <1>1, <1>2, <2>1 DEF Stands, InLoop, Exists, local
<1> QED
  BY <1>1, <1>4, <1>5, <1>6, <1>7, Writes, Conclude DEF IInv, TypeOK, local

(* next[m] has been executed: m may go on with the one behind it.          *)
LEMMA Advances ==
  ASSUME IInv, NEW m \in Migrator, pc[m] \in InLoop, Has(m, next[m]),
         Executed(next[m], checkout[m][next[m]]),
         UNCHANGED effect, Advance(m), pc' = [pc EXCEPT ![m] = "check"]
  PROVE  Stands(m)' /\ next' \in [Migrator -> 1..(Last + 1)]
<1>1. next' = [next EXCEPT ![m] = next[m] + 1] /\ UNCHANGED <<checkout, clean>>
  BY DEF Advance
<1>2. next[m] \in Version /\ DOMAIN checkout[m] \subseteq Version
  BY Files DEF IInv, Has
<1>3. next' \in [Migrator -> 1..(Last + 1)]
  BY <1>1, <1>2, MigrationsAssumption DEF IInv, TypeOK, Version
<1>4. next'[m] = next[m] + 1 /\ checkout'[m] = checkout[m]
  BY <1>1 DEF IInv, TypeOK
<1>5. Behind(m)'
  <2> SUFFICES ASSUME NEW v \in DOMAIN checkout[m], v < next[m] + 1
               PROVE  Executed(v, checkout[m][v])'
    BY <1>4 DEF Behind
  <2>1. v < next[m] \/ v = next[m]
    BY <1>2 DEF Version
  <2>2. Executed(v, checkout[m][v])
    BY <2>1 DEF IInv, Stands, Behind
  <2> QED
    BY <2>2, <1>1 DEF Executed, Exists
<1>6. Exists(TRACKING) /\ DOMAIN checkout[m] # {}
  BY DEF IInv, Stands
<1> QED
  BY <1>3, <1>4, <1>5, <1>6 DEF Stands, InLoop, IInv, TypeOK, Exists

LEMMA SkipInv ==
  ASSUME IInv, NEW m \in Migrator, Skip(m) PROVE IInv'
<1>1. /\ Has(m, next[m]) /\ AppliedAlready(next[m]) /\ record[next[m]].checksum = checkout[m][next[m]]
      /\ pc[m] = "check" /\ pc' = [pc EXCEPT ![m] = "check"]
      /\ Advance(m) /\ UNCHANGED database
  BY DEF Skip, Goto
<1>2. next[m] \in Version
  BY <1>1, Files DEF IInv, Has
<1>3. Executed(next[m], checkout[m][next[m]])
  BY <1>1, <1>2 DEF IInv, RecordsTrue
<1>4. Stands(m)' /\ next' \in [Migrator -> 1..(Last + 1)]
  BY <1>1, <1>3, Advances DEF InLoop, database
<1>5. TypeOK'
  BY <1>1, <1>4 DEF IInv, TypeOK, database, Advance, Place
<1>6. \A q \in Migrator \ {m} : pc'[q] = pc[q] /\ next'[q] = next[q] /\ checkout'[q] = checkout[q]
  BY <1>1 DEF IInv, TypeOK, Advance
<1> QED
  BY <1>1, <1>4, <1>5, <1>6, Quiet, Conclude

LEMMA ChangedPickFinishInv ==
  ASSUME IInv, NEW m \in Migrator, Changed(m) \/ Pick(m) \/ Finish(m) PROVE IInv'
<1>1. UNCHANGED <<database, local, clean>> /\ pc[m] = "check"
  BY DEF Changed, Pick, Finish, Goto
<1>2. PICK p \in {"failed", "execute", "ok"} :
        /\ pc' = [pc EXCEPT ![m] = p]
        /\ p = "execute" => Has(m, next[m])
        /\ p = "ok" => ~Has(m, next[m])
  BY DEF Changed, Pick, Finish, Goto
<1>3. TypeOK'
  BY <1>1, <1>2 DEF IInv, TypeOK, database, local, Place
<1>4. Stands(m)'
  <2>1. next[m] \in Nat /\ next[m] >= 1
    BY MigrationsAssumption DEF IInv, TypeOK
  <2>2. p = "ok" => \A v \in DOMAIN checkout[m] : v < next[m]
    BY <1>2, <2>1, Files DEF IInv, Has
  <2>3. Behind(m) /\ Exists(TRACKING) /\ DOMAIN checkout[m] # {}
    BY <1>1 DEF IInv, Stands, InLoop
  <2>4. p = "ok" => \A v \in DOMAIN checkout[m] : Executed(v, checkout[m][v])
    BY <2>2, <2>3 DEF Behind
  <2> QED
    BY <1>1, <1>2, <2>3, <2>4 DEF IInv, TypeOK, Stands, InLoop, Has, Behind, database, local, Exists, Executed
<1> QED
  BY <1>1, <1>2, <1>3, <1>4, Quiet, Conclude DEF IInv, TypeOK, local

LEMMA ExecuteNextInv ==
  ASSUME IInv, NEW m \in Migrator, ExecuteNext(m) PROVE IInv'
<1>1. CASE Execute(m, next[m], "execute", "record")
  <2>1. pc[m] = "execute" /\ "record" \in Place
    BY <1>1 DEF Execute, Goto, Place
  <2>2. Has(m, next[m]) /\ Behind(m) /\ Exists(TRACKING) /\ DOMAIN checkout[m] # {}
    BY <2>1 DEF IInv, Stands, InLoop
  <2>3. next[m] \in Version
    BY <2>2, Files DEF IInv, Has
  <2>4. \A w \in Version : w < next[m] => Exists(w)
    <3> SUFFICES ASSUME NEW w \in Version, w < next[m] PROVE Exists(w)
      OBVIOUS
    <3>1. w \in DOMAIN checkout[m]
      BY <2>2, <2>3, Files DEF IInv, Has
    <3> QED
      BY <3>1, <2>2 DEF Behind, Executed, Exists
  <2>5. PICK v \in Version : v = next[m]
    BY <2>3
  <2>6. /\ TypeOK' /\ RecordsTrue' /\ InOrder'
        /\ \A w \in Version : effect[w] \subseteq effect'[w]
        /\ Executed(v, checkout[m][v])'
        /\ pc' = [pc EXCEPT ![m] = "record"] /\ UNCHANGED local
    BY <1>1, <2>1, <2>2, <2>4, <2>5, Executes
  <2>7. Behind(m)' /\ Exists(TRACKING)'
    <3>1. DOMAIN checkout[m] \subseteq Version
      BY Files DEF IInv
    <3> QED
      BY <3>1, <2>2, <2>6, Numbers DEF Behind, Executed, Exists, local
  <2>8. Stands(m)'
    BY <2>2, <2>6, <2>7, <2>5 DEF Stands, InLoop, IInv, TypeOK, Has, local
  <2> QED
    BY <2>6, <2>8, Conclude DEF IInv, TypeOK, local
<1>2. CASE ExecuteFails(m, next[m], "execute", "recordFailure")
  BY <1>2, FailsInv
<1> QED
  BY <1>1, <1>2 DEF ExecuteNext

LEMMA RecordNextInv ==
  ASSUME IInv, NEW m \in Migrator, RecordNext(m) PROVE IInv'
<1>1. /\ pc[m] = "record" /\ pc' = [pc EXCEPT ![m] = "check"]
      /\ record' = [record EXCEPT ![next[m]] = Applied(checkout[m][next[m]])]
      /\ Advance(m) /\ UNCHANGED effect
  BY DEF RecordNext, Goto
<1>2. Has(m, next[m]) /\ Executed(next[m], checkout[m][next[m]])
  BY <1>1 DEF IInv, Stands, InLoop
<1>3. checkout[m][next[m]] \in Checksum /\ next[m] \in Version
  BY <1>2, Files DEF IInv, Has
<1>4. record' \in [Version -> Record]
  BY <1>1, <1>3, RecordTypes DEF IInv, TypeOK, Database
<1>5. \A v \in Version : record'[v] = record[v] \/ Executed(v, record'[v].checksum)
  <2> SUFFICES ASSUME NEW v \in Version, v = next[m] PROVE Executed(v, record'[v].checksum)
    BY <1>1 DEF IInv, TypeOK, Database
  <2>1. record'[v].checksum = checkout[m][next[m]]
    BY <1>1, <1>3, RecordTypes DEF IInv, TypeOK, Database
  <2> QED
    BY <2>1, <1>2
<1>6. Stands(m)' /\ next' \in [Migrator -> 1..(Last + 1)]
  BY <1>1, <1>2, Advances DEF InLoop
<1>7. TypeOK'
  BY <1>1, <1>4, <1>6 DEF IInv, TypeOK, Database, Advance, Place
<1>8. \A q \in Migrator \ {m} : pc'[q] = pc[q] /\ next'[q] = next[q] /\ checkout'[q] = checkout[q]
  BY <1>1 DEF IInv, TypeOK, Advance
<1> QED
  BY <1>1, <1>4, <1>5, <1>6, <1>7, <1>8, Writes, Conclude

LEMMA RecordFailureInv ==
  ASSUME IInv, NEW m \in Migrator, RecordFailure(m) PROVE IInv'
<1>1. /\ pc[m] = "recordFailure" /\ pc' = [pc EXCEPT ![m] = "failed"]
      /\ record' = [record EXCEPT ![next[m]] =
                      [status |-> "failed", checksum |-> checkout[m][next[m]]]]
      /\ UNCHANGED <<effect, local, clean>>
  BY DEF RecordFailure, Goto
<1>2. checkout[m][next[m]] \in Checksum /\ next[m] \in Version
  BY <1>1, Files DEF IInv, Has, Stands, InLoop
<1>3. record' \in [Version -> Record]
  BY <1>1, <1>2, RecordTypes DEF IInv, TypeOK, Database
<1>4. \A v \in Version : record'[v] = record[v] \/ record'[v].status # "applied"
  BY <1>1, <1>2 DEF IInv, TypeOK, Database
<1>5. TypeOK'
  BY <1>1, <1>3 DEF IInv, TypeOK, Database, local, Place
<1>6. Stands(m)'
  BY <1>1 DEF IInv, TypeOK, Stands, InLoop
<1> QED
  BY <1>1, <1>3, <1>4, <1>5, <1>6, Writes, Conclude DEF IInv, TypeOK, local

LEMMA KillInv ==
  ASSUME IInv, NEW m \in Migrator, Kill(m) PROVE IInv'
<1>1. UNCHANGED <<database, local, clean>> /\ pc' = [pc EXCEPT ![m] = "idle"]
  BY DEF Kill
<1>2. TypeOK'
  BY <1>1 DEF IInv, TypeOK, database, local, Place
<1>3. Stands(m)'
  BY <1>1 DEF IInv, TypeOK, Stands, InLoop
<1> QED
  BY <1>1, <1>2, <1>3, Quiet, Conclude DEF IInv, TypeOK, local

LEMMA RestoreInv ==
  ASSUME IInv, RestoreFails PROVE IInv'
<1>1. /\ effect' = [v \in Version |-> {}] /\ record' = [v \in Version |-> NoRecord]
      /\ pc' = [m \in Migrator |-> "idle"] /\ UNCHANGED <<local, clean>>
  BY DEF RestoreFails, Empty
<1>2. NoRecord \in Record /\ NoRecord.status # "applied"
  BY MigrationsAssumption DEF NoRecord, Record
<1>3. TypeOK'
  BY <1>1, <1>2 DEF IInv, TypeOK, Database, local, Place
<1>4. RecordsTrue' /\ InOrder'
  BY <1>1, <1>2 DEF RecordsTrue, InOrder, AppliedAlready, Exists
<1>5. \A m \in Migrator : Stands(m)'
  BY <1>1 DEF Stands, InLoop
<1> QED
  BY <1>3, <1>4, <1>5 DEF IInv

-----------------------------------------------------------------------------
(***************************************************************************)
(* The theorems.                                                           *)
(***************************************************************************)
LEMMA InitInv == Init => IInv
<1> SUFFICES ASSUME Init PROVE IInv
  OBVIOUS
<1>1. NoRecord \in Record /\ NoRecord.status # "applied"
  BY MigrationsAssumption DEF NoRecord, Record
<1>2. \A v \in Version : v # BASELINE => effect[v] = {}
  BY DEF Init, Empty
<1>3. effect \in [Version -> SUBSET Checksum]
  <2>1. \A c \in Checkouts : DOMAIN c # {} => c[BASELINE] \in Checksum
    <3> SUFFICES ASSUME NEW c \in Checkouts, DOMAIN c # {} PROVE c[BASELINE] \in Checksum
      OBVIOUS
    <3>1. PICK n \in 0..Last : c \in [1..n -> Checksum]
      BY Contiguous
    <3> QED
      BY <3>1, MigrationsAssumption DEF BASELINE
  <2> QED
    BY <2>1 DEF Init, Empty
<1>4. TypeOK
  BY <1>1, <1>3, MigrationsAssumption DEF Init, TypeOK, Database, Empty, Place
<1>5. RecordsTrue
  BY <1>1 DEF Init, Empty, RecordsTrue, AppliedAlready
<1>6. InOrder
  BY <1>2 DEF InOrder, Exists, Version, BASELINE
<1>7. \A m \in Migrator : Stands(m)
  BY DEF Init, Stands, InLoop
<1> QED
  BY <1>4, <1>5, <1>6, <1>7 DEF IInv

LEMMA NextInv == IInv /\ [Next]_vars => IInv'
<1> SUFFICES ASSUME IInv, [Next]_vars PROVE IInv'
  OBVIOUS
<1>1. ASSUME NEW m \in Migrator, Start(m) PROVE IInv'
  BY <1>1, StartInv
<1>2. ASSUME NEW m \in Migrator, Step(m) PROVE IInv'
  BY <1>2, LookInv, BootstrapInv, FreshInv, RecordBothInv, RegisterInv, RecordBaselineInv, SkipInv,
     ChangedPickFinishInv, ExecuteNextInv, RecordNextInv, RecordFailureInv DEF Step
<1>3. ASSUME NEW m \in Migrator, Kill(m) PROVE IInv'
  BY <1>3, KillInv
<1>4. CASE RestoreFails
  BY <1>4, RestoreInv
<1>5. CASE UNCHANGED vars
  <2>1. UNCHANGED <<database, local, clean, pc>>
    BY <1>5 DEF vars
  <2>2. TypeOK'
    BY <2>1 DEF IInv, TypeOK, database, local
  <2>3. \A m \in Migrator : Stands(m)'
    BY <2>1, Grows DEF IInv, database, local
  <2> QED
    BY <2>1, <2>2, <2>3, Quiet DEF IInv
<1> QED
  BY <1>1, <1>2, <1>3, <1>4, <1>5 DEF Next

THEOREM Invariant == Spec => []IInv
  BY InitInv, NextInv, PTL DEF Spec

(* Every variable of the migrators keeps its type. *)
THEOREM TypeCorrect == Spec => []TypeOK
<1>1. IInv => TypeOK
  BY DEF IInv
<1> QED
  BY <1>1, Invariant, PTL

(* What the table calls applied has been executed with that content.       *)
THEOREM RecordsAreTrue == Spec => []RecordsTrue
<1>1. IInv => RecordsTrue
  BY DEF IInv
<1> QED
  BY <1>1, Invariant, PTL

(* No migration is executed before its predecessors.                       *)
THEOREM ExecutedInOrder == Spec => []InOrder
<1>1. IInv => InOrder
  BY DEF IInv
<1> QED
  BY <1>1, Invariant, PTL

(* A run without an error has every file of its checkout executed.         *)
THEOREM SuccessIsExecution == Spec => []SuccessMeansExecuted
<1>1. IInv => SuccessMeansExecuted
  BY DEF IInv, Stands, SuccessMeansExecuted
<1> QED
  BY <1>1, Invariant, PTL
-----------------------------------------------------------------------------
(***************************************************************************)
(* A run that is alone and meets no fault repairs what others have left.   *)
(***************************************************************************)
(* In the loop the baseline is recorded as applied, and it stays so: no    *)
(* failure is ever recorded for it.                                        *)
BaseOf(m) ==
  pc[m] \in InLoop =>
    record[BASELINE].status = "applied" /\ (pc[m] # "check" => next[m] # BASELINE)
BaseInv ==
  /\ record[BASELINE] = NoRecord \/ record[BASELINE].status = "applied"
  /\ \A m \in Migrator : BaseOf(m)

Recorded(m, v) == AppliedAlready(v) /\ record[v].checksum = checkout[m][v]

FailureExplained(m) ==
  \/ \E v \in DOMAIN checkout[m] : ReportedStatus(checkout[m], v) = "changed"
  \/ ~Has(m, TRACKING)

(* What a run knows that has been alone and has met no fault.              *)
CleanOf(m) ==
  clean[m] =>
    /\ Alone(m)
    /\ pc[m] = "fresh" => ~Exists(BASELINE)
    /\ pc[m] # "recordFailure"
    /\ pc[m] \in {"recordBaseline"} \cup InLoop =>
         \A v \in DOMAIN checkout[m] : v < next[m] => Recorded(m, v)
    /\ pc[m] = "ok" => \A v \in DOMAIN checkout[m] : Recorded(m, v)
    /\ pc[m] = "failed" => FailureExplained(m)
CleanInv == \A m \in Migrator : CleanOf(m)

LEMMA Reports ==
  ASSUME NEW m \in Migrator, NEW v, AppliedAlready(v)
  PROVE  /\ Recorded(m, v) => ReportedStatus(checkout[m], v) = "applied"
         /\ record[v].checksum # checkout[m][v] => ReportedStatus(checkout[m], v) = "changed"
<1>1. record[v] # NoRecord
  BY MigrationsAssumption DEF AppliedAlready, NoRecord
<1> QED
  BY <1>1 DEF ReportedStatus, Recorded, AppliedAlready

(* Who takes a step, and what it leaves alone. *)
Moves(m) == Running(m) /\ (Step(m) \/ Kill(m))

LEMMA StepRuns ==
  ASSUME NEW m \in Migrator, Step(m) \/ Kill(m) PROVE Moves(m)
  BY DEF Moves, Running, Ended, Goto, Step, LookTracking, LookBase, Bootstrap, Fresh,
         RecordBoth, WriteRecords, Register, RecordBaseline, Skip, Changed, Pick, ExecuteNext, Execute,
         ExecuteFails, RecordNext, RecordFailure, Finish, Kill

LEMMA MovesOne ==
  ASSUME TypeOK, NEW m \in Migrator, Moves(m), NEW q \in Migrator \ {m}
  PROVE  pc'[q] = pc[q] /\ next'[q] = next[q] /\ checkout'[q] = checkout[q]
         /\ clean'[q] = clean[q]
  BY DEF Moves, TypeOK, local, Goto, Step, LookTracking, LookBase, Bootstrap, Fresh,
         RecordBoth, WriteRecords, Register, RecordBaseline, Skip, Changed, Pick, ExecuteNext, Execute,
         ExecuteFails, RecordNext, RecordFailure, Finish, Kill, Advance

(* A step of m on its way, as far as the records and the baseline go.      *)
LEMMA StepBase ==
  ASSUME IInv, BaseInv, NEW m \in Migrator, Moves(m)
  PROVE  BaseOf(m)' /\ (record[BASELINE] = NoRecord \/ record[BASELINE].status = "applied")'
         /\ (record[BASELINE].status = "applied" => record'[BASELINE].status = "applied")
<1>1. /\ TypeOK /\ BaseOf(m) /\ Stands(m)
      /\ record[BASELINE] = NoRecord \/ record[BASELINE].status = "applied"
  BY DEF IInv, BaseInv
<1>2. record \in [Version -> Record] /\ BASELINE \in Version /\ BASELINE < TRACKING
  BY <1>1, Numbers DEF TypeOK, Database
<1>3. CASE \/ LookTracking(m) \/ LookBase(m) \/ Bootstrap(m) \/ Fresh(m) \/ Kill(m)
           \/ Finish(m) \/ Changed(m)
  BY <1>1, <1>3 DEF LookTracking, LookBase, Bootstrap, Fresh, Kill, Finish, Changed,
     Execute, ExecuteFails, Goto, database, local, BaseOf, InLoop, TypeOK
<1>4. CASE RecordBoth(m)
  BY <1>1, <1>2, <1>4 DEF RecordBoth, WriteRecords, Goto, BaseOf, InLoop, TypeOK, Applied
<1>5. CASE Register(m)
  <2>1. Exists(BASELINE)
    BY <1>1, <1>2, <1>5, Numbers DEF Register, Goto, Stands, IInv, InOrder
  <2>2. /\ record' = record
        /\ pc'[m] = "recordBaseline" \/ (pc'[m] = "check" /\ record[BASELINE] # NoRecord)
    BY <1>1, <1>5, <2>1 DEF Register, Goto, TypeOK, database
  <2> QED
    BY <1>1, <2>2 DEF BaseOf, InLoop
<1>5a. CASE RecordBaseline(m)
  <2>1. record'[BASELINE].status = "applied" /\ pc'[m] = "check"
    BY <1>1, <1>2, <1>5a DEF RecordBaseline, WriteRecords, Goto, Applied, TypeOK
  <2> QED
    BY <2>1 DEF BaseOf
<1>6. CASE Skip(m)
  BY <1>1, <1>6 DEF Skip, Goto, database, BaseOf, InLoop, TypeOK
<1>7. CASE Pick(m)
  BY <1>1, <1>7 DEF Pick, Goto, database, local, BaseOf, InLoop, TypeOK, AppliedAlready
<1>8. CASE ExecuteNext(m)
  BY <1>1, <1>8 DEF ExecuteNext, Execute, ExecuteFails, Goto, database, local, BaseOf,
     InLoop, TypeOK
<1>9. CASE RecordNext(m) \/ RecordFailure(m)
  <2>1. record'[BASELINE] = record[BASELINE]
    BY <1>1, <1>2, <1>9 DEF RecordNext, RecordFailure, Goto, BaseOf, InLoop
  <2> QED
    BY <1>1, <1>9, <2>1 DEF RecordNext, RecordFailure, Goto, BaseOf, InLoop, TypeOK
<1> QED
  BY <1>3, <1>4, <1>5, <1>5a, <1>6, <1>7, <1>8, <1>9 DEF Moves, Step

(* Where the files that m has dealt with are recorded. *)
LEMMA StepClean ==
  ASSUME IInv, BaseInv, NEW m \in Migrator, CleanOf(m), Moves(m)
  PROVE  CleanOf(m)'
<1> SUFFICES ASSUME clean'[m] PROVE CleanOf(m)'
  BY DEF CleanOf
<1>1. /\ TypeOK /\ BaseOf(m) /\ Stands(m) /\ BASELINE \in Version /\ TRACKING \in Version
      /\ record \in [Version -> Record]
  BY Numbers DEF IInv, BaseInv, TypeOK, Database
<1>2. clean[m]
  <2>1. CASE clean' = clean
    BY <2>1
  <2>2. CASE \E v : clean' = [clean EXCEPT ![m] = clean[m] /\ ~Executable(v)]
    BY <1>1, <2>2, Zenon DEF TypeOK
  <2> QED
    BY <2>1, <2>2
       DEF Moves, Step, LookTracking, LookBase, Bootstrap, Fresh, RecordBoth,
           WriteRecords, Register, RecordBaseline, Skip, Changed, Pick, ExecuteNext, Execute,
           ExecuteFails, RecordNext, RecordFailure, Finish, Kill, Advance
<1>3. Alone(m)'
  <2>1. Alone(m)
    BY <1>2 DEF CleanOf
  <2> QED
    BY <1>1, <2>1, MovesOne DEF Alone, Running
<1>4. ASSUME NEW v, NEW from, NEW to, ExecuteFails(m, v, from, to) PROVE ~Executable(v)
  <2>1. clean' = [clean EXCEPT ![m] = clean[m] /\ ~Executable(v)]
    BY <1>4 DEF ExecuteFails
  <2> QED
    BY <1>1, <2>1, Zenon DEF TypeOK
<1> USE <1>1, <1>2, <1>3 DEF CleanOf
<1>5. CASE LookTracking(m)
  <2>1. /\ UNCHANGED <<database, local>>
        /\ pc'[m] \in {"register", "base", "failed"}
        /\ pc'[m] = "failed" => ~Has(m, TRACKING)
    BY <1>5 DEF LookTracking, Goto, TypeOK
  <2> QED
    BY <2>1 DEF InLoop, FailureExplained, Has, local
<1>6. CASE LookBase(m)
  BY <1>6 DEF LookBase, Goto, TypeOK, InLoop, Exists, database
<1>7. CASE Bootstrap(m)
  <2>1. Execute(m, TRACKING, "bootstrap", "recordBoth")
    BY <1>4, <1>7 DEF Bootstrap, Executable
  <2> QED
    BY <2>1 DEF Execute, Goto, TypeOK, InLoop
<1>8. CASE Fresh(m)
  <2>1. \/ Execute(m, BASELINE, "fresh", "freshTracking")
        \/ Execute(m, TRACKING, "freshTracking", "recordBoth")
    <3>1. ~ExecuteFails(m, TRACKING, "freshTracking", "failed")
      BY <1>4 DEF Executable
    <3>2. ~ExecuteFails(m, BASELINE, "fresh", "failed")
      <4> SUFFICES ASSUME ExecuteFails(m, BASELINE, "fresh", "failed") PROVE FALSE
        OBVIOUS
      <4>1. pc[m] = "fresh"
        BY DEF ExecuteFails, Goto
      <4> QED
        BY <1>4, <4>1 DEF Executable
    <3> QED
      BY <1>8, <3>1, <3>2 DEF Fresh
  <2> QED
    BY <2>1 DEF Execute, Goto, TypeOK, InLoop
<1>9. CASE RecordBoth(m) \/ Kill(m)
  BY <1>9 DEF RecordBoth, WriteRecords, Kill, Goto, TypeOK, InLoop
<1>10. CASE Register(m)
  <2>1. next'[m] = 1 /\ pc'[m] \in {"recordBaseline", "check"} /\ checkout' = checkout
    BY <1>10 DEF Register, Goto, TypeOK
  <2>2. DOMAIN checkout[m] \subseteq Version
    BY Files
  <2> QED
    BY <2>1, <2>2 DEF Version
<1>10a. CASE RecordBaseline(m)
  <2>1. /\ pc[m] = "recordBaseline" /\ pc'[m] = "check" /\ UNCHANGED local
        /\ record' = [v \in Version |-> IF v \in {BASELINE} THEN Applied(checkout[m][v]) ELSE record[v]]
    BY <1>10a DEF RecordBaseline, WriteRecords, Goto, TypeOK
  <2>2. DOMAIN checkout[m] \subseteq Version
    BY Files
  <2>3. ASSUME NEW v \in DOMAIN checkout[m], v < next[m] PROVE Recorded(m, v)'
    <3>1. Recorded(m, v) /\ v \in Version
      BY <2>1, <2>2, <2>3
    <3>2. record'[v] = record[v] \/ record'[v] = Applied(checkout[m][v])
      BY <2>1, <3>1
    <3> QED
      BY <2>1, <3>1, <3>2 DEF Recorded, AppliedAlready, Applied, local
  <2> QED
    BY <2>1, <2>3 DEF InLoop, local
<1>11. CASE Skip(m) \/ RecordNext(m)
  <2>1. /\ Has(m, next[m]) /\ pc[m] \in InLoop /\ pc'[m] = "check"
        /\ next'[m] = next[m] + 1 /\ checkout' = checkout
    BY <1>11 DEF Skip, RecordNext, Goto, Advance, TypeOK, Stands, InLoop
  <2>2. next[m] \in Version /\ DOMAIN checkout[m] \subseteq Version
        /\ checkout[m][next[m]] \in Checksum
    BY <2>1, Files DEF Has
  <2>4. ASSUME NEW v \in DOMAIN checkout[m], v < next[m] + 1 PROVE Recorded(m, v)'
    <3>1. CASE v = next[m]
      <4>1. record'[next[m]].status = "applied"
            /\ record'[next[m]].checksum = checkout[m][next[m]]
        <5>1. CASE Skip(m)
          BY <5>1 DEF Skip, AppliedAlready, database
        <5>2. CASE RecordNext(m)
          BY <5>2, <2>2, RecordTypes DEF RecordNext
        <5> QED
          BY <1>11, <5>1, <5>2
      <4> QED
        BY <3>1, <4>1, <2>1 DEF Recorded, AppliedAlready
    <3>2. CASE v # next[m]
      <4>1. v < next[m]
        BY <2>2, <2>4, <3>2 DEF Version
      <4>2. Recorded(m, v)
        BY <2>1, <4>1
      <4>3. record'[v] = record[v]
        BY <1>11, <2>2, <3>2 DEF Skip, RecordNext, database
      <4> QED
        BY <2>1, <4>2, <4>3 DEF Recorded, AppliedAlready
    <3> QED
      BY <3>1, <3>2
  <2> QED
    BY <2>1, <2>4
<1>12. CASE Changed(m)
  <2>1. /\ Has(m, next[m]) /\ AppliedAlready(next[m]) /\ UNCHANGED <<database, local>>
        /\ record[next[m]].checksum # checkout[m][next[m]] /\ pc'[m] = "failed"
    BY <1>12 DEF Changed, Goto, TypeOK
  <2>2. ReportedStatus(checkout[m], next[m]) = "changed"
    BY <2>1, Reports
  <2>3. FailureExplained(m)'
    BY <2>1, <2>2 DEF FailureExplained, ReportedStatus, AppliedAlready, Exists, Has,
                      database, local
  <2> QED
    BY <2>1, <2>3 DEF InLoop
<1>13. CASE Pick(m)
  BY <1>13 DEF Pick, Goto, TypeOK, InLoop, Recorded, AppliedAlready, database, local
<1>14. CASE ExecuteNext(m)
  <2>1. pc[m] = "execute"
    BY <1>14 DEF ExecuteNext, Execute, ExecuteFails, Goto
  <2>2. next[m] \in Version /\ next[m] # BASELINE /\ Exists(TRACKING)
    BY <2>1, Files DEF Stands, BaseOf, InLoop, Has
  <2>3. Exists(BASELINE)
    BY <2>2, Numbers DEF IInv, InOrder
  <2>4. Executable(next[m])
    BY <2>2, <2>3 DEF Executable, Version, BASELINE, TRACKING
  <2>5. Execute(m, next[m], "execute", "record")
    BY <1>4, <1>14, <2>4 DEF ExecuteNext
  <2> QED
    BY <2>5 DEF Execute, Goto, TypeOK, InLoop, Recorded, AppliedAlready, local
<1>15. CASE RecordFailure(m)
  BY <1>15 DEF RecordFailure, Goto
<1>16. CASE Finish(m)
  <2>1. /\ ~Has(m, next[m]) /\ pc[m] = "check" /\ pc'[m] = "ok" /\ UNCHANGED <<database, local>>
    BY <1>16 DEF Finish, Goto, TypeOK
  <2>2. next[m] \in Nat /\ next[m] >= 1
    BY MigrationsAssumption DEF TypeOK
  <2>3. \A v \in DOMAIN checkout[m] : v < next[m]
    BY <2>1, <2>2, Files DEF Has
  <2> QED
    BY <2>1, <2>3 DEF InLoop, Recorded, AppliedAlready, database, local
<1> QED
  BY <1>5, <1>6, <1>7, <1>8, <1>9, <1>10, <1>10a, <1>11, <1>12, <1>13, <1>14, <1>15, <1>16
     DEF Moves, Step

LEMMA NextClean ==
  IInv /\ BaseInv /\ CleanInv /\ [Next]_vars => BaseInv' /\ CleanInv'
<1> SUFFICES ASSUME IInv, BaseInv, CleanInv, [Next]_vars PROVE BaseInv' /\ CleanInv'
  OBVIOUS
<1>1. TypeOK
  BY DEF IInv
<1>2. ASSUME NEW m \in Migrator, Start(m) PROVE BaseInv' /\ CleanInv'
  <2>1. PICK c \in Checkouts :
          /\ checkout' = [checkout EXCEPT ![m] = c]
          /\ pc' = [pc EXCEPT ![m] = IF DOMAIN c = {} THEN "failed" ELSE "look"]
    BY <1>2 DEF Start
  <2>2. /\ clean' = [q \in Migrator |-> IF q = m THEN Alone(m) ELSE FALSE]
        /\ UNCHANGED <<effect, record, next>>
    BY <1>2 DEF Start, database
  <2>3. BaseInv'
    BY <1>1, <2>1, <2>2 DEF BaseInv, BaseOf, InLoop, TypeOK
  <2>4. \A q \in Migrator \ {m} : CleanOf(q)'
    BY <2>2 DEF CleanOf
  <2>5. Alone(m) => Alone(m)'
    BY <1>1, <2>1 DEF Alone, Running, TypeOK
  <2>6. DOMAIN c = {} => ~Has(m, TRACKING)'
    BY <1>1, <2>1 DEF Has, TypeOK
  <2>7. CleanOf(m)'
    BY <1>1, <2>1, <2>2, <2>5, <2>6 DEF CleanOf, InLoop, FailureExplained, TypeOK
  <2> QED
    BY <2>3, <2>4, <2>7 DEF CleanInv
<1>3. ASSUME NEW m \in Migrator, Moves(m) PROVE BaseInv' /\ CleanInv'
  <2>1. ASSUME NEW q \in Migrator \ {m} PROVE BaseOf(q)'
    BY <1>1, <1>3, StepBase, MovesOne DEF BaseInv, BaseOf
  <2>2. BaseInv'
    BY <1>3, <2>1, StepBase DEF BaseInv
  <2>3. ASSUME NEW q \in Migrator \ {m} PROVE CleanOf(q)'
    <3>1. ~clean[q]
      BY <1>3 DEF CleanInv, CleanOf, Alone, Moves
    <3> QED
      BY <1>1, <1>3, <3>1, MovesOne DEF CleanOf
  <2>4. CleanOf(m)'
    BY <1>3, StepClean DEF CleanInv
  <2> QED
    BY <2>2, <2>3, <2>4 DEF CleanInv
<1>4. CASE RestoreFails
  <2>1. /\ record' = [v \in Version |-> NoRecord]
        /\ pc' = [m \in Migrator |-> "idle"]
    BY <1>4 DEF RestoreFails, Empty
  <2> QED
    BY <2>1, Numbers DEF BaseInv, BaseOf, InLoop, CleanInv, CleanOf, Alone, Running, Ended
<1>5. CASE UNCHANGED vars
  BY <1>5 DEF vars, database, local, BaseInv, BaseOf, CleanInv, CleanOf, Alone, Running,
     Exists, Recorded, AppliedAlready, FailureExplained, ReportedStatus, Has
<1> QED
  BY <1>2, <1>3, <1>4, <1>5, StepRuns DEF Next

(* A run of `migrate --apply` that is alone and meets no fault repairs what *)
(* killed, failed and overlapping ones, or a restore, have left behind.    *)
THEOREM RetriesRecover == Spec => []RetryRecovers
<1>1. Init => BaseInv /\ CleanInv
  BY Numbers DEF Init, Empty, BaseInv, BaseOf, InLoop, CleanInv, CleanOf
<1>2. BaseInv /\ CleanInv /\ IInv /\ [Next]_vars => BaseInv' /\ CleanInv'
  BY NextClean
<1>3. CleanInv => RetryRecovers
  <2> SUFFICES ASSUME CleanInv, NEW m \in Migrator, clean[m]
               PROVE  /\ pc[m] = "ok" => OpenItems(checkout[m]) = {}
                      /\ pc[m] = "failed" => FailureExplained(m)
    BY DEF RetryRecovers, FailureExplained
  <2>1. CleanOf(m)
    BY DEF CleanInv
  <2>2. pc[m] = "ok" => \A v \in DOMAIN checkout[m] : ReportedStatus(checkout[m], v) = "applied"
    BY <2>1, Reports DEF CleanOf, Recorded
  <2> QED
    BY <2>1, <2>2 DEF CleanOf, OpenItems
<1> QED
  BY <1>1, <1>2, <1>3, Invariant, PTL DEF Spec
=============================================================================
