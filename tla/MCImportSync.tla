---------------------------- MODULE MCImportSync ----------------------------
(* Small instances of ImportSync for TLC. *)
EXTENDS ImportSync, TLC

CONSTANTS n1, n2   \* keys

Says(k, t, s) == [kind |-> k, core |-> t, source |-> s, status |-> "reviewed"]

Fact(t)     == Says("fact", t, "s1")
Decision(t) == Says("decision", t, "none")
Report(t)   == Says("report", t, "none")
Receipt(t)  == Says("receipt", t, "none")
Unsafe      == Says("unsafe", "a", "none")
Secret      == Says("secret", "a", "none")
BadId       == Says("badid", "a", "none")

Mixed    == {Fact("a"), Fact("b"), Decision("a"), Report("a"), Receipt("b"), Secret}
Overlaps == {Fact("a"), Fact("b"), Receipt("a"), Receipt("b"), BadId, Unsafe}
Faulty   == {Fact("a"), Receipt("a"), BadId}

Distinct == 1 :> n1 @@ 2 :> n2
Single   == 1 :> n1

Sync  == {<<"sync", "update">>}
Updates == Sync \cup {<<"import", "update">>}
Every == Sync \cup ({"import"} \X {"skip", "error", "update"})

(* Callers are interchangeable (safety runs only). *)
Symmetry == Permutations(Runs)

=============================================================================
