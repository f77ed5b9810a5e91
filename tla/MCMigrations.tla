---------------------------- MODULE MCMigrations ----------------------------
(* The current checkout, one before the fourth file was written and the     *)
(* third was edited, and an old one without the table of migrations.        *)
EXTENDS Migrations

Current == [v \in 1..4 |-> "a"]
Earlier  == [v \in 1..3 |-> IF v = 3 THEN "b" ELSE "a"]
Partial == [v \in 1..1 |-> "a"]
MCCheckouts == {Current, Earlier, Partial}
=============================================================================
