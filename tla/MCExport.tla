------------------------------ MODULE MCExport ------------------------------
(* Two exports of the vault, or two of an OKF bundle. *)
EXTENDS Export, TLC

MCKinds == {[e \in Process |-> k] : k \in {"vault", "okf"}}

Is(s) == [title |-> "t", status |-> s]
MCSeeds == {<<None, Is("draft")>>, <<Is("reviewed"), Is("draft")>>}
MCSymmetry == Permutations(Process)
=============================================================================
