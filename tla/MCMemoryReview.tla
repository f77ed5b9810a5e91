--------------------------- MODULE MCMemoryReview ---------------------------
(* Small instances of MemoryReview for TLC. *)
EXTENDS MemoryReview, TLC

Symmetry == Permutations(Tx) \cup Permutations(Agent)

=============================================================================
