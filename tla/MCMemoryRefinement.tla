------------------------- MODULE MCMemoryRefinement -------------------------
(* Small instances of MemoryReview with its refinement for TLC. *)
EXTENDS MemoryRefinement, TLC

=============================================================================
