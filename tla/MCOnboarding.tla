---------------------------- MODULE MCOnboarding ----------------------------
(* Two projects and one folder with two files, a command and two requests. *)
EXTENDS Onboarding, TLC

Symmetry == Permutations(Command) \cup Permutations(Request) \cup Permutations(Slug) \cup Permutations(Folder)
=============================================================================
