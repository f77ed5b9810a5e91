------------------------- MODULE RunLockRefinement --------------------------
(* The run lock implements the register of WorktreeLock, as long as every  *)
(* writer takes the guard (Outsiders = FALSE).                             *)
EXTENDS RunLock

(* The digests that a release or a recovery under way wants removed. *)
Requested ==
  {seen[p] : p \in {q \in Proc : pc[q] \in Removing \cup {"removeWait"}}}

(* A start that has left Stage has used its run_id up. *)
Spent ==
  {Stray("legacy"), Stray("malformed")} \cup
  {Own(p) : p \in {q \in Proc : pc[q] \notin {"new", "startWait", "staged"}}}

Register == INSTANCE WorktreeLock WITH
  Claim   <- File,
  holder  <- lock,
  durable <- disk,
  spent   <- Spent,
  asked   <- {f \in File : Digest(f) \in Requested}

(* Every behaviour of the scripts is one of the register: a lock is granted *)
(* only when there is none and never twice, goes away only while its own   *)
(* caller or an operator who named its digest asks for that, and a power   *)
(* failure brings back nothing but what was not yet synced.                *)
ImplementsWorktreeLock == Register!Spec

=============================================================================
