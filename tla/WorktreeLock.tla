---------------------------- MODULE WorktreeLock ----------------------------
(***************************************************************************)
(* What the run lock of a worktree promises, without guard, processes,     *)
(* snapshots or archives: a register that holds at most one claim.         *)
(***************************************************************************)
CONSTANTS
  Claim,  \* what may hold the worktree: a run's token, or an older lock
  None

VARIABLES
  holder,   \* the claim in force, or None
  durable,  \* the values holder may have after a power failure
  spent,    \* claims that will not be granted any more
  asked     \* claims somebody entitled has asked to remove

vars == <<holder, durable, spent, asked>>

Init ==
  /\ holder \in Claim \cup {None}
  /\ durable = {holder}
  /\ spent \in SUBSET Claim /\ holder \in spent \cup {None}
  /\ asked = {}

(* A claim is granted once, and only when nothing holds the worktree. *)
Grant(c) ==
  /\ holder = None /\ c \notin spent
  /\ holder' = c /\ durable' = durable \cup {c}
  /\ spent' = spent \cup {c}
  /\ UNCHANGED asked

(* A claim is removed only while somebody asks for this very claim to go. *)
Remove ==
  /\ holder \in asked
  /\ holder' = None /\ durable' = durable \cup {None}
  /\ UNCHANGED <<spent, asked>>

Settle ==
  /\ durable' = {holder}
  /\ UNCHANGED <<holder, spent, asked>>

PowerLoss ==
  /\ holder' \in durable /\ durable' = {holder'}
  /\ asked' = {} /\ spent' \in SUBSET Claim /\ spent \subseteq spent'

(* Requests come and go; a claim may be given up before it was granted. *)
Others ==
  /\ asked' \in SUBSET Claim
  /\ spent' \in SUBSET Claim /\ spent \subseteq spent'
  /\ UNCHANGED <<holder, durable>>

Next == (\E c \in Claim : Grant(c)) \/ Remove \/ Settle \/ PowerLoss \/ Others

Spec == Init /\ [][Next]_vars

(* A claim whose removal has settled never holds the worktree again, not   *)
(* even after a power failure: a finished run's token is dead (uuid of     *)
(* acquire, sync_dir of archive_remove).                                   *)
NeverReturns ==
  [][ \A c \in spent : c \notin durable => c \notin durable' /\ holder' # c ]_vars

=============================================================================
