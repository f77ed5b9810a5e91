----------------------------- MODULE RunLockInv -----------------------------
(***************************************************************************)
(* The inductive invariant behind the safety of RunLock when every writer  *)
(* takes the guard.                                                        *)
(***************************************************************************)
EXTENDS RunLock

Strays == {Stray("legacy"), Stray("malformed")}

(* The start r has got as far as os.link, if it did not stop there. *)
Published(r) == role[r] = "start" /\ pc[r] \notin {"new", "startWait", "staged"}

(* Whoever is between taking and dropping the guard is its holder. *)
GuardInv == \A p \in Proc : pc[p] \in Guarded <=> guard = p

(* Roles fit places; a caller finishes only runs whose start has ended. *)
RoleInv ==
  \A p \in Proc :
    /\ pc[p] = "new" <=> role[p] = "none"
    /\ pc[p] \in Acquiring \cup {"startWait", "context"} => role[p] = "start"
    /\ pc[p] \in {"finishWait", "closing"} => role[p] = "finish"
    /\ role[p] = "start" => target[p] = p
    /\ role[p] = "finish" => target[p] \in told /\ pc[target[p]] = "done"

(* Every lock that exists, or may reappear, came from an earlier version  *)
(* or from a start that has passed os.link.                                *)
LockInv ==
  /\ lock \in disk
  /\ \A f \in disk \ {None} : f \in Strays \/ \E r \in Proc : f = Own(r) /\ Published(r)
  /\ \A p \in Proc : pc[p] \in {"linked", "synced"} => lock = Own(p)
  /\ \A p \in Proc : pc[p] = "synced" => disk = {Own(p)}

(* What archive_remove has established at each of its steps. *)
RemoveInv ==
  \A p \in Proc :
    /\ firm[p] \subseteq files[p]
    /\ pc[p] \notin {"recheck", "move", "moved", "unmarked", "marked", "done"}
         => firm[p] = {}
    /\ pc[p] \notin {"durable", "recheck", "move", "moved", "unmarked", "marked", "done"}
         => files[p] = {}
    /\ pc[p] \in {"durable", "recheck", "move"} => files[p] = {"original", "prepared"}
    /\ pc[p] \in {"recheck", "move", "moved", "unmarked", "marked"} => Evidence(p)
    /\ pc[p] \in {"prepare", "durable", "recheck", "move"} =>
         /\ lock # None /\ snap[p] = lock /\ Digest(lock) = seen[p]
         /\ role[p] # "recover" => OwnedBy(lock, target[p])
    /\ pc[p] = "moved" => lock = None /\ "removed" \in files[p]
    /\ pc[p] \in {"unmarked", "marked"} => disk = {None} /\ "removed" \in firm[p]
    /\ snap[p] # None =>
         snap[p] \in Strays \/ \E r \in Proc : snap[p] = Own(r) /\ Published(r)
    /\ files[p] # {} => snap[p] # None

(* A recovery about to move a run's lock away was allowed to. *)
Evicts(p, r) == "unknown" \in acks[p] \/ (bound[r] # None /\ life[bound[r]] = "dead")
RecoverInv ==
  \A p, r \in Proc :
    pc[p] = "move" /\ role[p] = "recover" /\ lock = Own(r) => Evicts(p, r)

(* A reported run has been synced; open runs have ended their start. *)
RunInv ==
  /\ \A r \in told : role[r] = "start"
       /\ pc[r] \notin {"new", "startWait", "staged", "linked", "synced"}
  /\ \A r \in Proc : pc[r] = "context" =>
       /\ r \in told
       /\ (lock = Own(r) /\ disk = {Own(r)}) \/ r \in revoked \/ ~OwnerRuns(r)
  /\ \A r \in open : r \in told /\ pc[r] = "done" /\ OwnerRuns(r)

IInv ==
  /\ TypeOK /\ GuardInv /\ RoleInv /\ LockInv /\ RemoveInv /\ RecoverInv /\ RunInv
  /\ HeldWhileOpen /\ EvidenceKept /\ CompletedMeansGone

=============================================================================
