----------------------- MODULE RunLockRefinementProofs ----------------------
(***************************************************************************)
(* Proof that RunLock implements WorktreeLock, for every set of            *)
(* invocations and owners, when every writer takes the guard.              *)
(***************************************************************************)
EXTENDS RunLockRefinement, RunLockProofs

Asked == {f \in File : Digest(f) \in Requested}
Early == {"new", "startWait", "staged"}
Asking == Removing \cup {"removeWait"}

LEMMA SpentFacts ==
  /\ Spent \subseteq File
  /\ \A p \in Proc : Own(p) \in Spent <=> pc[p] \notin Early
BY OwnFacts DEF Spent, Early, Strays

LEMMA SpentGrows ==
  ASSUME \A p \in Proc : pc[p] \notin Early => pc'[p] \notin Early
  PROVE  Spent \subseteq Spent' /\ Spent' \subseteq File
BY OwnFacts DEF Spent, Early, Strays

LEMMA SpentSame ==
  ASSUME \A p \in Proc : pc[p] \in Early <=> pc'[p] \in Early
  PROVE  Spent' = Spent
<1>1. {p \in Proc : pc[p] \notin Early} = {p \in Proc : pc'[p] \notin Early}
  OBVIOUS
<1>2. QED
  BY <1>1 DEF Spent, Early

LEMMA AskedSame ==
  ASSUME seen' = seen, \A p \in Proc : pc[p] \in Asking <=> pc'[p] \in Asking
  PROVE  Asked' = Asked
<1>1. {p \in Proc : pc[p] \in Asking} = {p \in Proc : pc'[p] \in Asking}
  OBVIOUS
<1>2. Requested' = Requested
  BY <1>1 DEF Requested, Asking
<1>3. QED
  BY <1>2 DEF Asked

LEMMA AskedByCaller ==
  ASSUME NEW p \in Proc, pc[p] \in Asking, NEW f \in File, Digest(f) = seen[p]
  PROVE  f \in Asked
BY DEF Asked, Asking, Requested

LEMMA EarlyGrows == TypeOK /\ [Next]_vars =>
  \A p \in Proc : pc[p] \notin Early => pc'[p] \notin Early
<1> SUFFICES ASSUME TypeOK, [Next]_vars, NEW q \in Proc, pc[q] \notin Early
             PROVE  pc'[q] \notin Early
  OBVIOUS
<1> USE DEF TypeOK, Transition, Early, vars
<1>1. ASSUME NEW p \in Proc, Invoke(p) PROVE pc'[q] \notin Early
  BY <1>1 DEF Invoke, StartBegin, FinishBegin, Preview
<1>2. ASSUME NEW p \in Proc, StartStep(p) PROVE pc'[q] \notin Early
  BY <1>2 DEF StartStep, Stage, StageRefused, Link, LinkRefused, SyncLock, Report,
              StartReady, StartFails
<1>3. ASSUME NEW p \in Proc, FinishStep(p) PROVE pc'[q] \notin Early
  BY <1>3 DEF FinishStep, Validate, ValidateRefused, Close, CloseFails
<1>4. ASSUME NEW p \in Proc, RemoveStep(p) PROVE pc'[q] \notin Early
  BY <1>4 DEF RemoveStep, TakeGuard, ReadSnapshot, ReadRefused, PrepareArchive,
              SyncArchive, Recheck, RecheckRefused, MoveLock, SyncRemoval,
              WriteCompleted, EndRemoval
<1>5. ASSUME NEW p \in Proc, Crash(p) PROVE pc'[q] \notin Early
  BY <1>5 DEF Crash
<1>6. CASE Environment
  BY <1>6 DEF Environment, OwnerDies, PowerLoss, OutsiderWrites
<1>7. CASE UNCHANGED vars \/ Terminated
  BY <1>7 DEF Terminated
<1>8. QED
  BY <1>1, <1>2, <1>3, <1>4, <1>5, <1>6, <1>7 DEF Next, Step

-----------------------------------------------------------------------------
LEMMA RegisterInit == Init => Register!Init
<1> SUFFICES ASSUME Init PROVE Register!Init
  OBVIOUS
<1>1. Requested = {}
  BY DEF Init, Requested, Removing
<1>2. lock \in Spent \cup {None} /\ lock \in File \cup {None}
  BY OwnFacts DEF Init, Spent, Strays
<1>3. QED
  BY <1>1, <1>2, SpentFacts DEF Register!Init, Init

(* The register's steps, each for the script step that takes it. *)
LEMMA LinkGrants ==
  ASSUME IInv, NEW p \in Proc, Link(p) PROVE Register!Grant(Own(p))
<1>1. /\ pc[p] = "staged" /\ pc' = [pc EXCEPT ![p] = "linked"] /\ seen' = seen
      /\ lock = None /\ lock' = Own(p) /\ disk' = disk \cup {Own(p)}
  BY DEF Link, Transition, call
<1>2. pc \in [Proc -> Place]
  BY DEF IInv, TypeOK
<1>3. Asked' = Asked
  BY <1>1, <1>2, AskedSame DEF Asking, Removing
<1>4. Own(p) \notin Spent
  BY <1>1, SpentFacts DEF Early
<1>5. Spent' = Spent \cup {Own(p)}
  <2>1. {q \in Proc : pc'[q] \notin Early} = {q \in Proc : pc[q] \notin Early} \cup {p}
    BY <1>1, <1>2 DEF Early
  <2>2. QED
    BY <2>1 DEF Spent, Early
<1>6. QED
  BY <1>1, <1>3, <1>4, <1>5 DEF Register!Grant, Asked

LEMMA MoveRemoves ==
  ASSUME IInv, NEW p \in Proc, MoveLock(p) PROVE Register!Remove
<1>1. /\ pc[p] = "move" /\ pc' = [pc EXCEPT ![p] = "moved"] /\ seen' = seen
      /\ lock # None /\ lock' = None /\ disk' = disk \cup {None}
  BY DEF MoveLock, Transition, call
<1>2. pc \in [Proc -> Place] /\ lock \in File
  BY <1>1 DEF IInv, TypeOK
<1>3. Asked' = Asked /\ Spent' = Spent
  BY <1>1, <1>2, AskedSame, SpentSame DEF Asking, Removing, Early
<1>4. Digest(lock) = seen[p]
  BY <1>1 DEF IInv, RemoveInv
<1>5. lock \in Asked
  BY <1>1, <1>2, <1>4, AskedByCaller DEF Asking, Removing
<1>6. QED
  BY <1>1, <1>3, <1>5 DEF Register!Remove, Asked

LEMMA SyncSettles ==
  ASSUME IInv, NEW p \in Proc, SyncLock(p) \/ SyncArchive(p) \/ SyncRemoval(p)
  PROVE  Register!Settle
<1>1. pc \in [Proc -> Place]
  BY DEF IInv, TypeOK
<1>2. seen' = seen /\ lock' = lock /\ disk' = {lock}
  BY DEF SyncLock, SyncArchive, SyncRemoval, call
<1>3. \A q \in Proc : /\ pc[q] \in Asking <=> pc'[q] \in Asking
                      /\ pc[q] \in Early <=> pc'[q] \in Early
  BY <1>1 DEF SyncLock, SyncArchive, SyncRemoval, Transition, Asking, Removing, Early
<1>4. Asked' = Asked /\ Spent' = Spent
  BY <1>2, <1>3, AskedSame, SpentSame
<1>5. QED
  BY <1>2, <1>4 DEF Register!Settle, Asked

LEMMA PowerLossAllowed ==
  ASSUME IInv, [Next]_vars, PowerLoss PROVE Register!PowerLoss
<1>1. lock' \in disk /\ disk' = {lock'}
  BY DEF PowerLoss
<1>2. \A p \in Proc : pc'[p] \in {"new", "done"}
  BY DEF PowerLoss
<1>3. Asked' = {}
  BY <1>2 DEF Asked, Requested, Removing
<1>4. Spent \subseteq Spent' /\ Spent' \subseteq File
  BY EarlyGrows, SpentGrows DEF IInv
<1>5. QED
  BY <1>1, <1>3, <1>4 DEF Register!PowerLoss, Asked

LEMMA RestAllowed ==
  ASSUME IInv, [Next]_vars, UNCHANGED entry PROVE Register!Others
<1>1. Spent \subseteq Spent' /\ Spent' \subseteq File
  BY EarlyGrows, SpentGrows DEF IInv
<1>2. Asked' \subseteq File
  BY DEF Asked
<1>3. QED
  BY <1>1, <1>2 DEF Register!Others, Asked, entry

LEMMA RegisterStep ==
  IInv /\ Outsiders = FALSE /\ [Next]_vars => [Register!Next]_Register!vars
<1> SUFFICES ASSUME IInv, Outsiders = FALSE, [Next]_vars
             PROVE  Register!Next
  OBVIOUS
<1>1. ASSUME NEW p \in Proc, Link(p) PROVE Register!Next
  BY <1>1, LinkGrants, OwnFacts DEF Register!Next
<1>2. ASSUME NEW p \in Proc, MoveLock(p) PROVE Register!Next
  BY <1>2, MoveRemoves DEF Register!Next
<1>3. ASSUME NEW p \in Proc, SyncLock(p) \/ SyncArchive(p) \/ SyncRemoval(p)
      PROVE Register!Next
  BY <1>3, SyncSettles DEF Register!Next
<1>4. CASE PowerLoss
  BY <1>4, PowerLossAllowed DEF Register!Next
<1>5. CASE UNCHANGED entry
  BY <1>5, RestAllowed DEF Register!Next
<1>6. ASSUME NEW p \in Proc, Invoke(p) \/ FinishStep(p) \/ Crash(p) PROVE UNCHANGED entry
  BY <1>6 DEF Invoke, StartBegin, FinishBegin, Preview, FinishStep, Validate,
              ValidateRefused, Close, CloseFails, Crash
<1>7. ASSUME NEW p \in Proc, StartStep(p), ~Link(p), ~SyncLock(p) PROVE UNCHANGED entry
  BY <1>7 DEF StartStep, Stage, StageRefused, LinkRefused, Report, StartReady, StartFails
<1>8. ASSUME NEW p \in Proc, RemoveStep(p),
             ~MoveLock(p), ~SyncArchive(p), ~SyncRemoval(p)
      PROVE UNCHANGED entry
  BY <1>8 DEF RemoveStep, TakeGuard, ReadSnapshot, ReadRefused, PrepareArchive, Recheck,
              RecheckRefused, WriteCompleted, EndRemoval
<1>9. ASSUME NEW o \in Owner, OwnerDies(o) PROVE UNCHANGED entry
  BY <1>9 DEF OwnerDies
<1>10. UNCHANGED vars => UNCHANGED entry
  BY DEF vars, entry
<1>11. QED
  BY <1>1, <1>2, <1>3, <1>4, <1>5, <1>6, <1>7, <1>8, <1>9, <1>10
     DEF Next, Step, Environment, OutsiderWrites, Terminated

(* The scripts implement the register of WorktreeLock. *)
THEOREM RunLockImplements ==
  ASSUME Outsiders = FALSE PROVE Spec => ImplementsWorktreeLock
<1>1. Init => Register!Init
  BY RegisterInit
<1>2. IInv /\ [Next]_vars => [Register!Next]_Register!vars
  BY RegisterStep
<1>3. QED
  BY <1>1, <1>2, InvariantHolds, PTL DEF Spec, ImplementsWorktreeLock, Register!Spec

-----------------------------------------------------------------------------
(* What holds the worktree is among what a power failure may leave there.  *)
Registered == lock \in disk /\ Spent \subseteq File

LEMMA RegisteredAlways == Register!Spec => []Registered
<1>1. Register!Init => Registered
  BY DEF Register!Init, Registered
<1>2. Registered /\ [Register!Next]_Register!vars => Registered'
  BY DEF Registered, Register!Next, Register!vars, Register!Grant, Register!Remove,
         Register!Settle, Register!PowerLoss, Register!Others
<1>3. QED
  BY <1>1, <1>2, PTL DEF Register!Spec

(* The register alone keeps the promise of NeverReturns.                   *)
LEMMA RegisterForgets == Register!Spec => Register!NeverReturns
<1>1. Registered /\ [Register!Next]_Register!vars =>
        [\A c \in Spent : c \notin disk => c \notin disk' /\ lock' # c]_Register!vars
  <2>1. SUFFICES ASSUME Registered, Register!Next, NEW c \in Spent, c \notin disk
                 PROVE  c \notin disk' /\ lock' # c
    OBVIOUS
  <2>2. CASE \E d \in File : Register!Grant(d)
    BY <2>1, <2>2 DEF Register!Grant
  <2>3. CASE Register!Remove
    BY <2>1, <2>3, NoneAssumption DEF Register!Remove, Registered
  <2>4. CASE Register!Settle \/ Register!PowerLoss \/ Register!Others
    BY <2>1, <2>4 DEF Register!Settle, Register!PowerLoss, Register!Others, Registered
  <2>5. QED
    BY <2>1, <2>2, <2>3, <2>4 DEF Register!Next
<1>2. QED
  BY <1>1, RegisteredAlways, PTL DEF Register!Spec, Register!NeverReturns

(* A run whose lock is durably removed never holds the worktree again: its *)
(* run_id is granted once, and a power failure cannot bring the file back. *)
THEOREM RemovedLocksStayAway ==
  ASSUME Outsiders = FALSE PROVE Spec => Register!NeverReturns
BY RunLockImplements, RegisterForgets, PTL DEF ImplementsWorktreeLock

=============================================================================
