---------------------------- MODULE RunLockProofs ---------------------------
(***************************************************************************)
(* Proofs about RunLock, for every set of invocations and owners.          *)
(***************************************************************************)
EXTENDS RunLockInv, TLAPS

(* Different runs publish different files, and a file is not None. *)
LEMMA OwnFacts ==
  /\ \A r \in Proc : /\ Own(r) \in File /\ Own(r) # None
                     /\ Own(r).run = r /\ Own(r).form = "v2"
                     /\ Digest(Own(r)) \in Digests /\ Own(r) \notin Strays
  /\ \A r, s \in Proc : Own(r) = Own(s) => r = s
  /\ Strays \subseteq File
  /\ \A f \in File : f # None /\ Digest(f) \in Digests
BY RunLockAssumption, NoneAssumption DEF Own, Strays, Stray, File, Digest, Digests

-----------------------------------------------------------------------------
LEMMA InitTypeOK == Init => TypeOK
BY OwnFacts DEF Init, TypeOK, Name, Place, Guarded, Acquiring, Removing, Strays

LEMMA OutsiderType == ASSUME TypeOK PROVE OutsiderFiles \subseteq File
<1>1. CASE lock = None
  BY <1>1, OwnFacts DEF OutsiderFiles, Strays
<1>2. CASE lock # None
  <2>1. lock \in File
    BY <1>2 DEF TypeOK
  <2>2. \A t, i \in {"first", "edited", "other"} :
          t \in {"first", "edited"} /\ i \in {"first", "other"}
            => [lock EXCEPT !.text = t, !.ino = i] \in File
    BY <2>1 DEF File
  <2>3. QED
    BY <1>2, <2>2, OwnFacts DEF OutsiderFiles, Strays
<1>3. QED
  BY <1>1, <1>2

LEMMA StepTypeOK == TypeOK /\ [Next]_vars => TypeOK'
<1> SUFFICES ASSUME TypeOK, [Next]_vars PROVE TypeOK'
  OBVIOUS
<1> USE DEF TypeOK, Transition, Place, Guarded, Acquiring, Removing, Name,
            entry, archive, call, runs
<1>1. ASSUME NEW p \in Proc, StartBegin(p) PROVE TypeOK'
  BY <1>1 DEF StartBegin
<1>2. ASSUME NEW p \in Proc, NEW r \in Proc, FinishBegin(p, r) PROVE TypeOK'
  BY <1>2 DEF FinishBegin
<1>3. ASSUME NEW p \in Proc, Preview(p) PROVE TypeOK'
  BY <1>3, OwnFacts DEF Preview
<1>4. ASSUME NEW p \in Proc, Crash(p) PROVE TypeOK'
  BY <1>4 DEF Crash
<1>5. ASSUME NEW p \in Proc, Stage(p) PROVE TypeOK'
  BY <1>5 DEF Stage
<1>6. ASSUME NEW p \in Proc, StageRefused(p) PROVE TypeOK'
  BY <1>6 DEF StageRefused
<1>7. ASSUME NEW p \in Proc, Link(p) PROVE TypeOK'
  BY <1>7, OwnFacts DEF Link
<1>8. ASSUME NEW p \in Proc, LinkRefused(p) PROVE TypeOK'
  BY <1>8 DEF LinkRefused
<1>9. ASSUME NEW p \in Proc, SyncLock(p) PROVE TypeOK'
  BY <1>9 DEF SyncLock
<1>10. ASSUME NEW p \in Proc, Report(p) PROVE TypeOK'
  BY <1>10, OwnFacts DEF Report
<1>11. ASSUME NEW p \in Proc, StartReady(p) PROVE TypeOK'
  BY <1>11 DEF StartReady
<1>12. ASSUME NEW p \in Proc, StartFails(p) PROVE TypeOK'
  BY <1>12 DEF StartFails
<1>13. ASSUME NEW p \in Proc, Validate(p) PROVE TypeOK'
  BY <1>13, OwnFacts DEF Validate
<1>14. ASSUME NEW p \in Proc, ValidateRefused(p) PROVE TypeOK'
  BY <1>14 DEF ValidateRefused
<1>15. ASSUME NEW p \in Proc, Close(p) PROVE TypeOK'
  BY <1>15 DEF Close
<1>16. ASSUME NEW p \in Proc, CloseFails(p) PROVE TypeOK'
  BY <1>16 DEF CloseFails
<1>17. ASSUME NEW p \in Proc, TakeGuard(p) PROVE TypeOK'
  BY <1>17 DEF TakeGuard
<1>18. ASSUME NEW p \in Proc, ReadSnapshot(p) PROVE TypeOK'
  BY <1>18 DEF ReadSnapshot
<1>19. ASSUME NEW p \in Proc, ReadRefused(p) PROVE TypeOK'
  BY <1>19 DEF ReadRefused
<1>20. ASSUME NEW p \in Proc, PrepareArchive(p) PROVE TypeOK'
  BY <1>20 DEF PrepareArchive
<1>21. ASSUME NEW p \in Proc, SyncArchive(p) PROVE TypeOK'
  BY <1>21 DEF SyncArchive
<1>22. ASSUME NEW p \in Proc, Recheck(p) PROVE TypeOK'
  BY <1>22 DEF Recheck
<1>23. ASSUME NEW p \in Proc, RecheckRefused(p) PROVE TypeOK'
  BY <1>23 DEF RecheckRefused
<1>24. ASSUME NEW p \in Proc, MoveLock(p) PROVE TypeOK'
  <2>1. lock.run \in Proc \cup {None}
    BY <1>24 DEF MoveLock, File
  <2>2. revoked' \subseteq Proc
    BY <1>24, <2>1 DEF MoveLock
  <2>3. QED
    BY <1>24, <2>2 DEF MoveLock
<1>25. ASSUME NEW p \in Proc, SyncRemoval(p) PROVE TypeOK'
  BY <1>25 DEF SyncRemoval
<1>26. ASSUME NEW p \in Proc, WriteCompleted(p) PROVE TypeOK'
  BY <1>26 DEF WriteCompleted
<1>27. ASSUME NEW p \in Proc, EndRemoval(p) PROVE TypeOK'
  BY <1>27 DEF EndRemoval
<1>28. ASSUME NEW o \in Owner, OwnerDies(o) PROVE TypeOK'
  BY <1>28 DEF OwnerDies
<1>29. CASE PowerLoss
  BY <1>29 DEF PowerLoss
<1>30. CASE OutsiderWrites
  BY <1>30, OutsiderType DEF OutsiderWrites
<1>31. CASE Terminated
  BY <1>31 DEF Terminated, vars
<1>32. CASE UNCHANGED vars
  BY <1>32 DEF vars
<1>33. QED
  BY <1>1, <1>2, <1>3, <1>4, <1>5, <1>6, <1>7, <1>8, <1>9, <1>10, <1>11, <1>12,
     <1>13, <1>14, <1>15, <1>16, <1>17, <1>18, <1>19, <1>20, <1>21, <1>22, <1>23,
     <1>24, <1>25, <1>26, <1>27, <1>28, <1>29, <1>30, <1>31, <1>32
     DEF Next, Invoke, Step, StartStep, FinishStep, RemoveStep, Environment

(* The variables keep their types in every behaviour. *)
THEOREM TypeCorrect == Spec => []TypeOK
<1>1. QED
  BY InitTypeOK, StepTypeOK, PTL DEF Spec

-----------------------------------------------------------------------------
(* A power failure loses names, but none of those that were synced. *)
LEMMA PowerFiles ==
  ASSUME TypeOK, PowerLoss, NEW p \in Proc, firm[p] \subseteq files[p]
  PROVE  firm[p] \subseteq files'[p] /\ files'[p] \subseteq files[p]
         /\ firm'[p] = files'[p]
<1>1. PICK lost \in SUBSET {q \in Proc \X Name : q[2] \in files[q[1]] \ firm[q[1]]} :
        files' = [q \in Proc |-> {n \in files[q] : <<q, n>> \notin lost}]
  BY DEF PowerLoss
<1>2. files'[p] = {n \in files[p] : <<p, n>> \notin lost}
  BY <1>1
<1>3. ASSUME NEW n \in firm[p] PROVE <<p, n>> \notin lost
  BY <1>1
<1>4. QED
  BY <1>2, <1>3 DEF PowerLoss

LEMMA StepGuardInv ==
  TypeOK /\ GuardInv /\ [Next]_vars => GuardInv'
<1> SUFFICES ASSUME TypeOK, GuardInv, [Next]_vars
             PROVE  GuardInv'
  OBVIOUS
<1> USE DEF TypeOK, Transition, Guarded, Acquiring, Removing, entry, archive, call, runs, GuardInv
<1>1. ASSUME NEW p \in Proc, StartBegin(p) \/ Preview(p) \/ Crash(p) PROVE GuardInv'
  BY <1>1, RunLockAssumption DEF StartBegin, Preview, Crash
<1>2. ASSUME NEW p \in Proc, NEW r \in Proc, FinishBegin(p, r) PROVE GuardInv'
  BY <1>2, RunLockAssumption DEF FinishBegin
<1>3. ASSUME NEW p \in Proc, StartStep(p) PROVE GuardInv'
  BY <1>3, RunLockAssumption DEF StartStep, Stage, StageRefused, Link, LinkRefused, SyncLock, Report, StartReady, StartFails
<1>4. ASSUME NEW p \in Proc, FinishStep(p) PROVE GuardInv'
  BY <1>4, RunLockAssumption DEF FinishStep, Validate, ValidateRefused, Close, CloseFails
<1>5. ASSUME NEW p \in Proc, RemoveStep(p) PROVE GuardInv'
  BY <1>5, RunLockAssumption DEF RemoveStep, TakeGuard, ReadSnapshot, ReadRefused, PrepareArchive, SyncArchive, Recheck, RecheckRefused, MoveLock, SyncRemoval, WriteCompleted, EndRemoval
<1>6. ASSUME NEW o \in Owner, OwnerDies(o) PROVE GuardInv'
  BY <1>6, RunLockAssumption DEF OwnerDies
<1>7. CASE PowerLoss
  BY <1>7, RunLockAssumption DEF PowerLoss
<1>8. CASE UNCHANGED vars
  BY <1>8, RunLockAssumption DEF vars
<1>9. CASE OutsiderWrites
  BY <1>9 DEF OutsiderWrites
<1>10. QED
  BY <1>1, <1>2, <1>3, <1>4, <1>5, <1>6, <1>7, <1>8, <1>9
     DEF Next, Invoke, Step, Environment, Terminated

LEMMA StepRoleInv ==
  TypeOK /\ RoleInv /\ Outsiders = FALSE /\ [Next]_vars => RoleInv'
<1> SUFFICES ASSUME TypeOK, RoleInv,
                    Outsiders = FALSE, [Next]_vars
             PROVE  RoleInv'
  OBVIOUS
<1> USE DEF TypeOK, Transition, Guarded, Acquiring, Removing, entry, archive, call, runs, RoleInv
<1>1. ASSUME NEW p \in Proc, StartBegin(p) \/ Preview(p) \/ Crash(p) PROVE RoleInv'
  BY <1>1 DEF StartBegin, Preview, Crash
<1>2. ASSUME NEW p \in Proc, NEW r \in Proc, FinishBegin(p, r) PROVE RoleInv'
  BY <1>2 DEF FinishBegin
<1>3. ASSUME NEW p \in Proc, StartStep(p) PROVE RoleInv'
  BY <1>3 DEF StartStep, Stage, StageRefused, Link, LinkRefused, SyncLock, Report, StartReady, StartFails
<1>4. ASSUME NEW p \in Proc, FinishStep(p) PROVE RoleInv'
  BY <1>4 DEF FinishStep, Validate, ValidateRefused, Close, CloseFails
<1>5. ASSUME NEW p \in Proc, RemoveStep(p) PROVE RoleInv'
  BY <1>5 DEF RemoveStep, TakeGuard, ReadSnapshot, ReadRefused, PrepareArchive, SyncArchive, Recheck, RecheckRefused, MoveLock, SyncRemoval, WriteCompleted, EndRemoval
<1>6. ASSUME NEW o \in Owner, OwnerDies(o) PROVE RoleInv'
  BY <1>6 DEF OwnerDies
<1>7. CASE PowerLoss
  BY <1>7 DEF PowerLoss
<1>8. CASE UNCHANGED vars
  BY <1>8 DEF vars
<1>9. QED
  BY <1>1, <1>2, <1>3, <1>4, <1>5, <1>6, <1>7, <1>8
     DEF Next, Invoke, Step, StartStep, FinishStep, RemoveStep, Environment,
         OutsiderWrites, Terminated

LEMMA StepLockInv ==
  TypeOK /\ GuardInv /\ RoleInv /\ LockInv /\ Outsiders = FALSE /\ [Next]_vars => LockInv'
<1> SUFFICES ASSUME TypeOK, GuardInv, RoleInv, LockInv,
                    Outsiders = FALSE, [Next]_vars
             PROVE  LockInv'
  OBVIOUS
<1> USE DEF TypeOK, Transition, Guarded, Acquiring, Removing, entry, archive, call, runs,
            GuardInv, RoleInv, LockInv, Published
<1>1. ASSUME NEW p \in Proc, StartBegin(p) \/ Preview(p) \/ Crash(p) PROVE LockInv'
  BY <1>1, OwnFacts, RunLockAssumption DEF StartBegin, Preview, Crash
<1>2. ASSUME NEW p \in Proc, NEW r \in Proc, FinishBegin(p, r) PROVE LockInv'
  BY <1>2, OwnFacts, RunLockAssumption DEF FinishBegin
<1>3. ASSUME NEW p \in Proc, StartStep(p) PROVE LockInv'
  BY <1>3, OwnFacts, RunLockAssumption DEF StartStep, Stage, StageRefused, Link, LinkRefused, SyncLock, Report, StartReady, StartFails
<1>4. ASSUME NEW p \in Proc,
         \/ ValidateRefused(p) \/ Close(p) \/ CloseFails(p)
  PROVE LockInv'
  BY <1>4, OwnFacts, RunLockAssumption DEF ValidateRefused, Close, CloseFails
<1>5. ASSUME NEW p \in Proc, Validate(p) PROVE LockInv'
  BY <1>5, OwnFacts, RunLockAssumption DEF Validate
<1>6. ASSUME NEW p \in Proc, RemoveStep(p) PROVE LockInv'
  BY <1>6, OwnFacts, RunLockAssumption DEF RemoveStep, TakeGuard, ReadSnapshot, ReadRefused, PrepareArchive, SyncArchive, Recheck, RecheckRefused, MoveLock, SyncRemoval, WriteCompleted, EndRemoval
<1>7. ASSUME NEW o \in Owner, OwnerDies(o) PROVE LockInv'
  BY <1>7, OwnFacts, RunLockAssumption DEF OwnerDies
<1>8. CASE PowerLoss
  BY <1>8, OwnFacts, RunLockAssumption DEF PowerLoss
<1>9. CASE UNCHANGED vars
  BY <1>9, OwnFacts, RunLockAssumption DEF vars
<1>10. QED
  BY <1>1, <1>2, <1>3, <1>4, <1>5, <1>6, <1>7, <1>8, <1>9
     DEF Next, Invoke, Step, StartStep, FinishStep, RemoveStep, Environment,
         OutsiderWrites, Terminated

LEMMA StepRemoveInv ==
  TypeOK /\ GuardInv /\ RoleInv /\ LockInv /\ RemoveInv /\ Outsiders = FALSE /\ [Next]_vars => RemoveInv'
<1> SUFFICES ASSUME TypeOK, GuardInv, RoleInv, LockInv, RemoveInv,
                    Outsiders = FALSE, [Next]_vars
             PROVE  RemoveInv'
  OBVIOUS
<1> USE DEF TypeOK, Transition, Guarded, Acquiring, Removing, entry, archive, call, runs,
            GuardInv, RoleInv, LockInv, RemoveInv, Published, Evidence, Name
<1>1. ASSUME NEW p \in Proc, StartBegin(p) \/ Preview(p) \/ Crash(p) PROVE RemoveInv'
  BY <1>1, OwnFacts, RunLockAssumption, NoneAssumption DEF StartBegin, Preview, Crash
<1>2. ASSUME NEW p \in Proc, NEW r \in Proc, FinishBegin(p, r) PROVE RemoveInv'
  BY <1>2, OwnFacts, RunLockAssumption, NoneAssumption DEF FinishBegin
<1>3. ASSUME NEW p \in Proc, StartStep(p) PROVE RemoveInv'
  BY <1>3, OwnFacts, RunLockAssumption, NoneAssumption DEF StartStep, Stage, StageRefused, Link, LinkRefused, SyncLock, Report, StartReady, StartFails
<1>4. ASSUME NEW p \in Proc, FinishStep(p) PROVE RemoveInv'
  BY <1>4, OwnFacts, RunLockAssumption, NoneAssumption DEF FinishStep, Validate, ValidateRefused, Close, CloseFails
<1>5. ASSUME NEW p \in Proc,
         \/ TakeGuard(p) \/ ReadRefused(p) \/ Recheck(p) \/ RecheckRefused(p)
  PROVE RemoveInv'
  BY <1>5, OwnFacts, RunLockAssumption, NoneAssumption DEF TakeGuard, ReadRefused, Recheck, RecheckRefused
<1>6. ASSUME NEW p \in Proc, ReadSnapshot(p) PROVE RemoveInv'
  BY <1>6, OwnFacts DEF ReadSnapshot, Accepts
<1>7. ASSUME NEW p \in Proc, PrepareArchive(p) PROVE RemoveInv'
  BY <1>7, OwnFacts, RunLockAssumption, NoneAssumption DEF PrepareArchive
<1>8. ASSUME NEW p \in Proc, SyncArchive(p) PROVE RemoveInv'
  BY <1>8, OwnFacts, RunLockAssumption, NoneAssumption DEF SyncArchive
<1>9. ASSUME NEW p \in Proc, MoveLock(p) PROVE RemoveInv'
  BY <1>9, OwnFacts, RunLockAssumption, NoneAssumption DEF MoveLock
<1>10. ASSUME NEW p \in Proc, SyncRemoval(p) PROVE RemoveInv'
  BY <1>10, OwnFacts, RunLockAssumption, NoneAssumption DEF SyncRemoval
<1>11. ASSUME NEW p \in Proc, WriteCompleted(p) PROVE RemoveInv'
  BY <1>11, OwnFacts, RunLockAssumption, NoneAssumption DEF WriteCompleted
<1>12. ASSUME NEW p \in Proc, EndRemoval(p) PROVE RemoveInv'
  BY <1>12, OwnFacts, RunLockAssumption, NoneAssumption DEF EndRemoval
<1>13. ASSUME NEW o \in Owner, OwnerDies(o) PROVE RemoveInv'
  BY <1>13, OwnFacts, RunLockAssumption, NoneAssumption DEF OwnerDies
<1>14. CASE PowerLoss
  <2>1. ASSUME NEW p \in Proc
        PROVE  firm[p] \subseteq files'[p] /\ files'[p] \subseteq files[p]
               /\ firm'[p] = files'[p]
    BY <1>14, PowerFiles
  <2>2. \A p \in Proc : Published(p) => Published(p)'
    BY <1>14 DEF PowerLoss
  <2>3. ASSUME NEW p \in Proc
        PROVE  /\ snap'[p] = snap[p] /\ pc'[p] \in {"new", "done"}
               /\ pc'[p] = "new" => pc[p] = "new"
    BY <1>14 DEF PowerLoss
  <2>4. ASSUME NEW p \in Proc, snap'[p] # None
        PROVE  snap'[p] \in Strays
               \/ \E r \in Proc : snap'[p] = Own(r) /\ Published(r)'
    BY <2>2, <2>3, <2>4
  <2>5. QED
    BY <2>1, <2>3, <2>4
<1>15. CASE UNCHANGED vars
  BY <1>15, OwnFacts, RunLockAssumption, NoneAssumption DEF vars
<1>16. QED
  BY <1>1, <1>2, <1>3, <1>4, <1>5, <1>6, <1>7, <1>8, <1>9, <1>10, <1>11, <1>12, <1>13, <1>14, <1>15
     DEF Next, Invoke, Step, StartStep, FinishStep, RemoveStep, Environment,
         OutsiderWrites, Terminated

LEMMA StepRecoverInv ==
  TypeOK /\ GuardInv /\ RoleInv /\ LockInv /\ RemoveInv /\ RunInv /\ RecoverInv /\ Outsiders = FALSE /\ [Next]_vars => RecoverInv'
<1> SUFFICES ASSUME TypeOK, GuardInv, RoleInv, LockInv, RemoveInv, RunInv, RecoverInv,
                    Outsiders = FALSE, [Next]_vars
             PROVE  RecoverInv'
  OBVIOUS
<1> USE DEF TypeOK, Transition, Guarded, Acquiring, Removing, entry, archive, call, runs,
            GuardInv, RoleInv, LockInv, RemoveInv, RecoverInv, Published, Evicts
<1>1. ASSUME NEW p \in Proc, StartBegin(p) \/ Preview(p) \/ Crash(p) PROVE RecoverInv'
  BY <1>1, OwnFacts, RunLockAssumption, NoneAssumption DEF StartBegin, Preview, Crash
<1>2. ASSUME NEW p \in Proc, NEW r \in Proc, FinishBegin(p, r) PROVE RecoverInv'
  BY <1>2, OwnFacts, RunLockAssumption, NoneAssumption DEF FinishBegin
<1>3. ASSUME NEW p \in Proc, StartStep(p) PROVE RecoverInv'
  BY <1>3, OwnFacts, RunLockAssumption, NoneAssumption DEF StartStep, Stage, StageRefused, Link, LinkRefused, SyncLock, Report, StartReady, StartFails
<1>4. ASSUME NEW p \in Proc, FinishStep(p) PROVE RecoverInv'
  BY <1>4, OwnFacts, RunLockAssumption, NoneAssumption DEF FinishStep, Validate, ValidateRefused, Close, CloseFails
<1>5. ASSUME NEW p \in Proc,
         \/ TakeGuard(p) \/ ReadSnapshot(p) \/ ReadRefused(p) \/ PrepareArchive(p) \/ SyncArchive(p) \/ RecheckRefused(p) \/ MoveLock(p) \/ SyncRemoval(p) \/ WriteCompleted(p) \/ EndRemoval(p)
  PROVE RecoverInv'
  BY <1>5, OwnFacts, RunLockAssumption, NoneAssumption DEF TakeGuard, ReadSnapshot, ReadRefused, PrepareArchive, SyncArchive, RecheckRefused, MoveLock, SyncRemoval, WriteCompleted, EndRemoval
<1>6. ASSUME NEW p \in Proc, Recheck(p) PROVE RecoverInv'
  BY <1>6, OwnFacts DEF Recheck, Reaccepts, Permits, OwnerStatus
<1>7. ASSUME NEW o \in Owner, OwnerDies(o) PROVE RecoverInv'
  BY <1>7, OwnFacts, RunLockAssumption, NoneAssumption DEF OwnerDies
<1>8. CASE PowerLoss
  BY <1>8, OwnFacts, RunLockAssumption, NoneAssumption DEF PowerLoss
<1>9. CASE UNCHANGED vars
  BY <1>9, OwnFacts, RunLockAssumption, NoneAssumption DEF vars
<1>10. QED
  BY <1>1, <1>2, <1>3, <1>4, <1>5, <1>6, <1>7, <1>8, <1>9
     DEF Next, Invoke, Step, StartStep, FinishStep, RemoveStep, Environment,
         OutsiderWrites, Terminated

LEMMA StepRunInv ==
  TypeOK /\ GuardInv /\ RoleInv /\ LockInv /\ RemoveInv /\ RecoverInv /\ RunInv /\ Outsiders = FALSE /\ [Next]_vars => RunInv'
<1> SUFFICES ASSUME TypeOK, GuardInv, RoleInv, LockInv, RemoveInv, RecoverInv, RunInv,
                    Outsiders = FALSE, [Next]_vars
             PROVE  RunInv'
  OBVIOUS
<1> USE DEF TypeOK, Transition, Guarded, Acquiring, Removing, entry, archive, call, runs,
            GuardInv, RoleInv, LockInv, RemoveInv, RecoverInv, RunInv, Published, Evicts, OwnerRuns, OwnedBy
<1>1. ASSUME NEW p \in Proc, StartBegin(p) \/ Preview(p) \/ Crash(p) PROVE RunInv'
  BY <1>1, OwnFacts, RunLockAssumption, NoneAssumption DEF StartBegin, Preview, Crash
<1>2. ASSUME NEW p \in Proc, NEW r \in Proc, FinishBegin(p, r) PROVE RunInv'
  BY <1>2, OwnFacts, RunLockAssumption, NoneAssumption DEF FinishBegin
<1>3. ASSUME NEW p \in Proc, StartStep(p) PROVE RunInv'
  BY <1>3, OwnFacts, RunLockAssumption, NoneAssumption DEF StartStep, Stage, StageRefused, Link, LinkRefused, SyncLock, Report, StartReady, StartFails
<1>4. ASSUME NEW p \in Proc, FinishStep(p) PROVE RunInv'
  BY <1>4, OwnFacts, RunLockAssumption, NoneAssumption DEF FinishStep, Validate, ValidateRefused, Close, CloseFails
<1>5. ASSUME NEW p \in Proc,
         \/ TakeGuard(p) \/ ReadSnapshot(p) \/ ReadRefused(p) \/ PrepareArchive(p) \/ SyncArchive(p) \/ Recheck(p) \/ RecheckRefused(p) \/ SyncRemoval(p) \/ WriteCompleted(p) \/ EndRemoval(p)
  PROVE RunInv'
  BY <1>5, OwnFacts, RunLockAssumption, NoneAssumption DEF TakeGuard, ReadSnapshot, ReadRefused, PrepareArchive, SyncArchive, Recheck, RecheckRefused, SyncRemoval, WriteCompleted, EndRemoval
<1>6. ASSUME NEW p \in Proc, MoveLock(p) PROVE RunInv'
  <2>1. ASSUME NEW r \in Proc, pc[r] = "context", lock = Own(r)
        PROVE  r \in revoked' \/ ~OwnerRuns(r)
    <3>1. CASE role[p] = "recover"
      BY <1>6, <2>1, <3>1, OwnFacts, RunLockAssumption DEF MoveLock
    <3>2. CASE role[p] # "recover"
      BY <1>6, <2>1, <3>2, OwnFacts DEF MoveLock
    <3>3. QED
      BY <3>1, <3>2
  <2>2. revoked \subseteq revoked' /\ open' \subseteq open
    BY <1>6 DEF MoveLock
  <2>3. QED
    BY <1>6, <2>1, <2>2 DEF MoveLock
<1>7. ASSUME NEW o \in Owner, OwnerDies(o) PROVE RunInv'
  BY <1>7, OwnFacts, RunLockAssumption, NoneAssumption DEF OwnerDies
<1>8. CASE PowerLoss
  BY <1>8, OwnFacts, RunLockAssumption, NoneAssumption DEF PowerLoss
<1>9. CASE UNCHANGED vars
  BY <1>9, OwnFacts, RunLockAssumption, NoneAssumption DEF vars
<1>10. QED
  BY <1>1, <1>2, <1>3, <1>4, <1>5, <1>6, <1>7, <1>8, <1>9
     DEF Next, Invoke, Step, StartStep, FinishStep, RemoveStep, Environment,
         OutsiderWrites, Terminated

LEMMA StepHeld ==
  TypeOK /\ GuardInv /\ RoleInv /\ LockInv /\ RemoveInv /\ RecoverInv /\ RunInv /\ HeldWhileOpen /\ Outsiders = FALSE /\ [Next]_vars => HeldWhileOpen'
<1> SUFFICES ASSUME TypeOK, GuardInv, RoleInv, LockInv, RemoveInv, RecoverInv, RunInv, HeldWhileOpen,
                    Outsiders = FALSE, [Next]_vars
             PROVE  HeldWhileOpen'
  OBVIOUS
<1> USE DEF TypeOK, Transition, Guarded, Acquiring, Removing, entry, archive, call, runs,
            GuardInv, RoleInv, LockInv, RemoveInv, RecoverInv, RunInv, HeldWhileOpen, Published, Evicts, OwnerRuns, OwnedBy
<1>1. ASSUME NEW p \in Proc, StartBegin(p) \/ Preview(p) \/ Crash(p) PROVE HeldWhileOpen'
  BY <1>1, OwnFacts, RunLockAssumption, NoneAssumption DEF StartBegin, Preview, Crash
<1>2. ASSUME NEW p \in Proc, NEW r \in Proc, FinishBegin(p, r) PROVE HeldWhileOpen'
  BY <1>2, OwnFacts, RunLockAssumption, NoneAssumption DEF FinishBegin
<1>3. ASSUME NEW p \in Proc, StartStep(p) PROVE HeldWhileOpen'
  BY <1>3, OwnFacts, RunLockAssumption, NoneAssumption DEF StartStep, Stage, StageRefused, Link, LinkRefused, SyncLock, Report, StartReady, StartFails
<1>4. ASSUME NEW p \in Proc, FinishStep(p) PROVE HeldWhileOpen'
  BY <1>4, OwnFacts, RunLockAssumption, NoneAssumption DEF FinishStep, Validate, ValidateRefused, Close, CloseFails
<1>5. ASSUME NEW p \in Proc, RemoveStep(p) PROVE HeldWhileOpen'
  BY <1>5, OwnFacts, RunLockAssumption, NoneAssumption DEF RemoveStep, TakeGuard, ReadSnapshot, ReadRefused, PrepareArchive, SyncArchive, Recheck, RecheckRefused, MoveLock, SyncRemoval, WriteCompleted, EndRemoval
<1>6. ASSUME NEW o \in Owner, OwnerDies(o) PROVE HeldWhileOpen'
  BY <1>6, OwnFacts, RunLockAssumption, NoneAssumption DEF OwnerDies
<1>7. CASE PowerLoss
  BY <1>7, OwnFacts, RunLockAssumption, NoneAssumption DEF PowerLoss
<1>8. CASE UNCHANGED vars
  BY <1>8, OwnFacts, RunLockAssumption, NoneAssumption DEF vars
<1>9. QED
  BY <1>1, <1>2, <1>3, <1>4, <1>5, <1>6, <1>7, <1>8
     DEF Next, Invoke, Step, StartStep, FinishStep, RemoveStep, Environment,
         OutsiderWrites, Terminated

LEMMA StepEvidence ==
  TypeOK /\ GuardInv /\ RoleInv /\ LockInv /\ RemoveInv /\ RunInv /\ EvidenceKept /\ Outsiders = FALSE /\ [Next]_vars => EvidenceKept'
<1> SUFFICES ASSUME TypeOK, GuardInv, RoleInv, LockInv, RemoveInv, RunInv, EvidenceKept,
                    Outsiders = FALSE, [Next]_vars
             PROVE  EvidenceKept'
  OBVIOUS
<1> USE DEF TypeOK, Transition, Guarded, Acquiring, Removing, entry, archive, call, runs,
            GuardInv, RoleInv, LockInv, RemoveInv, RunInv, EvidenceKept, Published, Evidence
<1>1. ASSUME NEW p \in Proc, StartBegin(p) \/ Preview(p) \/ Crash(p) PROVE EvidenceKept'
  BY <1>1, OwnFacts, RunLockAssumption, NoneAssumption DEF StartBegin, Preview, Crash
<1>2. ASSUME NEW p \in Proc, NEW r \in Proc, FinishBegin(p, r) PROVE EvidenceKept'
  BY <1>2, OwnFacts, RunLockAssumption, NoneAssumption DEF FinishBegin
<1>3. ASSUME NEW p \in Proc, StartStep(p) PROVE EvidenceKept'
  BY <1>3, OwnFacts, RunLockAssumption, NoneAssumption DEF StartStep, Stage, StageRefused, Link, LinkRefused, SyncLock, Report, StartReady, StartFails
<1>4. ASSUME NEW p \in Proc, FinishStep(p) PROVE EvidenceKept'
  BY <1>4, OwnFacts, RunLockAssumption, NoneAssumption DEF FinishStep, Validate, ValidateRefused, Close, CloseFails
<1>5. ASSUME NEW p \in Proc,
         \/ TakeGuard(p) \/ ReadSnapshot(p) \/ ReadRefused(p) \/ PrepareArchive(p) \/ SyncArchive(p) \/ Recheck(p) \/ RecheckRefused(p) \/ SyncRemoval(p) \/ WriteCompleted(p) \/ EndRemoval(p)
  PROVE EvidenceKept'
  BY <1>5, OwnFacts, RunLockAssumption, NoneAssumption DEF TakeGuard, ReadSnapshot, ReadRefused, PrepareArchive, SyncArchive, Recheck, RecheckRefused, SyncRemoval, WriteCompleted, EndRemoval
<1>6. ASSUME NEW p \in Proc, MoveLock(p) PROVE EvidenceKept'
  BY <1>6, OwnFacts, RunLockAssumption, NoneAssumption DEF MoveLock
<1>7. ASSUME NEW o \in Owner, OwnerDies(o) PROVE EvidenceKept'
  BY <1>7, OwnFacts, RunLockAssumption, NoneAssumption DEF OwnerDies
<1>8. CASE PowerLoss
  <2>1. \A p \in Proc : firm[p] \subseteq firm'[p]
    BY <1>8, PowerFiles
  <2>2. told' = told /\ snap' = snap /\ lock' \in disk /\ disk' = {lock'}
    BY <1>8 DEF PowerLoss
  <2>3. QED
    BY <2>1, <2>2
<1>9. CASE UNCHANGED vars
  BY <1>9, OwnFacts, RunLockAssumption, NoneAssumption DEF vars
<1>10. QED
  BY <1>1, <1>2, <1>3, <1>4, <1>5, <1>6, <1>7, <1>8, <1>9
     DEF Next, Invoke, Step, StartStep, FinishStep, RemoveStep, Environment,
         OutsiderWrites, Terminated

LEMMA StepCompleted ==
  TypeOK /\ GuardInv /\ RoleInv /\ LockInv /\ RemoveInv /\ CompletedMeansGone /\ Outsiders = FALSE /\ [Next]_vars => CompletedMeansGone'
<1> SUFFICES ASSUME TypeOK, GuardInv, RoleInv, LockInv, RemoveInv, CompletedMeansGone,
                    Outsiders = FALSE, [Next]_vars
             PROVE  CompletedMeansGone'
  OBVIOUS
<1> USE DEF TypeOK, Transition, Guarded, Acquiring, Removing, entry, archive, call, runs,
            GuardInv, RoleInv, LockInv, RemoveInv, CompletedMeansGone, Published
<1>1. ASSUME NEW p \in Proc, StartBegin(p) \/ Preview(p) \/ Crash(p) PROVE CompletedMeansGone'
  BY <1>1, OwnFacts, RunLockAssumption, NoneAssumption DEF StartBegin, Preview, Crash
<1>2. ASSUME NEW p \in Proc, NEW r \in Proc, FinishBegin(p, r) PROVE CompletedMeansGone'
  BY <1>2, OwnFacts, RunLockAssumption, NoneAssumption DEF FinishBegin
<1>3. ASSUME NEW p \in Proc, StartStep(p) PROVE CompletedMeansGone'
  BY <1>3, OwnFacts, RunLockAssumption, NoneAssumption DEF StartStep, Stage, StageRefused, Link, LinkRefused, SyncLock, Report, StartReady, StartFails
<1>4. ASSUME NEW p \in Proc, FinishStep(p) PROVE CompletedMeansGone'
  BY <1>4, OwnFacts, RunLockAssumption, NoneAssumption DEF FinishStep, Validate, ValidateRefused, Close, CloseFails
<1>5. ASSUME NEW p \in Proc, RemoveStep(p) PROVE CompletedMeansGone'
  BY <1>5, OwnFacts, RunLockAssumption, NoneAssumption DEF RemoveStep, TakeGuard, ReadSnapshot, ReadRefused, PrepareArchive, SyncArchive, Recheck, RecheckRefused, MoveLock, SyncRemoval, WriteCompleted, EndRemoval
<1>6. ASSUME NEW o \in Owner, OwnerDies(o) PROVE CompletedMeansGone'
  BY <1>6, OwnFacts, RunLockAssumption, NoneAssumption DEF OwnerDies
<1>7. CASE PowerLoss
  <2>1. ASSUME NEW p \in Proc
        PROVE  firm[p] \subseteq files'[p] /\ files'[p] \subseteq files[p]
               /\ firm'[p] = files'[p]
    BY <1>7, PowerFiles
  <2>2. QED
    BY <1>7, <2>1 DEF PowerLoss
<1>8. CASE UNCHANGED vars
  BY <1>8, OwnFacts, RunLockAssumption, NoneAssumption DEF vars
<1>9. QED
  BY <1>1, <1>2, <1>3, <1>4, <1>5, <1>6, <1>7, <1>8
     DEF Next, Invoke, Step, StartStep, FinishStep, RemoveStep, Environment,
         OutsiderWrites, Terminated

-----------------------------------------------------------------------------
LEMMA InitIInv == Init => IInv
<1> SUFFICES ASSUME Init PROVE IInv
  OBVIOUS
<1>1. TypeOK
  BY InitTypeOK
<1>2. GuardInv /\ RoleInv /\ LockInv /\ RemoveInv /\ RecoverInv /\ RunInv
  BY RunLockAssumption
     DEF Init, Guarded, Acquiring, Removing, GuardInv, RoleInv, LockInv, RemoveInv,
         RecoverInv, RunInv, Strays
<1>3. HeldWhileOpen /\ EvidenceKept /\ CompletedMeansGone
  BY DEF Init, HeldWhileOpen, EvidenceKept, CompletedMeansGone
<1>4. QED
  BY <1>1, <1>2, <1>3 DEF IInv

LEMMA StepIInv == IInv /\ Outsiders = FALSE /\ [Next]_vars => IInv'
BY StepTypeOK, StepGuardInv, StepRoleInv, StepLockInv, StepRemoveInv, StepRecoverInv,
   StepRunInv, StepHeld, StepEvidence, StepCompleted DEF IInv

(* The invariant is inductive, whatever crashes and power failures happen. *)
THEOREM InvariantHolds == ASSUME Outsiders = FALSE PROVE Spec => []IInv
<1>1. Init => IInv
  BY InitIInv
<1>2. IInv /\ [Next]_vars => IInv'
  BY StepIInv
<1>3. QED
  BY <1>1, <1>2, PTL DEF Spec

(* No start, finish, retry, recovery, crash or power failure takes the     *)
(* lock from an open run, save a recovery that acknowledged not to know    *)
(* whether its owner is alive.                                             *)
THEOREM OpenRunsHoldTheLock == ASSUME Outsiders = FALSE PROVE Spec => []HeldWhileOpen
<1>1. IInv => HeldWhileOpen
  BY DEF IInv
<1>2. QED
  BY <1>1, InvariantHolds, PTL

(* At most one open run has not been evicted by acknowledgement. *)
THEOREM RunsAreExclusive == ASSUME Outsiders = FALSE PROVE Spec => []Exclusion
<1>1. IInv => Exclusion
  <2> SUFFICES ASSUME IInv, NEW r \in open \ revoked, NEW s \in open \ revoked
               PROVE  r = s
    BY DEF Exclusion
  <2>1. Own(r) = Own(s) /\ r \in Proc /\ s \in Proc
    BY DEF IInv, HeldWhileOpen, TypeOK
  <2>2. QED
    BY <2>1, OwnFacts
<1>2. QED
  BY <1>1, InvariantHolds, PTL

(* No reported lock is lost: it is in force or durably archived. *)
THEOREM LocksAreAccountedFor == ASSUME Outsiders = FALSE PROVE Spec => []EvidenceKept
<1>1. IInv => EvidenceKept
  BY DEF IInv
<1>2. QED
  BY <1>1, InvariantHolds, PTL

(* completed.json tells the truth, even across power failures. *)
THEOREM CompletionIsFinal == ASSUME Outsiders = FALSE PROVE Spec => []CompletedMeansGone
<1>1. IInv => CompletedMeansGone
  BY DEF IInv
<1>2. QED
  BY <1>1, InvariantHolds, PTL

-----------------------------------------------------------------------------
(* A lock that a completed event holds is not about to be removed again. *)
Concerned(p) == pc[p] \in Removing \ {"read"} \/ "completed" \in files[p]
OnceInv ==
  \A p, q \in Proc :
    p # q /\ Concerned(p) /\ "completed" \in files[q] => snap[p] # snap[q]

LEMMA StepOnce ==
  ASSUME IInv, OnceInv, Outsiders = FALSE, [Next]_vars
  PROVE  OnceInv'
<1> USE DEF Transition, entry, archive, call, runs
<1>1. TypeOK /\ GuardInv /\ RemoveInv /\ CompletedMeansGone
  BY DEF IInv
<1>2. CASE \E p \in Proc : ReadSnapshot(p)
  <2> PICK p \in Proc : ReadSnapshot(p)
    BY <1>2
  <2>1. /\ pc[p] = "read" /\ snap'[p] = lock /\ UNCHANGED files
        /\ \A q \in Proc \ {p} : pc'[q] = pc[q] /\ snap'[q] = snap[q]
    BY <1>1 DEF ReadSnapshot, TypeOK
  <2>2. files[p] = {}
    BY <1>1, <2>1 DEF RemoveInv
  <2>3. \A q \in Proc : "completed" \in files[q] => snap[q] # lock
    BY <1>1 DEF CompletedMeansGone
  <2> QED
    BY <2>1, <2>2, <2>3 DEF OnceInv, Concerned
<1>3. CASE \E p \in Proc : WriteCompleted(p)
  <2> PICK p \in Proc : WriteCompleted(p)
    BY <1>3
  <2>1. /\ pc[p] = "unmarked" /\ UNCHANGED snap
        /\ \A q \in Proc \ {p} : pc'[q] = pc[q] /\ files'[q] = files[q]
    BY <1>1 DEF WriteCompleted, TypeOK
  <2>2. \A q \in Proc \ {p} : pc[q] \notin Removing
    BY <1>1, <2>1 DEF GuardInv, Guarded, Removing
  <2>3. Concerned(p)
    BY <2>1 DEF Concerned, Removing
  <2> QED
    BY <2>1, <2>2, <2>3 DEF OnceInv, Concerned
<1>4. CASE PowerLoss
  <2>1. ASSUME NEW p \in Proc PROVE files'[p] \subseteq files[p]
    BY <1>1, <1>4, PowerFiles DEF RemoveInv
  <2>2. /\ UNCHANGED snap
        /\ \A p \in Proc : pc'[p] \in {"new", "done"}
    BY <1>4 DEF PowerLoss
  <2>3. \A p \in Proc : Concerned(p)' => Concerned(p)
    BY <2>1, <2>2 DEF Concerned, Removing
  <2> QED
    BY <2>1, <2>2, <2>3 DEF OnceInv
<1>5. ASSUME snap' = snap,
             \A q \in Proc : "completed" \in files'[q] => "completed" \in files[q],
             \A q \in Proc : pc'[q] \in Removing \ {"read"} => pc[q] \in Removing \ {"read"}
      PROVE  OnceInv'
  BY <1>5 DEF OnceInv, Concerned
<1>6. ASSUME NEW p \in Proc, StartBegin(p) \/ Preview(p) \/ Crash(p) PROVE OnceInv'
  BY <1>1, <1>5, <1>6 DEF StartBegin, Preview, Crash, Concerned, Removing, TypeOK
<1>7. ASSUME NEW p \in Proc, NEW r \in Proc, FinishBegin(p, r) PROVE OnceInv'
  BY <1>1, <1>5, <1>7 DEF FinishBegin, Concerned, Removing, TypeOK
<1>8. ASSUME NEW p \in Proc, StartStep(p) \/ FinishStep(p) PROVE OnceInv'
  BY <1>1, <1>5, <1>8
     DEF StartStep, Stage, StageRefused, Link, LinkRefused, SyncLock, Report, StartReady,
         StartFails, FinishStep, Validate, ValidateRefused, Close, CloseFails, Concerned,
         Removing, TypeOK
<1>9. ASSUME NEW p \in Proc,
         \/ TakeGuard(p) \/ ReadRefused(p) \/ PrepareArchive(p) \/ SyncArchive(p)
         \/ Recheck(p) \/ RecheckRefused(p) \/ MoveLock(p) \/ SyncRemoval(p) \/ EndRemoval(p)
      PROVE OnceInv'
  BY <1>1, <1>5, <1>9
     DEF TakeGuard, ReadRefused, PrepareArchive, SyncArchive, Recheck, RecheckRefused,
         MoveLock, SyncRemoval, EndRemoval, Concerned, Removing, TypeOK
<1>10. CASE UNCHANGED vars
  BY <1>5, <1>10 DEF vars, Concerned
<1>11. ASSUME NEW o \in Owner, OwnerDies(o) PROVE OnceInv'
  BY <1>5, <1>11 DEF OwnerDies, Concerned
<1> QED
  BY <1>2, <1>3, <1>4, <1>6, <1>7, <1>8, <1>9, <1>10, <1>11
     DEF Next, Invoke, Step, RemoveStep, Environment, OutsiderWrites, Terminated

(* No lock has two completed archive events, although power failures bring *)
(* locks back and several invocations remove them on stale evidence.       *)
THEOREM RemovalsHappenOnce == ASSUME Outsiders = FALSE PROVE Spec => []RemovedOnce
<1>1. Init => OnceInv
  BY DEF Init, OnceInv
<1>2. IInv /\ OnceInv /\ [Next]_vars => OnceInv'
  BY StepOnce
<1>3. OnceInv => RemovedOnce
  BY DEF OnceInv, RemovedOnce, Concerned
<1> QED
  BY <1>1, <1>2, <1>3, InvariantHolds, PTL DEF Spec

-----------------------------------------------------------------------------
(* A recovery about to move a lock away has seen that no owner runs. *)
LiveInv ==
  \A p \in Proc : pc[p] = "move" /\ role[p] = "recover" /\ ~ProbesMayFail =>
                    "owned/active" \notin OwnerStatus(lock)

LEMMA StepLive ==
  TypeOK /\ GuardInv /\ RoleInv /\ LockInv /\ RemoveInv /\ LiveInv /\ Outsiders = FALSE /\ [Next]_vars => LiveInv'
<1> SUFFICES ASSUME TypeOK, GuardInv, RoleInv, LockInv, RemoveInv, LiveInv,
                    Outsiders = FALSE, [Next]_vars
             PROVE  LiveInv'
  OBVIOUS
<1> USE DEF TypeOK, Transition, Guarded, Acquiring, Removing, entry, archive, call, runs,
            GuardInv, RoleInv, LockInv, RemoveInv, LiveInv, Published, OwnerStatus
<1>1. ASSUME NEW p \in Proc, StartBegin(p) \/ Preview(p) \/ Crash(p) PROVE LiveInv'
  <2>1. ASSUME lock # None, lock.run \in Proc PROVE bound'[lock.run] = bound[lock.run]
    <3>1. lock \in disk \ {None} /\ lock \notin Strays
      BY <2>1, RunLockAssumption DEF Strays, Stray
    <3>2. pc[lock.run] # "new"
      BY <3>1, OwnFacts
    <3>3. QED
      BY <1>1, <3>2, <2>1 DEF StartBegin, Preview, Crash
  <2>2. lock' = lock /\ life' = life
    BY <1>1 DEF StartBegin, Preview, Crash
  <2>3. lock # None => lock.run \in Proc \cup {None}
    BY DEF File
  <2>4. lock # None => OwnerStatus(lock)' = OwnerStatus(lock)
    <3>1. CASE lock # None /\ lock.run \in Proc
      <4>1. lock'.form = lock.form /\ lock'.run = lock.run
        BY <2>2
      <4>2. bound'[lock'.run] = bound[lock.run]
        BY <3>1, <2>1, <4>1
      <4>3. QED
        BY <4>1, <4>2, <2>2 DEF OwnerStatus
    <3>2. CASE lock # None /\ lock.run = None
      BY <3>2, <2>2
    <3>3. QED
      BY <3>1, <3>2, <2>3
  <2>5. ASSUME NEW q \in Proc, pc'[q] = "move", role'[q] = "recover"
        PROVE  pc[q] = "move" /\ role[q] = "recover" /\ lock # None
    BY <1>1, <2>5 DEF StartBegin, Preview, Crash
  <2>6. QED
    BY <2>4, <2>5
<1>2. ASSUME NEW p \in Proc, NEW r \in Proc, FinishBegin(p, r) PROVE LiveInv'
  BY <1>2, OwnFacts, RunLockAssumption, NoneAssumption DEF FinishBegin
<1>3. ASSUME NEW p \in Proc, StartStep(p) PROVE LiveInv'
  BY <1>3, OwnFacts, RunLockAssumption, NoneAssumption DEF StartStep, Stage, StageRefused, Link, LinkRefused, SyncLock, Report, StartReady, StartFails
<1>4. ASSUME NEW p \in Proc, FinishStep(p) PROVE LiveInv'
  BY <1>4, OwnFacts, RunLockAssumption, NoneAssumption DEF FinishStep, Validate, ValidateRefused, Close, CloseFails
<1>5. ASSUME NEW p \in Proc,
         \/ TakeGuard(p) \/ ReadSnapshot(p) \/ ReadRefused(p) \/ PrepareArchive(p) \/ SyncArchive(p) \/ RecheckRefused(p) \/ MoveLock(p) \/ SyncRemoval(p) \/ WriteCompleted(p) \/ EndRemoval(p)
  PROVE LiveInv'
  BY <1>5, OwnFacts, RunLockAssumption, NoneAssumption DEF TakeGuard, ReadSnapshot, ReadRefused, PrepareArchive, SyncArchive, RecheckRefused, MoveLock, SyncRemoval, WriteCompleted, EndRemoval
<1>6. ASSUME NEW p \in Proc, Recheck(p) PROVE LiveInv'
  BY <1>6, OwnFacts DEF Recheck, Reaccepts, Permits
<1>7. ASSUME NEW o \in Owner, OwnerDies(o) PROVE LiveInv'
  BY <1>7, OwnFacts, RunLockAssumption, NoneAssumption DEF OwnerDies
<1>8. CASE PowerLoss
  BY <1>8, OwnFacts, RunLockAssumption, NoneAssumption DEF PowerLoss
<1>9. CASE UNCHANGED vars
  BY <1>9, OwnFacts, RunLockAssumption, NoneAssumption DEF vars
<1>10. QED
  BY <1>1, <1>2, <1>3, <1>4, <1>5, <1>6, <1>7, <1>8, <1>9
     DEF Next, Invoke, Step, StartStep, FinishStep, RemoveStep, Environment,
         OutsiderWrites, Terminated

(* While probing works, no recovery ends the lock of a running owner. *)
THEOREM RunningOwnersKeepTheLock ==
  ASSUME Outsiders = FALSE, ProbesMayFail = FALSE PROVE Spec => LiveOwnerKept
<1>1. Init => LiveInv
  BY DEF Init, LiveInv
<1>2. IInv /\ LiveInv /\ [Next]_vars => LiveInv'
  BY StepLive DEF IInv
<1>3. LiveInv /\ [Next]_vars =>
        [ \A p \in Proc :
            role[p] = "recover" /\ pc[p] = "move" /\ pc'[p] = "moved" =>
              "owned/active" \notin OwnerStatus(lock) ]_vars
  BY DEF LiveInv
<1>4. QED
  BY <1>1, <1>2, <1>3, InvariantHolds, PTL DEF Spec, LiveOwnerKept

-----------------------------------------------------------------------------
(* What archive_remove can rely on although outsiders rewrite the lock: its *)
(* snapshot is what the caller named, and from the second comparison to the *)
(* rename the lock is that snapshot.                                       *)
NamedInv ==
  \A p \in Proc :
    /\ firm[p] \subseteq files[p]
    /\ pc[p] \notin {"durable", "recheck", "move", "moved", "unmarked", "marked", "done"}
         => files[p] = {}
    /\ pc[p] \in {"durable", "recheck", "move"} => "removed" \notin files[p]
    /\ pc[p] \in {"prepare", "durable", "recheck", "move"} =>
         /\ Digest(snap[p]) = seen[p]
         /\ role[p] # "recover" => OwnedBy(snap[p], target[p])
    /\ pc[p] = "move" => lock = snap[p]

LEMMA StepNamed ==
  TypeOK /\ GuardInv /\ NamedInv /\ ExactRemoval /\ [Next]_vars
    => (NamedInv /\ ExactRemoval)'
<1> SUFFICES ASSUME TypeOK, GuardInv, NamedInv, ExactRemoval, [Next]_vars
             PROVE  NamedInv' /\ ExactRemoval'
  OBVIOUS
<1> USE DEF TypeOK, Transition, Guarded, Acquiring, Removing, entry, archive, call, runs,
            GuardInv, NamedInv, ExactRemoval
<1>1. ASSUME NEW p \in Proc, StartBegin(p) \/ Preview(p) \/ Crash(p)
      PROVE  NamedInv' /\ ExactRemoval'
  BY <1>1 DEF StartBegin, Preview, Crash
<1>2. ASSUME NEW p \in Proc, NEW r \in Proc, FinishBegin(p, r)
      PROVE  NamedInv' /\ ExactRemoval'
  BY <1>2 DEF FinishBegin
<1>3. ASSUME NEW p \in Proc, StartStep(p) PROVE NamedInv' /\ ExactRemoval'
  BY <1>3 DEF StartStep, Stage, StageRefused, Link, LinkRefused, SyncLock, Report,
              StartReady, StartFails
<1>4. ASSUME NEW p \in Proc, FinishStep(p) PROVE NamedInv' /\ ExactRemoval'
  BY <1>4 DEF FinishStep, Validate, ValidateRefused, Close, CloseFails
<1>5. ASSUME NEW p \in Proc,
         \/ TakeGuard(p) \/ ReadRefused(p) \/ PrepareArchive(p) \/ SyncArchive(p)
         \/ RecheckRefused(p)
      PROVE  NamedInv' /\ ExactRemoval'
  BY <1>5, RunLockAssumption
     DEF TakeGuard, ReadRefused, PrepareArchive, SyncArchive, RecheckRefused
<1>6. ASSUME NEW p \in Proc, ReadSnapshot(p) PROVE NamedInv' /\ ExactRemoval'
  BY <1>6 DEF ReadSnapshot, Accepts
<1>7. ASSUME NEW p \in Proc, Recheck(p) PROVE NamedInv' /\ ExactRemoval'
  BY <1>7 DEF Recheck, Reaccepts
<1>8. ASSUME NEW p \in Proc, MoveLock(p) PROVE NamedInv' /\ ExactRemoval'
  BY <1>8, RunLockAssumption DEF MoveLock
<1>9. ASSUME NEW p \in Proc, SyncRemoval(p) \/ WriteCompleted(p) \/ EndRemoval(p)
      PROVE  NamedInv' /\ ExactRemoval'
  BY <1>9 DEF SyncRemoval, WriteCompleted, EndRemoval
<1>10. ASSUME NEW o \in Owner, OwnerDies(o) PROVE NamedInv' /\ ExactRemoval'
  BY <1>10 DEF OwnerDies
<1>11. CASE PowerLoss
  <2>1. ASSUME NEW p \in Proc
        PROVE  files'[p] \subseteq files[p] /\ firm'[p] = files'[p]
    BY <1>11, PowerFiles
  <2>2. ASSUME NEW p \in Proc
        PROVE  pc'[p] \in {"new", "done"} /\ (pc'[p] = "new" => pc[p] = "new")
    BY <1>11 DEF PowerLoss
  <2>3. QED
    BY <1>11, <2>1, <2>2 DEF PowerLoss
<1>12. CASE OutsiderWrites
  BY <1>12 DEF OutsiderWrites
<1>13. CASE UNCHANGED vars
  BY <1>13 DEF vars
<1>14. QED
  BY <1>1, <1>2, <1>3, <1>4, <1>5, <1>6, <1>7, <1>8, <1>9, <1>10, <1>11, <1>12, <1>13
     DEF Next, Invoke, Step, RemoveStep, Environment, Terminated

(* Whatever outsiders write before the last comparison, archive_remove      *)
(* moves away the file it archived and that its caller named.              *)
THEOREM RemovalsAreExact == Spec => []ExactRemoval
<1> DEFINE Inv == TypeOK /\ GuardInv /\ NamedInv /\ ExactRemoval
<1>1. Init => Inv
  <2> SUFFICES ASSUME Init PROVE Inv
    OBVIOUS
  <2>1. GuardInv /\ NamedInv
    BY RunLockAssumption DEF Init, GuardInv, Guarded, Acquiring, Removing, NamedInv
  <2>2. ExactRemoval
    BY DEF Init, ExactRemoval
  <2>3. QED
    BY <2>1, <2>2, InitTypeOK
<1>2. Inv /\ [Next]_vars => Inv'
  BY StepTypeOK, StepGuardInv, StepNamed
<1>3. Inv => ExactRemoval
  OBVIOUS
<1>4. QED
  BY <1>1, <1>2, <1>3, PTL DEF Spec

=============================================================================
