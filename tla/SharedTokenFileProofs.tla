------------------------ MODULE SharedTokenFileProofs ------------------------
(***************************************************************************)
(* Proofs about LockFile: type correctness, and mutual exclusion of the    *)
(* lock for every number of processes, turns and crashes, as long as a     *)
(* holder finishes within staleMs and nobody crashes under the guard.      *)
(* Then about SharedTokenFile: the token file shared by any number of      *)
(* processes implements TokenStore, given that mutual exclusion.           *)
(***************************************************************************)
EXTENDS SharedTokenFile, TLAPS

USE NoFileAssumption, BoundAssumption DEF NoFileAssumption, BoundAssumption

(* No step takes a well typed state to one that is not. *)
LEMMA TypeStep == TypeOK /\ [Next]_vars => TypeOK'
<1> SUFFICES ASSUME TypeOK, [Next]_vars PROVE TypeOK'
  OBVIOUS
<1> USE DEF TypeOK, Label, GuardPhase, InGuard, Goto, turnVars
<1>1. ASSUME NEW p \in Proc, Start(p) PROVE TypeOK'
  BY <1>1 DEF Start
<1>2. ASSUME NEW p \in Proc, TryLock(p) PROVE TypeOK'
  <2>1. CASE lock = NoFile
    <3>1. Mine(p) \in FileId
      BY <1>2 DEF TryLock, Mine, FileId
    <3> QED
      BY <1>2, <2>1, <3>1 DEF TryLock
  <2>2. CASE lock # NoFile
    BY <1>2, <2>2 DEF TryLock
  <2> QED BY <2>1, <2>2
<1>3. ASSUME NEW p \in Proc, LookAtLock(p) PROVE TypeOK'
  BY <1>3 DEF LookAtLock
<1>4. ASSUME NEW p \in Proc, Finish(p) PROVE TypeOK'
  BY <1>4 DEF Finish, Mine, FileId
<1>5. ASSUME NEW p \in Proc, TryGuard(p) PROVE TypeOK'
  BY <1>5 DEF TryGuard
<1>6. ASSUME NEW p \in Proc, LookAtGuard(p) PROVE TypeOK'
  BY <1>6 DEF LookAtGuard
<1>7. ASSUME NEW p \in Proc, BreakGuard(p) PROVE TypeOK'
  BY <1>7 DEF BreakGuard
<1>8. ASSUME NEW p \in Proc, Recheck(p) PROVE TypeOK'
  BY <1>8 DEF Recheck
<1>9. ASSUME NEW p \in Proc, UnlinkLock(p) PROVE TypeOK'
  BY <1>9 DEF UnlinkLock
<1>10. ASSUME NEW p \in Proc, LeaveGuard(p) PROVE TypeOK'
  BY <1>10 DEF LeaveGuard
<1>11. ASSUME NEW p \in Proc, GiveUp(p) \/ UnlinkFails(p) PROVE TypeOK'
  BY <1>11 DEF GiveUp, UnlinkFails
<1>12. ASSUME NEW p \in Proc, Crash(p) PROVE TypeOK'
  BY <1>12 DEF Crash
<1>13. CASE AgeLock
  BY <1>13 DEF AgeLock
<1>14. CASE AgeGuard
  BY <1>14 DEF AgeGuard
<1>15. CASE UNCHANGED vars
  BY <1>15 DEF vars
<1> QED
  BY <1>1, <1>2, <1>3, <1>4, <1>5, <1>6, <1>7, <1>8, <1>9, <1>10, <1>11,
     <1>12, <1>13, <1>14, <1>15 DEF Next, Work

(* Every reachable state is well typed: a turn is always at a known step of *)
(* locked(), acquireLockFile(), withGuard() or releaseLockFile().           *)
THEOREM TypeCorrect == Spec => []TypeOK
<1>1. Init => TypeOK
  <2>1. 0 \in 0 .. MaxTurn /\ 0 \in 0 .. MaxCrash
    OBVIOUS
  <2> QED
    BY <2>1, Zenon DEF Init, TypeOK, Label
<1> QED
  BY <1>1, TypeStep, PTL DEF Spec

-----------------------------------------------------------------------------
(* A spent turn stays spent: the process's turn counter only grows, and a   *)
(* turn that is past fn, or has ended without it, never comes back to fn.   *)
LEMMA SpentIsStable ==
  ASSUME TypeOK, [Next]_vars, NEW f \in FileId, Spent(f)
  PROVE  Spent(f)'
<1> DEFINE q == f.by
<1>1. q \in Proc /\ f.turn \in Nat
  BY DEF FileId
<1> USE <1>1 DEF TypeOK, Spent, GuardPhase, InGuard, Goto, turnVars
<1>2. ASSUME NEW p \in Proc, Start(p) PROVE Spent(f)'
  BY <1>2 DEF Start
<1>3. ASSUME NEW p \in Proc, TryLock(p) PROVE Spent(f)'
  BY <1>3 DEF TryLock
<1>4. ASSUME NEW p \in Proc, LookAtLock(p) PROVE Spent(f)'
  BY <1>4 DEF LookAtLock
<1>5. ASSUME NEW p \in Proc, Finish(p) PROVE Spent(f)'
  BY <1>5 DEF Finish
<1>6. ASSUME NEW p \in Proc, TryGuard(p) PROVE Spent(f)'
  BY <1>6 DEF TryGuard
<1>7. ASSUME NEW p \in Proc, LookAtGuard(p) PROVE Spent(f)'
  BY <1>7 DEF LookAtGuard
<1>8. ASSUME NEW p \in Proc, BreakGuard(p) PROVE Spent(f)'
  BY <1>8 DEF BreakGuard
<1>9. ASSUME NEW p \in Proc, Recheck(p) PROVE Spent(f)'
  BY <1>9 DEF Recheck
<1>10. ASSUME NEW p \in Proc, UnlinkLock(p) PROVE Spent(f)'
  BY <1>10 DEF UnlinkLock
<1>11. ASSUME NEW p \in Proc, LeaveGuard(p) PROVE Spent(f)'
  BY <1>11 DEF LeaveGuard
<1>12. ASSUME NEW p \in Proc, GiveUp(p) \/ UnlinkFails(p) PROVE Spent(f)'
  BY <1>12 DEF GiveUp, UnlinkFails
<1>13. ASSUME NEW p \in Proc, Crash(p) PROVE Spent(f)'
  BY <1>13 DEF Crash
<1>14. CASE AgeLock \/ AgeGuard \/ UNCHANGED vars
  BY <1>14 DEF AgeLock, AgeGuard, vars
<1> QED
  BY <1>2, <1>3, <1>4, <1>5, <1>6, <1>7, <1>8, <1>9, <1>10, <1>11, <1>12,
     <1>13, <1>14 DEF Next, Work

-----------------------------------------------------------------------------
(* The guard serialises removals: only its creator is inside it, it never   *)
(* goes stale, so nobody ever removes another's guard.                      *)
LEMMA GuardStep ==
  ASSUME ~GuardLeft, TypeOK, GuardIsExclusive, [Next]_vars
  PROVE  GuardIsExclusive'
<1> USE DEF TypeOK, GuardIsExclusive, InGuard, GuardPhase, Goto, turnVars
<1>1. ASSUME NEW p \in Proc, Start(p) PROVE GuardIsExclusive'
  BY <1>1 DEF Start
<1>2. ASSUME NEW p \in Proc, TryLock(p) PROVE GuardIsExclusive'
  BY <1>2 DEF TryLock
<1>3. ASSUME NEW p \in Proc, LookAtLock(p) PROVE GuardIsExclusive'
  BY <1>3 DEF LookAtLock
<1>4. ASSUME NEW p \in Proc, Finish(p) PROVE GuardIsExclusive'
  BY <1>4 DEF Finish
<1>5. ASSUME NEW p \in Proc, TryGuard(p) PROVE GuardIsExclusive'
  BY <1>5 DEF TryGuard
<1>6. ASSUME NEW p \in Proc, LookAtGuard(p) PROVE GuardIsExclusive'
  BY <1>6 DEF LookAtGuard
<1>7. ASSUME NEW p \in Proc, BreakGuard(p) PROVE GuardIsExclusive'
  BY <1>7 DEF BreakGuard
<1>8. ASSUME NEW p \in Proc, Recheck(p) PROVE GuardIsExclusive'
  BY <1>8 DEF Recheck
<1>9. ASSUME NEW p \in Proc, UnlinkLock(p) PROVE GuardIsExclusive'
  BY <1>9 DEF UnlinkLock
<1>10. ASSUME NEW p \in Proc, LeaveGuard(p) PROVE GuardIsExclusive'
  BY <1>10 DEF LeaveGuard
<1>11. ASSUME NEW p \in Proc, GiveUp(p) \/ UnlinkFails(p) PROVE GuardIsExclusive'
  BY <1>11 DEF GiveUp, UnlinkFails
<1>12. ASSUME NEW p \in Proc, Crash(p) PROVE GuardIsExclusive'
  BY <1>12 DEF Crash
<1>13. CASE AgeLock \/ AgeGuard \/ UNCHANGED vars
  BY <1>13 DEF AgeLock, AgeGuard, vars
<1> QED
  BY <1>1, <1>2, <1>3, <1>4, <1>5, <1>6, <1>7, <1>8, <1>9, <1>10, <1>11,
     <1>12, <1>13 DEF Next, Work

(* The rest of the inductive invariant, one step per action.  The two that  *)
(* matter: UnlinkLock deletes a spent turn's file, so a running holder      *)
(* keeps its own; TryLock creates a file only where there is none, so no    *)
(* remover's judgement is about it.                                         *)
LEMMA InvStep ==
  ASSUME ~GuardLeft, ~Overrun, TypeOK, Inv, [Next]_vars
  PROVE  Inv'
<1>0. TypeOK'
  BY TypeStep
<1>1. GuardIsExclusive'
  BY GuardStep DEF Inv
<1>2. TargetIsSpent'
  <2> SUFFICES ASSUME NEW p \in Proc, target'[p] # NoFile PROVE Spent(target[p])'
    BY DEF TargetIsSpent
  <2>1. PICK f \in FileId : f = target'[p]
    BY <1>0 DEF TypeOK
  <2>2. CASE target'[p] = target[p]
    <3>1. Spent(f)'
      BY <2>1, <2>2, SpentIsStable DEF Inv, TargetIsSpent
    <3> QED
      BY <2>1, <3>1 DEF Spent
  <2>3. CASE target'[p] # target[p] /\ LookAtLock(p)
    <3>1. f = lock /\ lock # NoFile /\ lockStale
      BY <2>1, <2>3 DEF LookAtLock, TypeOK
    <3>2. Spent(f)'
      BY <3>1, SpentIsStable DEF Inv, StaleIsSpent
    <3> QED
      BY <2>1, <3>2 DEF Spent
  <2>4. CASE target'[p] # target[p] /\ Finish(p)
    BY <2>4 DEF Finish, Spent, Mine, TypeOK, Goto, GuardPhase
  <2> QED
    BY <2>2, <2>3, <2>4 DEF TypeOK, Next, Work, vars, turnVars, Start, TryLock,
       LookAtLock, Finish, TryGuard, LookAtGuard, BreakGuard, Recheck,
       UnlinkLock, LeaveGuard, GiveUp, UnlinkFails, Crash, AgeLock, AgeGuard
<1>3. LockIsAccountedFor'
  <2> SUFFICES ASSUME lock' # NoFile
               PROVE  (Spent(lock) \/ (pc[lock.by] = "hold" /\ lock = Mine(lock.by)))'
    BY DEF LockIsAccountedFor
  <2>1. PICK f \in FileId : f = lock'
    BY <1>0 DEF TypeOK
  <2>2. CASE lock' # lock
    <3>1. PICK p \in Proc : TryLock(p) /\ lock' = Mine(p)
      BY <2>2 DEF Next, Work, vars, turnVars, Start, TryLock, LookAtLock, Finish,
         TryGuard, LookAtGuard, BreakGuard, Recheck, UnlinkLock, LeaveGuard,
         GiveUp, UnlinkFails, Crash, AgeLock, AgeGuard
    <3>2. pc'[p] = "hold" /\ turn' = turn
      BY <2>2, <3>1 DEF TryLock, TypeOK, Goto, turnVars
    <3> QED
      BY <3>1, <3>2 DEF Mine
  <2>3. CASE lock' = lock /\ Spent(lock)
    <3>1. Spent(f)'
      BY <2>1, <2>3, SpentIsStable
    <3> QED
      BY <2>1, <3>1 DEF Spent
  <2>4. CASE lock' = lock /\ pc[lock.by] = "hold" /\ lock = Mine(lock.by)
    <3>1. f.by \in Proc /\ lock.by = f.by /\ lock'.by = f.by
      BY <2>1, <2>4 DEF FileId
    <3>2. CASE Finish(f.by)
      BY <2>1, <2>4, <3>1, <3>2 DEF Finish, Spent, Mine, TypeOK, Goto, GuardPhase
    <3>3. CASE Crash(f.by)
      BY <2>1, <2>4, <3>1, <3>3 DEF Crash, Spent, Mine, TypeOK, Goto
    <3>4. CASE pc'[f.by] = pc[f.by] /\ turn'[f.by] = turn[f.by]
      BY <2>1, <2>4, <3>1, <3>4 DEF Mine
    <3>5. Finish(f.by) \/ Crash(f.by) \/ (pc'[f.by] = pc[f.by] /\ turn'[f.by] = turn[f.by])
      BY <2>4, <3>1 DEF TypeOK, Goto, Next, Work, vars, turnVars,
         Start, TryLock, LookAtLock, Finish, TryGuard, LookAtGuard, BreakGuard,
         Recheck, UnlinkLock, LeaveGuard, GiveUp, UnlinkFails, Crash, AgeLock, AgeGuard
    <3> QED
      BY <3>2, <3>3, <3>4, <3>5
  <2> QED
    BY <2>2, <2>3, <2>4 DEF Inv, LockIsAccountedFor
<1>4. StaleIsSpent'
  <2> SUFFICES ASSUME lock' # NoFile, lockStale' PROVE Spent(lock)'
    BY DEF StaleIsSpent
  <2>1. PICK f \in FileId : f = lock'
    BY <1>0 DEF TypeOK
  <2>2. lock' = lock /\ (lockStale \/ AgeLock)
    BY DEF TypeOK, Next, Work, vars, turnVars, Start, TryLock, LookAtLock,
       Finish, TryGuard, LookAtGuard, BreakGuard, Recheck, UnlinkLock,
       LeaveGuard, GiveUp, UnlinkFails, Crash, AgeLock, AgeGuard
  <2>3. Spent(lock)
    <3>1. CASE lockStale
      BY <2>2, <3>1 DEF Inv, StaleIsSpent
    <3>2. CASE AgeLock
      BY <3>2 DEF AgeLock, Inv, LockIsAccountedFor, HolderAlive, Mine
    <3> QED
      BY <2>2, <3>1, <3>2
  <2>4. Spent(f)'
    BY <2>1, <2>2, <2>3, SpentIsStable
  <2> QED
    BY <2>1, <2>4 DEF Spent
<1>5. RemovesItsTarget' /\ HolderOwnsLock'
  <2> USE DEF Inv, RemovesItsTarget, HolderOwnsLock, TypeOK, Goto, turnVars
  <2>1. ASSUME NEW p \in Proc, Start(p) PROVE RemovesItsTarget' /\ HolderOwnsLock'
    BY <2>1 DEF Start, Mine
  <2>2. ASSUME NEW p \in Proc, TryLock(p) PROVE RemovesItsTarget' /\ HolderOwnsLock'
    <3>1. CASE lock = NoFile
      <4>1. \A q \in Proc : pc[q] # "hold" /\ pc[q] # "unlink"
        BY <3>1 DEF Mine, FileId
      <4> QED
        BY <2>2, <3>1, <4>1 DEF TryLock, Mine
    <3>2. CASE lock # NoFile
      BY <2>2, <3>2 DEF TryLock, Mine
    <3> QED
      BY <3>1, <3>2
  <2>3. ASSUME NEW p \in Proc, LookAtLock(p) PROVE RemovesItsTarget' /\ HolderOwnsLock'
    BY <2>3 DEF LookAtLock, Mine
  <2>4. ASSUME NEW p \in Proc, Finish(p) PROVE RemovesItsTarget' /\ HolderOwnsLock'
    BY <2>4 DEF Finish, Mine
  <2>5. ASSUME NEW p \in Proc, TryGuard(p) PROVE RemovesItsTarget' /\ HolderOwnsLock'
    BY <2>5 DEF TryGuard, Mine
  <2>6. ASSUME NEW p \in Proc, LookAtGuard(p) PROVE RemovesItsTarget' /\ HolderOwnsLock'
    BY <2>6 DEF LookAtGuard, Mine
  <2>7. ASSUME NEW p \in Proc, BreakGuard(p) PROVE RemovesItsTarget' /\ HolderOwnsLock'
    BY <2>7 DEF BreakGuard, Mine
  <2>8. ASSUME NEW p \in Proc, Recheck(p) PROVE RemovesItsTarget' /\ HolderOwnsLock'
    BY <2>8 DEF Recheck, Mine
  <2>9. ASSUME NEW p \in Proc, UnlinkLock(p) PROVE RemovesItsTarget' /\ HolderOwnsLock'
    <3>1. lock # NoFile /\ lock = target[p] /\ Spent(lock)
      BY <2>9 DEF UnlinkLock, TargetIsSpent
    <3>2. \A q \in Proc : pc[q] # "hold"
      BY <3>1 DEF Spent, Mine, GuardPhase, InGuard
    <3>3. \A q \in Proc : q # p => pc[q] # "unlink"
      BY <2>9 DEF UnlinkLock, GuardIsExclusive, InGuard
    <3> QED
      BY <2>9, <3>2, <3>3 DEF UnlinkLock
  <2>10. ASSUME NEW p \in Proc, LeaveGuard(p) PROVE RemovesItsTarget' /\ HolderOwnsLock'
    BY <2>10 DEF LeaveGuard, Mine
  <2>11. ASSUME NEW p \in Proc, GiveUp(p) \/ UnlinkFails(p) PROVE RemovesItsTarget' /\ HolderOwnsLock'
    BY <2>11 DEF GiveUp, UnlinkFails, Mine
  <2>12. ASSUME NEW p \in Proc, Crash(p) PROVE RemovesItsTarget' /\ HolderOwnsLock'
    BY <2>12 DEF Crash, Mine
  <2>13. CASE AgeLock \/ AgeGuard \/ UNCHANGED vars
    BY <2>13 DEF AgeLock, AgeGuard, vars, Mine
  <2> QED
    BY <2>1, <2>2, <2>3, <2>4, <2>5, <2>6, <2>7, <2>8, <2>9, <2>10, <2>11,
       <2>12, <2>13 DEF Next, Work
<1> QED
  BY <1>1, <1>2, <1>3, <1>4, <1>5 DEF Inv

(* The inductive invariant holds in every reachable state. *)
THEOREM InvHolds ==
  ASSUME ~GuardLeft, ~Overrun
  PROVE  Spec => []Inv
<1>1. Init => Inv
  BY DEF Init, Inv, HolderOwnsLock, GuardIsExclusive, RemovesItsTarget,
     TargetIsSpent, StaleIsSpent, LockIsAccountedFor, InGuard
<1>2. TypeOK /\ Inv /\ [Next]_vars => Inv'
  BY InvStep
<1> QED
  BY <1>1, <1>2, TypeCorrect, PTL DEF Spec

(* withLock's contract (auth/types.ts): fn does not start while another     *)
(* holder of the lease runs, for any number of processes, crashes and       *)
(* broken locks.                                                            *)
THEOREM LeaseIsExclusive ==
  ASSUME ~GuardLeft, ~Overrun
  PROVE  Spec => []MutualExclusion
<1>1. TypeOK /\ Inv => MutualExclusion
  BY DEF Inv, HolderOwnsLock, MutualExclusion, Mine, TypeOK
<1> QED
  BY <1>1, InvHolds, TypeCorrect, PTL

-----------------------------------------------------------------------------
(* Removals, also while a holder overruns: a turn that creates its lock     *)
(* file creates no second one, so the file a turn has judged stale is not   *)
(* replaced by one that looks the same.                                     *)
Created(f) == Spent(f) \/ (f.turn = turn[f.by] /\ pc[f.by] = "hold")

LEMMA CreatedIsStable ==
  ASSUME TypeOK, [Next]_vars, NEW f \in FileId, Created(f)
  PROVE  Created(f)'
<1>1. f.by \in Proc /\ f.turn \in Nat
  BY DEF FileId
<1>2. CASE Spent(f)
  BY <1>2, SpentIsStable DEF Created
<1>3. CASE f.turn = turn[f.by] /\ pc[f.by] = "hold"
  <2>1. CASE Finish(f.by)
    BY <1>1, <1>3, <2>1 DEF Created, Finish, Spent, TypeOK, Goto, GuardPhase
  <2>2. CASE Crash(f.by)
    BY <1>1, <1>3, <2>2 DEF Created, Crash, Spent, TypeOK, Goto
  <2>3. CASE pc'[f.by] = pc[f.by] /\ turn'[f.by] = turn[f.by]
    BY <1>1, <1>3, <2>3 DEF Created
  <2>4. Finish(f.by) \/ Crash(f.by) \/ (pc'[f.by] = pc[f.by] /\ turn'[f.by] = turn[f.by])
    BY <1>1, <1>3 DEF TypeOK, Goto, Next, Work, vars, turnVars,
       Start, TryLock, LookAtLock, Finish, TryGuard, LookAtGuard, BreakGuard,
       Recheck, UnlinkLock, LeaveGuard, GiveUp, UnlinkFails, Crash, AgeLock, AgeGuard
  <2> QED BY <2>1, <2>2, <2>3, <2>4
<1> QED BY <1>2, <1>3 DEF Created

FilesAreCreated ==
  /\ lock # NoFile => Created(lock)
  /\ \A p \in Proc : target[p] # NoFile => Created(target[p])

(* What a turn is about to remove is its own file or one that is stale.     *)
MayRemove(p) ==
  pc[p] \in GuardPhase \ {"leave"} =>
    /\ target[p] # NoFile
    /\ \/ after[p] = "idle" /\ target[p] = Mine(p)
       \/ lock = target[p] => lockStale

RemovalInv ==
  /\ GuardIsExclusive /\ RemovesItsTarget /\ FilesAreCreated
  /\ \A p \in Proc : MayRemove(p)

LEMMA FilesAreCreatedStep ==
  ASSUME TypeOK, FilesAreCreated, [Next]_vars
  PROVE  FilesAreCreated'
<1>0. TypeOK'
  BY TypeStep
<1>1. ASSUME lock' # NoFile PROVE Created(lock)'
  <2>1. PICK f \in FileId : f = lock'
    BY <1>0, <1>1 DEF TypeOK
  <2>2. CASE lock' = lock
    <3>1. Created(f)'
      BY <1>1, <2>1, <2>2, CreatedIsStable DEF FilesAreCreated
    <3> QED BY <2>1, <3>1 DEF Created, Spent
  <2>3. CASE lock' # lock
    <3>1. PICK p \in Proc : TryLock(p) /\ lock' = Mine(p)
      BY <1>1, <2>3 DEF Next, Work, vars, turnVars, Start, TryLock, LookAtLock, Finish,
         TryGuard, LookAtGuard, BreakGuard, Recheck, UnlinkLock, LeaveGuard,
         GiveUp, UnlinkFails, Crash, AgeLock, AgeGuard
    <3>2. pc'[p] = "hold" /\ turn' = turn
      BY <2>3, <3>1 DEF TryLock, TypeOK, Goto, turnVars
    <3> QED BY <3>1, <3>2 DEF Mine, Created
  <2> QED BY <2>2, <2>3
<1>2. ASSUME NEW p \in Proc, target'[p] # NoFile PROVE Created(target[p])'
  <2>1. PICK f \in FileId : f = target'[p]
    BY <1>0, <1>2 DEF TypeOK
  <2>2. CASE target'[p] = target[p]
    <3>1. Created(f)'
      BY <1>2, <2>1, <2>2, CreatedIsStable DEF FilesAreCreated
    <3> QED BY <2>1, <3>1 DEF Created, Spent
  <2>3. CASE target'[p] # target[p] /\ LookAtLock(p)
    <3>1. f = lock /\ lock # NoFile
      BY <1>2, <2>1, <2>3 DEF LookAtLock, TypeOK
    <3>2. Created(f)'
      BY <3>1, CreatedIsStable DEF FilesAreCreated
    <3> QED BY <2>1, <3>2 DEF Created, Spent
  <2>4. CASE target'[p] # target[p] /\ Finish(p)
    BY <2>4 DEF Finish, Created, Spent, Mine, TypeOK, Goto, GuardPhase
  <2> QED
    BY <1>2, <2>2, <2>3, <2>4 DEF TypeOK, Next, Work, vars, turnVars, Start, TryLock,
       LookAtLock, Finish, TryGuard, LookAtGuard, BreakGuard, Recheck,
       UnlinkLock, LeaveGuard, GiveUp, UnlinkFails, Crash, AgeLock, AgeGuard
<1> QED BY <1>1, <1>2 DEF FilesAreCreated

LEMMA RemovalInvStep ==
  ASSUME ~GuardLeft, TypeOK, RemovalInv, [Next]_vars
  PROVE  RemovalInv'
<1>1. GuardIsExclusive' /\ FilesAreCreated'
  BY GuardStep, FilesAreCreatedStep DEF RemovalInv
<1> DEFINE Rest == RemovesItsTarget /\ \A p \in Proc : MayRemove(p)
<1>2. Rest'
  <2> USE DEF RemovalInv, RemovesItsTarget, MayRemove, TypeOK, Goto, turnVars, Mine, GuardPhase, InGuard
  <2>1. ASSUME NEW p \in Proc, Start(p) PROVE Rest'
    BY <2>1 DEF Start
  <2>2. ASSUME NEW p \in Proc, TryLock(p) PROVE Rest'
    <3>1. CASE lock = NoFile
      <4>1. \A q \in Proc : pc[q] # "unlink"
        BY <3>1
      <4>2. \A q \in Proc : target[q] # NoFile => target[q] # Mine(p)
        BY <2>2 DEF FilesAreCreated, Created, Spent, TryLock, FileId
      <4>3. lock' = Mine(p) /\ pc' = [pc EXCEPT ![p] = "hold"] /\ UNCHANGED turnVars
        BY <2>2, <3>1 DEF TryLock
      <4> QED BY <4>1, <4>2, <4>3
    <3>2. CASE lock # NoFile
      BY <2>2, <3>2 DEF TryLock
    <3> QED BY <3>1, <3>2
  <2>3. ASSUME NEW p \in Proc, LookAtLock(p) PROVE Rest'
    BY <2>3 DEF LookAtLock
  <2>4. ASSUME NEW p \in Proc, Finish(p) PROVE Rest'
    <3>1. /\ target'[p] = Mine(p) /\ after'[p] = "idle" /\ pc'[p] = "guard"
          /\ UNCHANGED <<lock, lockStale, turn>>
          /\ \A q \in Proc : q # p => /\ pc'[q] = pc[q] /\ target'[q] = target[q]
                                      /\ after'[q] = after[q]
      BY <2>4 DEF Finish
    <3>2. Mine(p) # NoFile
      BY <2>4 DEF FileId, Finish
    <3> QED BY <3>1, <3>2
  <2>5. ASSUME NEW p \in Proc, TryGuard(p) PROVE Rest'
    BY <2>5 DEF TryGuard
  <2>6. ASSUME NEW p \in Proc, LookAtGuard(p) PROVE Rest'
    BY <2>6 DEF LookAtGuard
  <2>7. ASSUME NEW p \in Proc, BreakGuard(p) PROVE Rest'
    BY <2>7 DEF BreakGuard
  <2>8. ASSUME NEW p \in Proc, Recheck(p) PROVE Rest'
    BY <2>8 DEF Recheck
  <2>9. ASSUME NEW p \in Proc, UnlinkLock(p) PROVE Rest'
    <3>1. \A q \in Proc : q # p => pc[q] # "unlink"
      BY <2>9 DEF UnlinkLock, GuardIsExclusive
    <3> QED BY <2>9, <3>1 DEF UnlinkLock
  <2>10. ASSUME NEW p \in Proc, LeaveGuard(p) PROVE Rest'
    BY <2>10 DEF LeaveGuard
  <2>11. ASSUME NEW p \in Proc, GiveUp(p) \/ UnlinkFails(p) PROVE Rest'
    BY <2>11 DEF GiveUp, UnlinkFails
  <2>12. ASSUME NEW p \in Proc, Crash(p) PROVE Rest'
    BY <2>12 DEF Crash
  <2>13. CASE AgeLock \/ AgeGuard \/ UNCHANGED vars
    BY <2>13 DEF AgeLock, AgeGuard, vars
  <2> QED
    BY <2>1, <2>2, <2>3, <2>4, <2>5, <2>6, <2>7, <2>8, <2>9, <2>10, <2>11,
       <2>12, <2>13 DEF Next, Work
<1> QED
  BY <1>1, <1>2 DEF RemovalInv

(* Breaking a stale lock, and the release of a holder that overran, never   *)
(* take the lock file of the next holder, whatever the holders' speed: the  *)
(* guard, and the second read under it, suffice (breakStaleLock and         *)
(* releaseLockFile in FileTokenStorage.ts).                                 *)
THEOREM RemovalsAreJustified ==
  ASSUME ~GuardLeft
  PROVE  Spec => RemovalIsJustified
<1>1. Init => RemovalInv
  BY DEF Init, RemovalInv, GuardIsExclusive, RemovesItsTarget, FilesAreCreated, MayRemove,
     GuardPhase, InGuard
<1>2. TypeOK /\ RemovalInv /\ [Next]_vars => RemovalInv'
  BY RemovalInvStep
<1>3. TypeOK /\ RemovalInv /\ [Next]_vars =>
        [lock # NoFile /\ lock' # lock
           => lockStale \/ (pc[lock.by] = "unlink" /\ Mine(lock.by) = lock)]_vars
  <2> SUFFICES ASSUME TypeOK, RemovalInv, [Next]_vars, lock # NoFile, lock' # lock
               PROVE  lockStale \/ (pc[lock.by] = "unlink" /\ Mine(lock.by) = lock)
    OBVIOUS
  <2>1. PICK p \in Proc : pc[p] = "unlink"
    BY DEF Next, Work, vars, turnVars, Start, TryLock, LookAtLock, Finish,
       TryGuard, LookAtGuard, BreakGuard, Recheck, UnlinkLock, LeaveGuard,
       GiveUp, UnlinkFails, Crash, AgeLock, AgeGuard
  <2>2. lock = target[p] /\ MayRemove(p)
    BY <2>1 DEF RemovalInv, RemovesItsTarget
  <2> QED BY <2>1, <2>2 DEF MayRemove, GuardPhase, InGuard, Mine
<1> QED
  BY <1>1, <1>2, <1>3, TypeCorrect, PTL DEF Spec, RemovalIsJustified

-----------------------------------------------------------------------------
(* The token file under the lock. *)

(* Every step of the composition is a step of the lock or leaves it alone. *)
LEMMA LockSpecHolds == FileSpec => Spec
<1>1. FileInit => Init
  BY DEF FileInit
<1>2. [FileNext]_allVars => [Next]_vars
  BY DEF FileNext, LockStep, Persist, ReadFile, allVars
<1> QED
  BY <1>1, <1>2, PTL DEF FileSpec, Spec

FileInv ==
  /\ file \in Tokens
  /\ copy \in [Proc -> Tokens]
  /\ job \in [Proc -> Job \cup {NoJob}]
  /\ HeldWhileBusy
  /\ CopyIsCurrent

(* Only the holder of the lock has a copy it will write, so no write falls  *)
(* between its read and its own write.                                      *)
LEMMA FileInvStep ==
  ASSUME FileInv, MutualExclusion, [FileNext]_allVars
  PROVE  FileInv'
<1> USE DEF FileInv, HeldWhileBusy, CopyIsCurrent, Tokens, Record, Job, NoJob
<1>1. CASE LockStep
  BY <1>1 DEF LockStep
<1>2. ASSUME NEW p \in Proc, NEW c \in Character, NEW t \in Record, ReadFile(p, c, t)
      PROVE  FileInv'
  BY <1>2 DEF ReadFile, vars
<1>3. ASSUME NEW p \in Proc, Persist(p) PROVE FileInv'
  <2>1. job[p] \in Job /\ pc[p] = "hold" /\ pc' = pc
    BY <1>3 DEF Persist, vars
  <2>2. \A q \in Proc : q # p => job[q].at = "none"
    BY <1>3, <2>1 DEF MutualExclusion
  <2>3. file' \in Tokens /\ copy' \in [Proc -> Tokens]
    BY <1>3, <2>1 DEF Persist
  <2>4. job' \in [Proc -> Job \cup {NoJob}]
    BY <1>3, <2>1 DEF Persist
  <2>5. job'[p].at = "done" /\ \A q \in Proc : q # p => job'[q] = job[q]
    BY <1>3, <2>1 DEF Persist
  <2> QED
    BY <2>1, <2>2, <2>3, <2>4, <2>5
<1>4. CASE UNCHANGED allVars
  BY <1>4 DEF allVars, vars, fileVars
<1> QED
  BY <1>1, <1>2, <1>3, <1>4 DEF FileNext

(* Type correctness, and a holder's copy is current until it writes. *)
LEMMA FileInvHolds ==
  ASSUME ~GuardLeft, ~Overrun
  PROVE  FileSpec => []FileInv
<1>1. FileInit => FileInv
  BY DEF FileInit, FileInv, HeldWhileBusy, CopyIsCurrent, Tokens, Record, NoJob
<1>2. FileInv /\ MutualExclusion /\ [FileNext]_allVars => FileInv'
  BY FileInvStep
<1>3. FileSpec => []MutualExclusion
  BY LockSpecHolds, LeaseIsExclusive, PTL
<1> QED
  BY <1>1, <1>2, <1>3, PTL DEF FileSpec

(* Nobody writes the file between a holder's read and its write.            *)
THEOREM CopyStaysCurrent ==
  ASSUME ~GuardLeft, ~Overrun
  PROVE  FileSpec => []CopyIsCurrent
BY FileInvHolds, PTL DEF FileInv

(* Every variable of the lock and of the file keeps its type. *)
THEOREM FileTypeCorrect ==
  ASSUME ~GuardLeft, ~Overrun
  PROVE  FileSpec => []FileTypeOK
<1>1. TypeOK /\ FileInv => FileTypeOK
  BY DEF FileInv, FileTypeOK
<1> QED BY <1>1, LockSpecHolds, TypeCorrect, FileInvHolds, PTL

(* ITokenStorage's contract: set and delete change one record and keep the  *)
(* others, however many processes write at once.                            *)
THEOREM FileImplementsTokenStore ==
  ASSUME ~GuardLeft, ~Overrun
  PROVE  FileSpec => ImplementsTokenStore
<1>1. FileInit => Store!Init
  BY DEF FileInit, Store!Init
<1>2. FileInv /\ [FileNext]_allVars => [Store!Next]_file
  <2> SUFFICES ASSUME FileInv, [FileNext]_allVars, file' # file
               PROVE  Store!Next
    OBVIOUS
  <2>1. PICK p \in Proc : Persist(p)
    BY DEF FileNext, LockStep, ReadFile, allVars, fileVars
  <2>2. job[p] \in Job /\ copy[p] = file
    BY <2>1 DEF Persist, FileInv, CopyIsCurrent, NoJob
  <2>3. file' = [file EXCEPT ![job[p].char] = job[p].token]
    BY <2>1, <2>2 DEF Persist
  <2> QED
    BY <2>2, <2>3 DEF Store!Next, Store!Put, Job, Record
<1> QED
  BY <1>1, <1>2, FileInvHolds, PTL DEF FileSpec, ImplementsTokenStore, Store!Spec
=============================================================================
