------------------------------ MODULE LockFile ------------------------------
(***************************************************************************)
(* The advisory lock file of FileTokenStorage (the `lock` option): several *)
(* processes on one machine take turns at one lock file.  A lock is        *)
(* created by hard-linking a complete body into place; every removal of it *)
(* (a release, or breaking one whose holder is taken to have crashed) runs *)
(* under a second file, the guard `<lockFile>.break`.                      *)
(*                                                                         *)
(* One Proc is one process: its callers queue for the lock file, so at     *)
(* most one turn per process is at the file.  One step is one file-system  *)
(* call with the code up to the next one.  A file's age is the flag        *)
(* lockStale/guardStale (the clock reached acquiredAt + staleMs); the      *)
(* deadline of a turn counts the time it was queued, so it may have passed *)
(* at any of its checks (GiveUp).                                          *)
(***************************************************************************)
EXTENDS Naturals

CONSTANTS Proc,        \* processes sharing the token file
          NoFile,      \* the file is absent
          MaxTurn,     \* bound: turns a process may start
          MaxCrash,    \* bound: crashes, all processes together
          Overrun,     \* may a live holder keep the lock past staleMs?
          GuardLeft    \* may a guard stay behind: its process dies, or cannot unlink it?

FileId == [by : Proc, turn : 1 .. MaxTurn]   \* the nonce of a lock body

ASSUME NoFileAssumption == NoFile \notin Proc /\ NoFile \notin FileId
ASSUME BoundAssumption ==
  MaxTurn \in Nat /\ MaxCrash \in Nat /\ Overrun \in BOOLEAN /\ GuardLeft \in BOOLEAN

VARIABLES lock,        \* the lock file: whose it is, or NoFile
          lockStale,   \* it is at least staleMs old
          guard,       \* the guard file: its creator, or NoFile
          guardStale,
          pc,          \* where each process's turn is
          turn,        \* turns started; with the process, the nonce of the turn
          target,      \* the lock body this turn may delete once it has the guard
          after,       \* where the turn goes on once it has removed the guard
          crashes

vars == <<lock, lockStale, guard, guardStale, pc, turn, target, after, crashes>>
turnVars == <<turn, target, after, crashes>>

InGuard == {"inside", "unlink", "leave"}
GuardPhase == {"guard", "guardLook", "guardBreak"} \cup InGuard
Label == {"idle", "try", "look", "hold"} \cup GuardPhase

\* Mutant: the nonce is drawn before the turn is counted.
MineEarly(p) == [by |-> p, turn |-> turn[p] - 1]

Mine(p) == [by |-> p, turn |-> turn[p]]

TypeOK ==
  /\ lock \in FileId \cup {NoFile}
  /\ lockStale \in BOOLEAN
  /\ guard \in Proc \cup {NoFile}
  /\ guardStale \in BOOLEAN
  /\ pc \in [Proc -> Label]
  /\ turn \in [Proc -> 0 .. MaxTurn]
  /\ \A p \in Proc : pc[p] # "idle" => turn[p] # 0   \* a turn has its nonce
  /\ target \in [Proc -> FileId \cup {NoFile}]
  /\ after \in [Proc -> {"try", "idle"}]
  /\ crashes \in 0 .. MaxCrash

Init ==
  /\ lock = NoFile /\ lockStale = FALSE
  /\ guard = NoFile /\ guardStale = FALSE
  /\ pc = [p \in Proc |-> "idle"]
  /\ turn = [p \in Proc |-> 0]
  /\ target = [p \in Proc |-> NoFile]
  /\ after = [p \in Proc |-> "idle"]
  /\ crashes = 0

Goto(p, label) == pc' = [pc EXCEPT ![p] = label]

-----------------------------------------------------------------------------
(* locked(): the next caller of the process's queue gets its turn. *)
Start(p) ==
  /\ pc[p] = "idle"
  /\ turn[p] < MaxTurn
  /\ turn' = [turn EXCEPT ![p] = @ + 1]
  /\ Goto(p, "try")
  /\ UNCHANGED <<lock, lockStale, guard, guardStale, target, after, crashes>>

(* acquireLockFile: createExclusive(lockFile) succeeds only if the path is free. *)
TryLock(p) ==
  /\ pc[p] = "try"
  /\ \/ /\ lock = NoFile
        /\ lock' = Mine(p)
        /\ lockStale' = FALSE
        /\ Goto(p, "hold")
     \/ /\ lock # NoFile
        /\ UNCHANGED <<lock, lockStale>>
        /\ Goto(p, "look")
  /\ UNCHANGED <<guard, guardStale, turnVars>>

\* Mutant: the age of the lock file is not looked at.
LookAtLockAnyAge(p) ==
  /\ pc[p] = "look"
  /\ lock # NoFile
  /\ target' = [target EXCEPT ![p] = lock]
  /\ after' = [after EXCEPT ![p] = "try"]
  /\ Goto(p, "guard")
  /\ UNCHANGED <<lock, lockStale, guard, guardStale, turn, crashes>>

(* breakStaleLock: read the lock file and judge its age. *)
LookAtLock(p) ==
  /\ pc[p] = "look"
  /\ \/ /\ lock = NoFile \/ ~lockStale
        /\ Goto(p, "try")
        /\ UNCHANGED <<target, after>>
     \/ /\ lock # NoFile /\ lockStale
        /\ target' = [target EXCEPT ![p] = lock]
        /\ after' = [after EXCEPT ![p] = "try"]
        /\ Goto(p, "guard")
  /\ UNCHANGED <<lock, lockStale, guard, guardStale, turn, crashes>>

(* fn has settled, resolved or rejected: releaseLockFile. *)
Finish(p) ==
  /\ pc[p] = "hold"
  /\ target' = [target EXCEPT ![p] = Mine(p)]
  /\ after' = [after EXCEPT ![p] = "idle"]
  /\ Goto(p, "guard")
  /\ UNCHANGED <<lock, lockStale, guard, guardStale, turn, crashes>>

(* withGuard: createExclusive(guard). *)
TryGuard(p) ==
  /\ pc[p] = "guard"
  /\ \/ /\ guard = NoFile
        /\ guard' = p
        /\ guardStale' = FALSE
        /\ Goto(p, "inside")
     \/ /\ guard # NoFile
        /\ UNCHANGED <<guard, guardStale>>
        /\ Goto(p, "guardLook")
  /\ UNCHANGED <<lock, lockStale, turnVars>>

\* Mutant: a guard left by a crash is waited for, never removed.
LookAtGuardPatient(p) ==
  /\ pc[p] = "guardLook"
  /\ Goto(p, "guard")
  /\ UNCHANGED <<lock, lockStale, guard, guardStale, turnVars>>

(* withGuard: read the guard; a stale one is about to be removed. *)
LookAtGuard(p) ==
  /\ pc[p] = "guardLook"
  /\ Goto(p, IF guard # NoFile /\ guardStale THEN "guardBreak" ELSE "guard")
  /\ UNCHANGED <<lock, lockStale, guard, guardStale, turnVars>>

(* withGuard: unlink whatever file is at the guard's path by now. *)
BreakGuard(p) ==
  /\ pc[p] = "guardBreak"
  /\ guard' = NoFile
  /\ guardStale' = FALSE
  /\ Goto(p, "guard")
  /\ UNCHANGED <<lock, lockStale, turnVars>>

\* Mutant: the file judged stale is removed without reading it again.
RecheckSkipped(p) ==
  /\ pc[p] = "inside"
  /\ Goto(p, "unlink")
  /\ UNCHANGED <<lock, lockStale, guard, guardStale, turnVars>>

(* Under the guard: read the lock file again and compare it with the one    *)
(* judged stale (byte for byte) or with the own nonce.                      *)
Recheck(p) ==
  /\ pc[p] = "inside"
  /\ Goto(p, IF lock # NoFile /\ lock = target[p] THEN "unlink" ELSE "leave")
  /\ UNCHANGED <<lock, lockStale, guard, guardStale, turnVars>>

(* Under the guard: unlink whatever file is at the lock's path by now. *)
UnlinkLock(p) ==
  /\ pc[p] = "unlink"
  /\ lock' = NoFile
  /\ lockStale' = FALSE
  /\ Goto(p, "leave")
  /\ UNCHANGED <<guard, guardStale, turnVars>>

(* The finally of withGuard: unlink the guard, without comparing it. *)
LeaveGuard(p) ==
  /\ pc[p] = "leave"
  /\ guard' = NoFile
  /\ guardStale' = FALSE
  /\ Goto(p, after[p])
  /\ target' = [target EXCEPT ![p] = NoFile]
  /\ UNCHANGED <<lock, lockStale, turn, after, crashes>>

(* A deadline check fails, or a file operation rejects: the turn ends, and  *)
(* a release (which swallows the error) leaves its lock file to go stale.   *)
(* Under the guard only the read can reject, and the finally still runs.    *)
GiveUp(p) ==
  /\ \/ /\ pc[p] \in {"try", "look", "guard", "guardLook"}
        /\ Goto(p, "idle")
        /\ target' = [target EXCEPT ![p] = NoFile]
        /\ UNCHANGED after
     \/ /\ pc[p] = "inside"
        /\ Goto(p, "leave")
        /\ after' = [after EXCEPT ![p] = "idle"]
        /\ UNCHANGED target
  /\ UNCHANGED <<lock, lockStale, guard, guardStale, turn, crashes>>

(* fs.unlink rejects, which every caller swallows: the file stays, and the  *)
(* code goes on as if it were gone.                                         *)
UnlinkFails(p) ==
  /\ \/ /\ pc[p] = "unlink"
        /\ Goto(p, "leave")
        /\ UNCHANGED target
     \/ /\ pc[p] = "guardBreak"
        /\ Goto(p, "guard")
        /\ UNCHANGED target
     \/ /\ pc[p] = "leave"
        /\ GuardLeft
        /\ Goto(p, after[p])
        /\ target' = [target EXCEPT ![p] = NoFile]
  /\ UNCHANGED <<lock, lockStale, guard, guardStale, turn, after, crashes>>

-----------------------------------------------------------------------------
(* The environment: crashes, and files growing old. *)

(* The process dies; its files stay.  It may be started again. *)
Crash(p) ==
  /\ crashes < MaxCrash
  /\ pc[p] # "idle"
  /\ pc[p] \in InGuard => GuardLeft
  /\ crashes' = crashes + 1
  /\ Goto(p, "idle")
  /\ target' = [target EXCEPT ![p] = NoFile]
  /\ UNCHANGED <<lock, lockStale, guard, guardStale, turn, after>>

(* The turn whose lock file f is has not been abandoned: fn runs, or the    *)
(* release is under way.                                                    *)
HolderAlive(f) ==
  /\ turn[f.by] = f.turn
  /\ \/ pc[f.by] = "hold"
     \/ target[f.by] = f

AgeLock ==
  /\ lock # NoFile /\ ~lockStale
  /\ Overrun \/ ~HolderAlive(lock)
  /\ lockStale' = TRUE
  /\ UNCHANGED <<lock, guard, guardStale, pc, turnVars>>

(* The guard is held for two file operations: only one left behind ages. *)
AgeGuard ==
  /\ guard # NoFile /\ ~guardStale
  /\ pc[guard] \notin InGuard
  /\ guardStale' = TRUE
  /\ UNCHANGED <<lock, lockStale, guard, pc, turnVars>>

-----------------------------------------------------------------------------
(* The steps a turn takes by itself, without a timeout or an error. *)
Work(p) ==
  \/ TryLock(p) \/ LookAtLock(p) \/ Finish(p)
  \/ TryGuard(p) \/ LookAtGuard(p) \/ BreakGuard(p)
  \/ Recheck(p) \/ UnlinkLock(p) \/ LeaveGuard(p)

Next ==
  \/ \E p \in Proc : Start(p) \/ Work(p) \/ GiveUp(p) \/ UnlinkFails(p) \/ Crash(p)
  \/ AgeLock
  \/ AgeGuard

Spec == Init /\ [][Next]_vars

(* Nonces never run out.  The bound's numbers do, so for liveness a process *)
(* begins to count again once no file and no turn bears one of its numbers: *)
(* else MaxTurn would stop the competition that a waiter has to survive.    *)
Renumber(p) ==
  /\ pc[p] = "idle"
  /\ turn[p] > 0
  /\ \A f \in {lock} \cup {target[q] : q \in Proc} : f # NoFile => f.by # p
  /\ turn' = [turn EXCEPT ![p] = 0]
  /\ UNCHANGED <<lock, lockStale, guard, guardStale, pc, target, after, crashes>>

EndlessNext == Next \/ \E p \in Proc : Renumber(p)

(* A live process goes on, fn settles, and time passes; nobody has to time  *)
(* out, crash or come back.                                                 *)
Fairness == (\A p \in Proc : WF_vars(Work(p))) /\ WF_vars(AgeLock) /\ WF_vars(AgeGuard)

FairSpec == Init /\ [][EndlessNext]_vars /\ Fairness

-----------------------------------------------------------------------------
(* withLock's contract (auth/types.ts): fn does not start until no other    *)
(* holder of the lease is running.                                          *)
MutualExclusion ==
  \A p, q \in Proc : pc[p] = "hold" /\ pc[q] = "hold" => p = q

(* A lock file disappears only because its own turn releases it or because  *)
(* it had gone stale: a break that was decided on one lock file never takes *)
(* the next holder's, and an overrunning holder's release never does.       *)
RemovalIsJustified ==
  [][ lock # NoFile /\ lock' # lock
        => lockStale \/ (pc[lock.by] = "unlink" /\ Mine(lock.by) = lock) ]_vars

(* No file left behind wedges the lock: while any turn waits or releases,   *)
(* some process gets to run fn again and again, without a timeout, unless   *)
(* file operations keep failing.  Which one is not promised: the lock is    *)
(* polled without a queue, and an unlucky turn may wait for its deadline.   *)
NeverWedged ==
  \/ []<><<\E q \in Proc : GiveUp(q) \/ UnlinkFails(q)>>_vars
  \/ \A p \in Proc : pc[p] # "idle" ~> pc[p] = "idle" \/ \E q \in Proc : pc[q] = "hold"

-----------------------------------------------------------------------------
(* The inductive invariant behind MutualExclusion, when holders finish      *)
(* within staleMs and no guard is left behind.                              *)

(* Whoever runs fn owns the lock file. *)
HolderOwnsLock == \A p \in Proc : pc[p] = "hold" => lock = Mine(p)

(* Removers are one at a time: the guard names the one process inside it,   *)
(* and no process is about to remove a guard it judged stale.               *)
GuardIsExclusive ==
  /\ \A p \in Proc : pc[p] \in InGuard => guard = p
  /\ guard # NoFile => pc[guard] \in InGuard
  /\ ~guardStale
  /\ \A p \in Proc : pc[p] # "guardBreak"

(* A remover that has just read the lock file deletes that same file. *)
RemovesItsTarget ==
  \A p \in Proc : pc[p] = "unlink" => lock # NoFile /\ lock = target[p]

(* Turn f has run fn already, or ended without: it will not run fn again. *)
Spent(f) ==
  \/ f.turn < turn[f.by]
  \/ /\ f.turn = turn[f.by]
     /\ \/ pc[f.by] = "idle"
        \/ pc[f.by] \in GuardPhase /\ after[f.by] = "idle"

(* What a turn may delete, and what is stale, is never a running holder's;  *)
(* the lock file that is there is a running holder's or a spent turn's.     *)
TargetIsSpent == \A p \in Proc : target[p] # NoFile => Spent(target[p])
StaleIsSpent == lock # NoFile /\ lockStale => Spent(lock)
LockIsAccountedFor ==
  lock # NoFile => Spent(lock) \/ (pc[lock.by] = "hold" /\ lock = Mine(lock.by))

Inv ==
  /\ HolderOwnsLock /\ GuardIsExclusive /\ RemovesItsTarget
  /\ TargetIsSpent /\ StaleIsSpent /\ LockIsAccountedFor
=============================================================================
