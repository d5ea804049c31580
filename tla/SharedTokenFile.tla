--------------------------- MODULE SharedTokenFile ---------------------------
(***************************************************************************)
(* set() and delete() of FileTokenStorage with the `lock` option: under    *)
(* the store's lock file (LockFile) the whole token file is read, one      *)
(* record is changed, and the whole file is written back (a temporary file *)
(* renamed over it, so the write is one step and a crash leaves the old    *)
(* file).  The file implements TokenStore: no write loses a record that    *)
(* another process wrote.                                                  *)
(***************************************************************************)
EXTENDS LockFile

CONSTANTS Character, Token, NoToken

VARIABLES file,    \* the token file: the record of each character, or NoToken
          copy,    \* what each process read in the turn at hand
          job      \* the change it makes, and how far it is

fileVars == <<file, copy, job>>
allVars == <<vars, fileVars>>

Record == Token \cup {NoToken}
Tokens == [Character -> Record]
NoJob == [at |-> "none"]
Job == [at : {"read", "done"}, char : Character, token : Record]

FileTypeOK ==
  /\ TypeOK
  /\ file \in Tokens
  /\ copy \in [Proc -> Tokens]
  /\ job \in [Proc -> Job \cup {NoJob}]

FileInit ==
  /\ Init
  /\ file = [c \in Character |-> NoToken]
  /\ copy = [p \in Proc |-> file]
  /\ job = [p \in Proc |-> NoJob]

\* Mutant: the change is applied to the copy of an earlier turn.
ReadFileCached(p, c, t) ==
  /\ pc[p] = "hold"
  /\ job[p].at = "none"
  /\ job' = [job EXCEPT ![p] = [at |-> "read", char |-> c, token |-> t]]
  /\ UNCHANGED <<vars, file, copy>>

(* fn starts: readFile, under the lock. *)
ReadFile(p, c, t) ==
  /\ pc[p] = "hold"
  /\ job[p].at = "none"
  /\ copy' = [copy EXCEPT ![p] = file]
  /\ job' = [job EXCEPT ![p] = [at |-> "read", char |-> c, token |-> t]]
  /\ UNCHANGED <<vars, file>>

(* persist: the changed copy replaces the file.  Deleting a record that is  *)
(* not there writes nothing.                                                *)
Persist(p) ==
  /\ pc[p] = "hold"
  /\ job[p].at = "read"
  /\ LET c == job[p].char  t == job[p].token IN
       /\ copy' = [copy EXCEPT ![p][c] = t]
       /\ file' = IF t = NoToken /\ copy[p][c] = NoToken THEN file
                  ELSE [copy[p] EXCEPT ![c] = t]
  /\ job' = [job EXCEPT ![p].at = "done"]
  /\ UNCHANGED vars

(* A step of the lock.  fn settles once it has written, or earlier when a   *)
(* file operation rejects; leaving fn, or crashing, drops the change.       *)
LockStep ==
  /\ Next
  /\ job' = [p \in Proc |-> IF pc'[p] = "hold" THEN job[p] ELSE NoJob]
  /\ UNCHANGED <<file, copy>>

FileNext ==
  \/ LockStep
  \/ \E p \in Proc : Persist(p) \/ \E c \in Character, t \in Record : ReadFile(p, c, t)

FileSpec == FileInit /\ [][FileNext]_allVars

-----------------------------------------------------------------------------
(* A change is under way only while its process holds the lock. *)
HeldWhileBusy == \A p \in Proc : job[p].at # "none" => pc[p] = "hold"

(* Between a holder's read and its write nobody else writes: the copy it    *)
(* changes is the file.                                                     *)
CopyIsCurrent == \A p \in Proc : job[p].at = "read" => copy[p] = file

(* The token file is a TokenStore: whatever the processes interleave, each  *)
(* write of the file changes one character's record and keeps the others.   *)
Store == INSTANCE TokenStore WITH tokens <- file
ImplementsTokenStore == Store!Spec
=============================================================================
