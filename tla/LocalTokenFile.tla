--------------------------- MODULE LocalTokenFile ---------------------------
(***************************************************************************)
(* FileTokenStorage without the `lock` option: one process, one token      *)
(* file.  The file is read once into a map that all calls share and        *)
(* change; each change writes the whole map, one write after the other.    *)
(* invalidate() forgets the map, and may come at any time.                 *)
(*                                                                         *)
(* A read is named by the call that began it, and so is the map it makes.  *)
(* A call holds on to the map it was given, forgotten or not.              *)
(***************************************************************************)
EXTENDS Naturals, Sequences, SequencesExt

CONSTANTS Call,            \* calls of get, set and delete, each made once
          Character, Token, NoToken,
          MaxInvalidate,   \* bound: calls of invalidate()
          None

ASSUME NoneAssumption == None \notin Call /\ NoToken \notin Token
ASSUME BoundAssumption == MaxInvalidate \in Nat

VARIABLES
  file,        \* the records in the file
  map,         \* the map each read made
  cache,       \* the read whose map is the cache, or None
  loading,     \* the read under way that calls join, or None
  generation,  \* loadGeneration
  pc,          \* where each call is
  job,         \* what it does: [char, token], or a get
  from,        \* the read it waits for, or whose map it uses
  reading,     \* each read: "no", "begun", "read" (the file's content is in) or "done"
  began,       \* the generation each read began in
  chain,       \* writeChain: the snapshots to write
  asked,       \* the generation each call began in
  seen,        \* the generation in which each read read the file
  kept         \* the record that the last write of each character that resolved stored

reads == <<map, reading, began, seen>>
vars == <<file, cache, loading, generation, pc, job, from, chain, asked, kept, reads>>

Record == Token \cup {NoToken}
Tokens == [Character -> Record]
Get == [char |-> None, token |-> NoToken]
Jobs == [char : Character, token : Record] \cup {Get}
Empty == [c \in Character |-> NoToken]

TypeOK ==
  /\ file \in Tokens /\ kept \in Tokens
  /\ map \in [Call -> Tokens]
  /\ cache \in Call \cup {None} /\ loading \in Call \cup {None}
  /\ generation \in 0 .. MaxInvalidate
  /\ pc \in [Call -> {"new", "loading", "writing", "resolved", "rejected"}]
  /\ job \in [Call -> Jobs]
  /\ from \in [Call -> Call \cup {None}]
  /\ reading \in [Call -> {"no", "begun", "read", "done"}]
  /\ began \in [Call -> 0 .. MaxInvalidate]
  /\ asked \in [Call -> 0 .. MaxInvalidate]
  /\ seen \in [Call -> 0 .. MaxInvalidate]
  /\ chain \in Seq([call : Call, tokens : Tokens])

Init ==
  /\ file \in Tokens /\ kept = file
  /\ map = [c \in Call |-> Empty]
  /\ cache = None /\ loading = None /\ generation = 0
  /\ pc = [c \in Call |-> "new"]
  /\ job = [c \in Call |-> Get]
  /\ from = [c \in Call |-> None]
  /\ reading = [c \in Call |-> "no"]
  /\ began = [c \in Call |-> 0]
  /\ chain = <<>>
  /\ asked = [c \in Call |-> 0]
  /\ seen = [c \in Call |-> 0]

-----------------------------------------------------------------------------
(* get, set and delete up to their first await, which is load(): the map    *)
(* that is there, the read that is under way, or a read of its own.         *)
Load(c) ==
  \/ /\ cache # None
     /\ from' = [from EXCEPT ![c] = cache]
     /\ UNCHANGED <<loading, reading, began>>
  \/ /\ cache = None /\ loading # None
     /\ from' = [from EXCEPT ![c] = loading]
     /\ UNCHANGED <<loading, reading, began>>
  \/ /\ cache = None /\ loading = None
     /\ from' = [from EXCEPT ![c] = c]
     /\ loading' = c
     /\ reading' = [reading EXCEPT ![c] = "begun"]
     /\ began' = [began EXCEPT ![c] = generation]

Begin(c) ==
  /\ pc[c] = "new"
  /\ pc' = [pc EXCEPT ![c] = "loading"]
  /\ \E j \in Jobs : job' = [job EXCEPT ![c] = j]
  /\ asked' = [asked EXCEPT ![c] = generation]
  /\ Load(c)
  /\ UNCHANGED <<file, cache, generation, chain, kept, map, seen>>

(* readFile has the file's content; what the code does with it comes later. *)
ReadFile(r) ==
  /\ reading[r] = "begun"
  /\ reading' = [reading EXCEPT ![r] = "read"]
  /\ map' = [map EXCEPT ![r] = file]
  /\ seen' = [seen EXCEPT ![r] = generation]
  /\ UNCHANGED <<file, cache, loading, generation, pc, job, from, chain, asked, began, kept>>

\* Mutant: a read that began before invalidate() becomes the cache.
LoadedAnyway(r) ==
  /\ reading[r] = "read"
  /\ reading' = [reading EXCEPT ![r] = "done"]
  /\ cache' = r
  /\ loading' = IF loading = r THEN None ELSE loading
  /\ UNCHANGED <<file, generation, pc, job, from, chain, asked, kept, map, seen, began>>

(* The read resolves.  Its map becomes the cache unless invalidate() was    *)
(* called since it began; a newer read under way is left alone.             *)
Loaded(r) ==
  /\ reading[r] = "read"
  /\ reading' = [reading EXCEPT ![r] = "done"]
  /\ cache' = IF began[r] = generation THEN r ELSE cache
  /\ loading' = IF loading = r THEN None ELSE loading
  /\ UNCHANGED <<file, generation, pc, job, from, chain, asked, kept, map, seen, began>>

(* The file cannot be read or parsed: every call that waits for it rejects. *)
LoadFailed(r) ==
  /\ reading[r] = "begun"
  /\ reading' = [reading EXCEPT ![r] = "done"]
  /\ loading' = IF loading = r THEN None ELSE loading
  /\ pc' = [c \in Call |-> IF pc[c] = "loading" /\ from[c] = r THEN "rejected" ELSE pc[c]]
  /\ UNCHANGED <<file, cache, generation, job, from, chain, asked, kept, map, seen, began>>

HasMap(c) == pc[c] = "loading" /\ reading[from[c]] = "done"

(* get: the record is in the map.  delete: it is not, and nothing is        *)
(* written.                                                                 *)
Settle(c) ==
  /\ HasMap(c)
  /\ job[c] # Get => job[c].token = NoToken /\ map[from[c]][job[c].char] = NoToken
  /\ pc' = [pc EXCEPT ![c] = "resolved"]
  /\ UNCHANGED <<file, cache, loading, generation, job, from, chain, asked, kept, reads>>

(* set and delete: the shared map is changed, and persist() queues a copy.  *)
Change(c) ==
  /\ HasMap(c) /\ job[c] # Get
  /\ LET old == map[from[c]]
         new == [old EXCEPT ![job[c].char] = job[c].token]
     IN /\ job[c].token = NoToken => old[job[c].char] # NoToken
        /\ map' = [map EXCEPT ![from[c]] = new]
        /\ chain' = Append(chain, [call |-> c, tokens |-> new])
  /\ pc' = [pc EXCEPT ![c] = "writing"]
  /\ UNCHANGED <<file, cache, loading, generation, job, from, asked, kept, reading, began, seen>>

Written(c) == /\ pc' = [pc EXCEPT ![c] = "resolved"]
              /\ kept' = [kept EXCEPT ![job[c].char] = job[c].token]

\* Mutant: the writes are not chained.
WriteUnordered ==
  /\ \E i \in DOMAIN chain :
       /\ file' = chain[i].tokens
       /\ Written(chain[i].call)
       /\ chain' = RemoveAt(chain, i)
  /\ UNCHANGED <<cache, loading, generation, job, from, asked, reads>>

(* The next write: a temporary file is renamed over the file. *)
Write ==
  /\ chain # <<>>
  /\ file' = Head(chain).tokens
  /\ Written(Head(chain).call)
  /\ chain' = Tail(chain)
  /\ UNCHANGED <<cache, loading, generation, job, from, asked, reads>>

(* It fails: the call rejects, the next one is written all the same. *)
WriteFailed ==
  /\ chain # <<>>
  /\ pc' = [pc EXCEPT ![Head(chain).call] = "rejected"]
  /\ chain' = Tail(chain)
  /\ UNCHANGED <<file, cache, loading, generation, job, from, asked, kept, reads>>

Invalidate ==
  /\ generation < MaxInvalidate
  /\ generation' = generation + 1
  /\ cache' = None /\ loading' = None
  /\ UNCHANGED <<file, pc, job, from, chain, asked, kept, reads>>

Next ==
  \/ \E c \in Call :
       \/ Begin(c) \/ Settle(c) \/ Change(c)
       \/ ReadFile(c) \/ Loaded(c) \/ LoadFailed(c)
  \/ Write \/ WriteFailed
  \/ Invalidate

Spec == Init /\ [][Next]_vars

-----------------------------------------------------------------------------
Rejected(ch, t) == \E c \in Call : pc[c] = "rejected" /\ job[c] = [char |-> ch, token |-> t]

(* Without invalidate(), a write that resolved is not undone by another     *)
(* character's: the file has what it stored, or what a call that rejected   *)
(* left in the map.                                                         *)
ResolvedWritesStay ==
  generation = 0 =>
    \A ch \in Character : file[ch] # kept[ch] => Rejected(ch, file[ch])

(* A call made after invalidate() gets what the file held at that time or   *)
(* later, however long an earlier read takes.                               *)
InvalidateIsHonoured ==
  \A c \in Call : HasMap(c) => seen[from[c]] >= asked[c]
=============================================================================
