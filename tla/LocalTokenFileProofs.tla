------------------------ MODULE LocalTokenFileProofs ------------------------
(* Theorems of LocalTokenFile, for any calls, characters and tokens. *)
EXTENDS LocalTokenFile, TLAPS

(* A call that waits for a read, or uses its map, names it. *)
Named == \A c \in Call : pc[c] = "loading" => from[c] \in Call

LEMMA GetIsAJob == Get \in Jobs /\ \A j \in Jobs : j # Get => j \in [char : Character, token : Record]
BY DEF Jobs, Get

LEMMA EmptyIsTokens == Empty \in Tokens
BY DEF Empty, Tokens, Record

LEMMA TypeInit == Init => TypeOK /\ Named
<1> SUFFICES ASSUME Init PROVE TypeOK /\ Named
  OBVIOUS
<1>1. map \in [Call -> Tokens]
  BY EmptyIsTokens DEF Init
<1>2. job \in [Call -> Jobs]
  BY GetIsAJob DEF Init
<1>3. 0 \in 0 .. MaxInvalidate
  BY BoundAssumption
<1>4. chain \in Seq([call : Call, tokens : Tokens])
  BY DEF Init
<1> QED BY <1>1, <1>2, <1>3, <1>4 DEF Init, TypeOK, Named

LEMMA LoadType ==
  ASSUME TypeOK, NEW c \in Call, Load(c)
  PROVE  /\ from' \in [Call -> Call \cup {None}] /\ from'[c] \in Call
         /\ \A d \in Call : d # c => from'[d] = from[d]
         /\ loading' \in Call \cup {None}
         /\ reading' \in [Call -> {"no", "begun", "read", "done"}]
         /\ began' \in [Call -> 0 .. MaxInvalidate]
<1>1. CASE cache # None /\ from' = [from EXCEPT ![c] = cache] /\ UNCHANGED <<loading, reading, began>>
  BY <1>1 DEF TypeOK
<1>2. CASE loading # None /\ from' = [from EXCEPT ![c] = loading] /\ UNCHANGED <<loading, reading, began>>
  BY <1>2 DEF TypeOK
<1>3. CASE /\ from' = [from EXCEPT ![c] = c] /\ loading' = c
           /\ reading' = [reading EXCEPT ![c] = "begun"]
           /\ began' = [began EXCEPT ![c] = generation]
  BY <1>3 DEF TypeOK
<1> QED BY <1>1, <1>2, <1>3 DEF Load

LEMMA TypeStep == TypeOK /\ Named /\ [Next]_vars => TypeOK' /\ Named'
<1> SUFFICES ASSUME TypeOK, Named, [Next]_vars PROVE TypeOK' /\ Named'
  OBVIOUS
<1>1. ASSUME NEW c \in Call, Begin(c) PROVE TypeOK' /\ Named'
  <2>1. Load(c)
    BY <1>1 DEF Begin
  <2>2. /\ pc' \in [Call -> {"new", "loading", "writing", "resolved", "rejected"}]
        /\ job' \in [Call -> Jobs] /\ asked' \in [Call -> 0 .. MaxInvalidate]
    BY <1>1 DEF Begin, TypeOK
  <2>3. TypeOK'
    BY <1>1, <2>1, <2>2, LoadType DEF Begin, TypeOK
  <2>4. \A d \in Call \ {c} : pc'[d] = pc[d]
    BY <1>1 DEF Begin, TypeOK
  <2> QED BY <2>1, <2>3, <2>4, LoadType DEF Named
<1>2. ASSUME NEW c \in Call, Settle(c) PROVE TypeOK' /\ Named'
  BY <1>2 DEF Settle, TypeOK, Named, reads
<1>3. ASSUME NEW c \in Call, Change(c) PROVE TypeOK' /\ Named'
  <2> DEFINE new == [map[from[c]] EXCEPT ![job[c].char] = job[c].token]
  <2>1. from[c] \in Call
    BY <1>3 DEF Change, HasMap, Named
  <2>2. job[c].token \in Record
    BY <1>3, GetIsAJob DEF Change, TypeOK
  <2>3. new \in Tokens
    BY <2>1, <2>2 DEF TypeOK, Tokens
  <2>4. map' \in [Call -> Tokens]
    BY <1>3, <2>1, <2>3 DEF Change, TypeOK
  <2>5. chain' \in Seq([call : Call, tokens : Tokens])
    <3>1. [call |-> c, tokens |-> new] \in [call : Call, tokens : Tokens]
      BY <2>3
    <3>2. chain' = Append(chain, [call |-> c, tokens |-> new])
      BY <1>3 DEF Change
    <3> HIDE DEF new
    <3> QED BY <3>1, <3>2 DEF TypeOK
  <2> QED BY <1>3, <2>4, <2>5 DEF Change, TypeOK, Named
<1>4. ASSUME NEW c \in Call, ReadFile(c) PROVE TypeOK' /\ Named'
  BY <1>4 DEF ReadFile, TypeOK, Named
<1>5. ASSUME NEW c \in Call, Loaded(c) PROVE TypeOK' /\ Named'
  BY <1>5 DEF Loaded, TypeOK, Named
<1>6. ASSUME NEW c \in Call, LoadFailed(c) PROVE TypeOK' /\ Named'
  BY <1>6 DEF LoadFailed, TypeOK, Named
<1>7. ASSUME chain # <<>>
      PROVE  /\ Head(chain).call \in Call /\ Head(chain).tokens \in Tokens
             /\ Tail(chain) \in Seq([call : Call, tokens : Tokens])
  <2> DEFINE Writes == [call : Call, tokens : Tokens]
  <2>1. chain \in Seq(Writes)
    BY DEF TypeOK
  <2>2. Head(chain) \in Writes /\ Tail(chain) \in Seq(Writes)
    <3> HIDE DEF Writes
    <3> QED BY <1>7, <2>1
  <2> QED BY <2>2
<1>8. CASE Write
  <2>1. job[Head(chain).call].token \in Record
    <3>1. \A j \in Jobs : j.token \in Record
      BY DEF Jobs, Get, Record
    <3> QED BY <1>7, <1>8, <3>1 DEF Write, TypeOK
  <2>2. kept' \in Tokens
    BY <1>8, <2>1 DEF Write, Written, TypeOK, Tokens
  <2>3. pc' \in [Call -> {"new", "loading", "writing", "resolved", "rejected"}]
    BY <1>8 DEF Write, Written, TypeOK
  <2> QED BY <1>7, <1>8, <2>2, <2>3 DEF Write, Written, TypeOK, Named, reads
<1>9. CASE WriteFailed
  BY <1>7, <1>9 DEF WriteFailed, TypeOK, Named, reads
<1>10. CASE Invalidate
  BY <1>10, BoundAssumption DEF Invalidate, TypeOK, Named, reads
<1>11. CASE UNCHANGED vars
  BY <1>11 DEF vars, reads, TypeOK, Named
<1> QED
  BY <1>1, <1>2, <1>3, <1>4, <1>5, <1>6, <1>8, <1>9, <1>10, <1>11 DEF Next

(* Type correctness of the storage without the lock. *)
THEOREM TypeCorrect == Spec => []TypeOK
<1>1. Spec => [](TypeOK /\ Named)
  BY TypeInit, TypeStep, PTL DEF Spec
<1> QED BY <1>1, PTL

-----------------------------------------------------------------------------
(* What a read holds is at least as new as the reads and calls that may use *)
(* it need.                                                                 *)
Newness ==
  /\ \A c \in Call : asked[c] <= generation
  /\ \A r \in Call : reading[r] \in {"begun", "read"} => began[r] <= generation
  /\ \A r \in Call : reading[r] = "read" => seen[r] >= began[r]
  /\ cache # None => reading[cache] = "done" /\ seen[cache] >= generation
  /\ loading # None => reading[loading] \in {"begun", "read"} /\ began[loading] = generation
  /\ \A c \in Call : pc[c] = "new" => reading[c] = "no"
  /\ \A c \in Call : pc[c] = "loading" /\ reading[from[c]] \in {"read", "done"}
       => seen[from[c]] >= asked[c]

Ind == TypeOK /\ Named /\ Newness

LEMMA NewnessStep == Ind /\ [Next]_vars => Newness'
<1> SUFFICES ASSUME Ind, [Next]_vars PROVE Newness'
  OBVIOUS
<1> USE NoneAssumption, BoundAssumption
<1>1. ASSUME NEW c \in Call, Begin(c) PROVE Newness'
  <2>1. /\ asked' = [asked EXCEPT ![c] = generation] /\ pc' = [pc EXCEPT ![c] = "loading"]
        /\ UNCHANGED <<cache, generation, seen>> /\ pc[c] = "new" /\ Load(c)
    BY <1>1 DEF Begin
  <2>2. reading[c] = "no" /\ generation \in Nat
    BY <2>1 DEF Ind, Newness, TypeOK
  <2>3. CASE reading' = reading /\ began' = began /\ loading' = loading
    <3>1. reading[from'[c]] \in {"read", "done"} => seen[from'[c]] >= generation
      BY <2>1, <2>3 DEF Load, Ind, Newness, TypeOK
    <3> QED BY <2>1, <2>2, <2>3, <3>1, LoadType DEF Ind, Newness, TypeOK
  <2>4. CASE /\ cache = None /\ loading = None
             /\ from' = [from EXCEPT ![c] = c] /\ loading' = c
             /\ reading' = [reading EXCEPT ![c] = "begun"]
             /\ began' = [began EXCEPT ![c] = generation]
    BY <2>1, <2>2, <2>4 DEF Ind, Newness, TypeOK, Named
  <2> QED BY <2>1, <2>3, <2>4 DEF Load
<1>2. ASSUME NEW c \in Call, Settle(c) PROVE Newness'
  BY <1>2 DEF Settle, Ind, Newness, TypeOK, reads
<1>3. ASSUME NEW c \in Call, Change(c) PROVE Newness'
  BY <1>3 DEF Change, Ind, Newness, TypeOK
<1>4. ASSUME NEW c \in Call, ReadFile(c) PROVE Newness'
  BY <1>4 DEF ReadFile, Ind, Newness, TypeOK, Named
<1>5. ASSUME NEW c \in Call, Loaded(c) PROVE Newness'
  BY <1>5 DEF Loaded, Ind, Newness, TypeOK, Named
<1>6. ASSUME NEW c \in Call, LoadFailed(c) PROVE Newness'
  BY <1>6 DEF LoadFailed, Ind, Newness, TypeOK, Named
<1>7. CASE Write
  BY <1>7 DEF Write, Written, Ind, Newness, TypeOK, reads
<1>8. CASE WriteFailed
  BY <1>8 DEF WriteFailed, Ind, Newness, TypeOK, reads
<1>9. CASE Invalidate
  BY <1>9 DEF Invalidate, Ind, Newness, TypeOK, reads
<1>10. CASE UNCHANGED vars
  BY <1>10 DEF vars, reads, Ind, Newness
<1> QED
  BY <1>1, <1>2, <1>3, <1>4, <1>5, <1>6, <1>7, <1>8, <1>9, <1>10 DEF Next

LEMMA IndHolds == Spec => []Ind
<1>1. Init => Ind
  BY TypeInit DEF Init, Ind, Newness
<1>2. Ind /\ [Next]_vars => Ind'
  BY TypeStep, NewnessStep DEF Ind
<1> QED BY <1>1, <1>2, PTL DEF Spec

(* After invalidate() no call works with what the file held before it. *)
THEOREM InvalidateIsAlwaysHonoured == Spec => []InvalidateIsHonoured
<1>1. Ind => InvalidateIsHonoured
  BY DEF Ind, Newness, InvalidateIsHonoured, HasMap
<1> QED BY IndHolds, <1>1, PTL

-----------------------------------------------------------------------------
(* Until the first invalidate() there is one map, and the queued writes are *)
(* its history.                                                             *)
Char(i) == job[chain[i].call].char
Stored(ch, t) == t = kept[ch] \/ Rejected(ch, t)

OneMap ==
  /\ \A r \in Call : reading[r] \in {"begun", "read"} => loading = r
  /\ loading # None => cache = None
  /\ \A r \in Call : reading[r] = "read" => map[r] = file
  /\ \A c \in Call : pc[c] = "loading" => from[c] \in {cache, loading}
  /\ cache = None => chain = <<>>

History ==
  /\ \A i \in 1 .. Len(chain) :
       /\ pc[chain[i].call] = "writing"
       /\ job[chain[i].call] # Get
       /\ chain[i].tokens[Char(i)] = job[chain[i].call].token
  /\ \A i, k \in 1 .. Len(chain) : chain[i].call = chain[k].call => i = k
  /\ \A i \in 1 .. Len(chain) - 1 : \A ch \in Character :
       ch # Char(i + 1) => chain[i + 1].tokens[ch] = chain[i].tokens[ch]
  /\ chain # <<>> => chain[Len(chain)].tokens = map[cache]

(* Whatever a snapshot or the file has of a character was stored last, or   *)
(* comes from a call that rejected.  The snapshot at the head of the queue  *)
(* is also about to store its own character.                                *)
AllStored ==
  /\ \A ch \in Character : Stored(ch, file[ch])
  /\ chain = <<>> /\ cache # None => \A ch \in Character : Stored(ch, map[cache][ch])
  /\ chain # <<>> => \A ch \in Character : ch # Char(1) => Stored(ch, chain[1].tokens[ch])

Durable == generation = 0 => OneMap /\ History /\ AllStored

(* A step that leaves the queue, the map and the jobs of its calls alone.   *)
LEMMA HistoryKept ==
  ASSUME TypeOK, History, UNCHANGED <<chain, map, cache>>,
         \A i \in 1 .. Len(chain) : /\ pc'[chain[i].call] = "writing"
                                    /\ job'[chain[i].call] = job[chain[i].call]
  PROVE  History'
BY DEF History, Char

LEMMA StoredKept ==
  ASSUME NEW ch, NEW t, Stored(ch, t), kept' = kept,
         \A c \in Call : pc[c] = "rejected" => pc'[c] = "rejected" /\ job'[c] = job[c]
  PROVE  Stored(ch, t)'
BY DEF Stored, Rejected

LEMMA AllStoredKept ==
  ASSUME TypeOK, History, AllStored, UNCHANGED <<chain, map, cache, file, kept>>,
         \A c \in Call : pc[c] = "rejected" => pc'[c] = "rejected" /\ job'[c] = job[c],
         \A i \in 1 .. Len(chain) : job'[chain[i].call] = job[chain[i].call]
  PROVE  AllStored'
<1>1. \A ch, t : Stored(ch, t) => Stored(ch, t)'
  BY StoredKept
<1>2. chain # <<>> => 1 \in 1 .. Len(chain)
  BY DEF TypeOK
<1> QED BY <1>1, <1>2 DEF AllStored, Char, Stored

LEMMA FromIsCache ==
  ASSUME Ind, OneMap, NEW c \in Call, HasMap(c)
  PROVE  from[c] = cache /\ cache \in Call /\ loading = None
<1>1. from[c] \in Call /\ reading[from[c]] = "done" /\ from[c] \in {cache, loading}
  BY DEF Ind, Named, HasMap, OneMap
<1>2. from[c] # loading
  BY <1>1, NoneAssumption DEF Ind, Newness
<1>3. from[c] = cache /\ cache # None
  BY <1>1, <1>2, NoneAssumption
<1> QED BY <1>1, <1>3 DEF OneMap

LEMMA ChangeDurable ==
  ASSUME Ind, OneMap, History, AllStored, NEW c \in Call, Change(c)
  PROVE  OneMap' /\ History' /\ AllStored'
<1> DEFINE new == [map[cache] EXCEPT ![job[c].char] = job[c].token]
           w == [call |-> c, tokens |-> new]
<1>0. PICK n \in Nat : n = Len(chain)
  BY DEF Ind, TypeOK
<1>1. HasMap(c) /\ job[c] # Get
  BY DEF Change
<1>2. from[c] = cache /\ cache \in Call /\ cache # None /\ loading = None
  BY <1>1, FromIsCache, NoneAssumption
<1>3. /\ map' = [map EXCEPT ![cache] = new] /\ chain' = Append(chain, w)
      /\ pc' = [pc EXCEPT ![c] = "writing"]
      /\ UNCHANGED <<file, cache, loading, generation, job, from, asked, kept, reading, began, seen>>
  BY <1>2 DEF Change
<1>4. /\ new \in Tokens /\ map[cache] \in Tokens /\ map'[cache] = new
      /\ new[job[c].char] = job[c].token
      /\ \A ch \in Character : ch # job[c].char => new[ch] = map[cache][ch]
  <2>1. job[c] \in [char : Character, token : Record] /\ map[cache] \in Tokens
    BY <1>1, <1>2, GetIsAJob DEF Ind, TypeOK
  <2>2. job[c].char \in Character /\ job[c].token \in Record
    BY <2>1
  <2>3. map'[cache] = new
    BY <1>2, <1>3 DEF Ind, TypeOK
  <2> QED BY <2>1, <2>2, <2>3 DEF Tokens
<1>5. /\ n \in Nat /\ Len(chain') = n + 1 /\ chain' # <<>>
      /\ \A i \in 1 .. n : chain'[i] = chain[i]
      /\ chain'[n + 1] = w
  <2> DEFINE Writes == [call : Call, tokens : Tokens]
  <2>1. chain \in Seq(Writes) /\ w \in Writes
    BY <1>4 DEF Ind, TypeOK
  <2> HIDE DEF w, Writes
  <2> QED BY <1>0, <1>3, <2>1
<1>6. chain'[n + 1].call = c /\ chain'[n + 1].tokens = new
  BY <1>5
<1>7. \A i \in 1 .. n : chain[i].call # c
  BY <1>0, <1>1 DEF HasMap, History
<1> HIDE DEF new, w
<1>8. OneMap'
  BY <1>1, <1>2, <1>3, <1>5, NoneAssumption DEF OneMap, HasMap, Ind, Newness, TypeOK
<1>9. \A i \in 1 .. n : Char(i)' = Char(i)
  BY <1>3, <1>5 DEF Char
<1>10. Char(n + 1)' = job[c].char
  BY <1>3, <1>6 DEF Char
<1>11. History'
  <2>1. \A i \in 1 .. n + 1 :
          /\ pc'[chain'[i].call] = "writing"
          /\ job'[chain'[i].call] # Get
          /\ chain'[i].tokens[Char(i)'] = job'[chain'[i].call].token
    <3>1. \A i \in 1 .. n : /\ pc'[chain'[i].call] = "writing"
                            /\ job'[chain'[i].call] # Get
                            /\ chain'[i].tokens[Char(i)'] = job'[chain'[i].call].token
      BY <1>0, <1>3, <1>5, <1>7, <1>9 DEF History
    <3>2. /\ pc'[chain'[n + 1].call] = "writing"
          /\ job'[chain'[n + 1].call] # Get
          /\ chain'[n + 1].tokens[Char(n + 1)'] = job'[chain'[n + 1].call].token
      BY <1>1, <1>3, <1>4, <1>6, <1>10 DEF Ind, TypeOK
    <3>3. \A i \in 1 .. n + 1 : i \in 1 .. n \/ i = n + 1
      BY <1>5
    <3> QED BY <3>1, <3>2, <3>3
  <2>2. \A i, k \in 1 .. n + 1 : chain'[i].call = chain'[k].call => i = k
    BY <1>0, <1>5, <1>6, <1>7 DEF History
  <2>3. \A i \in 1 .. n : \A ch \in Character :
          ch # Char(i + 1)' => chain'[i + 1].tokens[ch] = chain'[i].tokens[ch]
    <3> SUFFICES ASSUME NEW i \in 1 .. n, NEW ch \in Character, ch # Char(i + 1)'
                 PROVE  chain'[i + 1].tokens[ch] = chain'[i].tokens[ch]
      OBVIOUS
    <3>1. CASE i < n
      <4>1. i \in 1 .. Len(chain) - 1 /\ i + 1 \in 1 .. n
        BY <1>0, <1>5, <3>1 DEF Ind
      <4> QED BY <1>0, <1>5, <1>9, <4>1 DEF History
    <3>2. CASE i = n
      <4>1. chain # <<>> /\ chain[n].tokens = map[cache]
        BY <1>0, <1>5, <3>2 DEF History, Ind, TypeOK
      <4> QED BY <1>4, <1>5, <1>6, <1>10, <3>2, <4>1
    <3> QED BY <1>5, <3>1, <3>2
  <2>4. chain'[n + 1].tokens = map'[cache']
    BY <1>3, <1>4, <1>6
  <2>5. Len(chain') - 1 = n
    BY <1>5
  <2>6. \A i \in 1 .. Len(chain') - 1 : \A ch \in Character :
          ch # Char(i + 1)' => chain'[i + 1].tokens[ch] = chain'[i].tokens[ch]
    BY <2>3, <2>5
  <2> QED BY <1>5, <2>1, <2>2, <2>4, <2>6 DEF History
<1>12. AllStored'
  <2>1. \A ch, t : Stored(ch, t) => Stored(ch, t)'
    BY <1>1, <1>3, StoredKept DEF HasMap, Ind, TypeOK
  <2>2. ASSUME NEW ch \in Character, ch # Char(1)' PROVE Stored(ch, chain[1].tokens[ch])'
    <3>1. CASE chain = <<>>
      <4>1. n = 0
        BY <1>0, <3>1 DEF Ind
      <4>2. chain'[1].tokens[ch] = map[cache][ch]
        BY <1>4, <1>6, <1>10, <2>2, <4>1
      <4> QED BY <1>2, <2>1, <3>1, <4>2 DEF AllStored, Stored, Rejected
    <3>2. CASE chain # <<>>
      <4>1. 1 \in 1 .. n
        BY <1>0, <1>5, <3>2 DEF Ind, TypeOK
      <4> QED BY <1>5, <1>9, <2>1, <2>2, <3>2, <4>1 DEF AllStored, Stored, Rejected
    <3> QED BY <3>1, <3>2
  <2>3. \A ch \in Character : Stored(ch, file[ch])'
    BY <1>3, <2>1 DEF AllStored, Stored, Rejected
  <2> QED BY <1>5, <2>2, <2>3 DEF AllStored, Stored, Rejected
<1> QED BY <1>8, <1>11, <1>12

(* The head of the queue is done with: it was written, or it was not.       *)
LEMMA PopDurable ==
  ASSUME Ind, OneMap, History, AllStored, Write \/ WriteFailed
  PROVE  OneMap' /\ History' /\ AllStored'
<1> DEFINE h == Head(chain).call
<1>1. PICK n \in Nat : n + 1 = Len(chain)
  <2> DEFINE Writes == [call : Call, tokens : Tokens]
  <2>1. chain \in Seq(Writes) /\ chain # <<>>
    BY DEF Ind, TypeOK, Write, WriteFailed
  <2> HIDE DEF Writes
  <2>2. Len(chain) \in Nat /\ Len(chain) # 0
    BY <2>1
  <2> QED BY <2>2, Len(chain) - 1 \in Nat
<1>2. /\ chain # <<>> /\ Head(chain) = chain[1]
      /\ Len(chain') = n /\ \A i \in 1 .. n : chain'[i] = chain[i + 1]
      /\ chain' = <<>> <=> n = 0
  <2> DEFINE Writes == [call : Call, tokens : Tokens]
  <2>1. chain \in Seq(Writes) /\ chain' = Tail(chain)
    BY DEF Ind, TypeOK, Write, WriteFailed
  <2> HIDE DEF Writes
  <2> QED BY SMTT(60), <1>1, <2>1
<1>3. h = chain[1].call /\ h \in Call /\ chain[1].tokens \in Tokens
  <2>1. chain[1] \in [call : Call, tokens : Tokens]
    <3> DEFINE Writes == [call : Call, tokens : Tokens]
    <3>1. chain \in Seq(Writes)
      BY DEF Ind, TypeOK
    <3> HIDE DEF Writes
    <3>2. chain[1] \in Writes
      BY <1>1, <3>1
    <3> QED BY <3>2 DEF Writes
  <2> QED BY <1>2, <2>1
<1>4. /\ pc[h] = "writing" /\ job[h] # Get /\ h = chain[1].call
      /\ chain[1].tokens[Char(1)] = job[h].token /\ Char(1) = job[h].char
      /\ \A i \in 1 .. n : chain[i + 1].call # h
  BY <1>1, <1>3 DEF History, Char
<1>5. job[h] = [char |-> Char(1), token |-> chain[1].tokens[Char(1)]]
  BY <1>3, <1>4, GetIsAJob DEF Ind, TypeOK
<1>6. /\ UNCHANGED <<cache, loading, generation, job, from, asked, reads>>
      /\ \A c \in Call : c # h => pc'[c] = pc[c]
      /\ pc'[h] \in {"resolved", "rejected"}
      /\ \/ /\ file' = chain[1].tokens
            /\ kept' = [kept EXCEPT ![Char(1)] = chain[1].tokens[Char(1)]]
         \/ /\ UNCHANGED <<file, kept>> /\ pc'[h] = "rejected"
  BY <1>2, <1>3, <1>4 DEF Write, Written, WriteFailed, Ind, TypeOK
<1> HIDE DEF h
<1>7. \A i \in 1 .. n : Char(i)' = Char(i + 1)
  BY <1>2, <1>6 DEF Char
<1>8. \A i \in 1 .. n : i + 1 \in 1 .. Len(chain)
  BY <1>1
<1>9. History'
  <2>1. \A i \in 1 .. n : /\ pc'[chain'[i].call] = "writing"
                          /\ job'[chain'[i].call] # Get
                          /\ chain'[i].tokens[Char(i)'] = job'[chain'[i].call].token
    <3>1. \A i \in 1 .. n : chain[i + 1].call \in Call
      <4> DEFINE Writes == [call : Call, tokens : Tokens]
      <4>1. chain \in Seq(Writes)
        BY DEF Ind, TypeOK
      <4>2. \A i \in 1 .. n : chain[i + 1] \in Writes
        <5> HIDE DEF Writes
        <5> QED BY <1>1, <4>1
      <4> QED BY <4>2
    <3> SUFFICES ASSUME NEW i \in 1 .. n
                 PROVE  /\ pc'[chain'[i].call] = "writing"
                        /\ job'[chain'[i].call] # Get
                        /\ chain'[i].tokens[Char(i)'] = job'[chain'[i].call].token
      OBVIOUS
    <3>2. /\ pc[chain[i + 1].call] = "writing" /\ job[chain[i + 1].call] # Get
          /\ chain[i + 1].tokens[Char(i + 1)] = job[chain[i + 1].call].token
      BY <1>8 DEF History
    <3>3. pc'[chain[i + 1].call] = "writing" /\ job' = job /\ chain'[i] = chain[i + 1]
      BY <1>2, <1>4, <1>6, <3>1, <3>2
    <3> QED BY <1>7, <3>2, <3>3
  <2>2. \A i, k \in 1 .. n : chain'[i].call = chain'[k].call => i = k
    <3> SUFFICES ASSUME NEW i \in 1 .. n, NEW k \in 1 .. n, chain'[i].call = chain'[k].call
                 PROVE  i = k
      OBVIOUS
    <3>1. \A a, b \in 1 .. Len(chain) : chain[a].call = chain[b].call => a = b
      BY DEF History
    <3>2. chain[i + 1].call = chain[k + 1].call
      BY <1>2
    <3>3. i + 1 = k + 1
      BY <1>8, <3>1, <3>2
    <3> QED BY <3>3
  <2>3. \A i \in 1 .. n - 1 : \A ch \in Character :
          ch # Char(i + 1)' => chain'[i + 1].tokens[ch] = chain'[i].tokens[ch]
    <3> SUFFICES ASSUME NEW i \in 1 .. n - 1, NEW ch \in Character, ch # Char(i + 1)'
                 PROVE  chain'[i + 1].tokens[ch] = chain'[i].tokens[ch]
      OBVIOUS
    <3>1. /\ i \in 1 .. n /\ i + 1 \in 1 .. n /\ i + 1 \in 1 .. Len(chain) - 1
      BY <1>1
    <3>2. Char(i + 1)' = Char((i + 1) + 1)
      BY <1>7, <3>1
    <3> QED BY <1>2, <3>1, <3>2 DEF History
  <2>4. n # 0 => chain'[n].tokens = map'[cache']
    <3>1. n # 0 => n \in 1 .. n
      BY <1>1
    <3> QED BY <1>1, <1>2, <1>6, <3>1 DEF History, reads
  <2> QED BY <1>2, <2>1, <2>2, <2>3, <2>4 DEF History
<1>10. ASSUME NEW ch, NEW t, Rejected(ch, t)
       PROVE  \E c \in Call : pc'[c] = "rejected" /\ job'[c] = [char |-> ch, token |-> t]
  BY <1>4, <1>6, <1>10 DEF Rejected
<1>11. ASSUME NEW ch \in Character, ch # Char(1), NEW t, Stored(ch, t)
       PROVE  t = kept'[ch] \/ \E c \in Call : pc'[c] = "rejected" /\ job'[c] = [char |-> ch, token |-> t]
  <2>1. kept'[ch] = kept[ch]
    BY <1>6, <1>11 DEF Ind, TypeOK, Tokens
  <2> QED BY <1>10, <1>11, <2>1 DEF Stored
<1>12. \A ch \in Character : Stored(ch, chain[1].tokens[ch]) \/ ch = Char(1)
  BY <1>2 DEF AllStored
<1>13. ASSUME NEW ch \in Character
       PROVE  \/ chain[1].tokens[ch] = kept'[ch]
              \/ \E c \in Call : pc'[c] = "rejected" /\ job'[c] = [char |-> ch, token |-> chain[1].tokens[ch]]
  <2>1. CASE ch # Char(1)
    BY <1>11, <1>12, <2>1
  <2>2. CASE ch = Char(1) /\ kept' = [kept EXCEPT ![Char(1)] = chain[1].tokens[Char(1)]]
    BY <2>2 DEF Ind, TypeOK, Tokens
  <2>3. CASE ch = Char(1) /\ pc'[h] = "rejected"
    BY <1>3, <1>5, <1>6, <2>3
  <2> QED BY <1>6, <2>1, <2>2, <2>3
<1>14. ASSUME NEW ch \in Character
       PROVE  \/ file'[ch] = kept'[ch]
              \/ \E c \in Call : pc'[c] = "rejected" /\ job'[c] = [char |-> ch, token |-> file'[ch]]
  <2>1. CASE file' = chain[1].tokens
    BY <1>13, <2>1
  <2>2. CASE UNCHANGED <<file, kept>>
    BY <1>10, <2>2 DEF AllStored, Stored
  <2> QED BY <1>6, <2>1, <2>2
<1>15. AllStored'
  <2>1. ASSUME n # 0, NEW ch \in Character, ch # Char(1)'
        PROVE  chain'[1].tokens[ch] = chain[1].tokens[ch]
    <3>1. 1 \in 1 .. n /\ 1 \in 1 .. Len(chain) - 1
      BY <1>1, <2>1
    <3>2. Char(1)' = Char(1 + 1)
      BY <1>7, <3>1
    <3> QED BY <1>2, <2>1, <3>1, <3>2 DEF History
  <2>2. n = 0 => map'[cache'] = chain[1].tokens
    <3>1. n = 0 => Len(chain) = 1
      BY <1>1
    <3>2. map' = map /\ cache' = cache
      BY <1>6 DEF reads
    <3> QED BY <1>2, <3>1, <3>2 DEF History
  <2> QED BY <1>2, <1>13, <1>14, <2>1, <2>2 DEF AllStored, Stored, Rejected
<1>16. OneMap'
  <2>1. cache # None
    BY <1>2 DEF OneMap
  <2>2. \A r \in Call : reading[r] # "read"
    BY <2>1, NoneAssumption DEF OneMap
  <2>3. \A c \in Call : pc'[c] = "loading" => pc[c] = "loading"
    BY <1>6
  <2> QED BY <1>6, <2>1, <2>2, <2>3 DEF OneMap, reads
<1> QED BY <1>9, <1>15, <1>16

LEMMA DurableStep == Ind /\ Durable /\ [Next]_vars => Durable'
<1> SUFFICES ASSUME Ind, Durable, [Next]_vars, generation' = 0
             PROVE  OneMap' /\ History' /\ AllStored'
  BY DEF Durable
<1>0. generation = 0 /\ OneMap /\ History /\ AllStored
  <2>1. generation = 0
    <3>1. generation' = generation \/ generation' = generation + 1
      BY DEF Next, Begin, Settle, Change, ReadFile, Loaded, LoadFailed, Write, WriteFailed,
             Invalidate, vars
    <3>2. generation \in Nat
      BY BoundAssumption DEF Ind, TypeOK
    <3> QED BY <3>1, <3>2
  <2> QED BY <2>1 DEF Durable
<1> DEFINE Calm == /\ \A c \in Call : pc[c] \in {"rejected", "writing"} => pc'[c] = pc[c] /\ job'[c] = job[c]
                   /\ UNCHANGED <<chain, map, cache, file, kept>>
<1>1. \A i \in 1 .. Len(chain) : chain[i].call \in Call /\ pc[chain[i].call] = "writing"
  <2> DEFINE Writes == [call : Call, tokens : Tokens]
  <2>1. chain \in Seq(Writes)
    BY DEF Ind, TypeOK
  <2>2. \A i \in 1 .. Len(chain) : chain[i] \in Writes
    <3> HIDE DEF Writes
    <3> QED BY <2>1
  <2> QED BY <1>0, <2>2 DEF History
<1>2. Calm => History' /\ AllStored'
  BY <1>0, <1>1, HistoryKept, AllStoredKept DEF Ind
<1>3. ASSUME NEW c \in Call, Begin(c) PROVE OneMap' /\ History' /\ AllStored'
  <2>1. Calm
    BY <1>3 DEF Begin, Ind, TypeOK
  <2>2. OneMap'
    <3>1. /\ pc' = [pc EXCEPT ![c] = "loading"] /\ Load(c)
          /\ UNCHANGED <<cache, chain, map, file>>
      BY <1>3 DEF Begin
    <3>2. CASE /\ from'[c] \in {cache, loading}
               /\ \A d \in Call : d # c => from'[d] = from[d]
               /\ UNCHANGED <<loading, reading, began>>
      BY <1>0, <3>1, <3>2 DEF OneMap, Ind, TypeOK
    <3>3. CASE /\ cache = None /\ loading = None
               /\ from' = [from EXCEPT ![c] = c] /\ loading' = c
               /\ reading' = [reading EXCEPT ![c] = "begun"]
      <4>1. \A d \in Call : pc[d] # "loading" /\ reading[d] \notin {"begun", "read"}
        BY <1>0, <3>3, NoneAssumption DEF OneMap, Ind, Named
      <4> QED BY <1>0, <3>1, <3>3, <4>1 DEF OneMap, Ind, TypeOK
    <3>4. from \in [Call -> Call \cup {None}]
      BY DEF Ind, TypeOK
    <3> QED BY <3>1, <3>2, <3>3, <3>4 DEF Load
  <2> QED BY <1>2, <2>1, <2>2
<1>4. ASSUME NEW c \in Call, Settle(c) PROVE OneMap' /\ History' /\ AllStored'
  <2>1. Calm
    BY <1>4 DEF Settle, HasMap, reads, Ind, TypeOK
  <2>2. OneMap'
    BY <1>0, <1>4 DEF Settle, OneMap, reads, Ind, TypeOK
  <2> QED BY <1>2, <2>1, <2>2
<1>5. ASSUME NEW c \in Call, Change(c) PROVE OneMap' /\ History' /\ AllStored'
  BY <1>0, <1>5, ChangeDurable
<1>6. ASSUME NEW r \in Call, ReadFile(r) PROVE OneMap' /\ History' /\ AllStored'
  <2>1. loading = r /\ cache = None /\ chain = <<>>
    BY <1>0, <1>6, NoneAssumption DEF ReadFile, OneMap
  <2>2. OneMap'
    BY <1>0, <1>6, <2>1, NoneAssumption DEF ReadFile, OneMap, Ind, TypeOK
  <2>3. History'
    BY <1>6, <2>1 DEF ReadFile, History
  <2>4. AllStored'
    BY <1>0, <1>6, <2>1 DEF ReadFile, AllStored, Stored, Rejected
  <2> QED BY <2>2, <2>3, <2>4
<1>7. ASSUME NEW r \in Call, Loaded(r) PROVE OneMap' /\ History' /\ AllStored'
  <2>1. loading = r /\ cache = None /\ chain = <<>> /\ map[r] = file
    BY <1>0, <1>7, NoneAssumption DEF Loaded, OneMap
  <2>2. began[r] = generation
    BY <2>1, NoneAssumption DEF Ind, Newness
  <2>3. cache' = r /\ loading' = None
    BY <1>7, <2>1, <2>2 DEF Loaded
  <2>4. \A c \in Call : pc[c] = "loading" => from[c] = r
    BY <1>0, <2>1, NoneAssumption DEF OneMap, Ind, Named
  <2>5. OneMap'
    BY <1>0, <1>7, <2>1, <2>3, <2>4, NoneAssumption DEF Loaded, OneMap, Ind, TypeOK
  <2>6. History'
    BY <1>7, <2>1 DEF Loaded, History
  <2>7. AllStored'
    BY <1>0, <1>7, <2>1, <2>3 DEF Loaded, AllStored, Stored, Rejected
  <2> QED BY <2>5, <2>6, <2>7
<1>8. ASSUME NEW r \in Call, LoadFailed(r) PROVE OneMap' /\ History' /\ AllStored'
  <2>1. Calm
    BY <1>8 DEF LoadFailed, Ind, TypeOK
  <2>2. OneMap'
    <3>1. loading = r /\ cache = None
      BY <1>0, <1>8, NoneAssumption DEF LoadFailed, OneMap
    <3>2. \A c \in Call : pc'[c] # "loading"
      BY <1>0, <1>8, <3>1, NoneAssumption DEF LoadFailed, OneMap, Ind, Named
    <3> QED BY <1>0, <1>8, <3>1, <3>2 DEF LoadFailed, OneMap, Ind, TypeOK
  <2> QED BY <1>2, <2>1, <2>2
<1>9. CASE Write \/ WriteFailed
  BY <1>0, <1>9, PopDurable
<1>10. CASE Invalidate
  BY <1>0, <1>10 DEF Invalidate
<1>11. CASE UNCHANGED vars
  <2>1. Calm
    BY <1>11 DEF vars, reads
  <2>2. OneMap'
    BY <1>0, <1>11 DEF vars, reads, OneMap
  <2> QED BY <1>2, <2>1, <2>2
<1> QED
  BY <1>3, <1>4, <1>5, <1>6, <1>7, <1>8, <1>9, <1>10, <1>11 DEF Next

(* Until the first invalidate(), a write that resolved stays in the file:   *)
(* no other character's write undoes it.                                    *)
THEOREM ResolvedWritesAlwaysStay == Spec => []ResolvedWritesStay
<1>1. Init => Durable
  BY DEF Init, Durable, OneMap, History, AllStored, Stored
<1>2. Ind /\ Durable => ResolvedWritesStay
  BY DEF Durable, AllStored, Stored, ResolvedWritesStay
<1>3. Spec => []Durable
  BY <1>1, DurableStep, IndHolds, PTL DEF Spec
<1> QED BY IndHolds, <1>2, <1>3, PTL
=============================================================================
