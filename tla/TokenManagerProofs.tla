------------------------- MODULE TokenManagerProofs -------------------------
(***************************************************************************)
(* Theorems of TokenManager, for any number of managers, calls, tokens,    *)
(* logins and removals.                                                    *)
(***************************************************************************)
EXTENDS TokenManager, TLAPS

USE DEF At, Mgr

Logging(r) == r.op \in {"add", "remove"}
Lookup == {"existGet", "existGot", "revoke"}
Flying(r) == r.op = "refresh" /\ r.pc \in {"sso", "reply", "put"}

(* What the locals of a task hold where it is. *)
WellFormed(r) ==
  /\ r.pc = "idle" => r = Idle
  /\ r.pc \in {"seenGet", "seenGot", "wait", "get", "got", "sso", "reply"} => r.op = "refresh"
  /\ r.pc \in {"seenGet", "seenGot", "wait"} => Locking
  /\ r.pc \in {"seenGet", "seenGot", "wait", "get", "got", "sso"} => r.reply = "none"
  /\ r.pc \in Lookup => Logging(r)
  /\ r.pc \in {"put", "putDone"} => r.op # "none"
  /\ Flying(r) \/ r.pc = "revoke" => Live(r.rec)
  /\ Logging(r) => r.reply = "none"
  /\ r.op = "remove" => r.put = None
  /\ r.op = "add" => r.put \in Record /\ ~r.put.revoked /\ r.put.login = r.put.rt
  /\ Flying(r) /\ r.pc # "sso" =>
       /\ r.reply # "none" /\ (r.pc = "put" => r.reply # "error")
       /\ r.reply = "rotated" => /\ r.put \in Record /\ ~r.put.revoked
                                 /\ r.put.login = r.rec.login
       /\ r.reply = "invalid_grant" => /\ r.put \in Record /\ r.put.rt = r.rec.rt
                                       /\ r.put.login = r.rec.login

Types == TypeOK /\ \A t \in Task : WellFormed(task[t])

LEMMA IdleType == Idle \in TaskState /\ WellFormed(Idle)
BY ConstantsAssumption
   DEF Idle, TaskState, Reads, Continuing, WellFormed, Flying, Logging, Lookup

LEMMA NoneIsNothing == None \notin Record /\ None \notin Task /\ None \notin Rt
BY NoneAssumption

LEMMA AnsweredIs ==
  /\ Answered["peek"] = "peeked" /\ Answered["seenGet"] = "seenGot"
  /\ Answered["get"] = "got" /\ Answered["existGet"] = "existGot"
BY DEF Answered, Reads

(* A task moves on and keeps its locals. *)
LEMMA GotoFields ==
  ASSUME NEW q \in TaskState, NEW label \in {"wait", "sso", "reply", "revoke", "put"} \cup Reads \cup Continuing,
         NEW r, r = [q EXCEPT !.pc = label]
  PROVE  /\ r \in TaskState /\ r.pc = label
         /\ r.op = q.op /\ r.seen = q.seen /\ r.rec = q.rec /\ r.gen = q.gen
         /\ r.reply = q.reply /\ r.put = q.put /\ r.gone = q.gone
BY DEF TaskState

-----------------------------------------------------------------------------
(* A step of one task. *)
LEMMA OneTask ==
  ASSUME Types, NEW t \in Task, NEW r \in TaskState, WellFormed(r),
         task' = [task EXCEPT ![t] = r]
  PROVE  /\ task' \in [Task -> TaskState] /\ \A u \in Task : WellFormed(task'[u])
         /\ task'[t] = r /\ \A u \in Task : u # t => task'[u] = task[u]
BY DEF Types, TypeOK

LEMMA SettleType ==
  ASSUME Types, NEW t \in Task, Settle(t)
  PROVE  /\ task' = [task EXCEPT ![t] = Idle]
         /\ lease' \in Task \cup {None} /\ slot' \in [Manager -> Task \cup {None}]
         /\ task' \in [Task -> TaskState] /\ \A u \in Task : WellFormed(task'[u])
<1>1. task' = [task EXCEPT ![t] = Idle]
  BY DEF Settle
<1>2. lease' \in Task \cup {None} /\ slot' \in [Manager -> Task \cup {None}]
  BY DEF Settle, Types, TypeOK
<1> QED BY <1>1, <1>2, IdleType, OneTask

Others == <<store, lease, gen, slot, sso, dead>>

LEMMA ReadMoves ==
  ASSUME Types, NEW t \in Task, Read(t)
  PROVE  \E r \in TaskState :
           /\ task' = [task EXCEPT ![t] = r] /\ WellFormed(r) /\ UNCHANGED Others
           /\ task[t].pc \in Reads /\ r.pc = Answered[task[t].pc] /\ r.rec = store
           /\ r.op = task[t].op /\ r.gen = task[t].gen /\ r.put = task[t].put
           /\ r.reply = task[t].reply
<1>1. task[t] \in TaskState /\ WellFormed(task[t]) /\ store \in Record \cup {None}
  BY DEF Types, TypeOK
<1>2. PICK r : r = [task[t] EXCEPT !.rec = store, !.pc = Answered[task[t].pc]]
  OBVIOUS
<1>3. /\ task[t].pc \in Reads /\ task' = [task EXCEPT ![t] = r] /\ UNCHANGED Others
  BY <1>2 DEF Read, Others
<1>4. Answered[task[t].pc] \in Continuing
  BY <1>3, AnsweredIs DEF Reads, Continuing
<1>5. /\ r \in TaskState /\ r.pc = Answered[task[t].pc] /\ r.rec = store
      /\ r.op = task[t].op /\ r.gen = task[t].gen /\ r.put = task[t].put
      /\ r.reply = task[t].reply
  BY <1>1, <1>2, <1>4 DEF TaskState
<1>6. WellFormed(r)
  BY <1>1, <1>3, <1>5, AnsweredIs DEF WellFormed, Reads, Lookup, Logging, Flying
<1> QED BY <1>3, <1>5, <1>6

LEMMA StartMoves ==
  ASSUME Types, NEW t \in Task, NEW from \in Record \cup {None}, Start(t, from)
  PROVE  \E r \in TaskState :
           /\ task' = [task EXCEPT ![t] = r] /\ WellFormed(r)
           /\ r.op = "refresh" /\ r.gen = 0
           /\ r.pc \in {"get", "seenGet", "wait"} /\ (Locking <=> r.pc # "get")
           /\ slot[Mgr(t)] = None /\ slot' = [slot EXCEPT ![Mgr(t)] = t]
           /\ UNCHANGED <<store, lease, gen, sso, dead>>
<1>1. PICK r : r = [Idle EXCEPT !.op = "refresh", !.seen = from,
                 !.pc = IF ~Locking THEN "get" ELSE IF from = None THEN "seenGet" ELSE "wait"]
  OBVIOUS
<1>2. /\ r \in TaskState /\ r.op = "refresh" /\ r.gen = 0
      /\ r.pc \in {"get", "seenGet", "wait"} /\ (Locking <=> r.pc # "get")
      /\ r.reply = "none"
  <2>1. PICK label \in {"get", "seenGet", "wait"} :
          /\ r = [Idle EXCEPT !.op = "refresh", !.seen = from, !.pc = label]
          /\ Locking <=> label # "get"
    BY <1>1
  <2>2. Idle \in TaskState /\ Idle.gen = 0 /\ Idle.reply = "none"
    BY IdleType DEF Idle
  <2>3. label \in {"idle", "wait", "sso", "reply", "revoke", "put"} \cup Reads \cup Continuing
    BY <2>1 DEF Reads
  <2> QED BY <2>1, <2>2, <2>3 DEF TaskState
<1>3. WellFormed(r)
  BY <1>2 DEF WellFormed, Lookup, Logging, Flying
<1> QED BY <1>1, <1>2, <1>3 DEF Start

(* A step that takes a task to another place, with the same locals. *)
LEMMA GotoMoves ==
  ASSUME Types, NEW t \in Task, NEW label, Goto(t, label),
         label \in {"wait", "sso", "reply", "revoke", "put"} \cup Reads \cup Continuing
  PROVE  \E r \in TaskState :
           /\ task' = [task EXCEPT ![t] = r] /\ r.pc = label
           /\ r.op = task[t].op /\ r.rec = task[t].rec /\ r.gen = task[t].gen
           /\ r.reply = task[t].reply /\ r.put = task[t].put /\ r.gone = task[t].gone
<1>1. PICK r : r = [task[t] EXCEPT !.pc = label]
  OBVIOUS
<1>2. task[t] \in TaskState /\ task \in [Task -> TaskState]
  BY DEF Types, TypeOK
<1>3. task' = [task EXCEPT ![t] = r]
  BY <1>1, <1>2 DEF Goto
<1>4. /\ r \in TaskState /\ r.pc = label
      /\ r.op = task[t].op /\ r.rec = task[t].rec /\ r.gen = task[t].gen
      /\ r.reply = task[t].reply /\ r.put = task[t].put /\ r.gone = task[t].gone
  BY <1>1, <1>2, GotoFields
<1> QED BY <1>3, <1>4

(* What the answer of SSO does to it: the token sent is rotated, perhaps    *)
(* without the reply arriving, or it was not valid, or nothing happens.     *)
Rotates(rt) ==
  /\ rt \in sso.valid
  /\ sso'.issued = sso.issued + 1 /\ sso'.valid = (sso.valid \ {rt}) \cup {sso.issued + 1}
  /\ sso'.refused = sso.refused /\ sso'.lost = sso.lost
Loses(rt) ==
  /\ rt \in sso.valid
  /\ sso'.issued = sso.issued + 1 /\ sso'.valid = (sso.valid \ {rt}) \cup {sso.issued + 1}
  /\ sso'.refused = sso.refused /\ sso'.lost = sso.lost \cup {rt}

SsoState == [issued : Rt, valid : SUBSET Rt, refused : SUBSET Rt, lost : SUBSET Rt]

LEMMA NextRt == ASSUME TypeOK, sso.issued < MaxRt PROVE sso.issued + 1 \in Rt
BY ConstantsAssumption DEF TypeOK, Rt

LEMMA SsoFields ==
  ASSUME TypeOK
  PROVE  /\ sso \in SsoState
         /\ sso.issued \in Rt /\ sso.valid \subseteq Rt /\ sso.refused \subseteq Rt /\ sso.lost \subseteq Rt
BY DEF TypeOK, SsoState

LEMMA AnswerMoves ==
  ASSUME Types, NEW t \in Task, Answer(t)
  PROVE  \E r \in TaskState :
           /\ task' = [task EXCEPT ![t] = r] /\ WellFormed(r)
           /\ task[t].pc = "sso" /\ r.pc = "reply" /\ r.op = "refresh"
           /\ r.rec = task[t].rec /\ r.rec \in Record /\ r.gen = task[t].gen
           /\ sso' \in SsoState /\ UNCHANGED <<store, lease, gen, slot, dead>>
           /\ \/ r.reply = "rotated" /\ r.put.rt = sso.issued + 1 /\ Rotates(r.rec.rt)
              \/ r.reply = "error" /\ Loses(r.rec.rt)
              \/ r.reply = "invalid_grant" /\ r.rec.rt \notin sso.valid /\ UNCHANGED sso
              \/ r.reply = "error" /\ UNCHANGED sso
<1> DEFINE rec == task[t].rec
           rt == rec.rt
           replied(reply, put) == [task[t] EXCEPT !.pc = "reply", !.reply = reply, !.put = put]
<1>1. /\ task[t] \in TaskState /\ task[t].pc = "sso" /\ task[t].op = "refresh"
      /\ Live(rec) /\ rec \in Record /\ rt \in Rt /\ UNCHANGED <<store, lease, gen, slot, dead>>
  <2>1. task[t] \in TaskState /\ WellFormed(task[t]) /\ task[t].pc = "sso"
    BY DEF Types, TypeOK, Answer
  <2>2. task[t].op = "refresh" /\ Live(rec)
    BY <2>1 DEF WellFormed, Flying
  <2>3. rec \in Record /\ rt \in Rt
    BY <2>1, <2>2 DEF TaskState, Live, Record
  <2> QED BY <2>1, <2>2, <2>3 DEF Answer
<1>2. ASSUME NEW reply \in {"rotated", "invalid_grant", "error"}, NEW put \in Record \cup {None}
      PROVE  /\ replied(reply, put) \in TaskState /\ replied(reply, put).pc = "reply"
             /\ replied(reply, put).op = "refresh" /\ replied(reply, put).reply = reply
             /\ replied(reply, put).put = put /\ replied(reply, put).rec = rec
             /\ replied(reply, put).gen = task[t].gen
  BY <1>1, <1>2 DEF TaskState
<1> HIDE DEF replied
<1>3. CASE /\ rt \in sso.valid /\ sso.issued < MaxRt
           /\ task' = [task EXCEPT ![t] = replied("rotated", [rec EXCEPT !.rt = sso.issued + 1])]
           /\ Rotates(rt) /\ sso' \in SsoState
  <2>1. PICK put \in Record : /\ put = [rec EXCEPT !.rt = sso.issued + 1]
                              /\ put.rt = sso.issued + 1 /\ ~put.revoked /\ put.login = rec.login
    BY <1>1, <1>3, NextRt DEF Types, Record, Live
  <2>2. PICK r \in TaskState : /\ r = replied("rotated", put) /\ r.pc = "reply" /\ r.op = "refresh"
                               /\ r.reply = "rotated" /\ r.put = put /\ r.rec = rec
                               /\ r.gen = task[t].gen
    BY <1>2
  <2>3. WellFormed(r)
    BY <1>1, <2>1, <2>2 DEF WellFormed, Flying, Logging, Lookup
  <2> QED BY <1>1, <1>3, <2>1, <2>2, <2>3
<1>4. CASE /\ rt \in sso.valid /\ sso.issued < MaxRt
           /\ task' = [task EXCEPT ![t] = replied("error", None)]
           /\ Loses(rt) /\ sso' \in SsoState
  <2>1. PICK r \in TaskState : /\ r = replied("error", None) /\ r.pc = "reply" /\ r.op = "refresh"
                               /\ r.reply = "error" /\ r.rec = rec /\ r.gen = task[t].gen
    BY <1>2
  <2>2. WellFormed(r)
    BY <1>1, <2>1 DEF WellFormed, Flying, Logging, Lookup
  <2> QED BY <1>1, <1>4, <2>1, <2>2
<1>5. CASE /\ rt \notin sso.valid /\ UNCHANGED sso
           /\ task' = [task EXCEPT ![t] = replied("invalid_grant", [rec EXCEPT !.revoked = TRUE])]
  <2>1. PICK put \in Record : /\ put = [rec EXCEPT !.revoked = TRUE]
                              /\ put.rt = rt /\ put.login = rec.login
    <3>1. [rec EXCEPT !.revoked = TRUE] \in Record
      BY <1>1 DEF Record
    <3> QED BY <1>1, <3>1 DEF Record
  <2>2. PICK r \in TaskState : /\ r = replied("invalid_grant", put) /\ r.pc = "reply"
                               /\ r.op = "refresh" /\ r.reply = "invalid_grant" /\ r.put = put
                               /\ r.rec = rec /\ r.gen = task[t].gen
    BY <1>2
  <2>3. WellFormed(r)
    BY <1>1, <2>1, <2>2 DEF WellFormed, Flying, Logging, Lookup
  <2> QED BY <1>1, <1>5, <2>1, <2>2, <2>3, SsoFields DEF Types
<1>6. CASE UNCHANGED sso /\ task' = [task EXCEPT ![t] = replied("error", None)]
  <2>1. PICK r \in TaskState : /\ r = replied("error", None) /\ r.pc = "reply" /\ r.op = "refresh"
                               /\ r.reply = "error" /\ r.rec = rec /\ r.gen = task[t].gen
    BY <1>2
  <2>2. WellFormed(r)
    BY <1>1, <2>1 DEF WellFormed, Flying, Logging, Lookup
  <2> QED BY <1>1, <1>6, <2>1, <2>2, SsoFields DEF Types
<1>7. \/ /\ rt \in sso.valid /\ sso.issued < MaxRt
         /\ \/ /\ task' = [task EXCEPT ![t] = replied("rotated", [rec EXCEPT !.rt = sso.issued + 1])]
               /\ Rotates(rt)
            \/ task' = [task EXCEPT ![t] = replied("error", None)] /\ Loses(rt)
         /\ sso' \in SsoState
      \/ /\ rt \notin sso.valid /\ UNCHANGED sso
         /\ task' = [task EXCEPT ![t] = replied("invalid_grant", [rec EXCEPT !.revoked = TRUE])]
      \/ UNCHANGED sso /\ task' = [task EXCEPT ![t] = replied("error", None)]
  <2> DEFINE rotate == [sso EXCEPT !.issued = @ + 1,
                                   !.valid = (@ \ {rt}) \cup {sso.issued + 1}]
             reply(r, p) == task' = [task EXCEPT ![t].pc = "reply", ![t].reply = r, ![t].put = p]
  <2>1. sso \in SsoState /\ task \in [Task -> TaskState]
    BY SsoFields DEF Types, TypeOK
  <2>2. /\ rotate \in SsoState \/ sso.issued >= MaxRt
        /\ rotate.issued = sso.issued + 1 /\ rotate.valid = (sso.valid \ {rt}) \cup {sso.issued + 1}
        /\ rotate.refused = sso.refused /\ rotate.lost = sso.lost
    <3>1. CASE sso.issued >= MaxRt
      BY <2>1, <3>1 DEF SsoState
    <3>2. CASE ~(sso.issued >= MaxRt)
      <4>1. sso.issued + 1 \in Rt
        BY <3>2, NextRt, ConstantsAssumption, SsoFields DEF Types, Rt
      <4>2. (sso.valid \ {rt}) \cup {sso.issued + 1} \in SUBSET Rt
        BY <4>1, SsoFields DEF Types
      <4> QED BY <2>1, <4>1, <4>2 DEF SsoState
    <3> QED BY <3>1, <3>2
  <2>3. ASSUME NEW s, s = [rotate EXCEPT !.lost = @ \cup {rt}]
        PROVE  /\ s.issued = rotate.issued /\ s.valid = rotate.valid
               /\ s.refused = rotate.refused /\ s.lost = rotate.lost \cup {rt}
               /\ rotate \in SsoState => s \in SsoState
    BY <1>1, <2>3, <2>1 DEF SsoState
  <2>5. \A r, p : reply(r, p) => task' = [task EXCEPT ![t] = replied(r, p)]
    BY <2>1 DEF replied
  <2>4. \/ /\ rt \in sso.valid /\ sso.issued < MaxRt
           /\ \/ reply("rotated", [rec EXCEPT !.rt = sso.issued + 1]) /\ sso' = rotate
              \/ reply("error", None) /\ sso' = [rotate EXCEPT !.lost = @ \cup {rt}]
        \/ /\ rt \notin sso.valid /\ UNCHANGED sso
           /\ reply("invalid_grant", [rec EXCEPT !.revoked = TRUE])
        \/ UNCHANGED sso /\ reply("error", None)
    BY DEF Answer
  <2>6. sso.issued < MaxRt => rotate \in SsoState
    BY <2>2, SsoFields, ConstantsAssumption DEF Types, Rt
  <2> HIDE DEF reply, rotate
  <2>7. rt \in sso.valid /\ sso' = rotate => Rotates(rt)
    BY <2>2 DEF Rotates
  <2>8. /\ rt \in sso.valid /\ sso' = [rotate EXCEPT !.lost = @ \cup {rt}] => Loses(rt)
        /\ sso' = [rotate EXCEPT !.lost = @ \cup {rt}] /\ rotate \in SsoState => sso' \in SsoState
    BY <2>2, <2>3 DEF Loses
  <2> QED BY <2>4, <2>5, <2>6, <2>7, <2>8
<1> QED BY <1>3, <1>4, <1>5, <1>6, <1>7

-----------------------------------------------------------------------------
(* The other steps that take a task further. *)
LEMMA IdleTask ==
  ASSUME Types, NEW t \in Task, At(t, "idle")
  PROVE  task[t] = Idle /\ Idle \in TaskState /\ task \in [Task -> TaskState]
BY IdleType DEF Types, TypeOK, WellFormed

LEMMA GetTokenMoves ==
  ASSUME Types, NEW t \in Task, GetToken(t)
  PROVE  \E r \in TaskState :
           /\ task' = [task EXCEPT ![t] = r] /\ WellFormed(r)
           /\ r.pc = "peek" /\ r.op = "none" /\ r.gen = 0
           /\ UNCHANGED Others
<1>1. task[t].op = "none" /\ task[t].gen = 0 /\ task[t].pc = "idle"
  BY IdleTask DEF GetToken, Idle
<1>2. PICK r \in TaskState : /\ task' = [task EXCEPT ![t] = r] /\ r.pc = "peek"
                             /\ r.op = "none" /\ r.gen = 0
  BY <1>1, GotoMoves DEF GetToken, Reads
<1>3. WellFormed(r)
  BY <1>2 DEF WellFormed, Flying, Logging, Lookup
<1> QED BY <1>2, <1>3 DEF GetToken, Others

LEMMA AddCharacterMoves ==
  ASSUME Types, NEW t \in Task, AddCharacter(t)
  PROVE  \E r \in TaskState :
           /\ task' = [task EXCEPT ![t] = r] /\ WellFormed(r)
           /\ r.pc = "existGet" /\ r.op = "add" /\ r.gen = 0
           /\ r.put \in Record /\ r.put.rt = sso.issued + 1
           /\ Logins /\ task[t].pc = "idle"
           /\ sso' \in SsoState
           /\ sso'.issued = sso.issued + 1 /\ sso'.valid = sso.valid \cup {sso.issued + 1}
           /\ sso'.refused = sso.refused /\ sso'.lost = sso.lost
           /\ UNCHANGED <<store, lease, gen, slot, dead>>
<1> DEFINE new == sso.issued + 1
           put == [rt |-> new, login |-> new, revoked |-> FALSE]
<1>1. /\ task[t] = Idle /\ Idle \in TaskState /\ task \in [Task -> TaskState]
      /\ sso.issued < MaxRt /\ Logins /\ task[t].pc = "idle"
      /\ UNCHANGED <<store, lease, gen, slot, dead>>
  BY IdleTask DEF AddCharacter
<1>2. new \in Rt
  BY <1>1, NextRt DEF Types
<1>3. put \in Record /\ put.rt = new /\ put.login = new /\ ~put.revoked
  BY <1>2 DEF Record
<1>4. sso \in SsoState /\ sso.valid \cup {new} \in SUBSET Rt
  BY <1>2, SsoFields DEF Types
<1>5. sso' = [sso EXCEPT !.issued = new, !.valid = @ \cup {new}]
  BY DEF AddCharacter
<1>6. /\ sso' \in SsoState /\ sso'.issued = new /\ sso'.valid = sso.valid \cup {new}
      /\ sso'.refused = sso.refused /\ sso'.lost = sso.lost
  BY <1>2, <1>4, <1>5 DEF SsoState
<1> HIDE DEF put
<1>7. PICK r : r = [Idle EXCEPT !.pc = "existGet", !.op = "add", !.put = put]
  OBVIOUS
<1>8. task' = [task EXCEPT ![t] = r]
  <2>1. task' = [task EXCEPT ![t].pc = "existGet", ![t].op = "add", ![t].put = put]
    BY DEF AddCharacter, put
  <2> QED BY <1>1, <1>7, <2>1
<1>9. /\ r \in TaskState /\ r.pc = "existGet" /\ r.op = "add" /\ r.put = put
      /\ r.gen = 0 /\ r.reply = "none"
  <2>1. Idle.gen = 0 /\ Idle.reply = "none"
    BY DEF Idle
  <2> QED BY <1>1, <1>3, <1>7, <2>1 DEF TaskState, Reads
<1>10. WellFormed(r)
  BY <1>3, <1>9 DEF WellFormed, Flying, Logging, Lookup
<1> QED BY <1>1, <1>3, <1>6, <1>8, <1>9, <1>10

LEMMA RemoveCharacterMoves ==
  ASSUME Types, NEW t \in Task, RemoveCharacter(t)
  PROVE  \E r \in TaskState :
           /\ task' = [task EXCEPT ![t] = r] /\ WellFormed(r)
           /\ r.pc = "existGet" /\ r.op = "remove" /\ r.gen = 0
           /\ Logins /\ UNCHANGED Others
<1>1. task[t] = Idle /\ Idle \in TaskState /\ task \in [Task -> TaskState]
  BY IdleTask DEF RemoveCharacter
<1>2. PICK r : r = [Idle EXCEPT !.pc = "existGet", !.op = "remove"]
  OBVIOUS
<1>3. /\ r \in TaskState /\ r.pc = "existGet" /\ r.op = "remove" /\ r.put = None
      /\ r.gen = 0 /\ r.reply = "none"
  <2>1. Idle.gen = 0 /\ Idle.reply = "none" /\ Idle.put = None
    BY DEF Idle
  <2>2. "existGet" \in Reads
    BY DEF Reads
  <2>3. /\ r.pc = "existGet" /\ r.op = "remove" /\ r.put = Idle.put
        /\ r.gen = Idle.gen /\ r.reply = Idle.reply
    BY <1>1, <1>2 DEF TaskState
  <2>4. r \in TaskState
    <3>1. [Idle EXCEPT !.pc = "existGet"] \in TaskState
      BY <1>1, <2>2 DEF TaskState
    <3> QED BY <1>2, <3>1 DEF TaskState
  <2> QED BY <2>1, <2>3, <2>4
<1>4. WellFormed(r)
  BY <1>3 DEF WellFormed, Flying, Logging, Lookup
<1>5. task' = [task EXCEPT ![t] = r]
  BY <1>1, <1>2 DEF RemoveCharacter
<1> QED BY <1>3, <1>4, <1>5 DEF RemoveCharacter, Others

LEMMA SeenGotMoves ==
  ASSUME Types, NEW t \in Task, SeenGot(t)
  PROVE  \/ Settle(t) /\ task[t].pc = "seenGot" /\ UNCHANGED <<store, gen, sso, dead>>
         \/ /\ UNCHANGED Others
            /\ \E r \in TaskState :
                 /\ task' = [task EXCEPT ![t] = r] /\ WellFormed(r)
                 /\ r.pc = "wait" /\ r.op = "refresh" /\ r.gen = task[t].gen
<1>1. CASE Settle(t)
  BY <1>1 DEF SeenGot
<1>2. CASE /\ Live(task[t].rec)
           /\ task' = [task EXCEPT ![t].seen = task[t].rec, ![t].pc = "wait"]
           /\ UNCHANGED <<lease, slot>>
  <2>1. /\ task[t] \in TaskState /\ task \in [Task -> TaskState] /\ task[t].op = "refresh"
        /\ task[t].reply = "none" /\ Locking
    BY DEF SeenGot, Types, TypeOK, WellFormed
  <2>2. PICK r : r = [task[t] EXCEPT !.seen = task[t].rec, !.pc = "wait"]
    OBVIOUS
  <2>3. /\ r \in TaskState /\ r.pc = "wait" /\ r.op = "refresh" /\ r.gen = task[t].gen
        /\ r.reply = "none"
    BY <2>1, <2>2 DEF TaskState
  <2>4. WellFormed(r)
    BY <2>1, <2>3 DEF WellFormed, Flying, Logging, Lookup
  <2>5. task' = [task EXCEPT ![t] = r]
    BY <1>2, <2>1, <2>2
  <2> QED BY <1>2, <2>3, <2>4, <2>5 DEF SeenGot, Others
<1> QED BY <1>1, <1>2 DEF SeenGot

LEMMA TakeLeaseMoves ==
  ASSUME Types, NEW t \in Task, TakeLease(t)
  PROVE  /\ lease = None /\ lease' = t /\ Locking
         /\ UNCHANGED <<store, gen, slot, sso, dead>>
         /\ \E r \in TaskState :
              /\ task' = [task EXCEPT ![t] = r] /\ WellFormed(r)
              /\ r.pc = "get" /\ r.op = "refresh" /\ r.gen = task[t].gen
<1>1. task[t].op = "refresh" /\ task[t].reply = "none" /\ Locking
  BY DEF TakeLease, Types, WellFormed
<1>2. PICK r \in TaskState : /\ task' = [task EXCEPT ![t] = r] /\ r.pc = "get" /\ r.op = "refresh"
                             /\ r.gen = task[t].gen /\ r.reply = "none"
  BY <1>1, GotoMoves DEF TakeLease, Reads
<1>3. WellFormed(r)
  BY <1>2 DEF WellFormed, Flying, Logging, Lookup
<1> QED BY <1>1, <1>2, <1>3 DEF TakeLease

LEMMA GotMoves ==
  ASSUME Types, NEW t \in Task, Got(t)
  PROVE  \/ Settle(t) /\ task[t].pc = "got" /\ UNCHANGED <<store, gen, sso, dead>>
         \/ /\ UNCHANGED Others /\ task[t].pc = "got" /\ Live(task[t].rec)
            /\ \E r \in TaskState :
                 /\ task' = [task EXCEPT ![t] = r] /\ WellFormed(r)
                 /\ r.pc = "sso" /\ r.op = "refresh" /\ r.gen = gen[Mgr(t)] /\ r.rec = task[t].rec
                 /\ r.reply = "none"
<1>1. CASE Settle(t)
  BY <1>1 DEF Got
<1>2. CASE /\ Live(task[t].rec)
           /\ task' = [task EXCEPT ![t].gen = gen[Mgr(t)], ![t].pc = "sso"]
           /\ UNCHANGED <<lease, slot>>
  <2>1. /\ task[t] \in TaskState /\ task \in [Task -> TaskState] /\ task[t].op = "refresh"
        /\ task[t].reply = "none" /\ task[t].pc = "got" /\ gen[Mgr(t)] \in 0 .. MaxGen
    BY DEF Got, Types, TypeOK, WellFormed, Task
  <2>2. PICK r : r = [task[t] EXCEPT !.gen = gen[Mgr(t)], !.pc = "sso"]
    OBVIOUS
  <2>3. /\ r \in TaskState /\ r.pc = "sso" /\ r.op = "refresh" /\ r.gen = gen[Mgr(t)]
        /\ r.reply = "none" /\ r.rec = task[t].rec
    BY <2>1, <2>2 DEF TaskState
  <2>4. WellFormed(r)
    BY <1>2, <2>1, <2>3 DEF WellFormed, Flying, Logging, Lookup
  <2>5. task' = [task EXCEPT ![t] = r]
    BY <1>2, <2>1, <2>2
  <2> QED BY <1>2, <2>1, <2>3, <2>4, <2>5 DEF Got, Others
<1> QED BY <1>1, <1>2 DEF Got

LEMMA ReplyMoves ==
  ASSUME Types, NEW t \in Task, Reply(t)
  PROVE  /\ task[t].pc = "reply" /\ UNCHANGED <<store, gen, sso, dead>>
         /\ \/ /\ Settle(t) /\ (task[t].reply = "rotated" => gen[Mgr(t)] # task[t].gen)
            \/ /\ UNCHANGED <<lease, slot>> /\ task[t].gen = gen[Mgr(t)] /\ task[t].op = "refresh"
               /\ \E r \in TaskState :
                    /\ task' = [task EXCEPT ![t] = r] /\ WellFormed(r)
                    /\ r.pc = "put" /\ r.op = "refresh" /\ r.rec = task[t].rec
                    /\ r.gen = task[t].gen /\ r.reply = task[t].reply /\ r.put = task[t].put
<1>1. CASE ~(task[t].reply # "error" /\ gen[Mgr(t)] = task[t].gen) /\ Settle(t)
  BY <1>1 DEF Reply
<1>2. CASE /\ task[t].reply # "error" /\ gen[Mgr(t)] = task[t].gen
           /\ Goto(t, "put") /\ UNCHANGED <<lease, slot>>
  <2>1. WellFormed(task[t]) /\ task[t].pc = "reply" /\ task[t].op = "refresh"
    BY DEF Reply, Types, WellFormed
  <2>2. PICK r \in TaskState : /\ task' = [task EXCEPT ![t] = r] /\ r.pc = "put" /\ r.op = "refresh"
                               /\ r.rec = task[t].rec /\ r.gen = task[t].gen
                               /\ r.reply = task[t].reply /\ r.put = task[t].put
    BY <1>2, <2>1, GotoMoves
  <2>3. WellFormed(r)
    BY <1>2, <2>1, <2>2 DEF WellFormed, Flying, Logging, Lookup
  <2> QED BY <1>2, <2>1, <2>2, <2>3 DEF Reply
<1> QED BY <1>1, <1>2 DEF Reply

LEMMA ExistGotMoves ==
  ASSUME Types, NEW t \in Task, ExistGot(t)
  PROVE  /\ task[t].pc = "existGot" /\ Logging(task[t]) /\ UNCHANGED <<store, gen, sso, dead>>
         /\ \/ Settle(t)
            \/ /\ UNCHANGED <<lease, slot>>
               /\ \E r \in TaskState :
                    /\ task' = [task EXCEPT ![t] = r] /\ WellFormed(r)
                    /\ r.pc \in {"put", "revoke"} /\ r.op = task[t].op
                    /\ r.gen = task[t].gen /\ r.put = task[t].put
<1>1. WellFormed(task[t]) /\ task[t].pc = "existGot" /\ Logging(task[t])
  BY DEF ExistGot, Types, WellFormed, Lookup
<1>2. CASE Settle(t)
  BY <1>1, <1>2 DEF ExistGot
<1>3. CASE /\ Goto(t, "put") \/ (Live(task[t].rec) /\ Goto(t, "revoke"))
           /\ UNCHANGED <<lease, slot>>
  <2>1. PICK label \in {"put", "revoke"} :
          Goto(t, label) /\ (label = "revoke" => Live(task[t].rec))
    BY <1>3
  <2>2. PICK r \in TaskState : /\ task' = [task EXCEPT ![t] = r] /\ r.pc = label
                               /\ r.op = task[t].op /\ r.rec = task[t].rec /\ r.gen = task[t].gen
                               /\ r.reply = task[t].reply /\ r.put = task[t].put
    BY <2>1, GotoMoves
  <2>3. WellFormed(r)
    BY <1>1, <2>1, <2>2 DEF WellFormed, Flying, Logging, Lookup
  <2> QED BY <1>1, <1>3, <2>1, <2>2, <2>3 DEF ExistGot
<1> QED BY <1>2, <1>3 DEF ExistGot

(* A token that is refused from now on. *)
Refuses(rt) ==
  /\ sso'.issued = sso.issued /\ sso'.valid = sso.valid \ {rt}
  /\ sso'.refused = sso.refused \cup {rt} /\ sso'.lost = sso.lost

LEMMA RevokeMoves ==
  ASSUME Types, NEW t \in Task, Revoke(t)
  PROVE  /\ task[t].pc = "revoke" /\ Logging(task[t]) /\ UNCHANGED <<store, gen, dead>>
         /\ \/ Settle(t) /\ UNCHANGED sso
            \/ /\ UNCHANGED <<lease, slot>>
               /\ sso' \in SsoState /\ Refuses(task[t].rec.rt)
               /\ \E r \in TaskState :
                    /\ task' = [task EXCEPT ![t] = r] /\ WellFormed(r)
                    /\ r.pc = "put" /\ r.op = task[t].op
                    /\ r.gen = task[t].gen /\ r.put = task[t].put
<1> DEFINE rt == task[t].rec.rt
<1>1. /\ WellFormed(task[t]) /\ task[t].pc = "revoke" /\ Logging(task[t])
      /\ UNCHANGED <<store, gen, dead>>
  BY DEF Revoke, Types, WellFormed, Lookup
<1>2. CASE Settle(t) /\ UNCHANGED sso
  BY <1>1, <1>2
<1>3. CASE /\ sso' = [sso EXCEPT !.valid = @ \ {rt}, !.refused = @ \cup {rt}]
           /\ Goto(t, "put") /\ UNCHANGED <<lease, slot>>
  <2>1. PICK r \in TaskState : /\ task' = [task EXCEPT ![t] = r] /\ r.pc = "put"
                               /\ r.op = task[t].op /\ r.gen = task[t].gen
                               /\ r.reply = task[t].reply /\ r.put = task[t].put
    BY <1>3, GotoMoves
  <2>2. WellFormed(r)
    BY <1>1, <2>1 DEF WellFormed, Flying, Logging, Lookup
  <2>3. rt \in Rt
    <3>1. task[t] \in TaskState /\ Live(task[t].rec)
      BY <1>1 DEF Types, TypeOK, WellFormed
    <3> QED BY <3>1 DEF TaskState, Live, Record
  <2>4. sso.valid \ {rt} \in SUBSET Rt /\ sso.refused \cup {rt} \in SUBSET Rt
    BY <2>3, SsoFields DEF Types
  <2>5. sso' \in SsoState /\ Refuses(rt)
    BY <1>3, <2>4, SsoFields DEF Types, SsoState, Refuses
  <2> QED BY <1>1, <1>3, <2>1, <2>2, <2>5
<1> QED BY <1>2, <1>3 DEF Revoke

LEMMA WriteMoves ==
  ASSUME Types, NEW t \in Task, Write(t)
  PROVE  /\ task[t].pc = "put" /\ store' = task[t].put /\ store' \in Record \cup {None}
         /\ UNCHANGED <<lease, gen, slot, sso, dead>>
         /\ \E r \in TaskState :
              /\ task' = [task EXCEPT ![t] = r] /\ WellFormed(r)
              /\ r.pc = "putDone" /\ r.op = task[t].op /\ r.gen = task[t].gen /\ r.put = task[t].put
              /\ r.gone = IF store = None THEN None ELSE store.login
<1> DEFINE gone == IF store = None THEN None ELSE store.login
<1>1. /\ WellFormed(task[t]) /\ task[t] \in TaskState /\ task[t].pc = "put"
      /\ store' = task[t].put /\ UNCHANGED <<lease, gen, slot, sso, dead>>
      /\ task \in [Task -> TaskState] /\ store \in Record \cup {None}
  BY DEF Write, Types, TypeOK
<1>2. store' \in Record \cup {None} /\ gone \in Rt \cup {None}
  BY <1>1 DEF TaskState, Record
<1> HIDE DEF gone
<1>3. PICK r : r = [task[t] EXCEPT !.pc = "putDone", !.gone = gone]
  OBVIOUS
<1>4. task' = [task EXCEPT ![t] = r]
  BY <1>1, <1>3 DEF Write, gone
<1>5. /\ r \in TaskState /\ r.pc = "putDone" /\ r.op = task[t].op /\ r.gen = task[t].gen
      /\ r.put = task[t].put /\ r.gone = gone /\ r.reply = task[t].reply
  BY <1>1, <1>2, <1>3 DEF TaskState, Continuing
<1>6. WellFormed(r)
  BY <1>1, <1>5 DEF WellFormed, Flying, Logging, Lookup
<1> QED BY <1>1, <1>2, <1>4, <1>5, <1>6 DEF gone

LEMMA UnstoredAreTokens ==
  ASSUME Types, NEW ts, ts \subseteq Task
  PROVE  Unstored(ts) \subseteq Rt
<1>1. ASSUME NEW t \in Task, task[t].pc \in {"reply", "put"}, task[t].reply = "rotated"
      PROVE  Flying(task[t]) /\ task[t].rec.rt \in Rt
  <2>1. task[t] \in TaskState /\ WellFormed(task[t])
    BY DEF Types, TypeOK
  <2>2. task[t].op = "refresh"
    BY <1>1, <2>1 DEF WellFormed, TaskState, Logging
  <2>3. Flying(task[t]) /\ Live(task[t].rec)
    BY <1>1, <2>1, <2>2 DEF WellFormed, Flying
  <2> QED BY <2>1, <2>3 DEF TaskState, Live, Record
<1> QED BY <1>1 DEF Unstored

LEMMA LosesType ==
  ASSUME Types, NEW lost, lost \subseteq Rt, sso' = [sso EXCEPT !.lost = @ \cup lost]
  PROVE  /\ sso' \in SsoState /\ sso'.issued = sso.issued /\ sso'.valid = sso.valid
         /\ sso'.refused = sso.refused /\ sso'.lost = sso.lost \cup lost
<1>1. sso.lost \cup lost \in SUBSET Rt
  BY SsoFields DEF Types
<1> QED BY <1>1, SsoFields DEF Types, SsoState

LEMMA WriteFailsMoves ==
  ASSUME Types, NEW t \in Task, WriteFails(t)
  PROVE  /\ task[t].pc = "put" /\ Settle(t) /\ UNCHANGED <<store, gen, dead>>
         /\ sso' \in SsoState /\ sso'.issued = sso.issued /\ sso'.valid = sso.valid
         /\ sso'.refused = sso.refused /\ sso'.lost = sso.lost \cup Unstored({t})
<1>1. Unstored({t}) \subseteq Rt
  BY UnstoredAreTokens
<1> QED BY <1>1, LosesType DEF WriteFails

LEMMA PutDoneMoves ==
  ASSUME Types, NEW t \in Task, PutDone(t)
  PROVE  /\ task[t].pc = "putDone" /\ UNCHANGED <<store, sso>>
         /\ \/ task[t].op = "refresh" /\ Settle(t) /\ UNCHANGED <<gen, dead>>
            \/ /\ Logging(task[t]) /\ gen' = [gen EXCEPT ![Mgr(t)] = @ + 1]
               /\ gen' \in [Manager -> 0 .. MaxGen]
               /\ slot' = [slot EXCEPT ![Mgr(t)] = None] /\ slot' \in [Manager -> Task \cup {None}]
               /\ dead' = dead \cup ({task[t].gone} \ {None}) /\ dead' \in SUBSET Rt
               /\ task' = [task EXCEPT ![t] = Idle] /\ UNCHANGED lease
<1>1. task[t].pc = "putDone" /\ UNCHANGED <<store, sso>>
  BY DEF PutDone
<1>2. CASE task[t].op = "refresh" /\ Settle(t) /\ UNCHANGED <<gen, dead>>
  BY <1>1, <1>2
<1>3. CASE /\ task[t].op # "refresh" /\ gen[Mgr(t)] < MaxGen
           /\ gen' = [gen EXCEPT ![Mgr(t)] = @ + 1]
           /\ slot' = [slot EXCEPT ![Mgr(t)] = None]
           /\ dead' = dead \cup ({task[t].gone} \ {None})
           /\ task' = [task EXCEPT ![t] = Idle] /\ UNCHANGED lease
  <2>1. /\ WellFormed(task[t]) /\ task[t] \in TaskState /\ gen \in [Manager -> 0 .. MaxGen]
        /\ slot \in [Manager -> Task \cup {None}] /\ dead \in SUBSET Rt
    BY DEF Types, TypeOK
  <2>2. Logging(task[t]) /\ task[t].gone \in Rt \cup {None}
    BY <1>1, <1>3, <2>1 DEF WellFormed, TaskState, Logging
  <2>3. gen[Mgr(t)] + 1 \in 0 .. MaxGen
    BY <1>3, <2>1, ConstantsAssumption DEF Task
  <2>4. gen' \in [Manager -> 0 .. MaxGen]
    BY <1>3, <2>1, <2>3
  <2>5. slot' \in [Manager -> Task \cup {None}] /\ dead' \in SUBSET Rt
    BY <1>3, <2>1, <2>2
  <2> QED BY <1>1, <1>3, <2>2, <2>4, <2>5
<1> QED BY <1>2, <1>3 DEF PutDone

LEMMA CrashMoves ==
  ASSUME Types, NEW m \in Manager, Crash(m)
  PROVE  /\ UNCHANGED <<store, dead>>
         /\ task' \in [Task -> TaskState] /\ (\A u \in Task : WellFormed(task'[u]))
         /\ \A u \in Task : task'[u] = IF Mgr(u) = m THEN Idle ELSE task[u]
         /\ lease' = (IF lease # None /\ Mgr(lease) = m THEN None ELSE lease)
         /\ lease' \in Task \cup {None}
         /\ gen' = [gen EXCEPT ![m] = 0] /\ gen' \in [Manager -> 0 .. MaxGen]
         /\ slot' = [slot EXCEPT ![m] = None] /\ slot' \in [Manager -> Task \cup {None}]
         /\ sso' \in SsoState /\ sso'.issued = sso.issued /\ sso'.valid = sso.valid
         /\ sso'.refused = sso.refused
         /\ sso'.lost = sso.lost \cup Unstored({t \in Task : Mgr(t) = m})
<1>1. /\ task' = [t \in Task |-> IF Mgr(t) = m THEN Idle ELSE task[t]]
      /\ lease' = IF lease # None /\ Mgr(lease) = m THEN None ELSE lease
      /\ gen' = [gen EXCEPT ![m] = 0] /\ slot' = [slot EXCEPT ![m] = None]
      /\ sso' = [sso EXCEPT !.lost = @ \cup Unstored({t \in Task : Mgr(t) = m})]
      /\ UNCHANGED <<store, dead>>
  BY DEF Crash
<1>2. /\ task' \in [Task -> TaskState] /\ (\A u \in Task : WellFormed(task'[u]))
      /\ \A u \in Task : task'[u] = IF Mgr(u) = m THEN Idle ELSE task[u]
  BY <1>1, IdleType DEF Types, TypeOK
<1>3. /\ lease' \in Task \cup {None} /\ slot' \in [Manager -> Task \cup {None}]
      /\ gen' \in [Manager -> 0 .. MaxGen]
  BY <1>1, ConstantsAssumption DEF Types, TypeOK
<1>4. Unstored({t \in Task : Mgr(t) = m}) \subseteq Rt
  BY UnstoredAreTokens
<1> HIDE DEF Mgr
<1>5. /\ sso' \in SsoState /\ sso'.issued = sso.issued /\ sso'.valid = sso.valid
      /\ sso'.refused = sso.refused
      /\ sso'.lost = sso.lost \cup Unstored({t \in Task : Mgr(t) = m})
  BY <1>1, <1>4, LosesType
<1> QED BY <1>1, <1>2, <1>3, <1>5

LEMMA PlayerRevokesMoves ==
  ASSUME Types, PlayerRevokes
  PROVE  /\ UNCHANGED <<store, lease, gen, slot, task, dead>> /\ sso' \in SsoState
         /\ sso'.issued = sso.issued /\ sso'.valid = {}
         /\ sso'.refused = sso.refused \cup sso.valid /\ sso'.lost = sso.lost
<1>1. sso' = [sso EXCEPT !.valid = {}, !.refused = @ \cup sso.valid]
  BY DEF PlayerRevokes
<1>2. sso.refused \cup sso.valid \in SUBSET Rt /\ {} \in SUBSET Rt
  BY SsoFields DEF Types
<1>3. /\ sso' \in SsoState /\ sso'.issued = sso.issued /\ sso'.valid = {}
      /\ sso'.refused = sso.refused \cup sso.valid /\ sso'.lost = sso.lost
  BY <1>1, <1>2, SsoFields DEF Types, SsoState
<1> QED BY <1>3 DEF PlayerRevokes

-----------------------------------------------------------------------------
(* The step of the types. *)
LEMMA TypesKept ==
  ASSUME Types, NEW t \in Task, NEW r \in TaskState, WellFormed(r),
         task' = [task EXCEPT ![t] = r],
         store' \in Record \cup {None}, lease' \in Task \cup {None},
         gen' \in [Manager -> 0 .. MaxGen], slot' \in [Manager -> Task \cup {None}],
         sso' \in SsoState, dead' \in SUBSET Rt
  PROVE  Types'
<1>1. task' \in [Task -> TaskState] /\ \A u \in Task : WellFormed(task'[u])
  BY OneTask
<1> QED BY <1>1 DEF Types, TypeOK, SsoState

LEMMA OthersType ==
  ASSUME Types
  PROVE  /\ store \in Record \cup {None} /\ lease \in Task \cup {None}
         /\ gen \in [Manager -> 0 .. MaxGen] /\ slot \in [Manager -> Task \cup {None}]
         /\ sso \in SsoState /\ dead \in SUBSET Rt
BY DEF Types, TypeOK, SsoState

LEMMA ProceedTypes == ASSUME Types, NEW t \in Task, Proceed(t) PROVE Types'
<1>1. CASE Read(t)
  BY <1>1, ReadMoves, OthersType, TypesKept DEF Others
<1>2. CASE Write(t)
  BY <1>2, WriteMoves, OthersType, TypesKept
<1>3. CASE WriteFails(t)
  BY <1>3, WriteFailsMoves, SettleType, IdleType, OthersType, TypesKept
<1>4. CASE TakeLease(t)
  BY <1>4, TakeLeaseMoves, OthersType, TypesKept
<1>5. CASE LeaseTimesOut(t)
  BY <1>5, SettleType, IdleType, OthersType, TypesKept DEF LeaseTimesOut
<1>6. CASE Answer(t)
  BY <1>6, AnswerMoves, OthersType, TypesKept
<1>7. CASE Reply(t)
  BY <1>7, ReplyMoves, SettleType, IdleType, OthersType, TypesKept
<1>8. CASE Revoke(t)
  BY <1>8, RevokeMoves, SettleType, IdleType, OthersType, TypesKept
<1>9. CASE ReadFails(t)
  BY <1>9, SettleType, IdleType, OthersType, TypesKept DEF ReadFails
<1> QED BY <1>1, <1>2, <1>3, <1>4, <1>5, <1>6, <1>7, <1>8, <1>9 DEF Proceed

(* A call that begins a refresh. *)
LEMMA StartTypes ==
  ASSUME Types, NEW t \in Task, NEW from \in Record \cup {None}, Start(t, from)
  PROVE  Types'
<1>1. slot' \in [Manager -> Task \cup {None}]
  BY StartMoves DEF Types, TypeOK
<1> QED BY <1>1, StartMoves, OthersType, TypesKept

LEMMA PeekedMoves ==
  ASSUME Types, NEW t \in Task, Peeked(t)
  PROVE  /\ task[t].pc = "peeked"
         /\ \/ Settle(t) /\ UNCHANGED <<store, gen, sso, dead>>
            \/ \E from \in Record \cup {None} : Start(t, from)
<1>1. task[t].rec \in Record \cup {None}
  BY DEF Types, TypeOK, TaskState
<1> QED BY <1>1 DEF Peeked

LEMMA ContinueTypes == ASSUME Types, NEW t \in Task, Continue(t) PROVE Types'
<1>1. CASE Peeked(t)
  BY <1>1, PeekedMoves, SettleType, StartTypes, IdleType, OthersType, TypesKept
<1>2. CASE SeenGot(t)
  BY <1>2, SeenGotMoves, SettleType, IdleType, OthersType, TypesKept DEF Others
<1>3. CASE Got(t)
  BY <1>3, GotMoves, SettleType, IdleType, OthersType, TypesKept DEF Others
<1>4. CASE ExistGot(t)
  BY <1>4, ExistGotMoves, SettleType, IdleType, OthersType, TypesKept
<1>5. CASE PutDone(t)
  BY <1>5, PutDoneMoves, SettleType, IdleType, OthersType, TypesKept
<1> QED BY <1>1, <1>2, <1>3, <1>4, <1>5 DEF Continue

LEMMA CallTypes == ASSUME Types, NEW t \in Task, Call(t) PROVE Types'
<1>1. CASE Refresh(t)
  BY <1>1, StartTypes DEF Refresh
<1>2. CASE GetToken(t)
  BY <1>2, GetTokenMoves, OthersType, TypesKept DEF Others
<1>3. CASE AddCharacter(t)
  BY <1>3, AddCharacterMoves, OthersType, TypesKept
<1>4. CASE RemoveCharacter(t)
  BY <1>4, RemoveCharacterMoves, OthersType, TypesKept DEF Others
<1> QED BY <1>1, <1>2, <1>3, <1>4 DEF Call

LEMMA TypesInit == Init => Types
<1> SUFFICES ASSUME Init PROVE Types
  OBVIOUS
<1>1. 1 \in Rt /\ 0 \in 0 .. MaxGen
  BY ConstantsAssumption DEF Rt
<1>2. store \in Record
  BY <1>1 DEF Init, Record
<1>3. /\ task \in [Task -> TaskState] /\ \A t \in Task : WellFormed(task[t])
  BY IdleType DEF Init
<1>4. sso \in SsoState
  BY <1>1 DEF Init, SsoState
<1> QED BY <1>1, <1>2, <1>3, <1>4 DEF Init, Types, TypeOK, SsoState

LEMMA TypesStep == Types /\ [Next]_vars => Types'
<1> SUFFICES ASSUME Types, [Next]_vars PROVE Types'
  OBVIOUS
<1>1. CASE \E t \in Task : Continue(t) \/ Proceed(t) \/ Call(t)
  BY <1>1, ContinueTypes, ProceedTypes, CallTypes
<1>2. CASE PlayerRevokes
  BY <1>2, PlayerRevokesMoves DEF Types, TypeOK, SsoState
<1>3. CASE \E m \in Manager : Crash(m)
  BY <1>3, CrashMoves DEF Types, TypeOK, SsoState
<1>4. CASE UNCHANGED vars
  BY <1>4 DEF vars, Types, TypeOK
<1> QED BY <1>1, <1>2, <1>3, <1>4 DEF Next

(* Types are kept, and the locals of a call are those its place needs: what *)
(* is sent to SSO is a live record, and what is stored is a whole one with  *)
(* the login it descends from, whichever calls, failures and crashes there  *)
(* were.                                                                    *)
THEOREM TypeCorrect == Spec => [](TypeOK /\ \A t \in Task : WellFormed(task[t]))
<1>1. Types => TypeOK /\ \A t \in Task : WellFormed(task[t])
  BY DEF Types
<1> QED BY <1>1, TypesInit, TypesStep, PTL DEF Spec

-----------------------------------------------------------------------------
(* The inductive invariant.                                                *)

(* A login or a removal has written and has not noted it yet.  Until it has, *)
(* and after it has, the refreshes begun before it are overtaken.           *)
Replacer(r) == Logging(r) /\ r.pc = "putDone"
Overtaken(t) ==
  \/ task[t].gen # gen[Mgr(t)]
  \/ \E w \in Task : Replacer(task[w])

(* A refresh that still counts, from its read of the record to its write.   *)
Active(t) == task[t].pc \in {"get", "got"} \/ (Flying(task[t]) /\ ~Overtaken(t))

(* A record that SSO has just issued and the store does not hold yet.       *)
Newly(r) ==
  \/ r.op = "add" /\ r.pc \in Lookup \cup {"put"}
  \/ Flying(r) /\ r.reply = "rotated"

Spendable(rt) == rt \in sso.valid \cup Ended

(* It holds the lease, or without leases its manager's slot.                *)
HasTurn(t) ==
  /\ Locking /\ task[t].op = "refresh"
       /\ task[t].pc \in {"get", "got", "sso", "reply", "put", "putDone"} => lease = t
  /\ ~Locking /\ Active(t) => slot[Mgr(t)] = t

(* What it read is what is stored, and otherwise not the token stored.      *)
ReadLast(t) ==
  /\ task[t].pc = "got" => task[t].rec = store
  /\ Flying(task[t]) /\ ~Overtaken(t) => task[t].rec = store
  /\ Flying(task[t]) /\ Overtaken(t) =>
       task[t].pc # "put" /\ (store # None => task[t].rec.rt # store.rt)

SendsOwn(t) == Flying(task[t]) =>
  /\ task[t].rec.rt <= sso.issued
  /\ task[t].pc = "sso" => Spendable(task[t].rec.rt)
  /\ task[t].reply = "invalid_grant" => task[t].rec.rt \in Ended

BringsNew(t) == Newly(task[t]) =>
  /\ task[t].put.rt <= sso.issued /\ Spendable(task[t].put.rt)
  /\ store # None => store.rt # task[t].put.rt
  /\ Flying(task[t]) => task[t].rec.rt # task[t].put.rt
  /\ task[t].op = "add" =>
       task[t].put.rt \notin dead /\ (store # None => store.login # task[t].put.rt)

Replaced(t) == Replacer(task[t]) /\ task[t].gone # None =>
  /\ task[t].gone <= sso.issued
  /\ store # None => store.login # task[t].gone

Own(t) ==
  /\ task[t].gen <= gen[Mgr(t)]
  /\ Logging(task[t]) => Logins
  /\ HasTurn(t) /\ ReadLast(t) /\ SendsOwn(t) /\ BringsNew(t) /\ Replaced(t)

(* What two tasks may not have in common.                                   *)
Apart(t, u) ==
  /\ Newly(task[t]) /\ Flying(task[u]) => task[t].put.rt # task[u].rec.rt
  /\ Newly(task[t]) /\ Newly(task[u]) => task[t].put.rt # task[u].put.rt
  /\ task[t].pc = "sso" /\ task[u].pc = "sso" => task[t].rec.rt # task[u].rec.rt
  /\ Newly(task[t]) /\ task[t].op = "add" /\ Replacer(task[u]) /\ task[u].gone # None =>
       task[t].put.rt # task[u].gone
  /\ ~Gap => ~(task[t].pc \in InStorage /\ task[u].pc \in InStorage)

StoreKnown ==
  /\ store # None => /\ store.rt <= sso.issued /\ store.login <= sso.issued
                     /\ store.login \notin dead
                     /\ store.revoked => store.rt \in Ended
  /\ \A l \in dead : l <= sso.issued
  /\ ~Logins => \A m \in Manager : gen[m] = 0

Replaces(t) == Flying(task[t]) /\ task[t].reply = "rotated" /\ task[t].rec = store
StoreUsable == Live(store) => Spendable(store.rt) \/ \E t \in Task : Replaces(t)

Ind ==
  /\ Types /\ StoreKnown /\ StoreUsable
  /\ \A t \in Task : Own(t)
  /\ \A t, u \in Task : t # u => Apart(t, u)

(* One manager over a storage that answers at once, or any number of them   *)
(* over any storage that provides the lease, and nobody adds or removes the *)
(* character meanwhile.                                                     *)
Alone == \A m, n \in Manager : m = n
Regime == (Alone /\ ~Gap) \/ (~Logins /\ (Alone \/ Locking))

LEMMA TokensAreNumbers ==
  /\ Rt \subseteq Nat
  /\ Types => /\ sso.issued \in Rt /\ gen \in [Manager -> Nat]
              /\ \A t \in Task : task[t] \in TaskState /\ task[t].gen \in Nat
              /\ store # None => store.rt \in Rt /\ store.login \in Rt
<1>1. Rt \subseteq Nat /\ 0 .. MaxGen \subseteq Nat
  BY ConstantsAssumption DEF Rt
<1>2. ASSUME Types
      PROVE  /\ sso.issued \in Rt /\ gen \in [Manager -> Nat]
             /\ \A t \in Task : task[t] \in TaskState /\ task[t].gen \in Nat
             /\ store # None => store.rt \in Rt /\ store.login \in Rt
  <2>1. sso.issued \in Rt /\ gen \in [Manager -> Nat] /\ store \in Record \cup {None}
    BY <1>1, <1>2, SsoFields DEF Types, TypeOK
  <2>2. \A t \in Task : task[t] \in TaskState
    BY <1>2 DEF Types, TypeOK
  <2>3. \A t \in Task : task[t].gen \in Nat
    BY <1>1, <2>2 DEF TaskState
  <2>4. store # None => store.rt \in Rt /\ store.login \in Rt
    BY <2>1 DEF Record
  <2> QED BY <2>1, <2>2, <2>3, <2>4
<1> QED BY <1>1, <1>2

(* The tokens in the locals of a task. *)
LEMMA TaskTokens ==
  ASSUME Types, NEW t \in Task
  PROVE  /\ Flying(task[t]) => task[t].rec \in Record /\ task[t].rec.rt \in Rt
         /\ Newly(task[t]) => task[t].put \in Record /\ task[t].put.rt \in Rt
         /\ task[t].gone # None => task[t].gone \in Rt
<1>1. task[t] \in TaskState /\ WellFormed(task[t])
  BY DEF Types, TypeOK
<1>2. ASSUME Flying(task[t]) PROVE task[t].rec \in Record /\ task[t].rec.rt \in Rt
  <2>1. task[t].rec \in Record
    BY <1>1, <1>2 DEF WellFormed, Live, TaskState
  <2> QED BY <2>1 DEF Record
<1>3. ASSUME Newly(task[t]) PROVE task[t].put \in Record /\ task[t].put.rt \in Rt
  <2>1. task[t].put \in Record
    BY <1>1, <1>3 DEF WellFormed, Newly, Flying
  <2> QED BY <2>1 DEF Record
<1>4. task[t].gone # None => task[t].gone \in Rt
  BY <1>1 DEF TaskState
<1> QED BY <1>2, <1>3, <1>4

(* No two refreshes count at a time. *)
LEMMA Exclusion ==
  ASSUME Ind, Regime, NEW t \in Task, NEW u \in Task, t # u, Active(t)
  PROVE  ~Active(u)
<1> SUFFICES ASSUME Active(u) PROVE FALSE
  OBVIOUS
<1>1. ASSUME NEW v \in Task, Active(v)
      PROVE  /\ task[v].op = "refresh"
             /\ task[v].pc \in {"get", "got", "sso", "reply", "put", "putDone"}
  BY <1>1 DEF Ind, Types, WellFormed, Active, Flying
<1>2. CASE Locking
  BY <1>1, <1>2 DEF Ind, Own, HasTurn
<1>3. CASE ~Locking
  <2>1. slot[Mgr(t)] = t /\ slot[Mgr(u)] = u
    BY <1>3 DEF Ind, Own, HasTurn
  <2>2. Mgr(t) = Mgr(u)
    BY <1>3 DEF Regime, Alone, Task
  <2> QED BY <2>1, <2>2
<1> QED BY <1>2, <1>3

(* While a task takes a step no other is between its write and its note.    *)
LEMMA Calm ==
  ASSUME Ind, Regime, NEW t \in Task, Undisturbed(t), NEW u \in Task, u # t
  PROVE  /\ ~Replacer(task[u])
         /\ ~Gap => task[u].pc \notin InStorage
<1>1. CASE Gap
  <2>1. ~Logins
    BY <1>1 DEF Regime
  <2>2. ~Logging(task[u])
    BY <2>1 DEF Ind, Own
  <2> QED BY <1>1, <2>2 DEF Replacer
<1>2. CASE ~Gap
  BY <1>2 DEF Undisturbed, InStorage, Continuing, Replacer
<1> QED BY <1>1, <1>2

-----------------------------------------------------------------------------
(* A step of one task that leaves to the others what they rely on.          *)
Frame(t, r) ==
  /\ task' = [task EXCEPT ![t] = r]
  /\ UNCHANGED <<store, gen, dead>>
  /\ ~Replacer(r) /\ \A u \in Task : ~Replacer(task[u])
  /\ \A u \in Task \ {t} :
       (lease = u => lease' = u) /\ (slot[Mgr(u)] = u => slot'[Mgr(u)] = u)
  /\ sso.issued <= sso'.issued /\ sso'.issued \in Nat /\ Ended \subseteq Ended'
  /\ \A u \in Task \ {t} :
       /\ task[u].pc = "sso" => task[u].rec.rt \in sso'.valid \cup Ended'
       /\ Newly(task[u]) => task[u].put.rt \in sso'.valid \cup Ended'

LEMMA FrameMeans ==
  ASSUME Ind, NEW t \in Task, NEW r \in TaskState, Frame(t, r)
  PROVE  /\ task'[t] = r /\ \A u \in Task : u # t => task'[u] = task[u]
         /\ \A u \in Task : u # t => (Overtaken(u)' <=> Overtaken(u))
         /\ Overtaken(t)' <=> r.gen # gen[Mgr(t)]
         /\ \A u \in Task : Overtaken(u) <=> task[u].gen # gen[Mgr(u)]
<1>1. task'[t] = r /\ \A u \in Task : u # t => task'[u] = task[u]
  BY DEF Ind, Types, TypeOK, Frame
<1>2. ~\E w \in Task : Replacer(task'[w])
  BY <1>1 DEF Frame
<1>3. ~\E w \in Task : Replacer(task[w])
  BY DEF Frame
<1>4. gen' = gen
  BY DEF Frame
<1> QED BY <1>1, <1>2, <1>3, <1>4 DEF Overtaken

LEMMA AtMost ==
  ASSUME NEW i \in Nat, NEW j \in Nat, i <= j
  PROVE  \A n \in Nat : n <= i => n <= j
OBVIOUS

LEMMA FrameIssues ==
  ASSUME Ind, NEW t \in Task, NEW r \in TaskState, Frame(t, r)
  PROVE  \A n \in Nat : n <= sso.issued => n <= sso'.issued
<1>1. sso.issued \in Nat
  BY TokensAreNumbers DEF Ind
<1>2. sso'.issued \in Nat /\ sso.issued <= sso'.issued
  BY DEF Frame
<1> QED BY <1>1, <1>2, AtMost

LEMMA FrameKeepsOthers ==
  ASSUME Ind, NEW t \in Task, NEW r \in TaskState, Frame(t, r), NEW u \in Task, u # t
  PROVE  Own(u)'
<1>1. /\ task'[u] = task[u] /\ (Overtaken(u)' <=> Overtaken(u))
      /\ store' = store /\ gen' = gen /\ dead' = dead
      /\ (lease = u => lease' = u) /\ (slot[Mgr(u)] = u => slot'[Mgr(u)] = u)
  BY FrameMeans DEF Frame
<1>2. Own(u)
  BY DEF Ind
<1>3. HasTurn(u)'
  BY <1>1, <1>2 DEF Own, HasTurn, Active
<1>4. ReadLast(u)'
  BY <1>1, <1>2 DEF Own, ReadLast
<1>5. \A n \in Nat : n <= sso.issued => n <= sso'.issued
  BY FrameIssues
<1>6. SendsOwn(u)'
  <2>1. SUFFICES ASSUME Flying(task[u])
                 PROVE  /\ task[u].rec.rt <= sso'.issued
                        /\ task[u].pc = "sso" => task[u].rec.rt \in sso'.valid \cup Ended'
                        /\ task[u].reply = "invalid_grant" => task[u].rec.rt \in Ended'
    BY <1>1 DEF SendsOwn, Spendable
  <2>2. task[u].rec.rt \in Nat
    BY <2>1, TaskTokens, TokensAreNumbers DEF Ind
  <2> QED BY <1>2, <1>5, <2>1, <2>2 DEF Own, SendsOwn, Frame
<1>7. BringsNew(u)'
  <2>1. SUFFICES ASSUME Newly(task[u])
                 PROVE  /\ task[u].put.rt <= sso'.issued
                        /\ task[u].put.rt \in sso'.valid \cup Ended'
    BY <1>1, <1>2 DEF Own, BringsNew, Spendable
  <2>2. task[u].put.rt \in Nat
    BY <2>1, TaskTokens, TokensAreNumbers DEF Ind
  <2> QED BY <1>2, <1>5, <2>1, <2>2 DEF Own, BringsNew, Frame
<1>8. Replaced(u)'
  BY <1>1 DEF Frame, Replaced
<1> QED BY <1>1, <1>2, <1>3, <1>4, <1>6, <1>7, <1>8 DEF Own

LEMMA FrameKeepsStore ==
  ASSUME Ind, NEW t \in Task, NEW r \in TaskState, Frame(t, r)
  PROVE  StoreKnown'
<1>1. store' = store /\ gen' = gen /\ dead' = dead /\ Ended \subseteq Ended'
  BY DEF Frame
<1>2. \A n \in Nat : n <= sso.issued => n <= sso'.issued
  BY FrameIssues
<1>3. dead \subseteq Nat /\ (store # None => store.rt \in Nat /\ store.login \in Nat)
  BY TokensAreNumbers DEF Ind, Types, TypeOK
<1> QED BY <1>1, <1>2, <1>3 DEF Ind, StoreKnown

LEMMA FrameStep ==
  ASSUME Ind, Types', NEW t \in Task, NEW r \in TaskState, Frame(t, r),
         Own(t)', StoreUsable',
         \A u \in Task : u # t => Apart(t, u)' /\ Apart(u, t)'
  PROVE  Ind'
<1>1. \A u \in Task : Own(u)'
  BY FrameKeepsOthers
<1>2. \A u, v \in Task : u # v => Apart(u, v)'
  <2>1. ASSUME NEW u \in Task, NEW v \in Task, u # v, u # t, v # t PROVE Apart(u, v)'
    <3>1. task'[u] = task[u] /\ task'[v] = task[v] /\ Apart(u, v)
      BY <2>1, FrameMeans DEF Ind
    <3> QED BY <3>1 DEF Apart
  <2> QED BY <2>1
<1> QED BY <1>1, <1>2, FrameKeepsStore DEF Ind

(* What SSO may do that disturbs nobody: nothing it accepted is refused     *)
(* without a reason.                                                        *)
SsoKeeps ==
  /\ sso.issued <= sso'.issued /\ sso'.issued \in Nat
  /\ Ended \subseteq Ended' /\ sso.valid \subseteq sso'.valid \cup Ended'

LEMMA SsoUnchanged == ASSUME Types, UNCHANGED sso PROVE SsoKeeps
<1>1. sso.issued \in Nat
  BY TokensAreNumbers
<1> QED BY <1>1 DEF SsoKeeps, Ended

LeavesTurns(t) ==
  \A u \in Task \ {t} :
    (lease = u => lease' = u) /\ (slot[Mgr(u)] = u => slot'[Mgr(u)] = u)

LEMMA KeepsFrame ==
  ASSUME Ind, Regime, NEW t \in Task, Undisturbed(t), NEW r \in TaskState, WellFormed(r),
         task' = [task EXCEPT ![t] = r], UNCHANGED <<store, gen, dead>>,
         ~Replacer(task[t]), ~Replacer(r), LeavesTurns(t), SsoKeeps
  PROVE  Frame(t, r)
<1>1. \A u \in Task : ~Replacer(task[u])
  BY Calm
<1>2. ASSUME NEW u \in Task \ {t}
      PROVE  /\ task[u].pc = "sso" => task[u].rec.rt \in sso'.valid \cup Ended'
             /\ Newly(task[u]) => task[u].put.rt \in sso'.valid \cup Ended'
  <2>1. Own(u) /\ WellFormed(task[u])
    BY DEF Ind, Types
  <2>2. task[u].pc = "sso" => Spendable(task[u].rec.rt)
    BY <2>1 DEF Own, SendsOwn, WellFormed, Flying
  <2>3. Newly(task[u]) => Spendable(task[u].put.rt)
    BY <2>1 DEF Own, BringsNew
  <2> QED BY <2>2, <2>3 DEF Spendable, SsoKeeps
<1> QED BY <1>1, <1>2 DEF Frame, LeavesTurns, SsoKeeps

LEMMA FrameUsable ==
  ASSUME Ind, NEW t \in Task, NEW r \in TaskState, Frame(t, r),
         Live(store) => (Spendable(store.rt) \/ Replaces(t) =>
                           store.rt \in sso'.valid \cup Ended' \/ Replaces(t)')
  PROVE  StoreUsable'
<1> SUFFICES ASSUME Live(store)
             PROVE  store.rt \in sso'.valid \cup Ended' \/ \E u \in Task : Replaces(u)'
  BY DEF StoreUsable, Spendable, Frame
<1>1. CASE Spendable(store.rt) \/ Replaces(t)
  BY <1>1
<1>2. CASE \E u \in Task \ {t} : Replaces(u)
  BY <1>2, FrameMeans DEF Replaces, Frame
<1> QED BY <1>1, <1>2 DEF Ind, StoreUsable

(* A step after which the task is neither between its request to SSO and    *)
(* its write, nor brings a new record.                                      *)
LEMMA AsideStep ==
  ASSUME Ind, Types', Regime, NEW t \in Task, Undisturbed(t), NEW r \in TaskState, Frame(t, r),
         ~Flying(r), ~Newly(r), r.pc # "sso", r.pc = "got" => r.rec = store,
         r.gen <= gen[Mgr(t)], Logging(r) => Logins,
         HasTurn(t)', StoreUsable'
  PROVE  Ind'
<1>1. task'[t] = r /\ gen' = gen /\ store' = store /\ ~Replacer(r)
  BY FrameMeans DEF Frame
<1>2. ReadLast(t)' /\ SendsOwn(t)' /\ BringsNew(t)' /\ Replaced(t)'
  BY <1>1 DEF ReadLast, SendsOwn, BringsNew, Replaced
<1>3. Own(t)'
  BY <1>1, <1>2 DEF Own
<1>4. ASSUME NEW u \in Task, u # t PROVE Apart(t, u)' /\ Apart(u, t)'
  <2>1. task'[u] = task[u] /\ (~Gap => task[u].pc \notin InStorage)
    BY <1>4, FrameMeans, Calm
  <2> QED BY <1>1, <2>1 DEF Apart
<1> QED BY <1>3, <1>4, FrameStep

(* A call that settles. *)
LEMMA SettleLeaves ==
  ASSUME Types, NEW t \in Task, Settle(t)
  PROVE  LeavesTurns(t) /\ task' = [task EXCEPT ![t] = Idle]
<1>1. /\ lease' = IF lease = t THEN None ELSE lease
      /\ slot' = IF slot[Mgr(t)] = t THEN [slot EXCEPT ![Mgr(t)] = None] ELSE slot
      /\ slot \in [Manager -> Task \cup {None}]
  BY DEF Settle, Types, TypeOK
<1>2. \A u \in Task : Mgr(u) \in Manager
  BY DEF Task
<1> HIDE DEF Mgr
<1> QED BY <1>1, <1>2 DEF LeavesTurns, Settle

LEMMA SettleStep ==
  ASSUME Ind, Types', Regime, NEW t \in Task, Undisturbed(t), Settle(t),
         UNCHANGED <<store, gen, dead>>, ~Replacer(task[t]), SsoKeeps,
         Replaces(t) => store.rt \in sso'.valid \cup Ended'
  PROVE  Ind'
<1>1. /\ Idle \in TaskState /\ WellFormed(Idle) /\ Idle.pc = "idle" /\ Idle.op = "none"
      /\ Idle.gen = 0
  BY IdleType DEF Idle
<1>2. ~Flying(Idle) /\ ~Newly(Idle) /\ ~Replacer(Idle) /\ ~Logging(Idle)
  BY <1>1 DEF Flying, Newly, Replacer, Logging
<1>3. Frame(t, Idle)
  BY <1>1, <1>2, SettleLeaves, KeepsFrame DEF Ind
<1>4. Spendable(store.rt) => store.rt \in sso'.valid \cup Ended'
  BY DEF Spendable, SsoKeeps
<1>5. StoreUsable'
  BY <1>1, <1>3, <1>4, FrameUsable
<1>6. HasTurn(t)'
  BY <1>1, <1>2, <1>3, FrameMeans DEF HasTurn, Active
<1>7. Idle.gen <= gen[Mgr(t)]
  BY <1>1, TokensAreNumbers DEF Ind, Task
<1> QED BY <1>1, <1>2, <1>3, <1>5, <1>6, <1>7, AsideStep

(* A step that leaves SSO's part as it is, of a task that is no flight.     *)
LEMMA KeepsUsable ==
  ASSUME Ind, NEW t \in Task, NEW r \in TaskState, Frame(t, r), SsoKeeps, ~Flying(task[t])
  PROVE  StoreUsable'
<1>1. ~Replaces(t)
  BY DEF Replaces
<1>2. Spendable(store.rt) => store.rt \in sso'.valid \cup Ended'
  BY DEF Spendable, SsoKeeps
<1> QED BY <1>1, <1>2, FrameUsable

(* A login or a removal on its way to its write. *)
LEMMA LoginGoesOn ==
  ASSUME Ind, Types', Regime, NEW t \in Task, Undisturbed(t), NEW r \in TaskState, WellFormed(r),
         task' = [task EXCEPT ![t] = r], UNCHANGED <<store, lease, gen, slot, dead>>, SsoKeeps,
         Logging(task[t]), task[t].pc \in Lookup,
         r.op = task[t].op, r.put = task[t].put, r.gen = task[t].gen, r.pc \in Lookup \cup {"put"}
  PROVE  Ind'
<1>1. /\ Logging(r) /\ ~Replacer(r) /\ ~Replacer(task[t]) /\ ~Flying(r) /\ ~Flying(task[t])
      /\ r.pc \notin {"sso", "get", "got", "putDone"}
      /\ Newly(r) => Newly(task[t]) /\ r.op = "add"
  BY DEF Logging, Replacer, Flying, Newly, Lookup
<1>2. Frame(t, r)
  <2>1. LeavesTurns(t) /\ UNCHANGED <<store, gen, dead>>
    BY DEF LeavesTurns
  <2> QED BY <1>1, <2>1, KeepsFrame
<1>3. task'[t] = r /\ gen' = gen /\ store' = store /\ dead' = dead
  <2>1. task'[t] = r
    BY <1>2, FrameMeans
  <2> QED BY <2>1
<1>4. Own(t) /\ task[t].gen <= gen[Mgr(t)] /\ Logins
  BY DEF Ind, Own
<1>5. HasTurn(t)' /\ ReadLast(t)' /\ SendsOwn(t)' /\ Replaced(t)'
  BY <1>1, <1>3 DEF HasTurn, Active, ReadLast, SendsOwn, Replaced, Logging
<1>6. BringsNew(t)'
  <2>1. SUFFICES ASSUME Newly(r)
                 PROVE  /\ r.put.rt <= sso'.issued
                        /\ r.put.rt \in sso'.valid \cup Ended'
                        /\ store # None => store.rt # r.put.rt
                        /\ r.op = "add" =>
                             r.put.rt \notin dead /\ (store # None => store.login # r.put.rt)
    BY <1>1, <1>3 DEF BringsNew, Spendable
  <2>2. BringsNew(t) /\ Newly(task[t]) /\ task[t].put.rt \in Nat
    BY <1>1, <1>4, <2>1, TaskTokens, TokensAreNumbers DEF Own, Ind
  <2>3. r.put.rt <= sso'.issued
    BY <1>2, <2>2, FrameIssues DEF BringsNew
  <2>4. r.put.rt \in sso'.valid \cup Ended'
    BY <2>2 DEF BringsNew, Spendable, SsoKeeps
  <2> QED BY <2>2, <2>3, <2>4 DEF BringsNew
<1>7. Own(t)'
  BY <1>1, <1>3, <1>4, <1>5, <1>6 DEF Own
<1>8. ASSUME NEW u \in Task, u # t PROVE Apart(t, u)' /\ Apart(u, t)'
  <2>1. /\ task'[u] = task[u] /\ (~Gap => task[u].pc \notin InStorage) /\ ~Replacer(task[u])
        /\ Apart(t, u) /\ Apart(u, t)
    BY <1>2, <1>8, FrameMeans, Calm DEF Ind
  <2> QED BY <1>1, <1>3, <2>1 DEF Apart
<1>9. StoreUsable'
  BY <1>1, <1>2, KeepsUsable
<1> QED BY <1>2, <1>7, <1>8, <1>9, FrameStep

LEMMA ReadStep ==
  ASSUME Ind, Regime, NEW t \in Task, Undisturbed(t), Read(t)
  PROVE  Ind'
<1>1. Types' /\ Types
  BY ProceedTypes DEF Ind, Proceed
<1>2. PICK r \in TaskState :
           /\ task' = [task EXCEPT ![t] = r] /\ WellFormed(r) /\ UNCHANGED Others
           /\ task[t].pc \in Reads /\ r.pc = Answered[task[t].pc] /\ r.rec = store
           /\ r.op = task[t].op /\ r.gen = task[t].gen /\ r.put = task[t].put
           /\ r.reply = task[t].reply
  BY <1>1, ReadMoves
<1>3. SsoKeeps /\ LeavesTurns(t) /\ UNCHANGED <<store, lease, gen, slot, dead>>
  BY <1>1, <1>2, SsoUnchanged DEF Others, LeavesTurns
<1>4. Own(t) /\ WellFormed(task[t])
  BY DEF Ind, Types
<1>5. CASE task[t].pc = "existGet"
  <2>1. Logging(task[t]) /\ r.pc = "existGot" /\ task[t].pc \in Lookup
    BY <1>2, <1>4, <1>5, AnsweredIs DEF WellFormed, Lookup
  <2> QED BY <1>1, <1>2, <1>3, <2>1, LoginGoesOn DEF Lookup
<1>6. CASE task[t].pc # "existGet"
  <2>1. /\ task[t].pc \in {"peek", "seenGet", "get"} /\ r.pc \in {"peeked", "seenGot", "got"}
        /\ r.pc = "got" => task[t].pc = "get"
    BY <1>2, <1>6, AnsweredIs DEF Reads
  <2>2. ~Flying(r) /\ ~Newly(r) /\ ~Replacer(r) /\ ~Replacer(task[t]) /\ ~Flying(task[t])
    BY <2>1 DEF Flying, Newly, Replacer, Lookup
  <2>3. Frame(t, r)
    BY <1>2, <1>3, <2>2, KeepsFrame
  <2>4. HasTurn(t)'
    <3>1. HasTurn(t) /\ task'[t] = r /\ lease' = lease /\ slot' = slot
      BY <1>3, <1>4, <2>3, FrameMeans DEF Own
    <3> QED BY <1>2, <2>1, <2>2, <3>1 DEF HasTurn, Active
  <2>5. StoreUsable'
    BY <1>3, <2>2, <2>3, KeepsUsable
  <2>6. /\ r.gen <= gen[Mgr(t)] /\ (Logging(r) => Logins) /\ r.pc # "sso"
        /\ r.pc = "got" => r.rec = store
    BY <1>2, <1>4, <2>1 DEF Own, Logging
  <2> QED BY <1>1, <2>2, <2>3, <2>4, <2>5, <2>6, AsideStep
<1> QED BY <1>5, <1>6

(* A refresh begins. *)
LEMMA StartStep ==
  ASSUME Ind, Regime, NEW t \in Task, Undisturbed(t), ~Flying(task[t]), ~Replacer(task[t]),
         NEW from \in Record \cup {None}, Start(t, from)
  PROVE  Ind'
<1>1. Types' /\ Types
  BY StartTypes DEF Ind
<1>2. PICK r \in TaskState :
           /\ task' = [task EXCEPT ![t] = r] /\ WellFormed(r)
           /\ r.op = "refresh" /\ r.gen = 0
           /\ r.pc \in {"get", "seenGet", "wait"} /\ (Locking <=> r.pc # "get")
           /\ slot[Mgr(t)] = None /\ slot' = [slot EXCEPT ![Mgr(t)] = t]
           /\ UNCHANGED <<store, lease, gen, sso, dead>>
  BY <1>1, StartMoves
<1>3. ~Flying(r) /\ ~Newly(r) /\ ~Replacer(r) /\ ~Logging(r)
  BY <1>2 DEF Flying, Newly, Replacer, Logging
<1>4. slot'[Mgr(t)] = t /\ \A u \in Task \ {t} : slot[Mgr(u)] = u => slot'[Mgr(u)] = u
  <2>1. slot \in [Manager -> Task \cup {None}] /\ \A u \in Task : Mgr(u) \in Manager
    BY <1>1 DEF Types, TypeOK, Task
  <2> HIDE DEF Mgr
  <2> QED BY <1>2, <2>1, NoneIsNothing
<1>5. SsoKeeps /\ LeavesTurns(t)
  BY <1>1, <1>2, <1>4, SsoUnchanged DEF LeavesTurns
<1>6. Frame(t, r)
  BY <1>2, <1>3, <1>5, KeepsFrame
<1>7. HasTurn(t)'
  <2>1. task'[t] = r
    BY <1>6, FrameMeans
  <2> QED BY <1>2, <1>4, <2>1 DEF HasTurn
<1>8. r.gen <= gen[Mgr(t)]
  BY <1>1, <1>2, TokensAreNumbers DEF Task
<1>9. StoreUsable'
  BY <1>5, <1>6, KeepsUsable
<1> QED BY <1>1, <1>2, <1>3, <1>6, <1>7, <1>8, <1>9, AsideStep

LEMMA PeekedStep ==
  ASSUME Ind, Regime, NEW t \in Task, Undisturbed(t), Peeked(t)
  PROVE  Ind'
<1>1. Types /\ Types' /\ task[t].pc = "peeked"
  BY ContinueTypes, PeekedMoves DEF Ind, Continue
<1>2. ~Flying(task[t]) /\ ~Replacer(task[t]) /\ ~Replaces(t)
  BY <1>1 DEF Flying, Replacer, Replaces
<1>3. CASE Settle(t) /\ UNCHANGED <<store, gen, sso, dead>>
  BY <1>1, <1>2, <1>3, SsoUnchanged, SettleStep
<1>4. CASE \E from \in Record \cup {None} : Start(t, from)
  BY <1>2, <1>4, StartStep
<1> QED BY <1>1, <1>3, <1>4, PeekedMoves

LEMMA SeenGotStep ==
  ASSUME Ind, Regime, NEW t \in Task, Undisturbed(t), SeenGot(t)
  PROVE  Ind'
<1>1. Types /\ Types' /\ task[t].pc = "seenGot"
  BY ContinueTypes DEF Ind, Continue, SeenGot
<1>2. ~Flying(task[t]) /\ ~Replacer(task[t]) /\ ~Replaces(t)
  BY <1>1 DEF Flying, Replacer, Replaces
<1>3. CASE Settle(t) /\ UNCHANGED <<store, gen, sso, dead>>
  BY <1>1, <1>2, <1>3, SsoUnchanged, SettleStep
<1>4. ASSUME UNCHANGED Others,
             NEW r \in TaskState, task' = [task EXCEPT ![t] = r], WellFormed(r),
             r.pc = "wait", r.op = "refresh", r.gen = task[t].gen
      PROVE  Ind'
  <2>1. ~Flying(r) /\ ~Newly(r) /\ ~Replacer(r) /\ ~Logging(r)
    BY <1>4 DEF Flying, Newly, Replacer, Logging
  <2>2. SsoKeeps /\ LeavesTurns(t) /\ UNCHANGED <<store, gen, dead>>
    BY <1>1, <1>4, SsoUnchanged DEF Others, LeavesTurns
  <2>3. Frame(t, r)
    BY <1>2, <1>4, <2>1, <2>2, KeepsFrame
  <2>4. HasTurn(t)'
    BY <1>4, <2>1, <2>3, FrameMeans DEF HasTurn, Active
  <2>5. StoreUsable'
    BY <1>2, <2>2, <2>3, KeepsUsable
  <2>6. r.gen <= gen[Mgr(t)]
    BY <1>4 DEF Ind, Own
  <2> QED BY <1>1, <1>4, <2>1, <2>3, <2>4, <2>5, <2>6, AsideStep
<1> QED BY <1>1, <1>3, <1>4, SeenGotMoves

LEMMA TakeLeaseStep ==
  ASSUME Ind, Regime, NEW t \in Task, Undisturbed(t), TakeLease(t)
  PROVE  Ind'
<1>1. Types /\ Types' /\ task[t].pc = "wait"
  BY ProceedTypes DEF Ind, Proceed, TakeLease
<1>2. ~Flying(task[t]) /\ ~Replacer(task[t])
  BY <1>1 DEF Flying, Replacer
<1>3. lease = None /\ lease' = t /\ Locking /\ UNCHANGED <<store, gen, slot, sso, dead>>
  BY <1>1, TakeLeaseMoves
<1>4. PICK r \in TaskState :
              /\ task' = [task EXCEPT ![t] = r] /\ WellFormed(r)
              /\ r.pc = "get" /\ r.op = "refresh" /\ r.gen = task[t].gen
  BY <1>1, TakeLeaseMoves
<1>5. ~Flying(r) /\ ~Newly(r) /\ ~Replacer(r) /\ ~Logging(r)
  BY <1>4 DEF Flying, Newly, Replacer, Logging
<1>6. SsoKeeps /\ LeavesTurns(t)
  BY <1>1, <1>3, SsoUnchanged, NoneIsNothing DEF LeavesTurns
<1>7. Frame(t, r)
  BY <1>2, <1>3, <1>4, <1>5, <1>6, KeepsFrame
<1>8. HasTurn(t)'
  BY <1>3 DEF HasTurn
<1>9. StoreUsable'
  BY <1>2, <1>6, <1>7, KeepsUsable
<1>10. r.gen <= gen[Mgr(t)]
  BY <1>4 DEF Ind, Own
<1> QED BY <1>1, <1>4, <1>5, <1>7, <1>8, <1>9, <1>10, AsideStep

(* A call that has only just begun, or is over. *)
LEMMA LeaseTimesOutStep ==
  ASSUME Ind, Regime, NEW t \in Task, Undisturbed(t), LeaseTimesOut(t)
  PROVE  Ind'
<1>1. /\ Types /\ Types' /\ task[t].pc = "wait" /\ Settle(t)
      /\ UNCHANGED <<store, gen, sso, dead>>
  BY ProceedTypes DEF Ind, Proceed, LeaseTimesOut
<1>2. ~Replacer(task[t]) /\ ~Replaces(t)
  BY <1>1 DEF Flying, Replacer, Replaces
<1> QED BY <1>1, <1>2, SsoUnchanged, SettleStep

LEMMA ReadFailsStep ==
  ASSUME Ind, Regime, NEW t \in Task, Undisturbed(t), ReadFails(t)
  PROVE  Ind'
<1>1. /\ Types /\ Types' /\ task[t].pc \in Reads /\ Settle(t)
      /\ UNCHANGED <<store, gen, sso, dead>>
  BY ProceedTypes DEF Ind, Proceed, ReadFails
<1>2. ~Replacer(task[t]) /\ ~Replaces(t)
  BY <1>1 DEF Flying, Replacer, Replaces, Reads
<1> QED BY <1>1, <1>2, SsoUnchanged, SettleStep

LEMMA GetTokenStep ==
  ASSUME Ind, Regime, NEW t \in Task, Undisturbed(t), GetToken(t)
  PROVE  Ind'
<1>1. Types /\ Types' /\ task[t].pc = "idle"
  BY CallTypes DEF Ind, Call, GetToken
<1>2. PICK r \in TaskState :
           /\ task' = [task EXCEPT ![t] = r] /\ WellFormed(r)
           /\ r.pc = "peek" /\ r.op = "none" /\ r.gen = 0
           /\ UNCHANGED Others
  BY <1>1, GetTokenMoves
<1>3. /\ ~Flying(r) /\ ~Newly(r) /\ ~Replacer(r) /\ ~Logging(r)
      /\ ~Flying(task[t]) /\ ~Replacer(task[t])
  BY <1>1, <1>2 DEF Flying, Newly, Replacer, Logging
<1>4. SsoKeeps /\ LeavesTurns(t) /\ UNCHANGED <<store, gen, dead>>
  BY <1>1, <1>2, SsoUnchanged DEF Others, LeavesTurns
<1>5. Frame(t, r)
  BY <1>2, <1>3, <1>4, KeepsFrame
<1>6. HasTurn(t)'
  BY <1>2, <1>3, <1>5, FrameMeans DEF HasTurn, Active
<1>7. StoreUsable'
  BY <1>3, <1>4, <1>5, KeepsUsable
<1>8. r.gen <= gen[Mgr(t)]
  BY <1>1, <1>2, TokensAreNumbers DEF Task
<1> QED BY <1>1, <1>2, <1>3, <1>5, <1>6, <1>7, <1>8, AsideStep

LEMMA RemoveCharacterStep ==
  ASSUME Ind, Regime, NEW t \in Task, Undisturbed(t), RemoveCharacter(t)
  PROVE  Ind'
<1>1. Types /\ Types' /\ task[t].pc = "idle"
  BY CallTypes DEF Ind, Call, RemoveCharacter
<1>2. PICK r \in TaskState :
           /\ task' = [task EXCEPT ![t] = r] /\ WellFormed(r)
           /\ r.pc = "existGet" /\ r.op = "remove" /\ r.gen = 0
           /\ Logins /\ UNCHANGED Others
  BY <1>1, RemoveCharacterMoves
<1>3. /\ ~Flying(r) /\ ~Newly(r) /\ ~Replacer(r)
      /\ ~Flying(task[t]) /\ ~Replacer(task[t])
  BY <1>1, <1>2 DEF Flying, Newly, Replacer
<1>4. SsoKeeps /\ LeavesTurns(t) /\ UNCHANGED <<store, gen, dead>>
  BY <1>1, <1>2, SsoUnchanged DEF Others, LeavesTurns
<1>5. Frame(t, r)
  BY <1>2, <1>3, <1>4, KeepsFrame
<1>6. HasTurn(t)'
  BY <1>2, <1>3, <1>5, FrameMeans DEF HasTurn, Active
<1>7. StoreUsable'
  BY <1>3, <1>4, <1>5, KeepsUsable
<1>8. r.gen <= gen[Mgr(t)]
  BY <1>1, <1>2, TokensAreNumbers DEF Task
<1> QED BY <1>1, <1>2, <1>3, <1>5, <1>6, <1>7, <1>8, AsideStep

LEMMA ExistGotStep ==
  ASSUME Ind, Regime, NEW t \in Task, Undisturbed(t), ExistGot(t)
  PROVE  Ind'
<1>1. /\ Types /\ Types'
      /\ task[t].pc = "existGot" /\ Logging(task[t]) /\ UNCHANGED <<store, gen, sso, dead>>
  BY ContinueTypes, ExistGotMoves DEF Ind, Continue
<1>2. ~Replacer(task[t]) /\ ~Replaces(t) /\ task[t].pc \in Lookup /\ SsoKeeps
  BY <1>1, SsoUnchanged DEF Flying, Replacer, Replaces, Lookup
<1>3. CASE Settle(t)
  BY <1>1, <1>2, <1>3, SettleStep
<1>4. ASSUME UNCHANGED <<lease, slot>>,
             NEW r \in TaskState, task' = [task EXCEPT ![t] = r], WellFormed(r),
             r.pc \in {"put", "revoke"}, r.op = task[t].op,
             r.gen = task[t].gen, r.put = task[t].put
      PROVE  Ind'
  <2>1. r.pc \in Lookup \cup {"put"}
    BY <1>4 DEF Lookup
  <2> QED BY <1>1, <1>2, <1>4, <2>1, LoginGoesOn
<1> QED BY <1>1, <1>3, <1>4, ExistGotMoves

LEMMA RevokeStep ==
  ASSUME Ind, Regime, NEW t \in Task, Undisturbed(t), Revoke(t)
  PROVE  Ind'
<1>1. /\ Types /\ Types'
      /\ task[t].pc = "revoke" /\ Logging(task[t]) /\ UNCHANGED <<store, gen, dead>>
  BY ProceedTypes, RevokeMoves DEF Ind, Proceed
<1>2. ~Replacer(task[t]) /\ ~Replaces(t) /\ task[t].pc \in Lookup
  BY <1>1 DEF Flying, Replacer, Replaces, Lookup
<1>3. CASE Settle(t) /\ UNCHANGED sso
  BY <1>1, <1>2, <1>3, SsoUnchanged, SettleStep
<1>4. ASSUME UNCHANGED <<lease, slot>>, sso' \in SsoState, Refuses(task[t].rec.rt),
             NEW r \in TaskState, task' = [task EXCEPT ![t] = r], WellFormed(r),
             r.pc = "put", r.op = task[t].op, r.gen = task[t].gen, r.put = task[t].put
      PROVE  Ind'
  <2>1. SsoKeeps
    <3>1. sso.issued \in Nat
      BY <1>1, TokensAreNumbers
    <3> QED BY <1>4, <3>1 DEF SsoKeeps, Refuses, Ended
  <2> QED BY <1>1, <1>2, <1>4, <2>1, LoginGoesOn
<1> QED BY <1>1, <1>3, <1>4, RevokeMoves

LEMMA WriteFailsStep ==
  ASSUME Ind, Regime, NEW t \in Task, Undisturbed(t), WriteFails(t)
  PROVE  Ind'
<1>1. /\ Types /\ Types' /\ task[t].pc = "put" /\ Settle(t) /\ UNCHANGED <<store, gen, dead>>
      /\ sso' \in SsoState /\ sso'.issued = sso.issued /\ sso'.valid = sso.valid
      /\ sso'.refused = sso.refused /\ sso'.lost = sso.lost \cup Unstored({t})
  BY ProceedTypes, WriteFailsMoves DEF Ind, Proceed
<1>2. ~Replacer(task[t])
  BY <1>1 DEF Replacer
<1>3. SsoKeeps
  <2>1. sso.issued \in Nat
    BY <1>1, TokensAreNumbers
  <2> QED BY <1>1, <2>1 DEF SsoKeeps, Ended
<1>4. Replaces(t) => store.rt \in sso'.valid \cup Ended'
  BY <1>1 DEF Replaces, Unstored, Ended
<1> QED BY <1>1, <1>2, <1>3, <1>4, SettleStep

LEMMA PutDoneRefreshStep ==
  ASSUME Ind, Regime, NEW t \in Task, Undisturbed(t), PutDone(t), task[t].op = "refresh"
  PROVE  Ind'
<1>1. Types /\ Types'
  BY ContinueTypes DEF Ind, Continue
<1>2. ~Logging(task[t]) /\ ~Replacer(task[t])
  BY DEF Logging, Replacer
<1>3. task[t].pc = "putDone" /\ Settle(t) /\ UNCHANGED <<store, gen, sso, dead>>
  BY <1>1, <1>2, PutDoneMoves
<1>4. ~Replaces(t)
  BY <1>3 DEF Replaces, Flying
<1> QED BY <1>1, <1>2, <1>3, <1>4, SsoUnchanged, SettleStep

-----------------------------------------------------------------------------
(* The token that is sent is the stored one, and can be spent: a rotation   *)
(* under way would be another refresh that counts.                          *)
LEMMA GotIsSpendable ==
  ASSUME Ind, Regime, NEW t \in Task, Undisturbed(t), At(t, "got"), Live(task[t].rec)
  PROVE  task[t].rec = store /\ Spendable(store.rt)
<1>1. task[t].rec = store /\ Live(store)
  BY DEF Ind, Own, ReadLast
<1>2. ASSUME NEW u \in Task, Replaces(u) PROVE FALSE
  <2>1. u # t /\ Flying(task[u]) /\ task[u].rec = store
    BY <1>2 DEF Replaces, Flying
  <2>2. Active(t)
    BY DEF Active
  <2>3. ~Active(u)
    BY <2>1, <2>2, Exclusion
  <2>4. Overtaken(u)
    BY <2>1, <2>3 DEF Active
  <2> QED BY <1>1, <2>1, <2>4 DEF Ind, Own, ReadLast, Live
<1> QED BY <1>1, <1>2 DEF Ind, StoreUsable

LEMMA GotStep ==
  ASSUME Ind, Regime, NEW t \in Task, Undisturbed(t), Got(t)
  PROVE  Ind'
<1>1. Types /\ Types'
  BY ContinueTypes DEF Ind, Continue
<1>2. task[t].pc = "got" /\ ~Flying(task[t]) /\ ~Replacer(task[t]) /\ ~Replaces(t)
  BY DEF Got, Flying, Replacer, Replaces
<1>3. CASE Settle(t) /\ UNCHANGED <<store, gen, sso, dead>>
  BY <1>1, <1>2, <1>3, SsoUnchanged, SettleStep
<1>4. ASSUME UNCHANGED Others, Live(task[t].rec),
             NEW r \in TaskState, task' = [task EXCEPT ![t] = r], WellFormed(r),
             r.pc = "sso", r.op = "refresh", r.gen = gen[Mgr(t)], r.rec = task[t].rec,
             r.reply = "none"
      PROVE  Ind'
  <2>1. r.rec = store /\ Spendable(store.rt) /\ store # None
    BY <1>2, <1>4, GotIsSpendable DEF Live
  <2>2. Flying(r) /\ ~Newly(r) /\ ~Replacer(r) /\ ~Logging(r)
    BY <1>4 DEF Flying, Newly, Replacer, Logging
  <2>3. SsoKeeps /\ LeavesTurns(t) /\ UNCHANGED <<store, lease, gen, slot, sso, dead>>
    BY <1>1, <1>4, SsoUnchanged DEF Others, LeavesTurns
  <2>4. Frame(t, r)
    BY <1>2, <1>4, <2>2, <2>3, KeepsFrame
  <2>5. task'[t] = r /\ ~Overtaken(t)'
    BY <1>4, <2>4, FrameMeans
  <2>6. HasTurn(t)'
    <3>1. HasTurn(t) /\ Active(t) /\ task[t].op = "refresh"
      BY <1>1, <1>2 DEF Ind, Own, Active, Types, WellFormed
    <3> QED BY <1>2, <2>3, <3>1 DEF HasTurn
  <2>7. ReadLast(t)' /\ BringsNew(t)' /\ Replaced(t)'
    BY <1>4, <2>1, <2>2, <2>3, <2>5 DEF ReadLast, BringsNew, Replaced
  <2>8. SendsOwn(t)'
    <3>1. store.rt <= sso.issued
      BY <2>1 DEF Ind, StoreKnown
    <3> QED BY <1>4, <2>1, <2>3, <2>5, <3>1 DEF SendsOwn, Spendable, Ended
  <2>9. r.gen <= gen[Mgr(t)]
    BY <1>1, <1>4, TokensAreNumbers DEF Task
  <2>10. Own(t)'
    BY <2>2, <2>3, <2>5, <2>6, <2>7, <2>8, <2>9 DEF Own
  <2>11. ASSUME NEW u \in Task, u # t PROVE Apart(t, u)' /\ Apart(u, t)'
    <3>1. task'[u] = task[u] /\ Own(u) /\ WellFormed(task[u])
      BY <2>4, <2>11, FrameMeans DEF Ind, Types
    <3>2. Newly(task[u]) => task[u].put.rt # store.rt
      BY <2>1, <3>1 DEF Own, BringsNew
    <3>3. task[u].pc = "sso" => task[u].rec.rt # store.rt
      <4>1. SUFFICES ASSUME task[u].pc = "sso" PROVE task[u].rec.rt # store.rt
        OBVIOUS
      <4>2. Flying(task[u])
        BY <3>1, <4>1 DEF WellFormed, Flying
      <4>3. Overtaken(u)
        BY <1>2, <2>11, <4>2, Exclusion DEF Active
      <4> QED BY <2>1, <3>1, <4>2, <4>3 DEF Own, ReadLast
    <3>4. ~(r.pc \in InStorage)
      BY <1>4 DEF InStorage, Reads, Continuing
    <3> QED BY <1>4, <2>1, <2>2, <2>5, <3>1, <3>2, <3>3, <3>4 DEF Apart
  <2>12. StoreUsable'
    BY <1>2, <2>3, <2>4, KeepsUsable
  <2> QED BY <1>1, <2>4, <2>10, <2>11, <2>12, FrameStep
<1> QED BY <1>1, <1>3, <1>4, GotMoves

(* SSO answers: only the token sent is touched, and nobody else counts on it. *)
LEMMA AnswerStep ==
  ASSUME Ind, Regime, NEW t \in Task, Undisturbed(t), Answer(t)
  PROVE  Ind'
<1> DEFINE rt == task[t].rec.rt
<1>1. Types /\ Types'
  BY ProceedTypes DEF Ind, Proceed
<1>2. PICK r \in TaskState :
           /\ task' = [task EXCEPT ![t] = r] /\ WellFormed(r)
           /\ task[t].pc = "sso" /\ r.pc = "reply" /\ r.op = "refresh"
           /\ r.rec = task[t].rec /\ r.rec \in Record /\ r.gen = task[t].gen
           /\ sso' \in SsoState /\ UNCHANGED <<store, lease, gen, slot, dead>>
           /\ \/ r.reply = "rotated" /\ r.put.rt = sso.issued + 1 /\ Rotates(r.rec.rt)
              \/ r.reply = "error" /\ Loses(r.rec.rt)
              \/ r.reply = "invalid_grant" /\ r.rec.rt \notin sso.valid /\ UNCHANGED sso
              \/ r.reply = "error" /\ UNCHANGED sso
  BY <1>1, AnswerMoves
<1>3. /\ Own(t) /\ Flying(task[t]) /\ Flying(r) /\ ~Replacer(r) /\ ~Replacer(task[t])
      /\ task[t].reply = "none" /\ ~Logging(r) /\ ~Newly(task[t])
  BY <1>1, <1>2 DEF Ind, Types, WellFormed, Flying, Replacer, Logging, Newly
<1>4. rt <= sso.issued /\ Spendable(rt) /\ rt \in Nat /\ sso.issued \in Nat
  BY <1>1, <1>2, <1>3, TaskTokens, TokensAreNumbers DEF Own, SendsOwn
<1>5. /\ sso.issued <= sso'.issued /\ sso'.issued \in Nat /\ Ended \subseteq Ended'
      /\ \A x : x # rt /\ Spendable(x) => x \in sso'.valid \cup Ended'
      /\ r.reply # "rotated" => rt \in sso'.valid \cup Ended'
  <2>1. CASE Rotates(rt) /\ r.reply = "rotated"
    BY <1>4, <2>1 DEF Rotates, Ended, Spendable
  <2>2. CASE Loses(rt)
    BY <1>4, <2>2 DEF Loses, Ended, Spendable
  <2>3. CASE UNCHANGED sso
    BY <1>4, <2>3 DEF Ended, Spendable
  <2> QED BY <1>2, <2>1, <2>2, <2>3
<1>6. ASSUME NEW u \in Task \ {t}
      PROVE  /\ task[u].pc = "sso" => task[u].rec.rt \in sso'.valid \cup Ended'
             /\ Newly(task[u]) => task[u].put.rt \in sso'.valid \cup Ended'
  <2>1. Own(u) /\ WellFormed(task[u]) /\ Apart(u, t)
    BY DEF Ind, Types
  <2>2. task[u].pc = "sso" => Spendable(task[u].rec.rt) /\ task[u].rec.rt # rt
    BY <1>2, <2>1 DEF Own, SendsOwn, WellFormed, Flying, Apart
  <2>3. Newly(task[u]) => Spendable(task[u].put.rt) /\ task[u].put.rt # rt
    BY <1>3, <2>1 DEF Own, BringsNew, Apart
  <2> HIDE DEF rt
  <2> QED BY <1>5, <2>2, <2>3
<1>7. Frame(t, r)
  <2>1. \A u \in Task : ~Replacer(task[u])
    BY <1>3, Calm
  <2> QED BY <1>2, <1>3, <1>5, <1>6, <2>1 DEF Frame
<1>8. /\ task'[t] = r /\ (Overtaken(t)' <=> Overtaken(t))
      /\ store' = store /\ lease' = lease /\ slot' = slot /\ gen' = gen /\ dead' = dead
  BY <1>2, <1>7, FrameMeans
<1>9. HasTurn(t)' /\ ReadLast(t)'
  <2>1. task[t].op = "refresh"
    BY <1>3 DEF Flying
  <2>2. HasTurn(t)'
    BY <1>2, <1>3, <1>8, <2>1 DEF Own, HasTurn, Active
  <2>3. ReadLast(t)'
    BY <1>2, <1>3, <1>8 DEF Own, ReadLast
  <2> QED BY <2>2, <2>3
<1>10. SendsOwn(t)'
  <2>1. rt <= sso'.issued
    BY <1>4, <1>7, FrameIssues
  <2>2. r.reply = "invalid_grant" => rt \in Ended'
    BY <1>2, <1>4, <1>5 DEF Spendable
  <2> QED BY <1>2, <1>8, <2>1, <2>2 DEF SendsOwn
<1>11. Newly(r) => /\ r.put.rt = sso.issued + 1 /\ sso'.issued = sso.issued + 1
                   /\ r.put.rt \in sso'.valid
  BY <1>2 DEF Newly, Flying, Rotates
<1>12. BringsNew(t)'
  <2>1. SUFFICES ASSUME Newly(r)
                 PROVE  /\ r.put.rt <= sso'.issued
                        /\ store # None => store.rt # r.put.rt
                        /\ rt # r.put.rt
    BY <1>2, <1>8, <1>11 DEF BringsNew, Spendable
  <2>2. store # None => store.rt <= sso.issued /\ store.rt \in Nat
    BY <1>1, TokensAreNumbers DEF Ind, StoreKnown
  <2> QED BY <1>4, <1>11, <2>1, <2>2
<1>13. Own(t)'
  BY <1>2, <1>3, <1>8, <1>9, <1>10, <1>12 DEF Own, Replaced
<1>14. ASSUME NEW u \in Task, u # t PROVE Apart(t, u)' /\ Apart(u, t)'
  <2>1. /\ task'[u] = task[u] /\ Own(u) /\ Apart(u, t) /\ Apart(t, u) /\ ~Replacer(task[u])
    BY <1>7, <1>14, FrameMeans, Calm DEF Ind
  <2>2. Newly(r) /\ Flying(task[u]) => task[u].rec.rt # r.put.rt
    <3>1. Flying(task[u]) => task[u].rec.rt \in Nat /\ task[u].rec.rt <= sso.issued
      BY <1>1, <2>1, TaskTokens, TokensAreNumbers DEF Own, SendsOwn
    <3> QED BY <1>4, <1>11, <3>1
  <2>3. Newly(r) /\ Newly(task[u]) => task[u].put.rt # r.put.rt
    <3>1. Newly(task[u]) => task[u].put.rt \in Nat /\ task[u].put.rt <= sso.issued
      BY <1>1, <2>1, TaskTokens, TokensAreNumbers DEF Own, BringsNew
    <3> QED BY <1>4, <1>11, <3>1
  <2>4. Newly(task[u]) => task[u].put.rt # rt
    BY <1>3, <2>1 DEF Apart
  <2>5. r.pc \notin InStorage
    BY <1>2 DEF InStorage, Reads, Continuing
  <2> QED BY <1>2, <1>3, <1>8, <2>1, <2>2, <2>3, <2>4, <2>5 DEF Apart
<1>15. StoreUsable'
  <2>1. ASSUME Live(store), store.rt = rt, r.reply = "rotated" PROVE Replaces(t)'
    <3>1. ~Overtaken(t)
      BY <1>3, <2>1 DEF Own, ReadLast, Live
    <3> QED BY <1>2, <1>3, <1>8, <2>1, <3>1 DEF Own, ReadLast, Replaces
  <2>2. ~Replaces(t)
    BY <1>3 DEF Replaces
  <2> QED BY <1>5, <1>7, <2>1, <2>2, FrameUsable
<1> QED BY <1>1, <1>7, <1>13, <1>14, <1>15, FrameStep

LEMMA ReplyStep ==
  ASSUME Ind, Regime, NEW t \in Task, Undisturbed(t), Reply(t)
  PROVE  Ind'
<1>1. Types /\ Types' /\ task[t].pc = "reply" /\ UNCHANGED <<store, gen, sso, dead>>
  BY ProceedTypes, ReplyMoves DEF Ind, Proceed
<1>2. Own(t) /\ ~Replacer(task[t]) /\ SsoKeeps
  BY <1>1, SsoUnchanged DEF Ind, Replacer
<1>3. CASE Settle(t) /\ (task[t].reply = "rotated" => gen[Mgr(t)] # task[t].gen)
  <2>1. ASSUME Replaces(t) PROVE FALSE
    <3>1. Overtaken(t) /\ Flying(task[t]) /\ task[t].rec = store
      BY <1>3, <2>1 DEF Replaces, Overtaken
    <3>2. store # None
      BY <3>1, TaskTokens, <1>1, NoneIsNothing
    <3> QED BY <1>2, <3>1, <3>2 DEF Own, ReadLast
  <2> QED BY <1>1, <1>2, <1>3, <2>1, SettleStep
<1>4. ASSUME UNCHANGED <<lease, slot>>, task[t].gen = gen[Mgr(t)], task[t].op = "refresh",
             NEW r \in TaskState, task' = [task EXCEPT ![t] = r], WellFormed(r),
             r.pc = "put", r.op = "refresh", r.rec = task[t].rec,
             r.gen = task[t].gen, r.reply = task[t].reply, r.put = task[t].put
      PROVE  Ind'
  <2>1. /\ Flying(r) /\ Flying(task[t]) /\ ~Replacer(r) /\ ~Logging(r)
        /\ (Newly(r) <=> Newly(task[t])) /\ r.op # "add"
    BY <1>1, <1>4 DEF Flying, Replacer, Logging, Newly
  <2>2. Frame(t, r)
    BY <1>1, <1>2, <1>4, <2>1, KeepsFrame DEF LeavesTurns
  <2>3. task'[t] = r /\ ~Overtaken(t)' /\ ~Overtaken(t)
    BY <1>4, <2>2, FrameMeans
  <2>4. HasTurn(t)' /\ ReadLast(t)'
    BY <1>1, <1>2, <1>4, <2>1, <2>3 DEF Own, HasTurn, ReadLast, Active
  <2>5. SendsOwn(t)' /\ BringsNew(t)' /\ Replaced(t)'
    BY <1>1, <1>2, <1>4, <2>1, <2>3 DEF Own, SendsOwn, BringsNew, Replaced, Spendable, Ended
  <2>6. Own(t)'
    BY <1>1, <1>2, <1>4, <2>1, <2>3, <2>4, <2>5 DEF Own
  <2>7. ASSUME NEW u \in Task, u # t PROVE Apart(t, u)' /\ Apart(u, t)'
    <3>1. /\ task'[u] = task[u] /\ (~Gap => task[u].pc \notin InStorage) /\ ~Replacer(task[u])
          /\ Apart(t, u) /\ Apart(u, t)
      BY <2>2, <2>7, FrameMeans, Calm DEF Ind
    <3> QED BY <1>4, <2>1, <2>3, <3>1 DEF Apart
  <2>8. StoreUsable'
    <3>1. Replaces(t) => Replaces(t)'
      BY <1>1, <1>4, <2>1, <2>3 DEF Replaces
    <3>2. Spendable(store.rt) => store.rt \in sso'.valid \cup Ended'
      BY <1>2 DEF Spendable, SsoKeeps
    <3> QED BY <2>2, <3>1, <3>2, FrameUsable
  <2> QED BY <1>1, <2>2, <2>6, <2>7, <2>8, FrameStep
<1> QED BY <1>1, <1>3, <1>4, ReplyMoves

LEMMA AddCharacterStep ==
  ASSUME Ind, Regime, NEW t \in Task, Undisturbed(t), AddCharacter(t)
  PROVE  Ind'
<1>1. Types /\ Types'
  BY CallTypes DEF Ind, Call
<1>2. PICK r \in TaskState :
           /\ task' = [task EXCEPT ![t] = r] /\ WellFormed(r)
           /\ r.pc = "existGet" /\ r.op = "add" /\ r.gen = 0
           /\ r.put \in Record /\ r.put.rt = sso.issued + 1
           /\ Logins /\ task[t].pc = "idle"
           /\ sso' \in SsoState
           /\ sso'.issued = sso.issued + 1 /\ sso'.valid = sso.valid \cup {sso.issued + 1}
           /\ sso'.refused = sso.refused /\ sso'.lost = sso.lost
           /\ UNCHANGED <<store, lease, gen, slot, dead>>
  BY <1>1, AddCharacterMoves
<1>3. ~Flying(r) /\ ~Replacer(r) /\ ~Flying(task[t]) /\ ~Replacer(task[t])
  BY <1>2 DEF Flying, Replacer
<1>4. sso.issued \in Nat /\ SsoKeeps
  <2>1. sso.issued \in Nat
    BY <1>1, TokensAreNumbers
  <2> QED BY <1>2, <2>1 DEF SsoKeeps, Ended
<1>5. Frame(t, r)
  BY <1>2, <1>3, <1>4, KeepsFrame DEF LeavesTurns
<1>6. task'[t] = r
  BY <1>5, FrameMeans
<1>7. HasTurn(t)' /\ ReadLast(t)' /\ SendsOwn(t)' /\ Replaced(t)'
  BY <1>2, <1>3, <1>6 DEF HasTurn, Active, ReadLast, SendsOwn, Replaced
<1>8. BringsNew(t)'
  <2>1. /\ store # None => store.rt \in Nat /\ store.login \in Nat
                           /\ store.rt <= sso.issued /\ store.login <= sso.issued
        /\ sso.issued + 1 \notin dead
    <3>1. store # None => store.rt \in Nat /\ store.login \in Nat
      BY <1>1, TokensAreNumbers
    <3>2. \A l \in dead : l <= sso.issued /\ l \in Nat
      BY <1>1, TokensAreNumbers DEF Ind, StoreKnown, Types, TypeOK
    <3> QED BY <1>4, <3>1, <3>2 DEF Ind, StoreKnown
  <2>2. store # None => store.rt # sso.issued + 1 /\ store.login # sso.issued + 1
    BY <1>4, <2>1
  <2>3. sso.issued + 1 <= sso'.issued
    BY <1>2, <1>4
  <2> QED BY <1>2, <1>3, <1>6, <2>1, <2>2, <2>3 DEF BringsNew, Spendable
<1>9. Own(t)'
  <2>1. r.gen <= gen[Mgr(t)]
    BY <1>1, <1>2, TokensAreNumbers DEF Task
  <2> QED BY <1>2, <1>6, <1>7, <1>8, <2>1 DEF Own
<1>10. ASSUME NEW u \in Task, u # t PROVE Apart(t, u)' /\ Apart(u, t)'
  <2>1. /\ task'[u] = task[u] /\ (~Gap => task[u].pc \notin InStorage) /\ ~Replacer(task[u])
        /\ Own(u)
    BY <1>5, <1>10, FrameMeans, Calm DEF Ind
  <2>2. /\ Flying(task[u]) => task[u].rec.rt \in Nat /\ task[u].rec.rt <= sso.issued
        /\ Newly(task[u]) => task[u].put.rt \in Nat /\ task[u].put.rt <= sso.issued
    BY <1>1, <2>1, TaskTokens, TokensAreNumbers DEF Own, SendsOwn, BringsNew
  <2>3. /\ Flying(task[u]) => task[u].rec.rt # sso.issued + 1
        /\ Newly(task[u]) => task[u].put.rt # sso.issued + 1
    BY <1>4, <2>2
  <2> QED BY <1>2, <1>3, <1>6, <2>1, <2>3 DEF Apart
<1>11. StoreUsable'
  BY <1>3, <1>4, <1>5, KeepsUsable
<1> QED BY <1>1, <1>5, <1>9, <1>10, <1>11, FrameStep

-----------------------------------------------------------------------------
(* A refresh writes: what it stores is new, or marks revoked the record it  *)
(* read, and nobody else holds it.                                          *)
LEMMA RefreshStores ==
  ASSUME Ind, NEW t \in Task, At(t, "put"), task[t].op = "refresh"
  PROVE  /\ ~Overtaken(t) /\ Active(t) /\ Flying(task[t])
         /\ task[t].rec = store /\ store \in Record /\ task[t].put \in Record
         /\ task[t].put.login = store.login /\ task[t].put.rt <= sso.issued
         /\ Spendable(task[t].put.rt) /\ (task[t].put.revoked => task[t].put.rt \in Ended)
         /\ Newly(task[t]) \/ task[t].put.rt = store.rt
<1>1. /\ task[t] \in TaskState /\ WellFormed(task[t]) /\ Own(t) /\ Flying(task[t])
      /\ store \in Record \cup {None}
  BY DEF Ind, Types, TypeOK, Flying
<1>2. ~Overtaken(t) /\ task[t].rec = store
  BY <1>1 DEF Own, ReadLast
<1>3. store \in Record
  BY <1>1, <1>2 DEF WellFormed, Live
<1>4. CASE task[t].reply = "rotated"
  <2>1. Newly(task[t])
    BY <1>1, <1>4 DEF Newly
  <2>2. /\ task[t].put \in Record /\ ~task[t].put.revoked
        /\ task[t].put.login = store.login
    BY <1>1, <1>2, <1>4 DEF WellFormed
  <2> QED BY <1>1, <1>2, <1>3, <2>1, <2>2 DEF Active, Own, BringsNew
<1>5. CASE task[t].reply = "invalid_grant"
  <2>1. task[t].put \in Record /\ task[t].put.rt = store.rt /\ task[t].put.login = store.login
    BY <1>1, <1>2, <1>5 DEF WellFormed
  <2>2. store.rt <= sso.issued /\ store.rt \in Ended
    BY <1>1, <1>2, <1>5 DEF Own, SendsOwn
  <2> QED BY <1>1, <1>2, <1>3, <2>1, <2>2 DEF Active, Spendable
<1>6. task[t].reply \in {"rotated", "invalid_grant"}
  BY <1>1 DEF WellFormed, TaskState
<1> QED BY <1>4, <1>5, <1>6

LEMMA RefreshWriteStep ==
  ASSUME Ind, Regime, NEW t \in Task, Undisturbed(t), Write(t), task[t].op = "refresh"
  PROVE  Ind'
<1> DEFINE put == task[t].put
<1>1. /\ Types /\ Types' /\ task[t].pc = "put" /\ store' = put
      /\ UNCHANGED <<lease, gen, slot, sso, dead>>
  BY ProceedTypes, WriteMoves DEF Ind, Proceed
<1>2. PICK r \in TaskState : /\ task' = [task EXCEPT ![t] = r] /\ WellFormed(r)
                             /\ r.pc = "putDone" /\ r.op = "refresh" /\ r.gen = task[t].gen
  BY <1>1, WriteMoves
<1>3. /\ ~Overtaken(t) /\ Active(t) /\ Flying(task[t])
      /\ task[t].rec = store /\ store \in Record /\ put \in Record
      /\ put.login = store.login /\ put.rt <= sso.issued
      /\ Spendable(put.rt) /\ (put.revoked => put.rt \in Ended)
      /\ Newly(task[t]) \/ put.rt = store.rt
  BY <1>1, RefreshStores
<1>4. /\ ~Flying(r) /\ ~Newly(r) /\ ~Replacer(r) /\ ~Logging(r)
      /\ store # None /\ put # None
  BY <1>2, <1>3, NoneIsNothing DEF Flying, Newly, Replacer, Logging
<1>5. task'[t] = r /\ \A u \in Task : u # t => task'[u] = task[u]
  BY <1>1, <1>2, OneTask
<1>6. \A u \in Task : ~Replacer(task[u]) /\ ~Replacer(task'[u])
  BY <1>3, <1>4, <1>5 DEF Overtaken
<1>7. \A u \in Task : u # t => (Overtaken(u)' <=> Overtaken(u))
  BY <1>1, <1>5, <1>6 DEF Overtaken
<1>8. ASSUME NEW u \in Task, u # t PROVE Own(u)'
  <2>1. task'[u] = task[u] /\ (Overtaken(u)' <=> Overtaken(u)) /\ Own(u) /\ ~Active(u)
    BY <1>3, <1>5, <1>7, <1>8, Exclusion DEF Ind
  <2>2. Apart(t, u) /\ Apart(u, t)
    BY <1>8 DEF Ind
  <2>3. HasTurn(u)'
    BY <1>1, <2>1 DEF Own, HasTurn, Active
  <2>4. Flying(task[u]) => Overtaken(u) /\ task[u].pc # "put" /\ task[u].rec.rt # put.rt
    <3>1. Flying(task[u]) => Overtaken(u) /\ task[u].pc # "put" /\ task[u].rec.rt # store.rt
      BY <1>4, <2>1 DEF Own, ReadLast, Active
    <3> QED BY <1>3, <2>2, <3>1 DEF Apart
  <2>5. ReadLast(u)'
    BY <1>1, <2>1, <2>4 DEF ReadLast, Active
  <2>6. Newly(task[u]) => task[u].put.rt # put.rt
    BY <1>3, <2>2 DEF Apart
  <2>7. BringsNew(u)'
    BY <1>1, <1>3, <1>4, <2>1, <2>6 DEF Own, BringsNew, Spendable, Ended
  <2>8. SendsOwn(u)'
    BY <1>1, <2>1 DEF Own, SendsOwn, Spendable, Ended
  <2>9. Replaced(u)'
    BY <1>6 DEF Replaced
  <2> QED BY <1>1, <2>1, <2>3, <2>5, <2>7, <2>8, <2>9 DEF Own
<1>9. Own(t)'
  <2>1. Own(t) /\ task[t].pc = "put"
    BY <1>1 DEF Ind
  <2>2. HasTurn(t)'
    BY <1>1, <1>2, <1>4, <1>5, <2>1 DEF Own, HasTurn, Active
  <2>3. ReadLast(t)' /\ SendsOwn(t)' /\ BringsNew(t)' /\ Replaced(t)'
    BY <1>2, <1>4, <1>5 DEF ReadLast, SendsOwn, BringsNew, Replaced
  <2> QED BY <1>1, <1>2, <1>4, <1>5, <2>1, <2>2, <2>3 DEF Own
<1>10. ASSUME NEW u \in Task, NEW v \in Task, u # v PROVE Apart(u, v)'
  <2>1. ASSUME u # t, v # t PROVE Apart(u, v)'
    BY <1>5, <1>10, <2>1 DEF Ind, Apart
  <2>2. ASSUME NEW w \in Task, w # t PROVE Apart(t, w)' /\ Apart(w, t)'
    <3>1. task'[w] = task[w] /\ (~Gap => task[w].pc \notin InStorage)
      BY <1>5, <2>2, Calm
    <3> QED BY <1>2, <1>4, <1>5, <1>6, <3>1 DEF Apart
  <2> QED BY <1>10, <2>1, <2>2
<1>11. StoreKnown'
  BY <1>1, <1>3, <1>4 DEF Ind, StoreKnown, Ended
<1>12. StoreUsable'
  BY <1>1, <1>3 DEF StoreUsable, Spendable, Ended
<1> QED BY <1>1, <1>8, <1>9, <1>10, <1>11, <1>12 DEF Ind

(* A login or a removal writes: from here on the refreshes are overtaken.   *)
LEMMA LoginWriteStep ==
  ASSUME Ind, Regime, NEW t \in Task, Undisturbed(t), Write(t), task[t].op # "refresh"
  PROVE  Ind'
<1> DEFINE put == task[t].put
<1>1. /\ Types /\ Types' /\ task[t].pc = "put" /\ store' = put
      /\ UNCHANGED <<lease, gen, slot, sso, dead>>
  BY ProceedTypes, WriteMoves DEF Ind, Proceed
<1>2. PICK r \in TaskState : /\ task' = [task EXCEPT ![t] = r] /\ WellFormed(r)
                             /\ r.pc = "putDone" /\ r.op = task[t].op /\ r.gen = task[t].gen
                             /\ r.gone = IF store = None THEN None ELSE store.login
  BY <1>1, WriteMoves
<1>3. task[t] \in TaskState /\ WellFormed(task[t]) /\ Own(t) /\ Logging(task[t]) /\ Logins /\ ~Gap
  <2>1. task[t] \in TaskState /\ WellFormed(task[t]) /\ Own(t)
    BY DEF Ind, Types, TypeOK
  <2>2. Logging(task[t])
    BY <1>1, <2>1 DEF WellFormed, Logging, TaskState
  <2> QED BY <2>1, <2>2 DEF Own, Regime
<1>4. put # None => /\ Newly(task[t]) /\ task[t].op = "add"
                    /\ put.login = put.rt /\ ~put.revoked
  BY <1>1, <1>3 DEF WellFormed, Newly, Logging
<1>5. ~Flying(r) /\ ~Newly(r) /\ Replacer(r) /\ Logging(r) /\ ~Flying(task[t])
  BY <1>2, <1>3 DEF Flying, Newly, Replacer, Logging, Lookup
<1>6. task'[t] = r /\ \A u \in Task : u # t => task'[u] = task[u]
  BY <1>1, <1>2, OneTask
<1>7. \A u \in Task : Overtaken(u)'
  BY <1>5, <1>6 DEF Overtaken
<1>8. \A u \in Task : u # t => task[u].pc \notin InStorage /\ ~Replacer(task[u])
  BY <1>3, Calm
<1>9. ASSUME NEW u \in Task, u # t PROVE Own(u)'
  <2>1. /\ task'[u] = task[u] /\ Own(u) /\ Apart(t, u) /\ ~Replacer(task[u])
        /\ task[u].pc \notin {"get", "got", "put"}
    BY <1>6, <1>8, <1>9 DEF Ind, InStorage, Reads, Continuing
  <2>2. HasTurn(u)'
    BY <1>1, <1>7, <2>1 DEF Own, HasTurn, Active
  <2>3. ReadLast(u)'
    BY <1>1, <1>4, <1>7, <2>1 DEF ReadLast, Apart
  <2>4. BringsNew(u)'
    <3>1. Newly(task[u]) /\ put # None => task[u].put.rt # put.rt /\ put.login = put.rt
      BY <1>4, <2>1 DEF Apart
    <3> QED BY <1>1, <2>1, <3>1 DEF Own, BringsNew, Spendable, Ended
  <2>5. SendsOwn(u)' /\ Replaced(u)'
    BY <1>1, <2>1 DEF Own, SendsOwn, Spendable, Ended, Replaced
  <2> QED BY <1>1, <2>1, <2>2, <2>3, <2>4, <2>5 DEF Own
<1>10. r.gone # None => /\ store # None /\ r.gone = store.login /\ r.gone <= sso.issued
  BY <1>2 DEF Ind, StoreKnown
<1>11. Own(t)'
  <2>1. HasTurn(t)' /\ ReadLast(t)' /\ SendsOwn(t)' /\ BringsNew(t)'
    BY <1>2, <1>5, <1>6 DEF HasTurn, Active, ReadLast, SendsOwn, BringsNew, Logging
  <2>2. Replaced(t)'
    BY <1>1, <1>3, <1>4, <1>6, <1>10 DEF Replaced, Own, BringsNew
  <2> QED BY <1>1, <1>2, <1>3, <1>6, <2>1, <2>2 DEF Own
<1>12. ASSUME NEW u \in Task, NEW v \in Task, u # v PROVE Apart(u, v)'
  <2>1. ASSUME u # t, v # t PROVE Apart(u, v)'
    BY <1>6, <1>12, <2>1 DEF Ind, Apart
  <2>2. ASSUME NEW w \in Task, w # t PROVE Apart(t, w)' /\ Apart(w, t)'
    <3>1. task'[w] = task[w] /\ task[w].pc \notin InStorage /\ ~Replacer(task[w])
      BY <1>6, <1>8, <2>2
    <3>2. Newly(task[w]) /\ task[w].op = "add" /\ r.gone # None => task[w].put.rt # r.gone
      BY <1>10 DEF Ind, Own, BringsNew
    <3> QED BY <1>2, <1>5, <1>6, <3>1, <3>2 DEF Apart
  <2> QED BY <1>12, <2>1, <2>2
<1>13. StoreKnown' /\ StoreUsable'
  <2>1. put # None => /\ put.rt <= sso.issued /\ Spendable(put.rt) /\ put.rt \notin dead
    BY <1>3, <1>4 DEF Own, BringsNew
  <2>2. StoreKnown'
    BY <1>1, <1>4, <2>1 DEF Ind, StoreKnown
  <2>3. StoreUsable'
    BY <1>1, <2>1 DEF StoreUsable, Spendable, Ended, Live
  <2> QED BY <2>2, <2>3
<1> QED BY <1>1, <1>9, <1>11, <1>12, <1>13 DEF Ind

(* It notes its write: the generation says from now on what the write said. *)
LEMMA PutDoneLoginStep ==
  ASSUME Ind, Regime, NEW t \in Task, Undisturbed(t), PutDone(t), task[t].op # "refresh"
  PROVE  Ind'
<1>1. Types /\ Types' /\ task[t].pc = "putDone"
  BY ContinueTypes DEF Ind, Continue, PutDone
<1>2. /\ Logging(task[t]) /\ gen' = [gen EXCEPT ![Mgr(t)] = @ + 1]
      /\ slot' = [slot EXCEPT ![Mgr(t)] = None]
      /\ dead' = dead \cup ({task[t].gone} \ {None}) /\ dead' \in SUBSET Rt
      /\ task' = [task EXCEPT ![t] = Idle] /\ UNCHANGED <<store, lease, sso>>
  BY <1>1, PutDoneMoves
<1>3. Logins /\ ~Gap /\ (\A u \in Task : Mgr(u) = Mgr(t)) /\ Replacer(task[t])
  <2>1. Logins
    BY <1>2 DEF Ind, Own
  <2> QED BY <1>1, <1>2, <2>1 DEF Regime, Alone, Task, Replacer
<1>4. task'[t] = Idle /\ \A u \in Task : u # t => task'[u] = task[u]
  BY <1>1, <1>2, IdleType, OneTask
<1>5. /\ Idle.pc = "idle" /\ Idle.op = "none" /\ Idle.gen = 0
      /\ ~Flying(Idle) /\ ~Newly(Idle) /\ ~Replacer(Idle) /\ ~Logging(Idle)
  BY DEF Idle, Flying, Newly, Replacer, Logging
<1>6. \A u \in Task : u # t => task[u].pc \notin InStorage /\ ~Replacer(task[u])
  BY <1>3, Calm
<1>7. \A u \in Task : gen'[Mgr(u)] = gen[Mgr(t)] + 1 /\ gen[Mgr(t)] \in Nat
  <2>1. gen \in [Manager -> Nat] /\ Mgr(t) \in Manager
    BY <1>1, TokensAreNumbers DEF Task
  <2> HIDE DEF Mgr
  <2> QED BY <1>2, <1>3, <2>1
<1>8. ASSUME NEW u \in Task, u # t PROVE Own(u)'
  <2>1. /\ task'[u] = task[u] /\ Own(u) /\ Apart(u, t) /\ ~Replacer(task[u])
        /\ task[u].pc \notin {"get", "got"} /\ task[u].gen \in Nat
    BY <1>1, <1>4, <1>6, <1>8, TokensAreNumbers DEF Ind, InStorage, Reads, Continuing
  <2>2. task[u].gen <= gen[Mgr(t)]
    BY <1>3, <2>1 DEF Own
  <2>3. task[u].gen <= gen'[Mgr(u)] /\ task[u].gen # gen'[Mgr(u)]
    BY <1>7, <2>1, <2>2
  <2>4. Overtaken(u) /\ Overtaken(u)'
    BY <1>3, <2>1, <2>3 DEF Overtaken
  <2>5. HasTurn(u)'
    BY <1>2, <2>1, <2>4 DEF Own, HasTurn, Active
  <2>6. ReadLast(u)'
    BY <1>2, <2>1, <2>4 DEF Own, ReadLast
  <2>7. BringsNew(u)'
    <3>1. Newly(task[u]) /\ task[u].op = "add" => task[u].put.rt \notin dead'
      BY <1>2, <1>3, <2>1 DEF Own, BringsNew, Apart
    <3> QED BY <1>2, <2>1, <3>1 DEF Own, BringsNew, Spendable, Ended
  <2>8. SendsOwn(u)' /\ Replaced(u)'
    BY <1>2, <2>1 DEF Own, SendsOwn, Spendable, Ended, Replaced
  <2> QED BY <2>1, <2>3, <2>5, <2>6, <2>7, <2>8 DEF Own
<1>9. Own(t)'
  <2>1. HasTurn(t)' /\ ReadLast(t)' /\ SendsOwn(t)' /\ BringsNew(t)' /\ Replaced(t)'
    BY <1>4, <1>5 DEF HasTurn, Active, ReadLast, SendsOwn, BringsNew, Replaced
  <2>2. 0 <= gen'[Mgr(t)]
    BY <1>7
  <2> QED BY <1>4, <1>5, <2>1, <2>2 DEF Own
<1>10. ASSUME NEW u \in Task, NEW v \in Task, u # v PROVE Apart(u, v)'
  <2>1. ASSUME u # t, v # t PROVE Apart(u, v)'
    BY <1>4, <1>10, <2>1 DEF Ind, Apart
  <2>2. Idle.pc # "sso" /\ Idle.pc \notin InStorage
    BY <1>5 DEF InStorage, Reads, Continuing
  <2>3. ASSUME NEW w \in Task, w # t PROVE Apart(t, w)' /\ Apart(w, t)'
    BY <1>4, <1>5, <2>2, <2>3 DEF Apart
  <2> QED BY <1>10, <2>1, <2>3
<1>11. StoreKnown'
  <2>1. Replaced(t)
    BY DEF Ind, Own
  <2>2. store # None => store.login \notin dead'
    BY <1>2, <1>3, <2>1 DEF Ind, StoreKnown, Replaced
  <2>3. \A l \in dead' : l <= sso.issued
    BY <1>2, <1>3, <2>1 DEF Ind, StoreKnown, Replaced
  <2> QED BY <1>2, <1>3, <2>2, <2>3 DEF Ind, StoreKnown, Ended
<1>12. StoreUsable'
  <2>1. ASSUME NEW u \in Task, Replaces(u) PROVE Replaces(u)'
    <3>1. u # t
      BY <1>1, <2>1 DEF Replaces, Flying
    <3> QED BY <1>2, <1>4, <2>1, <3>1 DEF Replaces
  <2> QED BY <1>2, <2>1 DEF Ind, StoreUsable, Spendable, Ended
<1> QED BY <1>1, <1>8, <1>9, <1>10, <1>11, <1>12 DEF Ind

-----------------------------------------------------------------------------
(* The environment. *)
LEMMA SsoKeepsOwn ==
  ASSUME Ind, SsoKeeps, NEW u \in Task, task'[u] = task[u], store' = store, dead' = dead
  PROVE  (SendsOwn(u) => SendsOwn(u)') /\ (BringsNew(u) => BringsNew(u)')
         /\ (Replaced(u) => Replaced(u)')
<1>1. \A n \in Nat : n <= sso.issued => n <= sso'.issued
  <2>1. sso.issued \in Nat
    BY TokensAreNumbers DEF Ind
  <2> QED BY <2>1, AtMost DEF SsoKeeps
<1>2. /\ Flying(task[u]) => task[u].rec.rt \in Nat
      /\ Newly(task[u]) => task[u].put.rt \in Nat
      /\ task[u].gone # None => task[u].gone \in Nat
  BY TaskTokens, TokensAreNumbers DEF Ind
<1>3. /\ SendsOwn(u) => SendsOwn(u)'
  BY <1>1, <1>2 DEF SendsOwn, SsoKeeps, Spendable
<1>4. BringsNew(u) => BringsNew(u)'
  BY <1>1, <1>2 DEF BringsNew, SsoKeeps, Spendable
<1>5. Replaced(u) => Replaced(u)'
  BY <1>1, <1>2 DEF Replaced
<1> QED BY <1>3, <1>4, <1>5

LEMMA SsoKeepsStore ==
  ASSUME Ind, SsoKeeps, store' = store, dead' = dead,
         ~Logins => \A m \in Manager : gen'[m] = 0
  PROVE  StoreKnown'
<1>1. \A n \in Nat : n <= sso.issued => n <= sso'.issued
  <2>1. sso.issued \in Nat
    BY TokensAreNumbers DEF Ind
  <2> QED BY <2>1, AtMost DEF SsoKeeps
<1>2. dead \subseteq Nat /\ (store # None => store.rt \in Nat /\ store.login \in Nat)
  BY TokensAreNumbers DEF Ind, Types, TypeOK
<1> QED BY <1>1, <1>2 DEF Ind, StoreKnown, SsoKeeps

LEMMA PlayerRevokesStep == ASSUME Ind, PlayerRevokes PROVE Ind'
<1>1. /\ Types /\ UNCHANGED <<store, lease, gen, slot, task, dead>> /\ sso' \in SsoState
      /\ sso'.issued = sso.issued /\ sso'.valid = {}
      /\ sso'.refused = sso.refused \cup sso.valid /\ sso'.lost = sso.lost
  BY PlayerRevokesMoves DEF Ind
<1>2. Types'
  BY <1>1 DEF Types, TypeOK, SsoState
<1>3. SsoKeeps
  <2>1. sso.issued \in Nat
    BY <1>1, TokensAreNumbers
  <2> QED BY <1>1, <2>1 DEF SsoKeeps, Ended
<1>4. ASSUME NEW u \in Task PROVE Own(u)'
  <2>1. Own(u) /\ task'[u] = task[u]
    BY <1>1 DEF Ind
  <2>2. HasTurn(u)' /\ ReadLast(u)'
    BY <1>1, <2>1 DEF Own, HasTurn, ReadLast, Active, Overtaken
  <2>3. SendsOwn(u)' /\ BringsNew(u)' /\ Replaced(u)'
    BY <1>1, <1>3, <2>1, SsoKeepsOwn DEF Own
  <2> QED BY <1>1, <2>1, <2>2, <2>3 DEF Own
<1>5. ASSUME NEW u \in Task, NEW v \in Task, u # v PROVE Apart(u, v)'
  BY <1>1, <1>5 DEF Ind, Apart
<1>6. StoreKnown'
  BY <1>1, <1>3, SsoKeepsStore DEF Ind, StoreKnown
<1>7. StoreUsable'
  BY <1>1, <1>3 DEF Ind, StoreUsable, Replaces, Spendable, SsoKeeps
<1> QED BY <1>2, <1>4, <1>5, <1>6, <1>7 DEF Ind

(* A crash takes the tasks of one process: alone it takes all of them, and  *)
(* otherwise the lease tells the others apart from it.                      *)
LEMMA CrashStep == ASSUME Ind, Regime, NEW m \in Manager, Crash(m) PROVE Ind'
<1>1. /\ Types /\ UNCHANGED <<store, dead>>
      /\ task' \in [Task -> TaskState] /\ (\A u \in Task : WellFormed(task'[u]))
      /\ \A u \in Task : task'[u] = IF Mgr(u) = m THEN Idle ELSE task[u]
      /\ lease' = (IF lease # None /\ Mgr(lease) = m THEN None ELSE lease)
      /\ lease' \in Task \cup {None}
      /\ gen' = [gen EXCEPT ![m] = 0] /\ gen' \in [Manager -> 0 .. MaxGen]
      /\ slot' = [slot EXCEPT ![m] = None] /\ slot' \in [Manager -> Task \cup {None}]
      /\ sso' \in SsoState /\ sso'.issued = sso.issued /\ sso'.valid = sso.valid
      /\ sso'.refused = sso.refused
      /\ sso'.lost = sso.lost \cup Unstored({t \in Task : Mgr(t) = m})
  BY CrashMoves DEF Ind
<1>2. Types'
  BY <1>1 DEF Types, TypeOK, SsoState
<1>3. SsoKeeps
  <2>1. sso.issued \in Nat
    BY <1>1, TokensAreNumbers
  <2> QED BY <1>1, <2>1 DEF SsoKeeps, Ended
<1>4. /\ Idle.pc = "idle" /\ Idle.op = "none" /\ Idle.gen = 0
      /\ ~Flying(Idle) /\ ~Newly(Idle) /\ ~Replacer(Idle) /\ ~Logging(Idle)
  BY DEF Idle, Flying, Newly, Replacer, Logging
<1>5. ASSUME NEW u \in Task, Mgr(u) # m
      PROVE  /\ task'[u] = task[u] /\ gen'[Mgr(u)] = gen[Mgr(u)] /\ Locking
             /\ ~Logins /\ (lease = u => lease' = u)
  <2>1. ~Alone /\ Mgr(u) \in Manager
    BY <1>5 DEF Alone, Task
  <2>2. gen \in [Manager -> 0 .. MaxGen]
    BY <1>1 DEF Types, TypeOK
  <2>3. gen'[Mgr(u)] = gen[Mgr(u)]
    BY <1>1, <1>5, <2>1, <2>2
  <2> QED BY <1>1, <1>5, <2>1, <2>3 DEF Regime
<1>6. ~Logins => \A u \in Task : ~Replacer(task[u]) /\ ~Replacer(task'[u])
  <2>1. \A u \in Task : ~Logins => ~Replacer(task[u])
    BY DEF Ind, Own, Replacer
  <2> QED BY <1>1, <1>4, <2>1
<1>7. ASSUME NEW u \in Task PROVE Own(u)'
  <2>1. CASE Mgr(u) = m
    <3>1. task'[u] = Idle /\ gen'[Mgr(u)] = 0
      BY <1>1, <2>1 DEF Types, TypeOK
    <3>2. HasTurn(u)' /\ ReadLast(u)' /\ SendsOwn(u)' /\ BringsNew(u)' /\ Replaced(u)'
      BY <1>4, <3>1 DEF HasTurn, Active, ReadLast, SendsOwn, BringsNew, Replaced
    <3> QED BY <1>4, <3>1, <3>2 DEF Own
  <2>2. CASE Mgr(u) # m
    <3>1. /\ task'[u] = task[u] /\ gen'[Mgr(u)] = gen[Mgr(u)] /\ Locking
          /\ ~Logins /\ (lease = u => lease' = u) /\ Own(u)
      BY <1>5, <2>2 DEF Ind
    <3>2. Overtaken(u)' <=> Overtaken(u)
      BY <1>6, <3>1 DEF Overtaken
    <3>3. HasTurn(u)' /\ ReadLast(u)'
      BY <1>1, <3>1, <3>2 DEF Own, HasTurn, ReadLast
    <3>4. SendsOwn(u)' /\ BringsNew(u)' /\ Replaced(u)'
      BY <1>1, <1>3, <3>1, SsoKeepsOwn DEF Own
    <3> QED BY <3>1, <3>3, <3>4 DEF Own
  <2> QED BY <2>1, <2>2
<1>8. ASSUME NEW u \in Task, NEW v \in Task, u # v PROVE Apart(u, v)'
  <2>1. Idle.pc # "sso" /\ Idle.pc \notin InStorage
    BY <1>4 DEF InStorage, Reads, Continuing
  <2>2. CASE task'[u] = Idle \/ task'[v] = Idle
    BY <1>4, <2>1, <2>2 DEF Apart
  <2>3. CASE task'[u] = task[u] /\ task'[v] = task[v]
    BY <1>8, <2>3 DEF Ind, Apart
  <2> QED BY <1>1, <2>2, <2>3
<1>9. StoreKnown'
  <2>1. ~Logins => \A n \in Manager : gen'[n] = 0
    BY <1>1 DEF Ind, StoreKnown, Types, TypeOK
  <2> QED BY <1>1, <1>3, <2>1, SsoKeepsStore
<1>10. StoreUsable'
  <2>1. ASSUME NEW u \in Task, Replaces(u) PROVE store.rt \in Ended' \/ Replaces(u)'
    <3>1. CASE Mgr(u) # m
      BY <1>1, <1>5, <2>1, <3>1 DEF Replaces
    <3>2. CASE Mgr(u) = m
      <4>1. task[u].pc \in {"reply", "put"} /\ task[u].reply = "rotated" /\ task[u].rec = store
        BY <1>1, <2>1 DEF Replaces, Flying, Types, WellFormed
      <4>2. u \in {t \in Task : Mgr(t) = m}
        BY <3>2
      <4>3. store.rt \in Unstored({t \in Task : Mgr(t) = m})
        BY <4>1, <4>2 DEF Unstored
      <4> QED BY <1>1, <4>3 DEF Ended
    <3> QED BY <3>1, <3>2
  <2> QED BY <1>1, <1>3, <2>1 DEF Ind, StoreUsable, Spendable, SsoKeeps
<1> QED BY <1>2, <1>7, <1>8, <1>9, <1>10 DEF Ind

-----------------------------------------------------------------------------
LEMMA IndInit == Init => Ind
<1> SUFFICES ASSUME Init PROVE Ind
  OBVIOUS
<1>1. Types
  BY TypesInit
<1>2. /\ Idle.pc = "idle" /\ Idle.op = "none" /\ Idle.gen = 0
      /\ ~Flying(Idle) /\ ~Newly(Idle) /\ ~Replacer(Idle) /\ ~Logging(Idle)
  BY DEF Idle, Flying, Newly, Replacer, Logging
<1>3. ASSUME NEW t \in Task PROVE task[t] = Idle /\ gen[Mgr(t)] = 0
  BY DEF Init, Task
<1>4. ASSUME NEW t \in Task PROVE Own(t)
  <2>1. HasTurn(t) /\ ReadLast(t) /\ SendsOwn(t) /\ BringsNew(t) /\ Replaced(t)
    BY <1>2, <1>3 DEF HasTurn, Active, ReadLast, SendsOwn, BringsNew, Replaced
  <2> QED BY <1>2, <1>3, <2>1 DEF Own
<1>5. ASSUME NEW t \in Task, NEW u \in Task PROVE Apart(t, u)
  <2>1. Idle.pc # "sso" /\ Idle.pc \notin InStorage
    BY <1>2 DEF InStorage, Reads, Continuing
  <2> QED BY <1>2, <1>3, <2>1 DEF Apart
<1>6. StoreKnown /\ StoreUsable
  <2>1. /\ store.rt = 1 /\ store.login = 1 /\ ~store.revoked /\ dead = {}
        /\ sso.issued = 1 /\ sso.valid = {1} /\ \A m \in Manager : gen[m] = 0
    BY DEF Init
  <2> QED BY <2>1 DEF StoreKnown, StoreUsable, Spendable
<1> QED BY <1>1, <1>4, <1>5, <1>6 DEF Ind

LEMMA WriteStep ==
  ASSUME Ind, Regime, NEW t \in Task, Undisturbed(t), Write(t)
  PROVE  Ind'
BY RefreshWriteStep, LoginWriteStep

LEMMA PutDoneStep ==
  ASSUME Ind, Regime, NEW t \in Task, Undisturbed(t), PutDone(t)
  PROVE  Ind'
BY PutDoneRefreshStep, PutDoneLoginStep

LEMMA RefreshStep ==
  ASSUME Ind, Regime, NEW t \in Task, Undisturbed(t), Refresh(t)
  PROVE  Ind'
<1>1. ~Flying(task[t]) /\ ~Replacer(task[t]) /\ Start(t, None)
  BY DEF Refresh, Flying, Replacer
<1> QED BY <1>1, StartStep

LEMMA IndStep == ASSUME Regime PROVE Ind /\ [Next]_vars => Ind'
<1> SUFFICES ASSUME Ind, [Next]_vars PROVE Ind'
  OBVIOUS
<1>1. ASSUME NEW t \in Task, Undisturbed(t), Continue(t) PROVE Ind'
  BY <1>1, PeekedStep, SeenGotStep, GotStep, ExistGotStep, PutDoneStep DEF Continue
<1>2. ASSUME NEW t \in Task, Undisturbed(t), Proceed(t) PROVE Ind'
  BY <1>2, ReadStep, ReadFailsStep, WriteStep, WriteFailsStep, TakeLeaseStep, LeaseTimesOutStep,
     AnswerStep,
     ReplyStep, RevokeStep DEF Proceed
<1>3. ASSUME NEW t \in Task, Undisturbed(t), Call(t) PROVE Ind'
  BY <1>3, RefreshStep, GetTokenStep, AddCharacterStep, RemoveCharacterStep DEF Call
<1>4. CASE UNCHANGED vars
  <2>1. /\ store' = store /\ lease' = lease /\ gen' = gen /\ slot' = slot /\ task' = task
        /\ sso' = sso /\ dead' = dead
    BY <1>4 DEF vars
  <2>2. Types' /\ StoreKnown' /\ StoreUsable'
    BY <2>1 DEF Ind, Types, TypeOK, StoreKnown, StoreUsable, Replaces, Spendable, Ended
  <2>3. ASSUME NEW t \in Task PROVE Own(t)'
    BY <2>1 DEF Ind, Own, HasTurn, ReadLast, SendsOwn, BringsNew, Replaced, Active, Overtaken,
                Spendable, Ended
  <2>4. ASSUME NEW t \in Task, NEW u \in Task, t # u PROVE Apart(t, u)'
    BY <2>1, <2>4 DEF Ind, Apart
  <2> QED BY <2>2, <2>3, <2>4 DEF Ind
<1> QED BY <1>1, <1>2, <1>3, <1>4, PlayerRevokesStep, CrashStep DEF Next

LEMMA IndHolds == ASSUME Regime PROVE Spec => []Ind
<1>1. Init => Ind
  BY IndInit
<1>2. Ind /\ [Next]_vars => Ind'
  BY IndStep
<1> QED BY <1>1, <1>2, PTL DEF Spec

(* A refresh token goes to SSO once: two refreshes never have the same one  *)
(* under way, and what is sent was not rotated already, unless the rotation *)
(* was lost.  With several managers it is the lease that makes it so, with  *)
(* one the slot its callers join (EsiTokenManager.startRefresh).            *)
THEOREM SpentOnceHolds == ASSUME Regime PROVE Spec => []SpentOnce
<1>1. Ind => SpentOnce
  <2> SUFFICES ASSUME Ind, NEW t \in Task, At(t, "sso")
               PROVE  /\ task[t].rec.rt \in sso.valid \cup Ended
                      /\ \A u \in Task \ {t} : At(u, "sso") => task[u].rec.rt # task[t].rec.rt
    BY DEF SpentOnce
  <2>1. Own(t) /\ Flying(task[t])
    BY DEF Ind, Types, WellFormed, Flying
  <2>2. task[t].rec.rt \in sso.valid \cup Ended
    BY <2>1 DEF Own, SendsOwn, Spendable
  <2>3. \A u \in Task \ {t} : At(u, "sso") => task[u].rec.rt # task[t].rec.rt
    BY DEF Ind, Apart
  <2> QED BY <2>2, <2>3
<1> QED BY <1>1, IndHolds, PTL

(* The stored record can be refreshed, or its rotation is on its way to the *)
(* store (refreshStored, between the answer of SSO and the write), or SSO   *)
(* has a reason to refuse it.                                               *)
THEOREM StoredStaysUsable == ASSUME Regime PROVE Spec => []StoredIsUsable
<1>1. Ind => StoredIsUsable
  <2>1. ASSUME Ind, NEW t \in Task, Replaces(t)
        PROVE  task[t].pc \in {"reply", "put"} /\ task[t].rec = store
    BY <2>1 DEF Ind, Types, WellFormed, Replaces, Flying
  <2> QED BY <2>1 DEF Ind, StoreUsable, StoredIsUsable, Spendable
<1> QED BY <1>1, IndHolds, PTL

(* A record is marked revoked only if SSO had a reason to answer            *)
(* invalid_grant, not because the managers raced each other.                *)
THEOREM OnlyEndedAreRevoked == ASSUME Regime PROVE Spec => []RevokedIsReal
<1>1. Ind => RevokedIsReal
  BY DEF Ind, StoreKnown, RevokedIsReal
<1> QED BY <1>1, IndHolds, PTL

(* A refresh that was under way when a login or a removal completed stores  *)
(* nothing over it (supersededBy).                                          *)
THEOREM NewestWinsHolds == ASSUME Regime PROVE Spec => []NewestWins
<1>1. Ind => NewestWins
  BY DEF Ind, StoreKnown, NewestWins
<1> QED BY <1>1, IndHolds, PTL
=============================================================================
