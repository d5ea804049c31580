---------------------------- MODULE TokenManager ----------------------------
(***************************************************************************)
(* EsiTokenManager for one character: refreshes (coalesced per manager,    *)
(* under the storage's lease when it has one), logins and removals, over   *)
(* an asynchronous ITokenStorage and an SSO that rotates the refresh token *)
(* on every use.  Characters share no state, so one is enough.             *)
(*                                                                         *)
(* A task is one call into a manager.  What it does between two awaits is  *)
(* one step; a storage call is two, its effect and the code after the      *)
(* await.  With Gap, other tasks run between those two (a file, a          *)
(* database); without it they do not (a storage that answers at once).     *)
(***************************************************************************)
EXTENDS Naturals

CONSTANTS Manager,   \* token managers (processes) sharing the storage
          Caller,    \* calls under way in one manager
          MaxRt,     \* bound: refresh tokens SSO issues
          MaxGen,    \* bound: logins and removals one manager completes
          Locking,   \* does the storage provide withLock?
          Gap,       \* may others run between a storage call's effect and its answer?
          Logins,    \* may the character be added and removed?
          Faults,    \* may replies be lost, reads and writes fail, processes die?
          SsoTimeout,  \* is ssoTimeoutMs set?  (By default it is not.)
          None

ASSUME ConstantsAssumption ==
  MaxRt \in Nat \ {0} /\ MaxGen \in Nat /\ {Locking, Gap, Logins, Faults, SsoTimeout} \subseteq BOOLEAN

VARIABLES
  store,     \* the stored record of the character, or None
  lease,     \* the task holding the storage's lock for the character, or None
  gen,       \* generations: gen[m] counts the logins and removals m completed
  slot,      \* inFlight: the refresh that m's callers join, or None
  task,      \* where each task is, and its locals
  sso,       \* refresh tokens: how many were issued, which are valid, which the
             \* player or the application ended (refused), and which SSO rotated
             \* without the rotation being stored (lost)
  dead       \* logins that a completed login or removal has replaced

vars == <<store, lease, gen, slot, task, sso, dead>>

Task == Manager \X Caller
Mgr(t) == t[1]
Rt == 1 .. MaxRt

(* A StoredToken; login is the refresh token of the login it descends from. *)
Record == [rt : Rt, login : Rt, revoked : BOOLEAN]
Live(r) == r # None /\ ~r.revoked
ASSUME NoneAssumption == None \notin Record \cup Task \cup Rt

Reads == {"peek", "seenGet", "get", "existGet"}
Answered == [l \in Reads |->
  CASE l = "peek" -> "peeked" [] l = "seenGet" -> "seenGot"
    [] l = "get" -> "got" [] l = "existGet" -> "existGot"]
Continuing == {"peeked", "seenGot", "got", "existGot", "putDone"}
InStorage == Reads \cup {"put"} \cup Continuing   \* a storage call is under way

Idle == [pc |-> "idle", op |-> "none",
         seen |-> None,       \* the record the caller judged stale
         rec |-> None,        \* the record read; the one whose token is sent
         gen |-> 0,           \* the generation when it was sent
         reply |-> "none",
         put |-> None,        \* the record to store
         gone |-> None]       \* the login of the record it stored over

TaskState ==
  [pc : {"idle", "wait", "sso", "reply", "revoke", "put"} \cup Reads \cup Continuing,
   op : {"none", "refresh", "add", "remove"},
   seen : Record \cup {None}, rec : Record \cup {None}, gen : 0 .. MaxGen,
   reply : {"none", "rotated", "invalid_grant", "error"},
   put : Record \cup {None}, gone : Rt \cup {None}]

TypeOK ==
  /\ store \in Record \cup {None}
  /\ lease \in Task \cup {None}
  /\ gen \in [Manager -> 0 .. MaxGen]
  /\ slot \in [Manager -> Task \cup {None}]
  /\ task \in [Task -> TaskState]
  /\ sso \in [issued : Rt, valid : SUBSET Rt, refused : SUBSET Rt, lost : SUBSET Rt]
  /\ dead \in SUBSET Rt

Init ==
  /\ store = [rt |-> 1, login |-> 1, revoked |-> FALSE]
  /\ lease = None
  /\ gen = [m \in Manager |-> 0]
  /\ slot = [m \in Manager |-> None]
  /\ task = [t \in Task |-> Idle]
  /\ sso = [issued |-> 1, valid |-> {1}, refused |-> {}, lost |-> {}]
  /\ dead = {}

At(t, label) == task[t].pc = label
Goto(t, label) == task' = [task EXCEPT ![t].pc = label]

\* Mutant: the finally of startRefresh clears the slot whoever is in it.
SettleAnySlot(t) ==
  /\ task' = [task EXCEPT ![t] = Idle]
  /\ lease' = IF lease = t THEN None ELSE lease
  /\ slot' = [slot EXCEPT ![Mgr(t)] = None]

\* Mutant: the slot is never cleared.
SettleKeepSlot(t) ==
  /\ task' = [task EXCEPT ![t] = Idle]
  /\ lease' = IF lease = t THEN None ELSE lease
  /\ UNCHANGED slot

(* The call settles.  The lease ends with it, and the finally of            *)
(* startRefresh clears the slot only if it still holds this refresh.        *)
Settle(t) ==
  /\ task' = [task EXCEPT ![t] = Idle]
  /\ lease' = IF lease = t THEN None ELSE lease
  /\ slot' = IF slot[Mgr(t)] = t THEN [slot EXCEPT ![Mgr(t)] = None] ELSE slot

-----------------------------------------------------------------------------
(* Storage calls. *)

Read(t) ==
  /\ task[t].pc \in Reads
  /\ task' = [task EXCEPT ![t].rec = store, ![t].pc = Answered[task[t].pc]]
  /\ UNCHANGED <<store, lease, gen, slot, sso, dead>>

ReadFails(t) ==
  /\ Faults
  /\ task[t].pc \in Reads
  /\ Settle(t)
  /\ UNCHANGED <<store, gen, sso, dead>>

(* storage.set, or storage.delete for None. *)
Write(t) ==
  /\ At(t, "put")
  /\ store' = task[t].put
  /\ task' = [task EXCEPT ![t].pc = "putDone",
                          ![t].gone = IF store = None THEN None ELSE store.login]
  /\ UNCHANGED <<lease, gen, slot, sso, dead>>

(* The tokens whose rotation is lost if the tasks in ts end before storing. *)
Unstored(ts) ==
  {task[t].rec.rt : t \in {u \in ts : task[u].pc \in {"reply", "put"} /\ task[u].reply = "rotated"}}

\* Mutant: the lease is released only on success.
WriteFailsHolding(t) ==
  /\ Faults
  /\ At(t, "put")
  /\ task' = [task EXCEPT ![t] = Idle]
  /\ slot' = IF slot[Mgr(t)] = t THEN [slot EXCEPT ![Mgr(t)] = None] ELSE slot
  /\ sso' = [sso EXCEPT !.lost = @ \cup Unstored({t})]
  /\ UNCHANGED <<store, lease, gen, dead>>

WriteFails(t) ==
  /\ Faults
  /\ At(t, "put")
  /\ Settle(t)
  /\ sso' = [sso EXCEPT !.lost = @ \cup Unstored({t})]
  /\ UNCHANGED <<store, gen, dead>>

-----------------------------------------------------------------------------
(* Refreshing. *)

(* startRefresh with no refresh in flight.  `from` is the record the caller *)
(* judged stale, or None: under a lease the record is then read first.      *)
Start(t, from) ==
  /\ slot[Mgr(t)] = None
  /\ slot' = [slot EXCEPT ![Mgr(t)] = t]
  /\ task' = [task EXCEPT ![t] = [Idle EXCEPT
       !.op = "refresh", !.seen = from,
       !.pc = IF ~Locking THEN "get" ELSE IF from = None THEN "seenGet" ELSE "wait"]]
  /\ UNCHANGED <<store, lease, gen, sso, dead>>

Refresh(t) == At(t, "idle") /\ Start(t, None)

(* getToken and refreshOne read the record. *)
GetToken(t) ==
  /\ At(t, "idle")
  /\ Goto(t, "peek")
  /\ UNCHANGED <<store, lease, gen, slot, sso, dead>>

(* A missing, revoked or fresh record ends the call, and so does joining    *)
(* the refresh in flight; a stale one starts a refresh.                     *)
Peeked(t) ==
  /\ At(t, "peeked")
  /\ \/ Settle(t) /\ UNCHANGED <<store, gen, sso, dead>>
     \/ Live(task[t].rec) /\ Start(t, task[t].rec)

SeenGot(t) ==
  /\ At(t, "seenGot")
  /\ \/ ~Live(task[t].rec) /\ Settle(t)
     \/ /\ Live(task[t].rec)
        /\ task' = [task EXCEPT ![t].seen = task[t].rec, ![t].pc = "wait"]
        /\ UNCHANGED <<lease, slot>>
  /\ UNCHANGED <<store, gen, sso, dead>>

(* storage.withLock lets one holder run at a time (LockFile). *)
TakeLease(t) ==
  /\ At(t, "wait")
  /\ lease = None
  /\ lease' = t
  /\ Goto(t, "get")
  /\ UNCHANGED <<store, gen, slot, sso, dead>>

(* withLock rejects when its deadline passes: fn does not run. *)
LeaseTimesOut(t) ==
  /\ At(t, "wait")
  /\ Settle(t)
  /\ UNCHANGED <<store, gen, sso, dead>>

(* Another holder of the lease rotated the token since the caller saw it. *)
RotatedMeanwhile(t) == Locking /\ task[t].rec.rt # task[t].seen.rt

\* Mutant: the record seen before the lease was held is the one sent.
GotSendsSeen(t) ==
  /\ At(t, "got")
  /\ \/ ~Live(task[t].rec) /\ Settle(t)
     \/ /\ Live(task[t].rec)
        /\ task' = [task EXCEPT ![t].gen = gen[Mgr(t)], ![t].pc = "sso",
                                ![t].rec = task[t].seen]
        /\ UNCHANGED <<lease, slot>>
  /\ UNCHANGED <<store, gen, sso, dead>>

(* Missing or revoked rejects, a rotation by another holder is the answer;  *)
(* otherwise refreshStored notes the generation and sends the token.        *)
Got(t) ==
  /\ At(t, "got")
  /\ LET send == Live(task[t].rec) /\ ~RotatedMeanwhile(t) IN
     \/ ~send /\ Settle(t)
     \/ /\ send
        /\ task' = [task EXCEPT ![t].gen = gen[Mgr(t)], ![t].pc = "sso"]
        /\ UNCHANGED <<lease, slot>>
  /\ UNCHANGED <<store, gen, sso, dead>>

\* Mutant: the rotated refresh token of the reply is not kept.
AnswerNotKept(t) ==
  /\ At(t, "sso")
  /\ LET rt == task[t].rec.rt IN
     /\ rt \in sso.valid /\ sso.issued < MaxRt
     /\ sso' = [sso EXCEPT !.issued = @ + 1, !.valid = (@ \ {rt}) \cup {sso.issued + 1}]
     /\ task' = [task EXCEPT ![t].pc = "reply", ![t].reply = "rotated", ![t].put = task[t].rec]
  /\ UNCHANGED <<store, lease, gen, slot, dead>>

\* Mutant: a reply without a refresh token is stored as it is.
AnswerWithoutToken(t) ==
  /\ At(t, "sso")
  /\ LET rt == task[t].rec.rt IN
     /\ rt \in sso.valid /\ sso.issued < MaxRt
     /\ sso' = [sso EXCEPT !.issued = @ + 1, !.valid = (@ \ {rt}) \cup {sso.issued + 1}]
     /\ task' = [task EXCEPT ![t].pc = "reply", ![t].reply = "rotated",
                             ![t].put = [task[t].rec EXCEPT !.rt = None]]
  /\ UNCHANGED <<store, lease, gen, slot, dead>>

(* SSO answers: a valid token is rotated, any other is invalid_grant.  With *)
(* Faults the call fails, before SSO saw it or after it rotated the token.  *)
Answer(t) ==
  /\ At(t, "sso")
  /\ LET rt == task[t].rec.rt
         rotate == [sso EXCEPT !.issued = @ + 1, !.valid = (@ \ {rt}) \cup {sso.issued + 1}]
         replied(r, p) == task' = [task EXCEPT ![t].pc = "reply", ![t].reply = r, ![t].put = p]
     IN \/ /\ rt \in sso.valid /\ sso.issued < MaxRt
           /\ \/ replied("rotated", [task[t].rec EXCEPT !.rt = sso.issued + 1]) /\ sso' = rotate
              \/ Faults /\ replied("error", None) /\ sso' = [rotate EXCEPT !.lost = @ \cup {rt}]
        \/ /\ rt \notin sso.valid
           /\ replied("invalid_grant", [task[t].rec EXCEPT !.revoked = TRUE])
           /\ UNCHANGED sso
        \/ Faults /\ replied("error", None) /\ UNCHANGED sso
  /\ UNCHANGED <<store, lease, gen, slot, dead>>

\* Mutant: supersededBy is not asked.
ReplyAlwaysKept(t) ==
  /\ At(t, "reply")
  /\ \/ task[t].reply = "error" /\ Settle(t)
     \/ task[t].reply # "error" /\ Goto(t, "put") /\ UNCHANGED <<lease, slot>>
  /\ UNCHANGED <<store, gen, sso, dead>>

(* refreshStored after the SSO call: an error, or a refresh whose record    *)
(* was replaced meanwhile (supersededBy), ends here; otherwise the rotated  *)
(* token, or the revocation, is stored.                                     *)
Reply(t) ==
  /\ At(t, "reply")
  /\ LET keep == task[t].reply # "error" /\ gen[Mgr(t)] = task[t].gen IN
     \/ ~keep /\ Settle(t)
     \/ keep /\ Goto(t, "put") /\ UNCHANGED <<lease, slot>>
  /\ UNCHANGED <<store, gen, sso, dead>>

-----------------------------------------------------------------------------
(* Logins and removals. *)

(* addCharacter: SSO exchanges the code for a token of a new login;         *)
(* storeResponse reads the record it will replace.                          *)
AddCharacter(t) ==
  /\ Logins /\ At(t, "idle")
  /\ sso.issued < MaxRt /\ gen[Mgr(t)] < MaxGen
  /\ LET new == sso.issued + 1 IN
       /\ sso' = [sso EXCEPT !.issued = new, !.valid = @ \cup {new}]
       /\ task' = [task EXCEPT ![t].pc = "existGet", ![t].op = "add",
            ![t].put = [rt |-> new, login |-> new, revoked |-> FALSE]]
  /\ UNCHANGED <<store, lease, gen, slot, dead>>

RemoveCharacter(t) ==
  /\ Logins /\ At(t, "idle")
  /\ gen[Mgr(t)] < MaxGen
  /\ task' = [task EXCEPT ![t].pc = "existGet", ![t].op = "remove"]
  /\ UNCHANGED <<store, lease, gen, slot, sso, dead>>

(* Removing nothing ends the call; a live record may be revoked first.      *)
ExistGot(t) ==
  /\ At(t, "existGot")
  /\ LET nothing == task[t].op = "remove" /\ task[t].rec = None IN
     \/ nothing /\ Settle(t)
     \/ /\ ~nothing
        /\ Goto(t, "put") \/ (Live(task[t].rec) /\ Goto(t, "revoke"))
        /\ UNCHANGED <<lease, slot>>
  /\ UNCHANGED <<store, gen, sso, dead>>

(* sso.revoke of the record read; a failing call rejects and changes nothing. *)
Revoke(t) ==
  /\ At(t, "revoke")
  /\ LET rt == task[t].rec.rt IN
     \/ /\ sso' = [sso EXCEPT !.valid = @ \ {rt}, !.refused = @ \cup {rt}]
        /\ Goto(t, "put")
        /\ UNCHANGED <<lease, slot>>
     \/ Settle(t) /\ UNCHANGED sso
  /\ UNCHANGED <<store, gen, dead>>

(* The write has answered.  A refresh is over; a login or a removal only    *)
(* now bumps the generation and drops the refresh in flight.                *)
PutDone(t) ==
  /\ At(t, "putDone")
  /\ \/ /\ task[t].op = "refresh"
        /\ Settle(t)
        /\ UNCHANGED <<gen, dead>>
     \/ /\ task[t].op # "refresh"
        /\ gen[Mgr(t)] < MaxGen
        /\ gen' = [gen EXCEPT ![Mgr(t)] = @ + 1]
        /\ slot' = [slot EXCEPT ![Mgr(t)] = None]
        /\ dead' = dead \cup ({task[t].gone} \ {None})
        /\ task' = [task EXCEPT ![t] = Idle]
        /\ UNCHANGED lease
  /\ UNCHANGED <<store, sso>>

-----------------------------------------------------------------------------
(* The environment. *)

(* The player ends the application's access at SSO. *)
PlayerRevokes ==
  /\ sso.valid # {}
  /\ sso' = [sso EXCEPT !.valid = {}, !.refused = @ \cup sso.valid]
  /\ UNCHANGED <<store, lease, gen, slot, task, dead>>

(* A process dies and starts again: its calls and its memory are gone, and  *)
(* a lease it held goes stale and is broken.                                *)
Crash(m) ==
  /\ Faults
  /\ \E t \in Task : Mgr(t) = m /\ ~At(t, "idle")
  /\ task' = [t \in Task |-> IF Mgr(t) = m THEN Idle ELSE task[t]]
  /\ lease' = IF lease # None /\ Mgr(lease) = m THEN None ELSE lease
  /\ gen' = [gen EXCEPT ![m] = 0]
  /\ slot' = [slot EXCEPT ![m] = None]
  /\ sso' = [sso EXCEPT !.lost = @ \cup Unstored({t \in Task : Mgr(t) = m})]
  /\ UNCHANGED <<store, dead>>

-----------------------------------------------------------------------------
(* The code after a storage call's await. *)
Continue(t) == Peeked(t) \/ SeenGot(t) \/ Got(t) \/ ExistGot(t) \/ PutDone(t)

(* What a task does next, whoever called it. *)
Proceed(t) ==
  \/ Read(t) \/ ReadFails(t) \/ Write(t) \/ WriteFails(t)
  \/ TakeLease(t) \/ LeaseTimesOut(t) \/ Answer(t) \/ Reply(t) \/ Revoke(t)

Call(t) == Refresh(t) \/ GetToken(t) \/ AddCharacter(t) \/ RemoveCharacter(t)

(* Without Gap nothing else runs while a storage call is under way. *)
Undisturbed(t) == Gap \/ \A u \in Task \ {t} : task[u].pc \notin InStorage

Next ==
  \/ \E t \in Task : Undisturbed(t) /\ (Continue(t) \/ Proceed(t) \/ Call(t))
  \/ PlayerRevokes
  \/ \E m \in Manager : Crash(m)

Spec == Init /\ [][Next]_vars

(* Without ssoTimeoutMs a request waits for SSO as long as the connection   *)
(* stays open (EveSsoClientConfig.timeoutMs), perhaps for ever.             *)
Answers(t) == SsoTimeout \/ task[t].pc \notin {"sso", "revoke"}

(* A call that was made goes on: storage answers, SSO answers or its        *)
(* timeout does, and the event loop runs what they answered.  Nobody has to *)
(* make a call, or to crash.                                                *)
Fairness == \A t \in Task : WF_vars(Continue(t)) /\ WF_vars(Answers(t) /\ Proceed(t))
FairSpec == Spec /\ Fairness

-----------------------------------------------------------------------------
(* Tokens SSO may refuse: their access was ended, or their rotation got lost. *)
Ended == sso.refused \cup sso.lost

(* A refresh token is sent to SSO at most once (types.ts, withLock): never  *)
(* by two refreshes at a time, and never one SSO has already rotated, if    *)
(* the rotation was not lost.                                               *)
SpentOnce ==
  \A t \in Task : At(t, "sso") =>
    /\ task[t].rec.rt \in sso.valid \cup Ended
    /\ \A u \in Task \ {t} : At(u, "sso") => task[u].rec.rt # task[t].rec.rt

(* A stored record that is not marked revoked can still be refreshed,       *)
(* unless it was ended or its rotation is on its way to the store or lost.  *)
StoredIsUsable ==
  Live(store) =>
    \/ store.rt \in sso.valid \cup Ended
    \/ \E t \in Task : task[t].pc \in {"reply", "put"} /\ task[t].rec = store

(* A character is marked revoked only when its access was really ended or a *)
(* rotation was lost, not because the managers spent one token twice.       *)
RevokedIsReal == store # None /\ store.revoked => store.rt \in Ended

(* Once a login or a removal has completed, the record it replaced, or any  *)
(* rotation of it, is never stored again: a refresh that was under way      *)
(* neither overwrites the new login nor brings a removed character back.    *)
NewestWins == store # None => store.login \notin dead

(* With ssoTimeoutMs set, whatever fails or crashes, a refresh that callers *)
(* join settles and frees its slot, and a lease that was taken is given     *)
(* back.  Without it one hung request keeps both (guides/AUTHENTICATION.md).*)
EverySlotIsFreed == \A m \in Manager : slot[m] # None ~> slot[m] = None
LeaseIsReturned == lease # None ~> lease = None
=============================================================================
