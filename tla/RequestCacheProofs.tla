------------------------- MODULE RequestCacheProofs -------------------------
(***************************************************************************)
(* Proofs about RequestCache: with any number of callers, writes and       *)
(* retries, any size of the write log, and with or without a deduplicator, *)
(* the cache holds no body from before a completed write and no later read *)
(* answers with one.                                                       *)
(***************************************************************************)
EXTENDS RequestCache, TLAPS

LEMMA AttemptType ==
  ASSUME TypeOK, NEW c \in Caller, NEW r \in CallState, Attempt(c, r)
  PROVE  call' \in [Caller -> CallState] /\ inflight' \in Caller \cup {None}
         /\ \A d \in Caller : WellFormed(call'[d])
<1> USE DEF TypeOK, CallState, Running, Writing, WellFormed
<1>1. CASE Fresh /\ call' = [call EXCEPT ![c] = [r EXCEPT !.pc = "done", !.body = cache.body]]
           /\ UNCHANGED inflight
  BY ZenonT(60), <1>1 DEF Fresh, Entry
<1>2. CASE inflight # None /\ call' = [call EXCEPT ![c] = [r EXCEPT !.pc = "join", !.on = inflight]]
           /\ UNCHANGED inflight
  BY <1>2
<1>3. CASE call' = [call EXCEPT ![c] = Sent(r)] /\ inflight' = IF Dedup THEN c ELSE None
  <2>1. Sent(r) \in CallState /\ Sent(r).pc = "send"
    BY DEF Sent, Entry
  <2> QED BY <1>3, <2>1
<1> QED BY <1>1, <1>2, <1>3 DEF Attempt

LEMMA IdleType == Idle \in CallState /\ Idle.pc = "idle"
  BY ConstantsAssumption DEF Idle, CallState, Path, Running, Writing

LEMMA RecordType ==
  ASSUME TypeOK, NEW p \in Path
  PROVE  /\ Record(p).gen \in Nat
         /\ Record(p).recent \in Seq(Path) /\ Len(Record(p).recent) <= RecentWrites
<1>1. Append(log.recent, p) \in Seq(Path) /\ Len(Append(log.recent, p)) = Len(log.recent) + 1
  BY DEF TypeOK
<1>2. Append(log.recent, p) # <<>>
  BY <1>1 DEF TypeOK
<1>3. /\ Tail(Append(log.recent, p)) \in Seq(Path)
      /\ Len(Tail(Append(log.recent, p))) = Len(log.recent)
  BY <1>1, <1>2 DEF TypeOK
<1> QED BY <1>1, <1>3, ConstantsAssumption DEF Record, TypeOK

LEMMA ResultType ==
  ASSUME ConstantsAssumption, NEW r \in CallState, NEW body \in Version \cup {None}, NEW again \in BOOLEAN
  PROVE  Result(r, body, again) \in CallState /\ Result(r, body, again).pc \in {"backoff", "done"}
<1>1. CASE body = None /\ again /\ r.try < MaxTry
  <2>1. r.try + 1 \in 0 .. MaxTry /\ r.floor \in 0 .. MaxVersion
    BY <1>1, ConstantsAssumption DEF CallState
  <2> QED BY <1>1, <2>1, IdleType DEF Result, CallState, Idle
<1>2. CASE ~(body = None /\ again /\ r.try < MaxTry)
  <2>1. r.floor \in 0 .. MaxVersion BY DEF CallState
  <2> QED BY <1>2, <2>1, IdleType DEF Result, CallState, Idle
<1> QED BY <1>1, <1>2

LEMMA UpdateType ==
  ASSUME TypeOK, NEW c \in Caller, NEW r \in CallState,
         WellFormed(r),
         call' = [call EXCEPT ![c] = r]
  PROVE  call' \in [Caller -> CallState]
         /\ \A d \in Caller : WellFormed(call'[d])
  BY DEF TypeOK, WellFormed

LEMMA SettleType ==
  ASSUME TypeOK, NEW c \in Caller, NEW body \in Version \cup {None}, SettleWith(c, body)
  PROVE  call' \in [Caller -> CallState]
         /\ \A d \in Caller : WellFormed(call'[d])
<1> DEFINE r == [call[c] EXCEPT !.pc = "settle", !.body = body,
                                !.reply = None, !.inm = None, !.gen = 0]
<1>1. r \in CallState /\ r.pc = "settle"
  BY ZenonT(60) DEF TypeOK, CallState, Running
<1> QED BY <1>1, UpdateType DEF SettleWith, WellFormed

LEMMA TypeStep == TypeOK /\ [Next]_vars => TypeOK'
<1> SUFFICES ASSUME TypeOK, [Next]_vars PROVE TypeOK'
  OBVIOUS
<1> USE ConstantsAssumption, IdleType DEF WellFormed
<1>1. ASSUME NEW c \in Caller, Get(c) PROVE TypeOK'
  <2>1. [Idle EXCEPT !.floor = floor] \in CallState
    BY DEF TypeOK, CallState
  <2> QED BY <1>1, <2>1, AttemptType DEF Get, TypeOK
<1>2. ASSUME NEW c \in Caller, Retry(c) PROVE TypeOK'
  <2>1. call[c] \in CallState
    BY DEF TypeOK
  <2> QED BY <1>2, <2>1, AttemptType DEF Retry, TypeOK
<1>3. ASSUME NEW c \in Caller, ServerAnswers(c) PROVE TypeOK'
  <2>1. PICK s \in {"ok", "notModified", "serverError", "failed"} :
          call' = [call EXCEPT ![c] = [@ EXCEPT !.pc = "reply", !.reply =
            [status |-> s, body |-> IF s = "ok" THEN server ELSE None]]]
    BY <1>3 DEF ServerAnswers
  <2> DEFINE reply == [status |-> s, body |-> IF s = "ok" THEN server ELSE None]
  <2>2. reply \in Reply /\ reply # None
    BY NoneAssumption DEF Reply, TypeOK
  <2>3. [call[c] EXCEPT !.pc = "reply", !.reply = reply] \in CallState
    BY ZenonT(60), <2>2 DEF TypeOK, CallState, Running
  <2> DEFINE r == [call[c] EXCEPT !.pc = "reply", !.reply = reply]
  <2>4. call' = [call EXCEPT ![c] = r] /\ WellFormed(r)
    BY <2>1, <2>2 DEF TypeOK, CallState
  <2> HIDE DEF r
  <2>5. /\ call' \in [Caller -> CallState]
        /\ \A d \in Caller : WellFormed(call'[d])
    BY <2>3, <2>4, UpdateType DEF r
  <2> QED BY <1>3, <2>5 DEF ServerAnswers, TypeOK
<1>4. ASSUME NEW c \in Caller, Accept(c) PROVE TypeOK'
  <2>1. call[c].reply.body \in Version
    BY <1>4 DEF Accept, Replied, At, TypeOK, CallState, Reply
  <2>2. cache' \in Entry \cup {None}
    <3>1. \A v \in Version : [etag |-> v, body |-> v, fresh |-> TRUE] \in Entry
      BY DEF Entry
    <3> QED BY <1>4, <2>1, <3>1 DEF Accept, TypeOK
  <2>3. SettleWith(c, call[c].reply.body) /\ UNCHANGED <<server, log, inflight, floor>>
    BY <1>4 DEF Accept
  <2> QED BY <2>1, <2>2, <2>3, SettleType DEF TypeOK
<1>5. ASSUME NEW c \in Caller, NotModified(c) PROVE TypeOK'
  BY <1>5, SettleType DEF NotModified, TypeOK, Entry
<1>6. ASSUME NEW c \in Caller, Repeat(c) PROVE TypeOK'
  <2>1. Sent(call[c]) \in CallState /\ Sent(call[c]).pc = "send"
    BY DEF TypeOK, CallState, Sent, Entry, Running
  <2> QED BY <1>6, <2>1 DEF Repeat, TypeOK
<1>7. ASSUME NEW c \in Caller, ServeStale(c) PROVE TypeOK'
  BY <1>7, SettleType DEF ServeStale, TypeOK, Entry
<1>8. ASSUME NEW c \in Caller, Reject(c) PROVE TypeOK'
  BY <1>8, SettleType DEF Reject, TypeOK
<1>9. ASSUME NEW c \in Caller, Settle(c) PROVE TypeOK'
  <2>1. PICK again \in BOOLEAN : call' = [d \in Caller |->
          IF d = c \/ (At(d, "join") /\ call[d].on = c)
          THEN Result(call[d], call[c].body, again) ELSE call[d]]
    BY <1>9 DEF Settle
  <2>2. \A d \in Caller : /\ Result(call[d], call[c].body, again) \in CallState
                          /\ Result(call[d], call[c].body, again).pc \in {"backoff", "done"}
    BY ZenonT(60), ResultType DEF TypeOK, CallState
  <2> QED BY <1>9, <2>1, <2>2 DEF Settle, TypeOK
<1>10. ASSUME NEW c \in Caller, Return(c) PROVE TypeOK'
  BY <1>10 DEF Return, TypeOK
<1>11. ASSUME NEW c \in Caller, NEW p \in Path, Write(c, p) PROVE TypeOK'
  BY <1>11 DEF Write, TypeOK, CallState, Writing
<1>12. ASSUME NEW c \in Caller, ServerWrites(c) PROVE TypeOK'
  <2>1. PICK ok \in BOOLEAN : call' = [call EXCEPT ![c] = [@ EXCEPT !.pc = "written", !.reply =
            IF ok THEN [status |-> "ok", body |-> server'] ELSE Failed]]
    BY <1>12 DEF ServerWrites
  <2> DEFINE reply == IF ok THEN [status |-> "ok", body |-> server'] ELSE Failed
  <2>2. server' \in Version /\ reply \in Reply /\ reply # None
    BY <1>12, NoneAssumption DEF ServerWrites, Reply, Failed
  <2>3. [call[c] EXCEPT !.pc = "written", !.reply = reply] \in CallState
    BY ZenonT(60), <2>2 DEF TypeOK, CallState, Writing
  <2> DEFINE r == [call[c] EXCEPT !.pc = "written", !.reply = reply]
  <2>4. call' = [call EXCEPT ![c] = r] /\ WellFormed(r)
    BY <2>1, <2>2 DEF TypeOK, CallState
  <2> HIDE DEF r
  <2>5. /\ call' \in [Caller -> CallState]
        /\ \A d \in Caller : WellFormed(call'[d])
    BY <2>3, <2>4, UpdateType DEF r
  <2> QED BY <1>12, <2>2, <2>5 DEF ServerWrites, TypeOK
<1>13. ASSUME NEW c \in Caller, InvalidateAfterWrite(c) PROVE TypeOK'
  <2>1. call[c].path \in Path /\ call[c].reply.body \in Version
    BY <1>13 DEF InvalidateAfterWrite, At, TypeOK, CallState, Reply
  <2>2. log'.gen \in Nat /\ log'.recent \in Seq(Path) /\ Len(log'.recent) <= RecentWrites
    BY <1>13, <2>1, RecordType DEF InvalidateAfterWrite
  <2>3. CASE call[c].path = "own"
    <3>1. \A d \in Caller : /\ [call[d] EXCEPT !.detached = TRUE] \in CallState
                            /\ WellFormed([call[d] EXCEPT !.detached = TRUE])
      BY DEF TypeOK, CallState
    <3>2. call' \in [Caller -> CallState]
      BY <1>13, <2>3, <3>1 DEF InvalidateAfterWrite, TypeOK
    <3>3. \A d \in Caller : WellFormed(call'[d])
      BY <1>13, <2>3, <3>1 DEF InvalidateAfterWrite, TypeOK
    <3>4. floor' \in 0 .. MaxVersion
      BY <1>13, <2>1, <2>3 DEF InvalidateAfterWrite, TypeOK, Version
    <3> QED BY <1>13, <2>2, <2>3, <3>2, <3>3, <3>4 DEF InvalidateAfterWrite, TypeOK
  <2>4. CASE call[c].path # "own"
    BY <1>13, <2>1, <2>2, <2>4 DEF InvalidateAfterWrite, TypeOK
  <2> QED BY <2>3, <2>4
<1>14. ASSUME NEW c \in Caller, WriteFailed(c) PROVE TypeOK'
  BY <1>14 DEF WriteFailed, TypeOK
<1>15. CASE ServerChanges
  BY <1>15 DEF ServerChanges, TypeOK, Version
<1>16. CASE Age
  BY <1>16 DEF Age, TypeOK, Entry, Fresh
<1>17. CASE Evict
  BY <1>17 DEF Evict, TypeOK
<1>18. CASE UNCHANGED vars
  BY <1>18 DEF vars, TypeOK
<1> QED BY <1>1, <1>2, <1>3, <1>4, <1>5, <1>6, <1>7, <1>8, <1>9, <1>10, <1>11, <1>12,
           <1>13, <1>14, <1>15, <1>16, <1>17, <1>18 DEF Next, Proceed

LEMMA TypeInit == Init => TypeOK
  BY ConstantsAssumption, IdleType DEF Init, TypeOK, Version, WellFormed

(* The type invariant holds, whatever the constants. *)
THEOREM TypeCorrect == Spec => []TypeOK
  BY TypeInit, TypeStep, PTL DEF Spec

-----------------------------------------------------------------------------
(* The write log never forgets a write that a read in flight must know of:  *)
(* it still holds it, or the read is older than all that it holds.          *)
LEMMA LogGrows ==
  ASSUME TypeOK, NEW p \in Path, NEW g \in Nat, g <= log.gen, log' = Record(p)
  PROVE  /\ InvalidatedSince(g) => InvalidatedSince(g)'
         /\ p = "own" => InvalidatedSince(g)'
<1> DEFINE n == Len(log.recent)
           all == Append(log.recent, p)
<1>1. /\ n \in Nat /\ n <= RecentWrites /\ log.gen \in Nat /\ RecentWrites \in Nat
      /\ all \in Seq(Path) /\ Len(all) = n + 1 /\ all[n + 1] = p
      /\ \A i \in 1 .. n : all[i] = log.recent[i]
  BY ConstantsAssumption DEF TypeOK
<1>2. CASE n < RecentWrites
  <2>1. log'.gen = log.gen + 1 /\ log'.recent = all
    BY <1>1, <1>2 DEF Record
  <2>2. p = "own" => InvalidatedSince(g)'
    BY SMTT(60), <1>1, <2>1 DEF InvalidatedSince
  <2>3. ASSUME InvalidatedSince(g) PROVE InvalidatedSince(g)'
    <3>1. CASE log.gen - g > n
      BY <1>1, <2>1, <3>1 DEF InvalidatedSince
    <3>2. CASE \E i \in 1 .. n : log.gen - n + i > g /\ log.recent[i] = "own"
      <4>1. PICK i \in 1 .. n : log.gen - n + i > g /\ log.recent[i] = "own"
        BY <3>2
      <4>2. /\ i \in 1 .. n + 1 /\ (log.gen + 1) - (n + 1) + i > g
            /\ all[i] = "own" /\ log.gen + 1 # g
        BY <1>1, <4>1
      <4> QED BY <1>1, <2>1, <4>2 DEF InvalidatedSince
    <3> QED BY <2>3, <3>1, <3>2 DEF InvalidatedSince
  <2> QED BY <2>2, <2>3
<1>3. CASE n = RecentWrites
  <2>1. /\ log'.gen = log.gen + 1 /\ log'.recent = Tail(all)
        /\ Len(Tail(all)) = n
        /\ \A i \in 1 .. n : Tail(all)[i] = all[i + 1]
    BY SMTT(60), <1>1, <1>3 DEF Record
  <2>2. p = "own" => InvalidatedSince(g)'
    <3>1. CASE n = 0
      BY <1>1, <2>1, <3>1 DEF InvalidatedSince
    <3>2. CASE n > 0 /\ p = "own"
      <4>1. /\ n \in 1 .. n /\ (log.gen + 1) - n + n > g
            /\ Tail(all)[n] = "own" /\ log.gen + 1 # g
        BY <1>1, <2>1, <3>2
      <4> QED BY <1>1, <2>1, <4>1 DEF InvalidatedSince
    <3> QED BY <1>1, <3>1, <3>2
  <2>3. ASSUME InvalidatedSince(g) PROVE InvalidatedSince(g)'
    <3>1. CASE log.gen + 1 - g > n
      BY <1>1, <2>1, <3>1 DEF InvalidatedSince
    <3>2. CASE ~(log.gen + 1 - g > n)
      <4>1. PICK i \in 1 .. n : log.gen - n + i > g /\ log.recent[i] = "own"
        BY <1>1, <2>3, <3>2 DEF InvalidatedSince
      <4>2. i # 1
        BY <1>1, <3>2, <4>1
      <4>3. /\ i - 1 \in 1 .. n /\ (log.gen + 1) - n + (i - 1) > g
            /\ Tail(all)[i - 1] = "own" /\ log.gen + 1 # g
        BY <1>1, <2>1, <4>1, <4>2
      <4> QED BY <1>1, <2>1, <4>3 DEF InvalidatedSince
    <3> QED BY <3>1, <3>2
  <2> QED BY <2>2, <2>3
<1> QED BY <1>1, <1>2, <1>3

-----------------------------------------------------------------------------
(* A step that touches no call but c's, no write and no promise made: what  *)
(* is left to show of it.                                                   *)
LEMMA OneCall ==
  ASSUME TypeOK, TypeOK', WriteInv, NEW c \in Caller, NEW r \in CallState,
         call' = [call EXCEPT ![c] = r],
         log' = log, floor' = floor, server' >= server,
         r.floor <= floor, r.gen <= log.gen,
         r.pc = "written" /\ r.reply.status = "ok" => r.reply.body <= server',
         r.pc = "reply" /\ r.reply.status = "ok" /\ ~InvalidatedSince(r.gen) => r.reply.body >= floor,
         r.pc \in {"reply", "settle"} => r.floor = call[c].floor,
         \A f \in 0 .. floor : InHand(c, f) => InHand(c, f)',
         r.pc = "join" => InHand(r.on, r.floor)',
         inflight' # None => inflight' = inflight \/ (inflight' = c /\ InHand(c, floor)'),
         NoPreWriteEntry',
         r.pc = "done" /\ r.body # None => r.body >= r.floor
  PROVE  WriteInv'
<1>1. \A g \in Nat : InvalidatedSince(g)' <=> InvalidatedSince(g)
  BY DEF InvalidatedSince
<1>2. /\ floor \in 0 .. MaxVersion
      /\ \A d \in Caller : call[d].floor \in 0 .. floor /\ call'[d].floor \in 0 .. floor
                           /\ call[d].gen \in Nat
  BY ConstantsAssumption DEF WriteInv, FloorIsOld, TypeOK, CallState
<1>3. call'[c] = r /\ \A d \in Caller : d # c => call'[d] = call[d]
  BY DEF TypeOK
<1>4. \A d \in Caller, f \in 0 .. floor : InHand(d, f) => InHand(d, f)'
  BY <1>3 DEF InHand, Replied, At
<1>5. FloorIsOld'
  <2>1. floor' <= server'
    BY <1>2 DEF WriteInv, FloorIsOld, TypeOK, Version
  <2>2. ASSUME NEW d \in Caller, d # c, call[d].pc = "written", call[d].reply.status = "ok"
        PROVE  call[d].reply.body <= server'
    <3>1. call[d].reply.body \in Version
      BY <2>2 DEF TypeOK, CallState, Reply, WellFormed
    <3> QED BY <2>2, <3>1 DEF WriteInv, FloorIsOld, At, TypeOK, Version
  <2> QED BY <1>3, <2>1, <2>2 DEF WriteInv, FloorIsOld, At
<1>6. OldBodiesAreKnown'
  <2>1. ASSUME NEW d \in Caller, Replied(d, "ok")', ~InvalidatedSince(call[d].gen)'
        PROVE  call'[d].reply.body >= floor'
    <3>1. CASE d = c
      BY <1>1, <1>3, <2>1, <3>1 DEF Replied, At, CallState, InvalidatedSince
    <3>2. CASE d # c
      BY <1>1, <1>2, <1>3, <2>1, <3>2 DEF WriteInv, OldBodiesAreKnown, Replied, At, InvalidatedSince
    <3> QED BY <3>1, <3>2
  <2>2. ASSUME inflight' # None PROVE InHand(inflight, floor)'
    BY <1>2, <1>4, <2>2 DEF WriteInv, OldBodiesAreKnown, TypeOK, InHand, Replied, At
  <2>3. ASSUME NEW d \in Caller PROVE InHand(d, call[d].floor)'
    <3>1. InHand(d, call[d].floor)
      BY DEF WriteInv, OldBodiesAreKnown
    <3> QED BY <1>2, <1>3, <1>4, <3>1 DEF InHand, Replied, At
  <2>4. ASSUME NEW d \in Caller, At(d, "join")' PROVE InHand(call[d].on, call[d].floor)'
    <3>1. CASE d = c
      BY <1>3, <2>4, <3>1 DEF At, InHand, Replied
    <3>2. CASE d # c
      BY SMTT(120), <1>2, <1>3, <1>4, <2>4, <3>2 DEF At, WriteInv, OldBodiesAreKnown, TypeOK, CallState, InHand, Replied
    <3> QED BY <3>1, <3>2
  <2> QED BY <2>1, <2>2, <2>3, <2>4 DEF OldBodiesAreKnown
<1>7. ReadsFollowWrites'
  BY <1>3 DEF WriteInv, ReadsFollowWrites, At
<1> QED BY <1>5, <1>6, <1>7 DEF WriteInv

(* Every answer in hand, or in a settled call, is a version or None. *)
LEMMA InHandNow ==
  ASSUME TypeOK, WriteInv, NEW c \in Caller, NEW f \in 0 .. floor
  PROVE  /\ server >= f
         /\ cache # None => cache.body >= f
         /\ call[c].floor \in 0 .. floor /\ floor \in 0 .. MaxVersion
         /\ call[c].gen \in Nat /\ call[c].gen <= log.gen
  BY ConstantsAssumption
  DEF WriteInv, FloorIsOld, NoPreWriteEntry, TypeOK, CallState, Version, Entry

LEMMA AttemptStep ==
  ASSUME TypeOK, TypeOK', WriteInv, NEW c \in Caller, NEW r \in CallState, Attempt(c, r),
         r.floor <= floor, r.gen <= log.gen,
         UNCHANGED <<server, cache, log, floor>>
  PROVE  WriteInv'
<1>1. NoPreWriteEntry' /\ server' >= server
  BY DEF WriteInv, NoPreWriteEntry, TypeOK, Version
<1>2. r.floor \in 0 .. floor
  BY ConstantsAssumption DEF CallState, TypeOK
<1>3. CASE Fresh /\ call' = [call EXCEPT ![c] = [r EXCEPT !.pc = "done", !.body = cache.body]]
           /\ UNCHANGED inflight
  <2>1. PICK r1 \in CallState : r1 = [r EXCEPT !.pc = "done", !.body = cache.body]
    BY <1>3 DEF Fresh, TypeOK, CallState, Entry
  <2>2. /\ call' = [call EXCEPT ![c] = r1]
        /\ r1.pc = "done" /\ r1.body >= r1.floor /\ r1.floor <= floor /\ r1.gen <= log.gen
    BY <1>2, <1>3, <2>1, InHandNow DEF Fresh, TypeOK, CallState, Entry
  <2>3. \A f \in 0 .. floor : InHand(c, f)'
    BY <2>2 DEF InHand, Replied, At, TypeOK
  <2> QED BY <1>1, <1>3, <2>1, <2>2, <2>3, OneCall
<1>4. CASE inflight # None
           /\ call' = [call EXCEPT ![c] = [r EXCEPT !.pc = "join", !.on = inflight]]
           /\ UNCHANGED inflight
  <2>1. PICK r1 \in CallState : r1 = [r EXCEPT !.pc = "join", !.on = inflight]
    BY <1>4 DEF TypeOK, CallState
  <2>2. /\ call' = [call EXCEPT ![c] = r1]
        /\ r1.pc = "join" /\ r1.on = inflight /\ r1.floor = r.floor /\ r1.gen <= log.gen
    BY <1>4, <2>1 DEF TypeOK, CallState
  <2>3. \A f \in 0 .. floor : InHand(c, f)'
    BY <2>2 DEF InHand, Replied, At, TypeOK
  <2>4. InHand(r1.on, r1.floor)'
    <3>1. InHand(inflight, floor) /\ inflight \in Caller
      BY <1>4 DEF WriteInv, OldBodiesAreKnown, TypeOK
    <3>2. InHand(inflight, r.floor)
      <4>1. Replied(inflight, "ok") => call[inflight].reply.body \in Version
        BY <3>1 DEF TypeOK, CallState, Reply, Replied, At, WellFormed
      <4>2. call[inflight].body # None => call[inflight].body \in Version
        BY <3>1 DEF TypeOK, CallState
      <4> QED BY <1>2, <3>1, <4>1, <4>2, InHandNow DEF InHand, Version
    <3>3. CASE inflight = c
      BY <1>2, <2>2, <2>3, <3>3
    <3>4. CASE inflight # c
      BY <2>2, <3>1, <3>2, <3>4 DEF InHand, Replied, At, TypeOK
    <3> QED BY <3>3, <3>4
  <2> QED BY <1>1, <1>2, <1>4, <2>1, <2>2, <2>3, <2>4, OneCall
<1>5. CASE call' = [call EXCEPT ![c] = Sent(r)] /\ inflight' = IF Dedup THEN c ELSE None
  <2>1. PICK r1 \in CallState : r1 = Sent(r)
    BY DEF Sent, TypeOK, CallState, Entry, Running
  <2>2. /\ call' = [call EXCEPT ![c] = r1]
        /\ r1.pc = "send" /\ r1.floor = r.floor /\ r1.gen = log.gen
    BY <1>5, <2>1 DEF Sent, TypeOK, CallState
  <2>3. \A f \in 0 .. floor : InHand(c, f)'
    BY <2>2 DEF InHand, Replied, At, TypeOK
  <2>4. inflight' # None => inflight' = c /\ InHand(c, floor)'
    BY <1>5, <2>2 DEF InHand, Replied, At, TypeOK
  <2>5. r1.floor <= floor /\ r1.gen <= log.gen
    BY <2>2 DEF TypeOK
  <2>6. inflight' # None => inflight' = inflight \/ (inflight' = c /\ InHand(c, floor)')
    BY <2>4
  <2> QED BY <1>1, <2>1, <2>2, <2>3, <2>5, <2>6, OneCall
<1> QED BY <1>3, <1>4, <1>5 DEF Attempt

(* executeRequest settles with a body no older than any promise. *)
LEMMA SettleStep ==
  ASSUME TypeOK, TypeOK', WriteInv, NEW c \in Caller, NEW body \in Version \cup {None},
         SettleWith(c, body), UNCHANGED <<server, log, inflight, floor>>, NoPreWriteEntry',
         \A f \in 0 .. floor : InHand(c, f) => body = None \/ body >= f
  PROVE  WriteInv'
<1>1. PICK r \in CallState : r = [call[c] EXCEPT !.pc = "settle", !.body = body,
                                                  !.reply = None, !.inm = None, !.gen = 0]
  BY ZenonT(60) DEF TypeOK, CallState, Running
<1>2. /\ call' = [call EXCEPT ![c] = r]
      /\ r.pc = "settle" /\ r.body = body /\ r.floor = call[c].floor /\ r.gen = 0
  BY <1>1 DEF SettleWith, TypeOK, CallState
<1>3. r.floor <= floor /\ r.gen <= log.gen /\ server' >= server
  BY <1>2, InHandNow, ConstantsAssumption DEF TypeOK, Version, WriteInv, FloorIsOld
<1>4. \A f \in 0 .. floor : InHand(c, f) => InHand(c, f)'
  BY <1>2 DEF InHand, Replied, At, TypeOK
<1>5. inflight' # None => inflight' = inflight \/ (inflight' = c /\ InHand(c, floor)')
  OBVIOUS
<1> QED BY <1>2, <1>3, <1>4, <1>5, OneCall

LEMMA WriteStep == TypeOK /\ TypeOK' /\ WriteInv /\ [Next]_vars => WriteInv'
<1> SUFFICES ASSUME TypeOK, TypeOK', WriteInv, [Next]_vars PROVE WriteInv'
  OBVIOUS
<1>1. ASSUME NEW c \in Caller, Get(c) PROVE WriteInv'
  <2>1. PICK r \in CallState : r = [Idle EXCEPT !.floor = floor]
    BY IdleType DEF TypeOK, CallState
  <2>2. r.floor = floor /\ r.gen = 0 /\ Attempt(c, r)
    BY <1>1, <2>1 DEF Get, Idle
  <2>3. r.floor <= floor /\ r.gen <= log.gen
    BY <2>2, ConstantsAssumption DEF TypeOK
  <2> QED BY <1>1, <2>2, <2>3, AttemptStep DEF Get
<1>2. ASSUME NEW c \in Caller, Retry(c) PROVE WriteInv'
  <2>1. PICK r \in CallState : r = call[c]
    BY DEF TypeOK
  <2>2. Attempt(c, r) /\ r.floor <= floor /\ r.gen <= log.gen
    BY <1>2, <2>1 DEF Retry, WriteInv, FloorIsOld
  <2> QED BY <1>2, <2>2, AttemptStep DEF Retry
<1>3. ASSUME NEW c \in Caller, ServerAnswers(c) PROVE WriteInv'
  <2>1. PICK s \in {"ok", "notModified", "serverError", "failed"} :
          call' = [call EXCEPT ![c] = [@ EXCEPT !.pc = "reply", !.reply =
            [status |-> s, body |-> IF s = "ok" THEN server ELSE None]]]
    BY <1>3 DEF ServerAnswers
  <2>2. PICK r \in CallState : r = [call[c] EXCEPT !.pc = "reply", !.reply =
            [status |-> s, body |-> IF s = "ok" THEN server ELSE None]]
    BY ZenonT(120) DEF TypeOK, CallState, Running, Reply
  <2>3. /\ call' = [call EXCEPT ![c] = r]
        /\ r.pc = "reply" /\ r.floor = call[c].floor /\ r.gen = call[c].gen
        /\ r.reply.status = "ok" => r.reply.body = server
    BY <2>1, <2>2 DEF TypeOK, CallState
  <2>4. server >= floor /\ server' >= server /\ r.floor <= floor /\ r.gen <= log.gen /\ NoPreWriteEntry'
    BY <1>3, <2>3 DEF ServerAnswers, WriteInv, FloorIsOld, NoPreWriteEntry, TypeOK, Version
  <2>5. \A f \in 0 .. floor : InHand(c, f) => InHand(c, f)'
    BY <2>3, InHandNow DEF InHand, Replied, At, TypeOK
  <2> QED BY <1>3, <2>3, <2>4, <2>5, OneCall DEF ServerAnswers
<1>4. ASSUME NEW c \in Caller, Accept(c) PROVE WriteInv'
  <2>1. PICK v \in Version : v = call[c].reply.body
    BY <1>4 DEF Accept, Replied, At, TypeOK, CallState, Reply, WellFormed
  <2>2. NoPreWriteEntry'
    BY <1>4, <2>1 DEF Accept, WriteInv, OldBodiesAreKnown, NoPreWriteEntry, TypeOK
  <2>3. \A f \in 0 .. floor : InHand(c, f) => v = None \/ v >= f
    BY <1>4, <2>1 DEF Accept, InHand
  <2> QED BY <1>4, <2>1, <2>2, <2>3, SettleStep DEF Accept
<1>5. ASSUME NEW c \in Caller, NotModified(c) PROVE WriteInv'
  <2>1. PICK v \in Version : v = cache.body
    BY <1>5 DEF NotModified, TypeOK, Entry
  <2>2. NoPreWriteEntry'
    BY <1>5 DEF NotModified, WriteInv, NoPreWriteEntry, TypeOK, Entry
  <2>3. \A f \in 0 .. floor : InHand(c, f) => v = None \/ v >= f
    BY <1>5, <2>1, InHandNow DEF NotModified
  <2> QED BY <1>5, <2>1, <2>2, <2>3, SettleStep DEF NotModified
<1>6. ASSUME NEW c \in Caller, Repeat(c) PROVE WriteInv'
  <2>1. PICK r \in CallState : r = Sent(call[c])
    BY ZenonT(60) DEF TypeOK, CallState, Sent, Entry, Running
  <2>2. /\ call' = [call EXCEPT ![c] = r]
        /\ r.pc = "send" /\ r.floor = call[c].floor /\ r.gen = log.gen
    BY <1>6, <2>1 DEF Repeat, Sent, TypeOK, CallState
  <2>3. server' >= server /\ r.floor <= floor /\ r.gen <= log.gen /\ NoPreWriteEntry'
    BY <1>6, <2>2 DEF Repeat, WriteInv, FloorIsOld, NoPreWriteEntry, TypeOK, Version
  <2>4. \A f \in 0 .. floor : InHand(c, f) => InHand(c, f)'
    BY <2>2 DEF InHand, Replied, At, TypeOK
  <2> QED BY <1>6, <2>2, <2>3, <2>4, OneCall DEF Repeat
<1>7. ASSUME NEW c \in Caller, ServeStale(c) PROVE WriteInv'
  <2>1. PICK v \in Version \cup {None} : v = IF cache = None THEN None ELSE cache.body
    BY DEF TypeOK, Entry
  <2>2. NoPreWriteEntry'
    BY <1>7 DEF ServeStale, WriteInv, NoPreWriteEntry
  <2>3. \A f \in 0 .. floor : InHand(c, f) => v = None \/ v >= f
    BY <2>1, InHandNow
  <2> QED BY <1>7, <2>1, <2>2, <2>3, SettleStep DEF ServeStale
<1>8. ASSUME NEW c \in Caller, Reject(c) PROVE WriteInv'
  <2>1. NoPreWriteEntry'
    BY <1>8 DEF Reject, WriteInv, NoPreWriteEntry
  <2> QED BY <1>8, <2>1, SettleStep DEF Reject
<1>9. ASSUME NEW c \in Caller, Settle(c) PROVE WriteInv'
  <2>1. PICK again \in BOOLEAN : call' = [d \in Caller |->
          IF d = c \/ (At(d, "join") /\ call[d].on = c)
          THEN Result(call[d], call[c].body, again) ELSE call[d]]
    BY <1>9 DEF Settle
  <2>2. \A d \in Caller : d = c \/ (At(d, "join") /\ call[d].on = c) =>
          /\ call'[d].pc \in {"backoff", "done"}
          /\ call'[d].floor = call[d].floor /\ call'[d].gen = 0 /\ call'[d].reply = None
          /\ call'[d].pc = "done" => call'[d].body = call[c].body
    BY <2>1 DEF Result, Idle
  <2>3. \A d \in Caller : ~(d = c \/ (At(d, "join") /\ call[d].on = c)) => call'[d] = call[d]
    BY <2>1
  <2>4. FloorIsOld'
    BY <1>9, <2>2, <2>3 DEF Settle, WriteInv, FloorIsOld, At, TypeOK
  <2>5. OldBodiesAreKnown'
    <3>1. \A d \in Caller, f \in 0 .. floor : InHand(d, f) => InHand(d, f)'
      BY <2>2, <2>3 DEF InHand, Replied, At
    <3>2. \A d \in Caller : call[d].floor \in 0 .. floor /\ call'[d].floor = call[d].floor
      BY <2>2, <2>3, InHandNow, ConstantsAssumption DEF TypeOK
    <3>3. ASSUME NEW d \in Caller, Replied(d, "ok")', ~InvalidatedSince(call[d].gen)'
          PROVE  call'[d].reply.body >= floor'
      BY <1>9, <2>2, <2>3, <3>3
      DEF Settle, WriteInv, OldBodiesAreKnown, Replied, At, InvalidatedSince
    <3>4. ASSUME NEW d \in Caller PROVE InHand(d, call[d].floor)'
      BY <3>1, <3>2 DEF WriteInv, OldBodiesAreKnown, InHand, Replied, At
    <3>5. ASSUME NEW d \in Caller, At(d, "join")' PROVE InHand(call[d].on, call[d].floor)'
      <4>1. call'[d] = call[d] /\ At(d, "join")
        BY <2>2, <2>3, <3>5 DEF At
      <4>2. InHand(call[d].on, call[d].floor)
        BY <4>1 DEF WriteInv, OldBodiesAreKnown
      <4>3. call[d].on \in Caller
        BY <4>1 DEF At, TypeOK, CallState, WellFormed
      <4> QED BY <3>1, <3>2, <4>1, <4>2, <4>3 DEF InHand, Replied, At
    <3> QED BY <1>9, <3>3, <3>4, <3>5 DEF Settle, OldBodiesAreKnown
  <2>6. ReadsFollowWrites'
    <3>1. ASSUME NEW d \in Caller, d = c \/ (At(d, "join") /\ call[d].on = c),
                 call[c].body # None
          PROVE  call[c].body >= call[d].floor
      BY <1>9, <3>1 DEF Settle, WriteInv, OldBodiesAreKnown, InHand, At
    <3> QED BY <2>2, <2>3, <3>1 DEF ReadsFollowWrites, WriteInv, At
  <2>7. NoPreWriteEntry'
    BY <1>9 DEF Settle, WriteInv, NoPreWriteEntry
  <2> QED BY <2>4, <2>5, <2>6, <2>7 DEF WriteInv
<1>10. ASSUME NEW c \in Caller, NEW r \in CallState, call' = [call EXCEPT ![c] = r],
              r.pc \in {"idle", "write"}, r.floor = 0, r.gen = 0,
              UNCHANGED <<server, cache, log, inflight, floor>>
       PROVE  WriteInv'
  <2>1. server' >= server /\ r.floor <= floor /\ r.gen <= log.gen /\ NoPreWriteEntry'
    BY <1>10, ConstantsAssumption DEF WriteInv, NoPreWriteEntry, TypeOK, Version
  <2>2. \A f \in 0 .. floor : InHand(c, f) => InHand(c, f)'
    BY <1>10 DEF InHand, Replied, At, TypeOK
  <2> QED BY <1>10, <2>1, <2>2, OneCall
<1>11. ASSUME NEW c \in Caller, Return(c) \/ WriteFailed(c) PROVE WriteInv'
  <2>1. Idle.pc = "idle" /\ Idle.floor = 0 /\ Idle.gen = 0
    BY DEF Idle
  <2> QED BY <1>10, <1>11, <2>1, IdleType DEF Return, WriteFailed
<1>12. ASSUME NEW c \in Caller, NEW p \in Path, Write(c, p) PROVE WriteInv'
  <2>1. PICK r \in CallState : r = [Idle EXCEPT !.pc = "write", !.path = p]
    BY IdleType DEF CallState, Writing
  <2>2. r.pc = "write" /\ r.floor = 0 /\ r.gen = 0
    BY <2>1 DEF Idle
  <2> QED BY <1>10, <1>12, <2>1, <2>2 DEF Write
<1>13. ASSUME NEW c \in Caller, ServerWrites(c) PROVE WriteInv'
  <2>1. PICK ok \in BOOLEAN : call' = [call EXCEPT ![c] = [@ EXCEPT !.pc = "written", !.reply =
            IF ok THEN [status |-> "ok", body |-> server'] ELSE Failed]]
    BY <1>13 DEF ServerWrites
  <2>2. PICK r \in CallState : r = call'[c]
    BY DEF TypeOK
  <2>3. /\ call' = [call EXCEPT ![c] = r]
        /\ r.pc = "written" /\ r.floor = call[c].floor /\ r.gen = call[c].gen
        /\ r.reply.status = "ok" => r.reply.body = server'
    BY <2>1, <2>2 DEF TypeOK, CallState, Failed
  <2>4. server' >= server /\ server' \in Version
    BY <1>13 DEF ServerWrites, TypeOK, Version
  <2>5. /\ r.floor <= floor /\ r.gen <= log.gen /\ NoPreWriteEntry'
        /\ r.reply.status = "ok" => r.reply.body <= server'
    BY <1>13, <2>3, <2>4 DEF ServerWrites, WriteInv, FloorIsOld, NoPreWriteEntry, Version
  <2>6. \A f \in 0 .. floor : InHand(c, f) => InHand(c, f)'
    BY <2>3 DEF InHand, Replied, At, TypeOK
  <2> QED BY <1>13, <2>3, <2>4, <2>5, <2>6, OneCall DEF ServerWrites
<1>14. ASSUME NEW c \in Caller, InvalidateAfterWrite(c) PROVE WriteInv'
  <2>1. /\ call[c].path \in Path /\ call[c].reply.body \in Version
        /\ call[c].reply.body <= server
    BY <1>14 DEF InvalidateAfterWrite, At, TypeOK, CallState, Reply, WellFormed,
                 WriteInv, FloorIsOld
  <2>2. /\ call'[c] = Idle
        /\ \A d \in Caller : d # c =>
             /\ call'[d].pc = call[d].pc /\ call'[d].on = call[d].on
             /\ call'[d].gen = call[d].gen /\ call'[d].reply = call[d].reply
             /\ call'[d].body = call[d].body /\ call'[d].floor = call[d].floor
    <3>1. CASE call[c].path = "own"
      <4>1. \A d \in Caller :
              LET r == [call[d] EXCEPT !.detached = TRUE] IN
                /\ r.pc = call[d].pc /\ r.on = call[d].on /\ r.gen = call[d].gen
                /\ r.reply = call[d].reply /\ r.body = call[d].body /\ r.floor = call[d].floor
        BY DEF TypeOK, CallState
      <4>2. \A d \in Caller : call'[d] = IF d = c THEN Idle
                                       ELSE IF d = inflight
                                            THEN [call[d] EXCEPT !.detached = TRUE] ELSE call[d]
        BY <1>14, <3>1 DEF InvalidateAfterWrite
      <4>3. ASSUME NEW d \in Caller, d # c
            PROVE  call'[d] = [call[d] EXCEPT !.detached = TRUE] \/ call'[d] = call[d]
        BY <4>2, <4>3
      <4> QED BY <4>1, <4>2, <4>3
    <3>2. CASE call[c].path # "own"
      BY <1>14, <3>2 DEF InvalidateAfterWrite, TypeOK
    <3> QED BY <3>1, <3>2
  <2>3. /\ floor' \in 0 .. MaxVersion /\ floor' >= floor /\ floor' <= server /\ server' = server
        /\ cache' = None \/ (cache' = cache /\ floor' = floor)
        /\ inflight' = None \/ (inflight' = inflight /\ floor' = floor)
    BY <1>14, <2>1 DEF InvalidateAfterWrite, WriteInv, FloorIsOld, TypeOK, Version
  <2>4. \A d \in Caller : call[d].floor \in 0 .. floor /\ call[d].gen \in Nat /\ call[d].gen <= log.gen
    BY InHandNow, ConstantsAssumption DEF TypeOK
  <2>5. log' = Record(call[c].path) /\ log'.gen = log.gen + 1 /\ log.gen \in Nat
    BY <1>14 DEF InvalidateAfterWrite, Record, TypeOK
  <2>6. FloorIsOld'
    <3>1. ASSUME NEW d \in Caller, d # c
          PROVE  /\ call'[d].floor <= floor' /\ call'[d].gen <= log'.gen
                 /\ At(d, "written")' /\ call'[d].reply.status = "ok" => call'[d].reply.body <= server'
      <4>1. call'[d].floor <= floor' /\ call'[d].gen <= log'.gen
        BY <2>2, <2>3, <2>4, <2>5, <3>1 DEF TypeOK
      <4> QED BY <2>2, <2>3, <3>1, <4>1 DEF WriteInv, FloorIsOld, At
    <3>2. Idle.floor = 0 /\ Idle.gen = 0 /\ Idle.pc = "idle"
      BY DEF Idle
    <3> QED BY <2>2, <2>3, <2>5, <3>1, <3>2 DEF FloorIsOld, At
  <2>7. \A d \in Caller, f \in 0 .. floor : InHand(d, f) => InHand(d, f)'
    BY <2>2 DEF InHand, Replied, At, Idle
  <2>8. OldBodiesAreKnown'
    <3>1. ASSUME NEW d \in Caller, Replied(d, "ok")', ~InvalidatedSince(call[d].gen)'
          PROVE  call'[d].reply.body >= floor'
      <4>1. d # c /\ Replied(d, "ok") /\ call'[d].gen = call[d].gen /\ call'[d].reply = call[d].reply
        BY <2>2, <3>1 DEF Replied, At, Idle
      <4>2. PICK g \in Nat : g = call[d].gen
        BY <2>4
      <4>3. ~InvalidatedSince(g)'
        BY <3>1, <4>1, <4>2 DEF InvalidatedSince
      <4>4. call[c].path # "own" /\ ~InvalidatedSince(g)
        BY <2>1, <2>4, <2>5, <4>2, <4>3, LogGrows
      <4>5. floor' = floor
        BY <1>14, <4>4 DEF InvalidateAfterWrite
      <4> QED BY <4>1, <4>2, <4>4, <4>5 DEF WriteInv, OldBodiesAreKnown
    <3>2. ASSUME inflight' # None PROVE InHand(inflight, floor)'
      BY <2>3, <2>7, <3>2, ConstantsAssumption
      DEF WriteInv, OldBodiesAreKnown, TypeOK, InHand, Replied, At
    <3>3. ASSUME NEW d \in Caller PROVE InHand(d, call[d].floor)'
      <4>1. InHand(d, call[d].floor)
        BY DEF WriteInv, OldBodiesAreKnown
      <4> QED BY <2>2, <2>4, <2>7, <4>1 DEF InHand, Replied, At, Idle
    <3>4. ASSUME NEW d \in Caller, At(d, "join")' PROVE InHand(call[d].on, call[d].floor)'
      <4>1. d # c /\ At(d, "join") /\ call'[d].on = call[d].on /\ call'[d].floor = call[d].floor
        BY <2>2, <3>4 DEF At, Idle
      <4>2. InHand(call[d].on, call[d].floor) /\ call[d].on \in Caller
        BY <4>1 DEF WriteInv, OldBodiesAreKnown, At, TypeOK, CallState, WellFormed
      <4> QED BY <2>4, <2>7, <4>1, <4>2 DEF InHand, Replied, At
    <3> QED BY <3>1, <3>2, <3>3, <3>4 DEF OldBodiesAreKnown
  <2>9. NoPreWriteEntry' /\ ReadsFollowWrites'
    BY <2>2, <2>3 DEF WriteInv, NoPreWriteEntry, ReadsFollowWrites, At, Idle
  <2> QED BY <2>6, <2>8, <2>9 DEF WriteInv
<1>15. ASSUME UNCHANGED <<log, inflight, call, floor>>, server' >= server, NoPreWriteEntry'
       PROVE  WriteInv'
  <2>1. \A c \in Caller, f \in Nat : InHand(c, f)' <=> InHand(c, f)
    BY <1>15 DEF InHand, Replied, At
  <2>2. OldBodiesAreKnown' /\ ReadsFollowWrites'
    BY <1>15 DEF WriteInv, OldBodiesAreKnown, ReadsFollowWrites, InHand, Replied, At, InvalidatedSince
  <2>3. ASSUME NEW c \in Caller, call[c].pc = "written", call[c].reply.status = "ok"
        PROVE  call[c].reply.body <= server'
    <3>1. call[c].reply.body \in Version
      BY <2>3 DEF TypeOK, CallState, Reply, WellFormed
    <3> QED BY <1>15, <2>3, <3>1 DEF WriteInv, FloorIsOld, At, TypeOK, Version
  <2>4. floor' <= server'
    BY <1>15, ConstantsAssumption DEF WriteInv, FloorIsOld, TypeOK, Version
  <2>5. FloorIsOld'
    BY <1>15, <2>3, <2>4 DEF WriteInv, FloorIsOld, At
  <2> QED BY <1>15, <2>2, <2>5 DEF WriteInv
<1>16. CASE ServerChanges \/ Age \/ Evict \/ UNCHANGED vars
  <2>1. server' >= server /\ UNCHANGED <<log, inflight, call, floor>>
    BY <1>16 DEF ServerChanges, Age, Evict, vars, TypeOK, Version
  <2>2. NoPreWriteEntry'
    BY <1>16 DEF ServerChanges, Age, Evict, vars, WriteInv, NoPreWriteEntry, TypeOK, Entry, Fresh
  <2> QED BY <1>15, <2>1, <2>2
<1> QED BY <1>1, <1>2, <1>3, <1>4, <1>5, <1>6, <1>7, <1>8, <1>9, <1>11, <1>12, <1>13,
           <1>14, <1>16 DEF Next, Proceed

LEMMA WriteInit == Init => WriteInv
  BY ConstantsAssumption DEF Init, WriteInv, FloorIsOld, OldBodiesAreKnown, NoPreWriteEntry,
     ReadsFollowWrites, InHand, Replied, At, Idle

(* The inductive invariant holds. *)
THEOREM WriteInvHolds == Spec => []WriteInv
<1>1. TypeOK /\ WriteInv /\ [Next]_vars => (TypeOK /\ WriteInv)'
  BY TypeStep, WriteStep
<1> QED BY <1>1, TypeInit, WriteInit, PTL DEF Spec

(* A read made after a write completed never answers with an older body,    *)
(* however its calls interleave with the reads the write overtook.          *)
THEOREM ReadsAlwaysFollowWrites == Spec => []ReadsFollowWrites
<1>1. WriteInv => ReadsFollowWrites
  BY DEF WriteInv
<1> QED BY <1>1, WriteInvHolds, PTL

(* The cache never holds a body from before a completed write, whatever the *)
(* number of writes the log keeps.                                          *)
THEOREM CacheFollowsWrites == Spec => []NoPreWriteEntry
<1>1. WriteInv => NoPreWriteEntry
  BY DEF WriteInv
<1> QED BY <1>1, WriteInvHolds, PTL

-----------------------------------------------------------------------------
(* With a deduplicator, until a write under the path completes, the one     *)
(* call that is running holds its place in it.                              *)
Shared(c) == call[c].pc \in Running => inflight = c

ShareInv ==
  /\ EtagNamesBody
  /\ Dedup /\ floor = 0 => \A c \in Caller : Shared(c)

(* A step of one call, which keeps its place or takes a free one.           *)
LEMMA ShareOne ==
  ASSUME TypeOK, ShareInv, NEW c \in Caller, NEW r, call' = [call EXCEPT ![c] = r],
         floor' = floor, EtagNamesBody',
         r.pc \in Running =>
           \/ call[c].pc \in Running /\ inflight' = inflight
           \/ inflight = None /\ inflight' = (IF Dedup THEN c ELSE None),
         r.pc \notin Running => inflight' = inflight
  PROVE  ShareInv'
<1>1. call'[c] = r /\ \A d \in Caller : d # c => call'[d] = call[d]
  BY DEF TypeOK
<1>2. ASSUME Dedup, floor = 0, NEW d \in Caller PROVE Shared(d)'
  <2>1. \A e \in Caller : call[e].pc \in Running => inflight = e
    BY <1>2 DEF ShareInv, Shared
  <2>2. CASE d = c
    BY <1>1, <1>2, <2>1, <2>2, NoneAssumption DEF Shared
  <2>3. CASE d # c /\ call[d].pc \in Running
    <3>1. inflight = d /\ d # None /\ call[c].pc \notin Running
      BY <2>1, <2>3, NoneAssumption
    <3> QED BY <1>1, <2>3, <3>1 DEF Shared
  <2>4. CASE d # c /\ call[d].pc \notin Running
    BY <1>1, <2>4 DEF Shared
  <2> QED BY <2>2, <2>3, <2>4
<1> QED BY <1>2 DEF ShareInv

(* The attempt of a call that is not running. *)
LEMMA ShareAttempt ==
  ASSUME TypeOK, ShareInv, NEW c \in Caller, NEW r \in CallState, call[c].pc \notin Running,
         Attempt(c, r), UNCHANGED <<cache, floor>>
  PROVE  ShareInv'
<1>1. EtagNamesBody'
  BY DEF ShareInv, EtagNamesBody
<1>2. CASE call' = [call EXCEPT ![c] = [r EXCEPT !.pc = "done", !.body = cache.body]]
           /\ UNCHANGED inflight
  <2>1. PICK s : s = [r EXCEPT !.pc = "done", !.body = cache.body]
    OBVIOUS
  <2>2. s.pc = "done"
    BY <2>1 DEF CallState
  <2> QED BY <1>1, <1>2, <2>1, <2>2, ShareOne DEF Running
<1>3. CASE call' = [call EXCEPT ![c] = [r EXCEPT !.pc = "join", !.on = inflight]]
           /\ UNCHANGED inflight
  <2>1. PICK s : s = [r EXCEPT !.pc = "join", !.on = inflight]
    OBVIOUS
  <2>2. s.pc = "join"
    BY <2>1 DEF CallState
  <2> QED BY <1>1, <1>3, <2>1, <2>2, ShareOne DEF Running
<1>4. CASE /\ inflight = None /\ call' = [call EXCEPT ![c] = Sent(r)]
           /\ inflight' = IF Dedup THEN c ELSE None
  <2>1. PICK s : s = Sent(r)
    OBVIOUS
  <2>2. s.pc = "send"
    BY <2>1 DEF Sent, CallState
  <2> QED BY <1>1, <1>4, <2>1, <2>2, ShareOne DEF Running
<1> QED BY <1>2, <1>3, <1>4 DEF Attempt

(* An answer reaches its call's promise. *)
LEMMA ShareSettles ==
  ASSUME TypeOK, ShareInv, NEW c \in Caller, NEW body, At(c, "reply"), SettleWith(c, body),
         UNCHANGED <<floor, inflight>>, EtagNamesBody'
  PROVE  ShareInv'
<1>1. PICK r : r = [call[c] EXCEPT !.pc = "settle", !.body = body, !.reply = None, !.inm = None,
                                   !.gen = 0]
  OBVIOUS
<1>2. r.pc = "settle"
  BY <1>1 DEF TypeOK, CallState
<1>3. call' = [call EXCEPT ![c] = r]
  BY <1>1 DEF SettleWith
<1>4. call[c].pc \in Running /\ r.pc \in Running /\ r.pc \notin {"send", "reply"}
  BY <1>2 DEF At, Running
<1>5. floor' = floor /\ inflight' = inflight
  OBVIOUS
<1> QED BY <1>3, <1>4, <1>5, ShareOne

LEMMA ShareStep == TypeOK /\ TypeOK' /\ ShareInv /\ [Next]_vars => ShareInv'
<1> SUFFICES ASSUME TypeOK, TypeOK', ShareInv, [Next]_vars PROVE ShareInv'
  OBVIOUS
<1>0. \A c \in Caller : call[c] \in CallState
  BY DEF TypeOK
<1>1. ASSUME NEW c \in Caller, Get(c) PROVE ShareInv'
  <2>1. [Idle EXCEPT !.floor = floor] \in CallState
    BY IdleType DEF TypeOK, CallState
  <2> QED BY <1>1, <2>1, ShareAttempt DEF Get, At, Running
<1>2. ASSUME NEW c \in Caller, Retry(c) PROVE ShareInv'
  BY <1>0, <1>2, ShareAttempt DEF Retry, At, Running
<1>3. ASSUME NEW c \in Caller, ServerAnswers(c) PROVE ShareInv'
  <2>1. PICK s \in {"ok", "notModified", "serverError", "failed"} :
          call' = [call EXCEPT ![c] = [@ EXCEPT !.pc = "reply", !.reply =
            [status |-> s, body |-> IF s = "ok" THEN server ELSE None]]]
    BY <1>3 DEF ServerAnswers
  <2>2. PICK reply : reply = [status |-> s, body |-> IF s = "ok" THEN server ELSE None]
    OBVIOUS
  <2>3. PICK r : r = [call[c] EXCEPT !.pc = "reply", !.reply = reply]
    OBVIOUS
  <2>4. r.pc = "reply"
    BY <1>0, <2>3 DEF CallState
  <2>5. call' = [call EXCEPT ![c] = r]
    BY <2>1, <2>2, <2>3
  <2>6. UNCHANGED <<cache, floor, inflight>> /\ call[c].pc = "send"
    BY <1>3 DEF ServerAnswers, At
  <2>7. EtagNamesBody'
    BY <2>6 DEF ShareInv, EtagNamesBody
  <2>8. call[c].pc \in Running /\ r.pc \in Running
    BY <2>4, <2>6 DEF Running
  <2> QED BY <2>5, <2>6, <2>7, <2>8, ShareOne
<1>4. ASSUME NEW c \in Caller, Accept(c) \/ NotModified(c) \/ ServeStale(c) \/ Reject(c)
      PROVE  ShareInv'
  <2>1. At(c, "reply") /\ UNCHANGED <<floor, inflight>> /\ \E body : SettleWith(c, body)
    BY <1>4 DEF Accept, NotModified, ServeStale, Reject, Replied
  <2>2. EtagNamesBody'
    BY <1>4 DEF Accept, NotModified, ServeStale, Reject, ShareInv, EtagNamesBody, TypeOK, Entry
  <2> QED BY <2>1, <2>2, ShareSettles
<1>5. ASSUME NEW c \in Caller, Repeat(c) PROVE ShareInv'
  <2>1. PICK r : r = Sent(call[c])
    OBVIOUS
  <2>2. r.pc = "send" /\ call[c].pc = "reply"
    BY <1>0, <1>5, <2>1 DEF Sent, CallState, Repeat, Replied, At
  <2>3. call' = [call EXCEPT ![c] = r] /\ UNCHANGED <<cache, floor, inflight>>
    BY <1>5, <2>1 DEF Repeat
  <2>4. EtagNamesBody'
    BY <2>3 DEF ShareInv, EtagNamesBody
  <2>5. call[c].pc \in Running /\ r.pc \in Running
    BY <2>2 DEF Running
  <2> QED BY <2>3, <2>4, <2>5, ShareOne
<1>6. ASSUME NEW c \in Caller, Settle(c) PROVE ShareInv'
  <2>1. UNCHANGED <<cache, floor>> /\ call[c].pc = "settle"
    BY <1>6 DEF Settle, At
  <2>2. \A d \in Caller : \/ d # c /\ call'[d] = call[d]
                          \/ call'[d].pc \in {"backoff", "done"}
    <3>1. PICK again \in BOOLEAN : call' = [d \in Caller |->
            IF d = c \/ (At(d, "join") /\ call[d].on = c)
            THEN Result(call[d], call[c].body, again) ELSE call[d]]
      BY <1>6 DEF Settle
    <3>2. \A d \in Caller : Result(call[d], call[c].body, again).pc \in {"backoff", "done"}
      BY <1>0, ResultType, ConstantsAssumption DEF CallState
    <3> QED BY <3>1, <3>2
  <2>3. ASSUME Dedup, floor = 0, NEW d \in Caller PROVE Shared(d)'
    <3>1. Shared(c) /\ Shared(d)
      BY <2>3 DEF ShareInv
    <3> QED BY <2>1, <2>2, <3>1, NoneAssumption DEF Shared, Running
  <2> QED BY <2>1, <2>3 DEF ShareInv, EtagNamesBody
<1>7. ASSUME NEW c \in Caller, Return(c) \/ WriteFailed(c) PROVE ShareInv'
  <2>1. /\ call' = [call EXCEPT ![c] = Idle] /\ UNCHANGED <<cache, floor, inflight>>
        /\ EtagNamesBody'
    BY <1>7 DEF Return, WriteFailed, ShareInv, EtagNamesBody
  <2> QED BY <2>1, IdleType, ShareOne DEF Running
<1>8. ASSUME NEW c \in Caller, NEW p \in Path, Write(c, p) PROVE ShareInv'
  <2>1. PICK r : r = [Idle EXCEPT !.pc = "write", !.path = p]
    OBVIOUS
  <2>2. r.pc = "write"
    BY <2>1 DEF Idle
  <2>3. /\ call' = [call EXCEPT ![c] = r] /\ UNCHANGED <<cache, floor, inflight>>
        /\ EtagNamesBody'
    BY <1>8, <2>1 DEF Write, ShareInv, EtagNamesBody
  <2> QED BY <2>2, <2>3, ShareOne DEF Running
<1>9. ASSUME NEW c \in Caller, ServerWrites(c) PROVE ShareInv'
  <2>1. PICK reply : call' = [call EXCEPT ![c] = [@ EXCEPT !.pc = "written", !.reply = reply]]
    BY <1>9 DEF ServerWrites
  <2>2. PICK r : r = [call[c] EXCEPT !.pc = "written", !.reply = reply]
    OBVIOUS
  <2>3. r.pc = "written" /\ call' = [call EXCEPT ![c] = r]
    BY <1>0, <2>1, <2>2 DEF CallState
  <2>4. UNCHANGED <<cache, floor, inflight>> /\ EtagNamesBody'
    BY <1>9 DEF ServerWrites, ShareInv, EtagNamesBody
  <2> QED BY <2>3, <2>4, ShareOne DEF Running
<1>10. ASSUME NEW c \in Caller, InvalidateAfterWrite(c) PROVE ShareInv'
  <2>1. EtagNamesBody'
    BY <1>10 DEF InvalidateAfterWrite, ShareInv, EtagNamesBody
  <2>2. CASE call[c].path = "own"
    <3>1. call[c].reply.body \in Version
      BY <1>10 DEF InvalidateAfterWrite, At, TypeOK, CallState, Reply, WellFormed
    <3>2. floor' # 0
      BY <1>10, <2>2, <3>1 DEF InvalidateAfterWrite, TypeOK, Version
    <3> QED BY <2>1, <3>2 DEF ShareInv
  <2>3. CASE call[c].path # "own"
    <3>1. call' = [call EXCEPT ![c] = Idle] /\ UNCHANGED <<floor, inflight>>
      BY <1>10, <2>3 DEF InvalidateAfterWrite
    <3> QED BY <2>1, <3>1, IdleType, ShareOne DEF Running
  <2> QED BY <2>2, <2>3
<1>11. CASE ServerChanges \/ Age \/ Evict \/ UNCHANGED vars
  <2>1. UNCHANGED <<floor, inflight, call>> /\ EtagNamesBody'
    BY <1>11 DEF ServerChanges, Age, Evict, vars, ShareInv, EtagNamesBody, TypeOK, Entry, Fresh
  <2> QED BY <2>1 DEF ShareInv, Shared
<1> QED BY <1>1, <1>2, <1>3, <1>4, <1>5, <1>6, <1>7, <1>8, <1>9, <1>10, <1>11 DEF Next, Proceed

LEMMA ShareHolds == Spec => []ShareInv
<1>1. Init => ShareInv
  BY IdleType DEF Init, ShareInv, EtagNamesBody, Shared, Running
<1>2. TypeOK /\ ShareInv /\ [Next]_vars => (TypeOK /\ ShareInv)'
  BY TypeStep, ShareStep
<1> QED BY <1>1, <1>2, TypeInit, PTL DEF Spec

(* The stored ETag is that of the stored body, whatever answers come in.    *)
THEOREM EtagsNameBodies == Spec => []EtagNamesBody
<1>1. ShareInv => EtagNamesBody
  BY DEF ShareInv
<1> QED BY <1>1, ShareHolds, PTL

(* With a deduplicator, and until a write under the path completes, at most *)
(* one request for the URL is under way (RequestDeduplicator.dedupe).       *)
THEOREM RequestsAreShared == ASSUME Dedup PROVE Spec => []Coalesced
<1>1. ShareInv => Coalesced
  BY DEF ShareInv, Shared, Coalesced
<1> QED BY <1>1, ShareHolds, PTL
=============================================================================
