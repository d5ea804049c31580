------------------------ MODULE ClientIdentityProofs ------------------------
(* Theorems of ClientIdentity, for any calls, clients, characters and       *)
(* number of tokens.                                                        *)
EXTENDS ClientIdentity, TLAPS

LEMMA KeyFields ==
  \A k \in Key : /\ k.char \in Character /\ k.n \in 0 .. MaxToken[k.char]
                 /\ k = [char |-> k.char, n |-> k.n]
BY DEF Key

LEMMA MakeKey ==
  \A ch \in Character : \A n \in 0 .. MaxToken[ch] : [char |-> ch, n |-> n] \in Key
BY DEF Key

LEMMA NoneIsNoKey == None \notin Key /\ None \notin Token /\ Token \subseteq Key
BY NoneAssumption DEF Token

LEMMA ClaimedFields ==
  \A t \in Token : /\ Claimed(t) \in Key /\ Claimed(t).char = t.char /\ Claimed(t).n = 0
                   /\ Claimed(t) # t /\ t.n # 0
<1> SUFFICES ASSUME NEW t \in Token
             PROVE  /\ Claimed(t) \in Key /\ Claimed(t).char = t.char /\ Claimed(t).n = 0
                    /\ Claimed(t) # t /\ t.n # 0
  OBVIOUS
<1>1. t \in Key /\ t.n # 0 /\ t.char \in Character
  BY KeyFields DEF Token
<1>2. 0 \in 0 .. MaxToken[t.char]
  BY <1>1, ConstantsAssumption
<1> QED BY <1>1, <1>2, MakeKey DEF Claimed

(* The types of the variables, without what relates the calls. *)
StateType ==
  /\ issued \in [Character -> Nat] /\ expired \in [Character -> Nat]
  /\ \A ch \in Character : expired[ch] <= issued[ch] /\ issued[ch] <= MaxToken[ch]
  /\ token \in [Client -> Token \cup {None}]
  /\ refreshing \in [Client -> Token \cup {None}]
  /\ accepted \in [Client -> SUBSET Token]
  /\ cache \in [Key -> Entry \cup {None}]
  /\ inflight \in [Key -> Call \cup {None}]
  /\ call \in [Call -> CallState]

LEMMA TrustedFields ==
  ASSUME StateType, NEW cl \in Client, NEW t \in Token
  PROVE  /\ Trusted(cl, t) \in Key /\ Trusted(cl, t).char = t.char
         /\ Trusted(cl, t).n = 0 => t \in accepted[cl]
         /\ Trusted(cl, t) \in {t, Claimed(t)}
         /\ Trusted(cl, t) # t => t \in accepted[cl]
BY ClaimedFields, NoneIsNoKey DEF Trusted, StateType

LEMMA IdleType == Idle \in CallState
BY DEF Idle, CallState, Running, Waiting

LEMMA DoneType ==
  ASSUME NEW asked \in Token \cup {None}, NEW body \in Character \cup {None}, NEW again \in BOOLEAN
  PROVE  /\ Done(asked, body, again) \in CallState
         /\ Done(asked, body, again).pc = "done" /\ Done(asked, body, again).asked = asked
         /\ Done(asked, body, again).body = body /\ Done(asked, body, again).again = again
         /\ Done(asked, body, again).refreshed = 0
BY DEF Done, Idle, CallState, Running, Waiting

LEMMA RejectedType == Rejected \in CallState /\ Rejected.pc = "done" /\ Rejected.body = None
                      /\ Rejected.refreshed = 0
BY ZenonT(60), DoneType DEF Rejected

-----------------------------------------------------------------------------
Busy == Running \cup {"join", "denied", "refresh", "prepared", "refreshed"}

(* What a call knows of the tokens and of the request it is in. *)
Holds(r) ==
  /\ r.pc \in {"lookup"} \cup Busy => r.by \in Client
  /\ r.pc \in {"lookup", "prepared"} => r.by \in View
  /\ r.pc \in Busy \/ (r.pc = "lookup" /\ r.overtaken) => token[r.by] # None
  /\ r.pc = "refresh" => refreshing[r.by] # None
  /\ r.pc = "lookup" => r.since # 0

Requests(r) ==
  /\ r.pc \in Running \cup {"join"} => r.asked \in Token
  /\ r.pc \in Running => r.key \in {r.asked, Claimed(r.asked)}
  /\ r.pc \in {"send", "reply"} => r.sent \in Token /\ (~r.again => r.sent = r.asked)
  /\ r.pc = "reply" /\ r.status \in {"ok", "notModified"} => r.sent \in accepted[r.by]

(* A call joined a request that is under way, under its own key. *)
Joins(r) ==
  r.pc = "join" =>
    /\ r.on \in Call /\ call[r.on].pc \in Running
    /\ \/ call[r.on].key = r.asked
       \/ call[r.on].key = Claimed(r.asked) /\ r.asked \in accepted[r.by]

Owns(r) ==
  /\ r.pc \in Running /\ r.key # r.asked => r.asked \in accepted[r.by]
  /\ r.pc = "settle" /\ r.body # None /\ ~r.again =>
       r.body = r.asked.char /\ r.asked \in accepted[r.by]
  /\ r.pc = "done" /\ r.body # None /\ ~r.again =>
       r.body = r.asked.char /\ \E cl \in Client : r.asked \in accepted[cl]

Good(r) == Holds(r) /\ Requests(r) /\ Joins(r) /\ Owns(r)

TokensFit ==
  /\ \A ch \in Character : issued[ch] # 0
  /\ \A cl \in Client : cl \notin View => token[cl] # None
  /\ \A v \in View : token[v] # None => token[v].char = Identity[v]
  /\ \A cl \in Client : refreshing[cl] # None =>
       token[cl] # None /\ (cl \in View => refreshing[cl].char = Identity[cl])

Leads ==
  \A k \in Key : inflight[k] # None =>
    call[inflight[k]].pc \in Running /\ call[inflight[k]].key = k

Ind ==
  /\ StateType /\ TokensFit /\ EntryIsOwn /\ Leads
  /\ \A c \in Call : Good(call[c])

LEMMA IndTypes == Ind => TypeOK
BY DEF Ind, StateType, TypeOK, WellFormed, Good, Holds, Joins

(* Tokens are never taken from a client, and accepted ones stay accepted.   *)
Monotone ==
  /\ \A cl \in Client : token[cl] # None => token'[cl] # None
  /\ \A cl \in Client : accepted[cl] \subseteq accepted'[cl]

(* A call stays as it is, and what it waits for too. *)
LEMMA StaysGood ==
  ASSUME Ind, Monotone, NEW d \in Call, call'[d] = call[d],
         call[d].pc = "refresh" => refreshing'[call[d].by] # None,
         call[d].pc = "join" => /\ call'[call[d].on].pc \in Running
                                /\ call'[call[d].on].key = call[call[d].on].key
  PROVE  Good(call[d])'
<1>1. Good(call[d]) /\ call[d] \in CallState
  BY DEF Ind, StateType
<1>2. Holds(call[d])'
  BY <1>1 DEF Good, Holds, Monotone, Busy
<1>3. call[d].pc \in Running \cup {"join"} => call[d].by \in Client
  BY <1>1 DEF Good, Holds, Busy
<1>4. Requests(call[d])'
  BY <1>1, <1>3 DEF Good, Requests, Monotone, Running
<1>5. Joins(call[d])'
  BY <1>1, <1>3 DEF Good, Joins, Monotone
<1>6. Owns(call[d])'
  BY <1>1, <1>3 DEF Good, Owns, Monotone, Running
<1> QED BY <1>2, <1>4, <1>5, <1>6 DEF Good

LEMMA IndInit == Init => Ind
<1> SUFFICES ASSUME Init PROVE Ind
  OBVIOUS
<1>1. StateType
  BY IdleType, ConstantsAssumption DEF Init, StateType, Token, Key
<1> QED
  BY <1>1, ConstantsAssumption, NoneIsNoKey
     DEF Init, Ind, TokensFit, EntryIsOwn, Leads, Good, Holds, Requests, Joins, Owns, Idle,
         Running, Busy

-----------------------------------------------------------------------------
(* A step that changes one call and keeps what the others rely on. *)
LEMMA OneCall ==
  ASSUME Ind, Monotone, NEW c \in Call, NEW r \in CallState, call' = [call EXCEPT ![c] = r],
         \A cl \in Client : refreshing[cl] # None => refreshing'[cl] # None,
         call[c].pc \in Running => r.pc \in Running /\ r.key = call[c].key,
         StateType', TokensFit', EntryIsOwn', Leads', Good(r)'
  PROVE  Ind'
<1>1. call'[c] = r /\ \A d \in Call : d # c => call'[d] = call[d]
  BY DEF Ind, StateType
<1>2. \A e \in Call : call[e].pc \in Running => call'[e].pc \in Running /\ call'[e].key = call[e].key
  BY <1>1
<1>3. ASSUME NEW d \in Call, d # c PROVE Good(call[d])'
  <2>1. Good(call[d])
    BY DEF Ind
  <2>2. call[d].pc = "refresh" => refreshing'[call[d].by] # None
    BY <2>1 DEF Good, Holds, Busy
  <2>3. call[d].pc = "join" => call[d].on \in Call /\ call[call[d].on].pc \in Running
    BY <2>1 DEF Good, Joins
  <2> QED BY <1>1, <1>2, <1>3, <2>2, <2>3, StaysGood
<1>4. Good(call[c])'
  BY <1>1
<1> QED BY <1>3, <1>4 DEF Ind

(* A step that changes no call. *)
LEMMA NoCall ==
  ASSUME Ind, Monotone, UNCHANGED <<call, inflight, refreshing>>,
         StateType', TokensFit', EntryIsOwn'
  PROVE  Ind'
<1>1. ASSUME NEW d \in Call PROVE Good(call[d])'
  <2>1. Good(call[d])
    BY DEF Ind
  <2>2. call[d].pc = "refresh" => refreshing'[call[d].by] # None
    BY <2>1 DEF Good, Holds
  <2>3. call[d].pc = "join" => call[call[d].on].pc \in Running
    BY <2>1 DEF Good, Joins
  <2> QED BY <2>2, <2>3, StaysGood
<1>2. Leads'
  BY DEF Ind, Leads
<1> QED BY <1>1, <1>2 DEF Ind

(* Then, if inflight stays as it is, so does who leads.                     *)
LEMMA LeadsKept ==
  ASSUME Ind, NEW c \in Call, NEW r, call' = [call EXCEPT ![c] = r], inflight' = inflight,
         call[c].pc \in Running => r.pc \in Running /\ r.key = call[c].key
  PROVE  Leads'
<1>1. call'[c] = r /\ \A d \in Call : d # c => call'[d] = call[d]
  BY DEF Ind, StateType
<1>2. \A k \in Key : inflight[k] \in Call \cup {None}
  BY DEF Ind, StateType
<1> QED BY <1>1, <1>2 DEF Ind, Leads

LEMMA LookupStep == ASSUME Ind, NEW c \in Call, NEW v \in View, Lookup(c, v) PROVE Ind'
<1>0. PICK r : r = [Idle EXCEPT !.pc = "lookup", !.by = v, !.since = issued[Identity[v]]]
  OBVIOUS
<1>1. v \in Client /\ Identity[v] \in Character /\ issued[Identity[v]] \in Nat \ {0}
  BY ConstantsAssumption DEF Ind, StateType, TokensFit
<1>2. /\ r \in CallState /\ r.pc = "lookup" /\ r.by = v /\ r.since = issued[Identity[v]]
      /\ r.overtaken = FALSE
  BY <1>0, <1>1 DEF Idle, CallState, Running, Waiting
<1>3. /\ call' = [call EXCEPT ![c] = r] /\ call[c].pc = "idle"
      /\ UNCHANGED <<Tokens, accepted, cache, inflight>>
  BY <1>0 DEF Lookup, At
<1>4. StateType' /\ TokensFit' /\ EntryIsOwn'
  BY <1>2, <1>3 DEF Ind, StateType, TokensFit, EntryIsOwn, Tokens
<1>5. Leads'
  BY <1>3, LeadsKept DEF Running
<1>6. Good(r)'
  BY <1>1, <1>2 DEF Good, Holds, Requests, Joins, Owns, Running, Busy
<1> QED BY <1>2, <1>3, <1>4, <1>5, <1>6, OneCall DEF Running, Tokens, Monotone

LEMMA LookupAnswersStep == ASSUME Ind, NEW c \in Call, LookupAnswers(c) PROVE Ind'
<1>0. PICK v, r : /\ v = call[c].by
                   /\ r = [call[c] EXCEPT !.pc = "prepared", !.since = 0, !.overtaken = FALSE]
  OBVIOUS
<1>1. /\ call[c] \in CallState /\ call[c].pc = "lookup" /\ v \in View /\ v \in Client
      /\ call[c].since # 0 /\ (call[c].overtaken => token[v] # None)
  BY <1>0 DEF LookupAnswers, At, Ind, StateType, Good, Holds
<1>2. r \in CallState /\ r.pc = "prepared" /\ r.by = v
  BY <1>0, <1>1 DEF CallState, Waiting
<1>3. /\ call' = [call EXCEPT ![c] = r]
      /\ UNCHANGED <<issued, expired, refreshing, accepted, cache, inflight>>
  BY <1>0 DEF LookupAnswers, Prepared
<1>4. \/ token' = token /\ call[c].overtaken
      \/ \E t \in Token : t.char = Identity[v] /\ token' = [token EXCEPT ![v] = t]
  <2>1. CASE call[c].overtaken
    BY <1>0, <2>1 DEF LookupAnswers
  <2>2. CASE ~call[c].overtaken
    <3>1. PICK n \in call[c].since .. issued[Identity[v]] :
            token' = [token EXCEPT ![v] = [char |-> Identity[v], n |-> n]]
      BY <1>0, <2>2 DEF LookupAnswers
    <3>2. call[c].since \in Nat /\ Identity[v] \in Character /\ issued[Identity[v]] \in Nat
          /\ issued[Identity[v]] <= MaxToken[Identity[v]] /\ MaxToken[Identity[v]] \in Nat
      BY <1>1, ConstantsAssumption DEF CallState, Ind, StateType
    <3>3. n \in 0 .. MaxToken[Identity[v]] /\ n # 0
      BY <1>1, <3>1, <3>2
    <3>4. [char |-> Identity[v], n |-> n] \in Token
      BY <3>2, <3>3, MakeKey DEF Token
    <3> QED BY <3>1, <3>4
  <2> QED BY <2>1, <2>2
<1>5. /\ token' \in [Client -> Token \cup {None}] /\ token'[v] # None
      /\ \A cl \in Client : token[cl] # None => token'[cl] # None
      /\ \A cl \in Client : cl # v => token'[cl] = token[cl]
      /\ token'[v] = token[v] \/ token'[v].char = Identity[v]
  BY <1>1, <1>4, NoneIsNoKey DEF Ind, StateType
<1>6. StateType' /\ TokensFit' /\ EntryIsOwn'
  <2>1. StateType'
    BY <1>2, <1>3, <1>5 DEF Ind, StateType
  <2>2. TokensFit'
    BY <1>1, <1>3, <1>5, ConstantsAssumption DEF Ind, TokensFit
  <2> QED BY <1>3, <2>1, <2>2 DEF Ind, EntryIsOwn
<1>7. Leads'
  BY <1>1, <1>3, LeadsKept DEF Running
<1>8. Good(r)'
  BY <1>1, <1>2, <1>5 DEF Good, Holds, Requests, Joins, Owns, Running, Busy
<1> QED BY <1>1, <1>2, <1>3, <1>5, <1>6, <1>7, <1>8, OneCall DEF Running, Monotone

(* A call that is not in a request of its own rejects. *)
LEMMA RejectedStep ==
  ASSUME Ind, NEW c \in Call, call[c].pc \notin Running, call' = [call EXCEPT ![c] = Rejected],
         UNCHANGED <<Tokens, accepted, cache, inflight>>
  PROVE  Ind'
<1>1. StateType' /\ TokensFit' /\ EntryIsOwn'
  BY RejectedType DEF Ind, StateType, TokensFit, EntryIsOwn, Tokens
<1>2. Leads'
  BY LeadsKept
<1>3. Good(Rejected)'
  BY RejectedType DEF Good, Holds, Requests, Joins, Owns, Running, Busy
<1> QED BY <1>1, <1>2, <1>3, RejectedType, OneCall DEF Tokens, Monotone

LEMMA SetAccessTokenStep ==
  ASSUME Ind, NEW cl \in Client, NEW t \in Token, SetAccessToken(cl, t)
  PROVE  Ind'
<1>1. /\ cl \notin View /\ token' = [token EXCEPT ![cl] = t]
      /\ UNCHANGED <<issued, expired, refreshing, accepted, cache, inflight, call>>
  BY DEF SetAccessToken
<1>2. /\ token' \in [Client -> Token \cup {None}] /\ token'[cl] # None
      /\ \A d \in Client : d # cl => token'[d] = token[d]
  BY <1>1, NoneIsNoKey DEF Ind, StateType
<1>3. StateType'
  BY <1>1, <1>2 DEF Ind, StateType
<1>4. TokensFit'
  BY <1>1, <1>2, ConstantsAssumption DEF Ind, TokensFit
<1>5. EntryIsOwn' /\ Monotone
  BY <1>1, <1>2 DEF Ind, EntryIsOwn, Monotone
<1> QED BY <1>1, <1>3, <1>4, <1>5, NoCall

LEMMA EnvironmentStep ==
  ASSUME Ind,
         \/ \E ch \in Character : Issue(ch) \/ Expire(ch)
         \/ \E k \in Key : Age(k) \/ Evict(k)
         \/ UNCHANGED vars
  PROVE  Ind'
<1>1. UNCHANGED <<token, refreshing, accepted, inflight, call>>
  BY DEF Issue, Expire, Age, Evict, vars, Tokens
<1>2. Monotone
  BY <1>1 DEF Monotone
<1>3. CASE \E ch \in Character : Issue(ch) \/ Expire(ch)
  <2>1. UNCHANGED cache
    BY <1>3 DEF Issue, Expire
  <2>2. /\ issued' \in [Character -> Nat] /\ expired' \in [Character -> Nat]
        /\ \A ch \in Character : /\ expired'[ch] <= issued'[ch] /\ issued'[ch] <= MaxToken[ch]
                                 /\ issued'[ch] # 0
    BY <1>3, ConstantsAssumption DEF Issue, Expire, Ind, StateType, TokensFit
  <2>3. StateType' /\ TokensFit' /\ EntryIsOwn'
    BY <1>1, <2>1, <2>2 DEF Ind, StateType, TokensFit, EntryIsOwn
  <2> QED BY <1>1, <1>2, <2>3, NoCall
<1>4. CASE \E k \in Key : Age(k) \/ Evict(k)
  <2>1. UNCHANGED <<issued, expired>>
    BY <1>4 DEF Age, Evict, Tokens
  <2>2. cache' \in [Key -> Entry \cup {None}] /\ EntryIsOwn'
    <3>1. PICK k \in Key : Age(k) \/ Evict(k)
      BY <1>4
    <3>2. cache[k] \in Entry
      BY <3>1 DEF Age, Evict, Ind, StateType
    <3>3. PICK entry : /\ cache' = [cache EXCEPT ![k] = entry]
                       /\ entry = None \/ (entry \in Entry /\ entry.char = cache[k].char)
      <4>1. CASE Age(k)
        <5>1. cache' = [cache EXCEPT ![k] = [cache[k] EXCEPT !.fresh = FALSE]]
          BY <4>1 DEF Age
        <5>2. /\ [cache[k] EXCEPT !.fresh = FALSE] \in Entry
              /\ [cache[k] EXCEPT !.fresh = FALSE].char = cache[k].char
          BY <3>2 DEF Entry
        <5> QED BY <5>1, <5>2
      <4>2. CASE Evict(k)
        BY <4>2 DEF Evict
      <4> QED BY <3>1, <4>1, <4>2
    <3>4. cache'[k] = entry /\ \A q \in Key : q # k => cache'[q] = cache[q]
      BY <3>3 DEF Ind, StateType
    <3>5. cache[k] # None
      BY <3>1 DEF Age, Evict
    <3>6. EntryIsOwn'
      BY <3>3, <3>4, <3>5 DEF Ind, EntryIsOwn
    <3> QED BY <3>3, <3>6 DEF Ind, StateType
  <2>3. StateType' /\ TokensFit'
    BY <1>1, <2>1, <2>2 DEF Ind, StateType, TokensFit
  <2> QED BY <1>1, <1>2, <2>2, <2>3, NoCall
<1>5. CASE UNCHANGED vars
  <2>1. StateType' /\ TokensFit' /\ EntryIsOwn'
    BY <1>5 DEF vars, Ind, StateType, TokensFit, EntryIsOwn
  <2> QED BY <1>1, <1>2, <2>1, NoCall
<1> QED BY <1>3, <1>4, <1>5

LEMMA RefreshStep == ASSUME Ind, NEW c \in Call, Refresh(c) PROVE Ind'
<1>0. PICK cl, r : cl = call[c].by /\ r = [call[c] EXCEPT !.pc = "refresh"]
  OBVIOUS
<1>1. /\ call[c] \in CallState /\ call[c].pc = "denied" /\ Good(call[c])
      /\ call' = [call EXCEPT ![c] = r]
      /\ UNCHANGED <<issued, expired, token, accepted, cache, inflight>>
  BY <1>0 DEF Refresh, At, Ind, StateType
<1>2. cl \in Client /\ token[cl] \in Token
  <2>1. cl \in Client /\ token[cl] # None
    BY <1>0, <1>1 DEF Good, Holds, Busy
  <2> QED BY <2>1 DEF Ind, StateType
<1>3. r \in CallState /\ r.pc = "refresh" /\ r.by = cl
  BY <1>0, <1>1 DEF CallState, Waiting
<1>4. PICK t : t = [char |-> token[cl].char, n |-> issued[token[cl].char]]
  OBVIOUS
<1>5. t \in Token /\ t.char = token[cl].char
  <2>1. token[cl].char \in Character
    BY <1>2, KeyFields DEF Token
  <2>2. issued[token[cl].char] \in 0 .. MaxToken[token[cl].char] /\ issued[token[cl].char] # 0
    BY <2>1, ConstantsAssumption DEF Ind, StateType, TokensFit
  <2> QED BY <1>4, <2>1, <2>2, MakeKey DEF Token
<1>6. refreshing' = IF refreshing[cl] # None THEN refreshing ELSE [refreshing EXCEPT ![cl] = t]
  BY <1>0, <1>4 DEF Refresh
<1>7. /\ refreshing' \in [Client -> Token \cup {None}] /\ refreshing'[cl] # None
      /\ \A d \in Client : refreshing[d] # None => refreshing'[d] = refreshing[d]
      /\ \A d \in Client : refreshing'[d] = refreshing[d] \/ (d = cl /\ refreshing'[d] = t)
  <2>1. refreshing \in [Client -> Token \cup {None}] /\ t # None
    BY <1>5, NoneIsNoKey DEF Ind, StateType
  <2>2. CASE refreshing[cl] # None
    BY <1>2, <1>6, <2>1, <2>2
  <2>3. CASE refreshing[cl] = None
    BY <1>2, <1>5, <1>6, <2>1, <2>3
  <2> QED BY <2>2, <2>3
<1>8. StateType'
  BY <1>1, <1>3, <1>7 DEF Ind, StateType
<1>9. TokensFit'
  BY <1>1, <1>2, <1>5, <1>7, NoneIsNoKey DEF Ind, TokensFit
<1>10. Leads'
  BY <1>1, LeadsKept DEF Running
<1>11. Good(r)'
  BY <1>1, <1>2, <1>3, <1>7, NoneIsNoKey DEF Good, Holds, Requests, Joins, Owns, Running, Busy
<1>12. EntryIsOwn' /\ Monotone
  BY <1>1 DEF Ind, EntryIsOwn, Monotone
<1> QED BY <1>1, <1>3, <1>7, <1>8, <1>9, <1>10, <1>11, <1>12, OneCall DEF Running

LEMMA RefreshAnswersStep == ASSUME Ind, NEW cl \in Client, RefreshAnswers(cl) PROVE Ind'
<1>0. PICK n \in refreshing[cl].n .. issued[refreshing[cl].char] + 1 :
         /\ n <= MaxToken[refreshing[cl].char]
         /\ issued' = [issued EXCEPT ![refreshing[cl].char] = IF n > @ THEN n ELSE @]
         /\ token' = [token EXCEPT ![cl] = [char |-> refreshing[cl].char, n |-> n]]
         /\ call' = [c \in Call |->
              IF Awaits(call[c], cl) THEN [call[c] EXCEPT !.pc = "refreshed", !.refreshed = n]
              ELSE Overtakes(call[c], cl)]
  BY DEF RefreshAnswers
<1>1. PICK ch, t : ch = refreshing[cl].char /\ t = [char |-> ch, n |-> n]
  OBVIOUS
<1>2. /\ refreshing[cl] \in Token /\ ch \in Character /\ token[cl] # None
      /\ refreshing[cl].n \in Nat \ {0} /\ issued[ch] \in Nat /\ MaxToken[ch] \in Nat
  <2>1. refreshing[cl] \in Token /\ token[cl] # None
    BY DEF RefreshAnswers, Ind, StateType, TokensFit
  <2>2. ch \in Character
    BY <1>1, <2>1, KeyFields DEF Token
  <2> QED BY <1>1, <2>1, <2>2, KeyFields, ConstantsAssumption DEF Token, Ind, StateType
<1>3. n \in 1 .. MaxToken[ch] /\ n \in Nat /\ t \in Token
  <2>1. n \in refreshing[cl].n .. issued[ch] + 1 /\ n <= MaxToken[ch]
    BY <1>0, <1>1
  <2>2. n \in 0 .. MaxToken[ch] /\ n # 0
    BY <1>2, <2>1
  <2> QED BY <1>1, <1>2, <2>2, MakeKey DEF Token
<1>4. /\ issued' = [issued EXCEPT ![ch] = IF n > @ THEN n ELSE @]
      /\ token' = [token EXCEPT ![cl] = t]
      /\ call' = [c \in Call |->
              IF Awaits(call[c], cl) THEN [call[c] EXCEPT !.pc = "refreshed", !.refreshed = n]
              ELSE Overtakes(call[c], cl)]
      /\ refreshing' = [refreshing EXCEPT ![cl] = None]
      /\ UNCHANGED <<expired, accepted, cache, inflight>>
  BY <1>0, <1>1 DEF RefreshAnswers
<1>11. PICK m \in {n, issued[ch]} : issued' = [issued EXCEPT ![ch] = m] /\ m >= issued[ch]
  <2>1. issued' = [issued EXCEPT ![ch] = IF n > issued[ch] THEN n ELSE issued[ch]]
    BY <1>4
  <2>2. ASSUME n > issued[ch] PROVE issued' = [issued EXCEPT ![ch] = n] /\ n >= issued[ch]
    <3>1. (IF n > issued[ch] THEN n ELSE issued[ch]) = n
      BY <2>2
    <3>2. n >= issued[ch]
      BY <1>2, <1>3, <2>2
    <3> QED BY <2>1, <3>1, <3>2
  <2>3. ASSUME ~(n > issued[ch]) PROVE issued' = [issued EXCEPT ![ch] = issued[ch]]
    <3>1. (IF n > issued[ch] THEN n ELSE issued[ch]) = issued[ch]
      BY <2>3
    <3> QED BY <2>1, <3>1
  <2>4. issued[ch] >= issued[ch]
    BY <1>2
  <2> QED BY <2>2, <2>3, <2>4
<1>5. /\ token' \in [Client -> Token \cup {None}] /\ token'[cl] = t /\ token'[cl] # None
      /\ \A d \in Client : d # cl => token'[d] = token[d] /\ refreshing'[d] = refreshing[d]
      /\ refreshing' \in [Client -> Token \cup {None}] /\ refreshing'[cl] = None
  BY <1>3, <1>4, NoneIsNoKey DEF Ind, StateType
<1>6. Monotone
  BY <1>4, <1>5 DEF Monotone
<1>7. ASSUME NEW c \in Call
      PROVE  /\ call'[c] \in CallState /\ Good(call[c])'
             /\ call[c].pc \in Running => call'[c] = call[c]
  <2>1. call[c] \in CallState /\ Good(call[c])
    BY DEF Ind, StateType
  <2>2. CASE Awaits(call[c], cl)
    <3>1. call'[c] = [call[c] EXCEPT !.pc = "refreshed", !.refreshed = n]
      BY <1>4, <2>2
    <3>2. /\ call'[c] \in CallState /\ call'[c].pc = "refreshed" /\ call'[c].by = cl
          /\ call[c].pc = "refresh"
      BY ZenonT(60), <1>3, <2>1, <2>2, <3>1 DEF CallState, Waiting, Awaits
    <3> QED BY <1>5, <3>2 DEF Good, Holds, Requests, Joins, Owns, Running, Busy
  <2>3. CASE ~Awaits(call[c], cl) /\ call[c].pc = "lookup" /\ call[c].by = cl
    <3>1. call'[c] = [call[c] EXCEPT !.overtaken = TRUE]
      BY <1>4, <2>3 DEF Overtakes
    <3>2. /\ call'[c] \in CallState /\ call'[c].pc = "lookup" /\ call'[c].by = cl
          /\ call'[c].since = call[c].since
      BY ZenonT(60), <2>1, <2>3, <3>1 DEF CallState
    <3>3. Holds(call[c]) /\ call[c].since # 0 /\ cl \in View
      BY <2>1, <2>3 DEF Good, Holds
    <3> QED BY <1>5, <2>3, <3>2, <3>3 DEF Good, Holds, Requests, Joins, Owns, Running, Busy
  <2>4. CASE ~Awaits(call[c], cl) /\ ~(call[c].pc = "lookup" /\ call[c].by = cl)
    <3>1. call'[c] = call[c]
      BY <1>4, <2>4 DEF Overtakes
    <3>2. call[c].pc = "refresh" => refreshing'[call[c].by] # None
      BY <1>5, <2>1, <2>4 DEF Awaits, Good, Holds, Busy
    <3>3. call[c].pc = "join" => /\ call'[call[c].on].pc \in Running
                                 /\ call'[call[c].on].key = call[call[c].on].key
      BY <1>4, <2>1 DEF Good, Joins, Awaits, Overtakes, Running
    <3> QED BY <1>6, <2>1, <3>1, <3>2, <3>3, StaysGood
  <2> QED BY <2>2, <2>3, <2>4 DEF Awaits, Running
<1>8. StateType'
  <2>0. /\ issued \in [Character -> Nat]
        /\ \A h \in Character : MaxToken[h] \in Nat /\ issued[h] <= MaxToken[h]
    BY ConstantsAssumption DEF Ind, StateType
  <2>1. /\ issued' \in [Character -> Nat]
        /\ \A h \in Character : issued[h] <= issued'[h] /\ issued'[h] <= MaxToken[h]
    BY <1>2, <1>3, <1>11, <2>0
  <2>2. call' \in [Call -> CallState]
    BY <1>4, <1>7
  <2>3. \A h \in Character : expired'[h] <= issued'[h]
    <3>1. expired' = expired /\ expired \in [Character -> Nat]
          /\ \A h \in Character : expired[h] <= issued[h]
      BY <1>4 DEF Ind, StateType
    <3> QED BY <2>0, <2>1, <3>1
  <2> QED BY <1>4, <1>5, <2>1, <2>2, <2>3 DEF Ind, StateType
<1>9. TokensFit'
  <2>1. \A h \in Character : issued'[h] # 0
    <3>1. issued \in [Character -> Nat] /\ \A h \in Character : issued[h] # 0
      BY DEF Ind, StateType, TokensFit
    <3> QED BY <1>2, <1>3, <1>11, <3>1
  <2>2. cl \in View => t.char = Identity[cl]
    BY <1>1, <1>2, NoneIsNoKey DEF Ind, TokensFit
  <2> QED BY <1>5, <2>1, <2>2, ConstantsAssumption DEF Ind, TokensFit
<1>10. Leads'
  BY <1>4, <1>7 DEF Ind, Leads, StateType
<1> QED BY <1>4, <1>7, <1>8, <1>9, <1>10 DEF Ind, EntryIsOwn

LEMMA RefreshFailsStep == ASSUME Ind, NEW cl \in Client, RefreshFails(cl) PROVE Ind'
<1>1. /\ refreshing' = [refreshing EXCEPT ![cl] = None]
      /\ call' = [c \in Call |-> IF Awaits(call[c], cl) THEN Rejected ELSE call[c]]
      /\ UNCHANGED <<issued, expired, token, accepted, cache, inflight>>
  BY DEF RefreshFails
<1>2. /\ \A d \in Client : d # cl => refreshing'[d] = refreshing[d]
      /\ refreshing' \in [Client -> Token \cup {None}] /\ refreshing'[cl] = None
  BY <1>1 DEF Ind, StateType
<1>3. Monotone
  BY <1>1 DEF Monotone
<1>4. ASSUME NEW c \in Call
      PROVE  /\ call'[c] \in CallState /\ Good(call[c])'
             /\ call[c].pc \in Running => call'[c] = call[c]
  <2>1. call[c] \in CallState /\ Good(call[c])
    BY DEF Ind, StateType
  <2>2. CASE Awaits(call[c], cl)
    <3>1. call'[c] = Rejected /\ call[c].pc = "refresh"
      BY <1>1, <2>2 DEF Awaits
    <3> QED BY <3>1, RejectedType DEF Good, Holds, Requests, Joins, Owns, Running, Busy
  <2>3. CASE ~Awaits(call[c], cl)
    <3>1. call'[c] = call[c]
      BY <1>1, <2>3
    <3>2. call[c].pc = "refresh" => refreshing'[call[c].by] # None
      BY <1>2, <2>1, <2>3 DEF Awaits, Good, Holds, Busy
    <3>3. call[c].pc = "join" => /\ call'[call[c].on].pc \in Running
                                 /\ call'[call[c].on].key = call[call[c].on].key
      BY <1>1, <2>1 DEF Good, Joins, Awaits, Running
    <3> QED BY <1>3, <2>1, <3>1, <3>2, <3>3, StaysGood
  <2> QED BY <2>2, <2>3 DEF Awaits, Running
<1>5. StateType'
  BY <1>1, <1>2, <1>4 DEF Ind, StateType
<1>6. TokensFit'
  BY <1>1, <1>2 DEF Ind, TokensFit
<1>7. Leads'
  BY <1>1, <1>4 DEF Ind, Leads, StateType
<1> QED BY <1>1, <1>4, <1>5, <1>6, <1>7 DEF Ind, EntryIsOwn

-----------------------------------------------------------------------------
(* What Sent makes of a call that has its token. *)
LEMMA SentFields ==
  ASSUME StateType, NEW r \in CallState, r.by \in Client, token[r.by] \in Token
  PROVE  /\ Sent(r) \in CallState /\ Sent(r).pc = "send" /\ Sent(r).by = r.by
         /\ Sent(r).sent = token[r.by] /\ Sent(r).asked = r.asked /\ Sent(r).key = r.key
         /\ Sent(r).again = r.again
<1>1. PICK t, inm, rev : /\ t = token[r.by]
                         /\ inm = IF cache[Claimed(t)] = None THEN None ELSE cache[Claimed(t)].char
                         /\ rev = (cache[Trusted(r.by, t)] # None)
  OBVIOUS
<1>2. Sent(r) = [r EXCEPT !.pc = "send", !.sent = t, !.status = None, !.inm = inm,
                          !.revalidating = rev]
  BY <1>1 DEF Sent
<1>3. inm \in Character \cup {None} /\ rev \in BOOLEAN
  <2>1. Claimed(t) \in Key
    BY <1>1, ClaimedFields
  <2>2. cache[Claimed(t)] \in Entry \cup {None}
    BY <2>1 DEF StateType
  <2> QED BY <1>1, <2>2 DEF Entry
<1> QED BY <1>1, <1>2, <1>3 DEF CallState, Running

LEMMA AttemptStep ==
  ASSUME Ind, NEW c \in Call, call[c].pc \notin Running, NEW r \in CallState, r.by \in Client,
         token[r.by] \in Token, Attempt(c, r), UNCHANGED <<Tokens, accepted, cache>>
  PROVE  Ind'
<1>1. PICK t, k, fresh : /\ t = token[r.by] /\ k = Trusted(r.by, t)
                         /\ fresh = (cache[k] # None /\ cache[k].fresh)
  OBVIOUS
<1>2. PICK asks : asks = [r EXCEPT !.asked = t, !.sent = None, !.on = None]
  OBVIOUS
<1>3. /\ t \in Token /\ k \in Key /\ k.char = t.char /\ (k.n = 0 => t \in accepted[r.by])
      /\ k \in {t, Claimed(t)} /\ (k # t => t \in accepted[r.by])
  BY <1>1, TrustedFields DEF Ind
<1>4. asks \in CallState /\ asks.by = r.by /\ asks.asked = t
  BY <1>2, <1>3 DEF CallState
<1>5. UNCHANGED <<issued, expired, token, refreshing, accepted, cache>>
  BY DEF Tokens
<1>6. Monotone
  BY <1>5 DEF Monotone
<1>7. TokensFit' /\ EntryIsOwn'
  BY <1>5 DEF Ind, TokensFit, EntryIsOwn
<1>8. CASE fresh /\ call' = [call EXCEPT ![c] = Done(t, cache[k].char, FALSE)] /\ UNCHANGED inflight
  <2>1. PICK d : d = Done(t, cache[k].char, FALSE)
    OBVIOUS
  <2>2. cache[k] \in Entry /\ cache[k].char = k.char /\ k.n = 0 /\ cache[k].char \in Character
    BY <1>1, <1>3, <1>8 DEF Ind, StateType, EntryIsOwn, Entry
  <2>3. /\ d \in CallState /\ d.pc = "done" /\ d.asked = t /\ d.body = cache[k].char
    <3>1. t \in Token \cup {None} /\ cache[k].char \in Character \cup {None} /\ FALSE \in BOOLEAN
      BY <1>3, <2>2
    <3> QED BY ZenonT(60), <2>1, <3>1, DoneType
  <2>4. call' = [call EXCEPT ![c] = d]
    BY <1>8, <2>1
  <2>5. StateType'
    BY <1>5, <1>8, <2>3, <2>4 DEF Ind, StateType
  <2>6. Leads'
    BY <1>8, <2>4, LeadsKept
  <2>7. Good(d)'
    BY <1>3, <1>5, <2>2, <2>3 DEF Good, Holds, Requests, Joins, Owns, Running, Busy
  <2> QED BY <1>5, <1>6, <1>7, <2>3, <2>4, <2>5, <2>6, <2>7, OneCall
<1>9. CASE /\ inflight[k] # None
           /\ call' = [call EXCEPT ![c] = [asks EXCEPT !.pc = "join", !.on = inflight[k]]]
           /\ UNCHANGED inflight
  <2>1. PICK j : j = [asks EXCEPT !.pc = "join", !.on = inflight[k]]
    OBVIOUS
  <2>2. inflight[k] \in Call /\ call[inflight[k]].pc \in Running /\ call[inflight[k]].key = k
    BY <1>3, <1>9 DEF Ind, StateType, Leads
  <2>3. /\ j \in CallState /\ j.pc = "join" /\ j.on = inflight[k] /\ j.by = r.by /\ j.asked = t
    BY ZenonT(60), <1>4, <2>1, <2>2 DEF CallState, Waiting
  <2>4. call' = [call EXCEPT ![c] = j]
    BY <1>9, <2>1
  <2>5. StateType'
    BY <1>5, <1>9, <2>3, <2>4 DEF Ind, StateType
  <2>6. Leads'
    BY <1>9, <2>4, LeadsKept
  <2>7. call'[inflight[k]] = call[inflight[k]]
    BY <2>2, <2>4 DEF Ind, StateType
  <2>8. Joins(j)'
    BY <1>3, <1>5, <2>2, <2>3, <2>7 DEF Joins
  <2>9. Good(j)'
    BY <1>1, <1>3, <1>5, <2>3, <2>8, NoneIsNoKey DEF Good, Holds, Requests, Owns, Running, Busy
  <2> QED BY <1>5, <1>6, <1>7, <2>3, <2>4, <2>5, <2>6, <2>9, OneCall
<1>10. CASE /\ inflight[k] = None
            /\ call' = [call EXCEPT ![c] = Sent([asks EXCEPT !.key = k])]
            /\ inflight' = [inflight EXCEPT ![k] = c]
  <2>1. PICK q, s : q = [asks EXCEPT !.key = k] /\ s = Sent(q)
    OBVIOUS
  <2>2. q \in CallState /\ q.by = r.by /\ q.asked = t /\ q.key = k
    BY <1>3, <1>4, <2>1 DEF CallState
  <2>3. /\ s \in CallState /\ s.pc = "send" /\ s.by = r.by /\ s.sent = t /\ s.asked = t
        /\ s.key = k
    BY ZenonT(60), <1>1, <1>3, <2>1, <2>2, SentFields DEF Ind
  <2>4. call' = [call EXCEPT ![c] = s]
    BY <1>10, <2>1
  <2>5. StateType'
    BY <1>3, <1>5, <1>10, <2>3, <2>4 DEF Ind, StateType
  <2>6. Leads'
    <3>1. /\ inflight'[k] = c /\ \A m \in Key : m # k => inflight'[m] = inflight[m]
          /\ call'[c] = s /\ \A d \in Call : d # c => call'[d] = call[d]
      BY <1>3, <1>10, <2>4 DEF Ind, StateType
    <3>2. \A m \in Key : inflight[m] # None => inflight[m] \in Call /\ inflight[m] # c
      BY DEF Ind, StateType, Leads
    <3> QED BY <2>3, <3>1, <3>2 DEF Ind, Leads, Running
  <2>7. Good(s)'
    BY <1>1, <1>3, <1>5, <2>3, NoneIsNoKey DEF Good, Holds, Requests, Joins, Owns, Running, Busy
  <2> QED BY <1>5, <1>6, <1>7, <2>3, <2>4, <2>5, <2>6, <2>7, OneCall
<1> QED BY <1>1, <1>2, <1>8, <1>9, <1>10 DEF Attempt

LEMMA GetStep == ASSUME Ind, NEW c \in Call, NEW cl \in Client, Get(c, cl) PROVE Ind'
<1>1. PICK r : r = [Idle EXCEPT !.by = cl]
  OBVIOUS
<1>2. r \in CallState /\ r.by = cl
  BY <1>1 DEF Idle, CallState, Running, Waiting
<1>3. token[cl] \in Token
  BY DEF Get, Ind, StateType, TokensFit
<1>4. call[c].pc \notin Running
  BY DEF Get, At, Running
<1> QED BY <1>1, <1>2, <1>3, <1>4, AttemptStep DEF Get

LEMMA ProceedStep == ASSUME Ind, NEW c \in Call, Proceed(c) PROVE Ind'
<1>1. call[c] \in CallState /\ call[c].pc \in {"prepared", "refreshed"} /\ Good(call[c])
  BY DEF Proceed, Ind, StateType
<1>2. call[c].by \in Client /\ token[call[c].by] # None
  BY <1>1 DEF Good, Holds, Busy
<1>3. token[call[c].by] \in Token
  BY <1>2 DEF Ind, StateType
<1> QED BY <1>1, <1>2, <1>3, AttemptStep DEF Proceed, Running

LEMMA ServerAnswersStep ==
  ASSUME Ind, NEW c \in Call, NEW s \in Status, ServerAnswers(c, s)
  PROVE  Ind'
<1>1. PICK r : r = [call[c] EXCEPT !.pc = "reply", !.status = s]
  OBVIOUS
<1>2. /\ call[c] \in CallState /\ call[c].pc = "send" /\ Good(call[c])
      /\ call[c].by \in Client /\ call[c].sent \in Token
  BY DEF ServerAnswers, At, Ind, StateType, Good, Holds, Requests, Busy, Running
<1>3. /\ call' = [call EXCEPT ![c] = r]
      /\ accepted' = IF s \in {"ok", "notModified"}
                     THEN [accepted EXCEPT ![call[c].by] = @ \cup {call[c].sent}] ELSE accepted
      /\ UNCHANGED <<issued, expired, token, refreshing, cache, inflight>>
  BY <1>1 DEF ServerAnswers, Tokens
<1>4. /\ r \in CallState /\ r.pc = "reply" /\ r.status = s /\ r.by = call[c].by
      /\ r.sent = call[c].sent /\ r.asked = call[c].asked /\ r.key = call[c].key
      /\ r.again = call[c].again
  BY <1>1, <1>2 DEF CallState, Running
<1>5. /\ accepted' \in [Client -> SUBSET Token]
      /\ \A cl \in Client : accepted[cl] \subseteq accepted'[cl]
      /\ s \in {"ok", "notModified"} => call[c].sent \in accepted'[call[c].by]
  BY <1>2, <1>3 DEF Ind, StateType
<1>6. Monotone /\ TokensFit' /\ EntryIsOwn'
  BY <1>3, <1>5 DEF Monotone, Ind, TokensFit, EntryIsOwn
<1>7. StateType'
  BY <1>3, <1>4, <1>5 DEF Ind, StateType
<1>8. call[c].pc \in Running /\ r.pc \in Running
  BY <1>2, <1>4 DEF Running
<1>9. Leads'
  BY <1>3, <1>4, <1>8, LeadsKept
<1>10. Good(r)'
  BY <1>2, <1>3, <1>4, <1>5 DEF Good, Holds, Requests, Joins, Owns, Running, Busy
<1> QED BY <1>3, <1>4, <1>6, <1>7, <1>8, <1>9, <1>10, OneCall

(* The answer, or a rejection, reaches the promise. *)
LEMMA SettleWithStep ==
  ASSUME Ind, NEW c \in Call, call[c].pc = "reply", NEW body \in Character \cup {None},
         body # None => body = call[c].sent.char /\ call[c].sent \in accepted[call[c].by],
         SettleWith(c, body), UNCHANGED <<Tokens, accepted, inflight>>,
         cache' \in [Key -> Entry \cup {None}], EntryIsOwn'
  PROVE  Ind'
<1>1. PICK r, u : /\ u = IF call[c].status = "unauthorized" THEN call[c].status ELSE None
                  /\ r = [call[c] EXCEPT !.pc = "settle", !.body = body, !.sent = None,
                            !.inm = None, !.revalidating = FALSE, !.status = u]
  OBVIOUS
<1>2. call[c] \in CallState /\ Good(call[c])
  BY DEF Ind, StateType
<1>3. call' = [call EXCEPT ![c] = r]
  BY <1>1 DEF SettleWith
<1>4. u \in Status \cup {None}
  BY <1>1 DEF Status
<1>5. /\ r \in CallState /\ r.pc = "settle" /\ r.body = body /\ r.by = call[c].by
      /\ r.asked = call[c].asked /\ r.key = call[c].key /\ r.again = call[c].again
  <2>1. PICK q : q = [call[c] EXCEPT !.pc = "settle", !.body = body, !.sent = None]
    OBVIOUS
  <2>2. /\ q \in CallState /\ q.pc = "settle" /\ q.body = body /\ q.by = call[c].by
        /\ q.asked = call[c].asked /\ q.key = call[c].key /\ q.again = call[c].again
    BY <1>2, <2>1 DEF CallState, Running
  <2>3. r = [q EXCEPT !.inm = None, !.revalidating = FALSE, !.status = u]
    BY <1>1, <2>1
  <2> QED BY <1>4, <2>2, <2>3 DEF CallState
<1>6. UNCHANGED <<issued, expired, token, refreshing, accepted, inflight>>
  BY DEF Tokens
<1>7. Monotone /\ TokensFit'
  BY <1>6 DEF Monotone, Ind, TokensFit
<1>8. StateType'
  BY <1>3, <1>5, <1>6 DEF Ind, StateType
<1>9. call[c].pc \in Running /\ r.pc \in Running
  BY <1>5 DEF Running
<1>10. Leads'
  BY <1>3, <1>5, <1>6, <1>9, LeadsKept
<1>11. Good(r)'
  BY <1>2, <1>5, <1>6 DEF Good, Holds, Requests, Joins, Owns, Running, Busy
<1> QED BY <1>3, <1>5, <1>6, <1>7, <1>8, <1>9, <1>10, <1>11, OneCall

LEMMA AnswerKeyFields ==
  ASSUME Ind, NEW c \in Call, call[c].pc = "reply"
  PROVE  /\ AnswerKey(c) \in Key /\ AnswerKey(c).char = call[c].sent.char
         /\ call[c].sent.char \in Character
         /\ AnswerKey(c).n = 0 => call[c].sent \in accepted[call[c].by]
         /\ call[c].status \in {"ok", "notModified"} =>
              call[c].sent \in accepted[call[c].by] /\ AnswerKey(c).n = 0
<1>1. /\ Good(call[c]) /\ call[c].by \in Client /\ call[c].sent \in Token
      /\ call[c].status \in {"ok", "notModified"} => call[c].sent \in accepted[call[c].by]
  BY DEF Ind, Good, Holds, Requests, Busy, Running
<1>2. call[c].sent.char \in Character
  BY <1>1, KeyFields DEF Token
<1>3. call[c].sent \in accepted[call[c].by] => AnswerKey(c).n = 0
  BY <1>1, ClaimedFields DEF AnswerKey, Trusted
<1> QED BY <1>1, <1>2, <1>3, TrustedFields DEF AnswerKey, Ind

LEMMA AcceptStep == ASSUME Ind, NEW c \in Call, Accept(c) PROVE Ind'
<1>1. PICK k, entry : k = AnswerKey(c) /\ entry = [char |-> call[c].sent.char, fresh |-> TRUE]
  OBVIOUS
<1>2. /\ call[c].pc = "reply" /\ call[c].status = "ok" /\ cache' = [cache EXCEPT ![k] = entry]
      /\ SettleWith(c, call[c].sent.char) /\ UNCHANGED <<Tokens, accepted, inflight>>
  BY <1>1 DEF Accept, Replied, At
<1>3. /\ k \in Key /\ k.char = call[c].sent.char /\ k.n = 0
      /\ call[c].sent.char \in Character /\ call[c].sent \in accepted[call[c].by]
  BY <1>1, <1>2, AnswerKeyFields
<1>4. entry \in Entry /\ entry.char = k.char
  BY <1>1, <1>3 DEF Entry
<1>5. cache' \in [Key -> Entry \cup {None}]
  BY <1>2, <1>4 DEF Ind, StateType
<1>6. EntryIsOwn'
  BY <1>2, <1>3, <1>4 DEF Ind, StateType, EntryIsOwn
<1> QED BY <1>2, <1>3, <1>5, <1>6, SettleWithStep

LEMMA NotModifiedStep == ASSUME Ind, NEW c \in Call, NotModified(c) PROVE Ind'
<1>1. PICK k, entry : k = AnswerKey(c) /\ entry = [cache[k] EXCEPT !.fresh = TRUE]
  OBVIOUS
<1>2. /\ call[c].pc = "reply" /\ call[c].status = "notModified" /\ cache[k] # None
      /\ cache' = [cache EXCEPT ![k] = entry]
      /\ SettleWith(c, cache[k].char) /\ UNCHANGED <<Tokens, accepted, inflight>>
  BY <1>1 DEF NotModified, Replied, At
<1>3. /\ k \in Key /\ k.char = call[c].sent.char /\ k.n = 0
      /\ call[c].sent.char \in Character /\ call[c].sent \in accepted[call[c].by]
  BY <1>1, <1>2, AnswerKeyFields
<1>4. cache[k] \in Entry /\ cache[k].char = k.char
  BY <1>2, <1>3 DEF Ind, StateType, EntryIsOwn
<1>5. entry \in Entry /\ entry.char = k.char
  BY <1>1, <1>4 DEF Entry
<1>6. cache' \in [Key -> Entry \cup {None}]
  BY <1>2, <1>5 DEF Ind, StateType
<1>7. EntryIsOwn'
  BY <1>2, <1>3, <1>5 DEF Ind, StateType, EntryIsOwn
<1> QED BY <1>2, <1>3, <1>4, <1>6, <1>7, SettleWithStep

LEMMA OtherAnswerStep ==
  ASSUME Ind, NEW c \in Call, BareNotModified(c) \/ ServeStale(c) \/ Reject(c)
  PROVE  Ind'
<1>1. call[c].pc = "reply" /\ UNCHANGED <<Tokens, accepted, cache, inflight>>
  BY DEF BareNotModified, ServeStale, Reject, Replied, EntryGone, At
<1>2. cache' \in [Key -> Entry \cup {None}] /\ EntryIsOwn'
  BY <1>1 DEF Ind, StateType, EntryIsOwn
<1>3. ASSUME SettleWith(c, None) PROVE Ind'
  BY <1>1, <1>2, <1>3, SettleWithStep
<1>4. CASE ServeStale(c) /\ cache[AnswerKey(c)] # None
  <2>1. PICK k : k = AnswerKey(c)
    OBVIOUS
  <2>2. SettleWith(c, cache[k].char) /\ cache[k] # None
    BY <1>4, <2>1 DEF ServeStale
  <2>3. k \in Key /\ k.char = call[c].sent.char /\ call[c].sent.char \in Character
        /\ (k.n = 0 => call[c].sent \in accepted[call[c].by])
    BY <1>1, <2>1, AnswerKeyFields
  <2>4. cache[k].char = k.char /\ k.n = 0
    BY <2>2, <2>3 DEF Ind, EntryIsOwn
  <2> QED BY <1>1, <1>2, <2>2, <2>3, <2>4, SettleWithStep
<1> QED BY <1>3, <1>4 DEF BareNotModified, ServeStale, Reject

LEMMA RepeatStep == ASSUME Ind, NEW c \in Call, Repeat(c) PROVE Ind'
<1>1. PICK q, s : q = [call[c] EXCEPT !.again = TRUE] /\ s = Sent(q)
  OBVIOUS
<1>2. /\ call[c] \in CallState /\ call[c].pc = "reply" /\ Good(call[c])
      /\ call[c].by \in Client /\ token[call[c].by] \in Token
  <2>1. call[c] \in CallState /\ call[c].pc = "reply" /\ Good(call[c])
    BY DEF Repeat, EntryGone, Replied, At, Ind, StateType
  <2>2. call[c].by \in Client /\ token[call[c].by] # None
    BY <2>1 DEF Good, Holds, Busy, Running
  <2> QED BY <2>1, <2>2 DEF Ind, StateType
<1>3. /\ q \in CallState /\ q.by = call[c].by /\ q.asked = call[c].asked /\ q.key = call[c].key
      /\ q.again = TRUE
  BY <1>1, <1>2 DEF CallState
<1>4. /\ s \in CallState /\ s.pc = "send" /\ s.by = call[c].by /\ s.sent = token[call[c].by]
      /\ s.asked = call[c].asked /\ s.key = call[c].key /\ s.again = TRUE
  <2>1. StateType /\ q.by \in Client /\ token[q.by] \in Token
    BY <1>2, <1>3 DEF Ind
  <2>2. /\ Sent(q) \in CallState /\ Sent(q).pc = "send" /\ Sent(q).by = q.by
        /\ Sent(q).sent = token[q.by] /\ Sent(q).asked = q.asked /\ Sent(q).key = q.key
        /\ Sent(q).again = q.again
    BY <1>3, <2>1, SentFields
  <2> QED BY <1>1, <1>3, <2>2
<1>5. call' = [call EXCEPT ![c] = s] /\ UNCHANGED <<Tokens, accepted, cache, inflight>>
  BY <1>1 DEF Repeat
<1>6. UNCHANGED <<issued, expired, token, refreshing, accepted, cache, inflight>>
  BY <1>5 DEF Tokens
<1>7. Monotone /\ TokensFit' /\ EntryIsOwn'
  BY <1>6 DEF Monotone, Ind, TokensFit, EntryIsOwn
<1>8. StateType'
  BY <1>4, <1>5, <1>6 DEF Ind, StateType
<1>9. call[c].pc \in Running /\ s.pc \in Running
  BY <1>2, <1>4 DEF Running
<1>10. Leads'
  BY <1>4, <1>5, <1>6, <1>9, LeadsKept
<1>11. Good(s)'
  BY <1>2, <1>4, <1>6, NoneIsNoKey
     DEF Good, Holds, Requests, Joins, Owns, Running, Busy
<1> QED BY <1>4, <1>5, <1>6, <1>7, <1>8, <1>9, <1>10, <1>11, OneCall

LEMMA SettleStep == ASSUME Ind, NEW c \in Call, Settle(c) PROVE Ind'
<1>0. PICK s : s = call[c]
  OBVIOUS
<1>1. /\ s \in CallState /\ s.pc = "settle" /\ Good(s) /\ s.by \in Client /\ s.asked \in Token
      /\ s.key \in {s.asked, Claimed(s.asked)} /\ s.key \in Key
      /\ inflight' = [inflight EXCEPT ![s.key] = None]
      /\ UNCHANGED <<issued, expired, token, refreshing, accepted, cache>>
  <2>1. s \in CallState /\ s.pc = "settle" /\ Good(s)
    BY <1>0 DEF Settle, At, Ind, StateType
  <2>2. s.by \in Client /\ s.asked \in Token /\ s.key \in {s.asked, Claimed(s.asked)}
    BY <2>1 DEF Good, Holds, Requests, Busy, Running
  <2> QED BY <1>0, <2>1, <2>2, ClaimedFields, NoneIsNoKey DEF Settle, Tokens
<1>2. call' = [d \in Call |->
         IF d = c \/ (At(d, "join") /\ call[d].on = c)
         THEN IF s.status = "unauthorized"
              THEN [Idle EXCEPT !.pc = "denied", !.by = call[d].by, !.refreshed = call[d].refreshed]
              ELSE Done(call[d].asked, s.body, s.again)
         ELSE call[d]]
  BY <1>0 DEF Settle
<1>3. Monotone /\ TokensFit' /\ EntryIsOwn'
  BY <1>1 DEF Monotone, Ind, TokensFit, EntryIsOwn
<1>4. ASSUME NEW d \in Call
      PROVE  /\ call'[d] \in CallState /\ Good(call[d])'
             /\ call[d].pc \in Running /\ d # c => call'[d] = call[d]
  <2>1. call[d] \in CallState /\ Good(call[d])
    BY DEF Ind, StateType
  <2>2. CASE d = c \/ (At(d, "join") /\ call[d].on = c)
    <3>1. /\ call[d].by \in Client /\ token[call[d].by] # None /\ call[d].asked \in Token
          /\ call[d].pc \notin Running \/ d = c
      BY <1>0, <1>1, <2>1, <2>2 DEF At, Good, Holds, Requests, Busy, Running
    <3>2. CASE s.status = "unauthorized"
      <4>1. call'[d] = [Idle EXCEPT !.pc = "denied", !.by = call[d].by, !.refreshed = call[d].refreshed]
        BY <1>2, <2>2, <3>2
      <4>2. /\ call'[d] \in CallState /\ call'[d].pc = "denied" /\ call'[d].by = call[d].by
        <5>1. PICK b, f : b = call[d].by /\ f = call[d].refreshed
          OBVIOUS
        <5>2. b \in Client /\ f \in Nat
          BY <2>1, <3>1, <5>1 DEF CallState
        <5>3. PICK e : e = [Idle EXCEPT !.pc = "denied", !.by = b, !.refreshed = f]
          OBVIOUS
        <5>4. e \in CallState /\ e.pc = "denied" /\ e.by = b
          BY <5>2, <5>3 DEF Idle, CallState, Running, Waiting
        <5> QED BY <4>1, <5>1, <5>3, <5>4
      <4> QED BY <1>1, <3>1, <4>2 DEF Good, Holds, Requests, Joins, Owns, Running, Busy
    <3>3. CASE s.status # "unauthorized"
      <4>1. call'[d] = Done(call[d].asked, s.body, s.again)
        BY <1>2, <2>2, <3>3
      <4>2. s.body \in Character \cup {None} /\ s.again \in BOOLEAN
        BY <1>1 DEF CallState
      <4>3. /\ call'[d] \in CallState /\ call'[d].pc = "done" /\ call'[d].asked = call[d].asked
            /\ call'[d].body = s.body /\ call'[d].again = s.again
        BY <3>1, <4>1, <4>2, DoneType
      <4>4. s.body # None /\ ~s.again => s.body = s.asked.char /\ s.asked \in accepted[s.by]
        BY <1>1 DEF Good, Owns
      <4>5. s.body # None /\ ~s.again =>
               s.body = call[d].asked.char /\ \E cl \in Client : call[d].asked \in accepted[cl]
        <5>1. CASE d = c
          BY <1>0, <1>1, <4>4, <5>1
        <5>2. CASE At(d, "join") /\ call[d].on = c
          <6>1. \/ s.key = call[d].asked
                \/ s.key = Claimed(call[d].asked) /\ call[d].asked \in accepted[call[d].by]
            BY <1>0, <2>1, <5>2 DEF At, Good, Joins
          <6>2. CASE s.key = call[d].asked
            BY <1>1, <3>1, <4>4, <6>2, ClaimedFields
          <6>3. CASE s.key = Claimed(call[d].asked) /\ call[d].asked \in accepted[call[d].by]
            BY <1>1, <3>1, <4>4, <6>3, ClaimedFields
          <6> QED BY <6>1, <6>2, <6>3
        <5> QED BY <2>2, <5>1, <5>2
      <4>6. Holds(call[d])' /\ Requests(call[d])' /\ Joins(call[d])'
        BY <4>3 DEF Holds, Requests, Joins, Running, Busy
      <4>7. Owns(call[d])'
        BY <1>1, <4>3, <4>5 DEF Owns, Running
      <4> QED BY <3>1, <4>3, <4>6, <4>7 DEF Good
    <3> QED BY <3>1, <3>2, <3>3
  <2>3. CASE ~(d = c \/ (At(d, "join") /\ call[d].on = c))
    <3>1. call'[d] = call[d]
      BY <1>2, <2>3
    <3>2. call[d].pc = "refresh" => refreshing'[call[d].by] # None
      BY <1>1, <2>1 DEF Good, Holds
    <3>3. call[d].pc = "join" => /\ call'[call[d].on].pc \in Running
                                 /\ call'[call[d].on].key = call[call[d].on].key
      BY <1>2, <2>1, <2>3 DEF Good, Joins, At, Running
    <3> QED BY <1>3, <2>1, <3>1, <3>2, <3>3, StaysGood
  <2> QED BY <2>2, <2>3 DEF At, Running
<1>5. StateType'
  <2>1. call' \in [Call -> CallState]
    BY <1>2, <1>4
  <2> QED BY <1>1, <2>1 DEF Ind, StateType
<1>6. Leads'
  <2>1. \A k \in Key : inflight'[k] # None => inflight'[k] = inflight[k] /\ k # s.key
    BY <1>1 DEF Ind, StateType
  <2>2. \A k \in Key : inflight[k] # None => inflight[k] \in Call
    BY DEF Ind, StateType
  <2> QED BY <1>0, <1>4, <2>1, <2>2 DEF Ind, Leads
<1> QED BY <1>3, <1>4, <1>5, <1>6 DEF Ind

LEMMA IndStep == Ind /\ [Next]_vars => Ind'
<1> SUFFICES ASSUME Ind, [Next]_vars PROVE Ind'
  OBVIOUS
<1>1. ASSUME NEW c \in Call, \E v \in View : Lookup(c, v) PROVE Ind'
  BY <1>1, LookupStep
<1>2. ASSUME NEW c \in Call, \E cl \in Client : Get(c, cl) PROVE Ind'
  BY <1>2, GetStep
<1>3. ASSUME NEW c \in Call, LookupFails(c) \/ StillDenied(c) PROVE Ind'
  BY <1>3, RejectedStep DEF LookupFails, StillDenied, At, Running
<1>4. ASSUME NEW c \in Call, \E s \in Status : ServerAnswers(c, s) PROVE Ind'
  BY <1>4, ServerAnswersStep
<1>5. ASSUME NEW c \in Call,
             \/ LookupAnswers(c) \/ Refresh(c) \/ Proceed(c) \/ Accept(c) \/ NotModified(c)
             \/ Repeat(c) \/ BareNotModified(c) \/ ServeStale(c) \/ Reject(c) \/ Settle(c)
      PROVE  Ind'
  BY <1>5, LookupAnswersStep, RefreshStep, ProceedStep, AcceptStep, NotModifiedStep, RepeatStep,
     OtherAnswerStep, SettleStep
<1>6. ASSUME NEW cl \in Client,
             RefreshAnswers(cl) \/ RefreshFails(cl) \/ \E t \in Token : SetAccessToken(cl, t)
      PROVE  Ind'
  BY <1>6, RefreshAnswersStep, RefreshFailsStep, SetAccessTokenStep
<1> QED BY <1>1, <1>2, <1>3, <1>4, <1>5, <1>6, EnvironmentStep DEF Next

-----------------------------------------------------------------------------
LEMMA Inductive == Spec => []Ind
<1>1. Init => Ind
  BY IndInit
<1>2. Ind /\ [Next]_vars => Ind'
  BY IndStep
<1> QED BY <1>1, <1>2, PTL DEF Spec

(* Every variable keeps its type; a call that waits waits for a request or  *)
(* a refresh that is under way (ApiClient.ts, RequestDeduplicator.ts).      *)
THEOREM TypeCorrect == Spec => []TypeOK
BY Inductive, IndTypes, PTL

(* Every call is answered with the data of the character whose token its    *)
(* client held when it asked, the request being repeated left out           *)
(* (ApiRequestHandler.ts, cacheKey.ts).                                     *)
THEOREM EveryAnswerIsOwn == Spec => []AnswersAreOwn
<1>1. Ind => AnswersAreOwn
  BY DEF Ind, AnswersAreOwn, Answered, At, Good, Owns
<1> QED BY <1>1, Inductive, PTL

(* Nobody is served under a token ESI has accepted from no client           *)
(* (markTokenAccepted, trustedIdentity in cacheKey.ts).                     *)
THEOREM EveryAnsweredTokenWasAccepted == Spec => []AnsweredTokensAreAccepted
<1>1. Ind => AnsweredTokensAreAccepted
  BY DEF Ind, AnsweredTokensAreAccepted, Answered, At, Good, Owns
<1> QED BY <1>1, Inductive, PTL

(* An entry of the cache holds the data of the character it is kept for,    *)
(* whichever client stored it (fetchExecution.ts).                          *)
THEOREM EveryEntryIsOwn == Spec => []EntryIsOwn
<1>1. Ind => EntryIsOwn
  BY DEF Ind
<1> QED BY <1>1, Inductive, PTL

-----------------------------------------------------------------------------
(* What the refresh of one call of a view has given is no newer than what   *)
(* the view holds, than what a refresh under way or a lookup nothing has    *)
(* overtaken will give it, and than what the call sends.                    *)
Fits(r) ==
  r.by \in View =>
    /\ r.refreshed <= issued[Identity[r.by]]
    /\ r.refreshed # 0 => token[r.by] # None /\ token[r.by].n >= r.refreshed
    /\ refreshing[r.by] # None => refreshing[r.by].n >= r.refreshed
    /\ r.pc \in {"send", "reply"} => r.sent.n >= r.refreshed
    /\ \A e \in Call : call[e].pc = "lookup" /\ ~call[e].overtaken /\ call[e].by = r.by =>
                      call[e].since >= r.refreshed

AllFit == \A c \in Call : Fits(call[c])

LEMMA ViewFields ==
  ASSUME Ind, NEW v \in View
  PROVE  /\ v \in Client /\ Identity[v] \in Character /\ issued[Identity[v]] \in Nat
         /\ token[v] # None => token[v].n \in Nat /\ token[v].char = Identity[v]
         /\ refreshing[v] # None => refreshing[v].n \in Nat /\ refreshing[v].char = Identity[v]
<1>1. v \in Client /\ Identity[v] \in Character /\ issued[Identity[v]] \in Nat
  BY ConstantsAssumption DEF Ind, StateType
<1>2. token[v] \in Token \cup {None} /\ refreshing[v] \in Token \cup {None}
  BY <1>1 DEF Ind, StateType
<1>3. \A t \in Token : t.n \in Nat
  BY KeyFields, ConstantsAssumption DEF Token
<1> QED BY <1>1, <1>2, <1>3 DEF Ind, TokensFit

LEMMA CallFields ==
  ASSUME Ind, NEW c \in Call
  PROVE  /\ call[c] \in CallState /\ call[c].refreshed \in Nat /\ call[c].since \in Nat
         /\ call[c].pc \in {"send", "reply"} => call[c].sent \in Token /\ call[c].sent.n \in Nat
<1>1. call[c] \in CallState
  BY DEF Ind, StateType
<1>2. call[c].pc \in {"send", "reply"} => call[c].sent \in Token
  BY DEF Ind, Good, Requests
<1>3. \A t \in Token : t.n \in Nat
  BY KeyFields, ConstantsAssumption DEF Token
<1> QED BY <1>1, <1>2, <1>3 DEF CallState

(* A step of a call that is neither answered by a refresh nor by a lookup.  *)
Quiet(r, s) ==
  \/ s = r
  \/ /\ s.by \in View => (s.refreshed = 0 \/ (s.by = r.by /\ s.refreshed = r.refreshed))
     /\ s.pc # "lookup"
     /\ s.by \in View /\ s.pc \in {"send", "reply"} => s.sent.n >= s.refreshed

LEMMA QuietStep ==
  ASSUME Ind, Ind', AllFit, UNCHANGED Tokens, \A c \in Call : Quiet(call[c], call'[c])
  PROVE  AllFit'
<1> SUFFICES ASSUME NEW c \in Call, call'[c].by \in View PROVE Fits(call[c])'
  BY DEF AllFit, Fits
<1>1. UNCHANGED <<issued, token, refreshing>>
  BY DEF Tokens
<1>2. PICK v : v = call'[c].by
  OBVIOUS
<1>3. /\ v \in View /\ issued[Identity[v]] \in Nat
      /\ token[v] # None => token[v].n \in Nat
      /\ refreshing[v] # None => refreshing[v].n \in Nat
  BY <1>2, ViewFields
<1>4. call'[c].refreshed = 0 \/ (call[c].by = v /\ call'[c].refreshed = call[c].refreshed)
  BY <1>2 DEF Quiet
<1>5. \A e \in Call : call'[e].pc = "lookup" => call'[e] = call[e] /\ call[e].since \in Nat
  BY CallFields DEF Quiet
<1>6. call'[c].pc \in {"send", "reply"} => call'[c].sent.n >= call'[c].refreshed
  BY <1>2, <1>3 DEF Quiet, AllFit, Fits
<1>7. CASE call'[c].refreshed = 0
  BY <1>1, <1>2, <1>3, <1>5, <1>6, <1>7 DEF Fits
<1>8. CASE call[c].by = v /\ call'[c].refreshed = call[c].refreshed
  <2>1. Fits(call[c])
    BY DEF AllFit
  <2> QED BY <1>1, <1>2, <1>3, <1>5, <1>6, <1>8, <2>1 DEF Fits
<1> QED BY <1>4, <1>7, <1>8

LEMMA OneQuiet ==
  ASSUME Ind, Ind', AllFit, UNCHANGED Tokens, NEW c \in Call, NEW s,
         call' = [call EXCEPT ![c] = s], Quiet(call[c], s)
  PROVE  AllFit'
<1>1. \A d \in Call : Quiet(call[d], call'[d])
  BY DEF Ind, StateType, Quiet
<1> QED BY <1>1, QuietStep

LEMMA AttemptFits ==
  ASSUME Ind, Ind', AllFit, UNCHANGED Tokens, NEW c \in Call, NEW r \in CallState,
         r.by \in Client, token[r.by] \in Token, r.by \in View => r = call[c],
         call[c].pc # "lookup", Attempt(c, r)
  PROVE  AllFit'
<1>1. PICK t, k, fresh : /\ t = token[r.by] /\ k = Trusted(r.by, t)
                         /\ fresh = (cache[k] # None /\ cache[k].fresh)
  OBVIOUS
<1>2. PICK asks : asks = [r EXCEPT !.asked = t, !.sent = None, !.on = None]
  OBVIOUS
<1>3. t \in Token /\ k \in Key
  BY <1>1, TrustedFields DEF Ind
<1>4. asks \in CallState /\ asks.by = r.by /\ asks.refreshed = r.refreshed
  BY <1>2, <1>3 DEF CallState
<1>5. CASE call' = [call EXCEPT ![c] = Done(t, cache[k].char, FALSE)]
  <2>1. PICK d : d = Done(t, cache[k].char, FALSE)
    OBVIOUS
  <2>2. d.pc = "done" /\ d.refreshed = 0
    BY <2>1 DEF Done, Idle
  <2> QED BY <1>5, <2>1, <2>2, OneQuiet DEF Quiet
<1>6. CASE call' = [call EXCEPT ![c] = [asks EXCEPT !.pc = "join", !.on = inflight[k]]]
  <2>1. PICK j : j = [asks EXCEPT !.pc = "join", !.on = inflight[k]]
    OBVIOUS
  <2>2. j.pc = "join" /\ j.by = r.by /\ j.refreshed = r.refreshed
    BY <1>4, <2>1 DEF CallState
  <2> QED BY <1>6, <2>1, <2>2, OneQuiet DEF Quiet
<1>7. CASE call' = [call EXCEPT ![c] = Sent([asks EXCEPT !.key = k])]
  <2>1. PICK q, s : q = [asks EXCEPT !.key = k] /\ s = Sent(q)
    OBVIOUS
  <2>2. q \in CallState /\ q.by = r.by /\ q.refreshed = r.refreshed
    BY <1>3, <1>4, <2>1 DEF CallState
  <2>3. StateType /\ q.by \in Client /\ token[q.by] \in Token
    BY <2>2 DEF Ind
  <2>4. s.pc = "send" /\ s.by = r.by /\ s.sent = t
    <3>1. Sent(q).pc = "send" /\ Sent(q).by = q.by /\ Sent(q).sent = token[q.by]
      BY <2>2, <2>3, SentFields
    <3> QED BY <1>1, <2>1, <2>2, <3>1
  <2>5. s.refreshed = r.refreshed
    BY <2>1, <2>2 DEF Sent, CallState
  <2>6. r.by \in View => t.n >= r.refreshed
    <3>1. SUFFICES ASSUME r.by \in View PROVE t.n >= r.refreshed
      OBVIOUS
    <3>2. r = call[c] /\ Fits(r) /\ r.refreshed \in Nat /\ t.n \in Nat
      BY <1>1, <1>3, <3>1, CallFields, ViewFields, NoneIsNoKey DEF AllFit
    <3> QED BY <1>1, <3>1, <3>2 DEF Fits
  <2>7. Quiet(call[c], s)
    BY <2>4, <2>5, <2>6 DEF Quiet
  <2> QED BY <1>7, <2>1, <2>7, OneQuiet
<1> QED BY <1>1, <1>2, <1>5, <1>6, <1>7 DEF Attempt

LEMMA GetFits ==
  ASSUME Ind, Ind', AllFit, NEW c \in Call, NEW cl \in Client, Get(c, cl)
  PROVE  AllFit'
<1>1. PICK r : r = [Idle EXCEPT !.by = cl]
  OBVIOUS
<1>2. r \in CallState /\ r.by = cl /\ cl \notin View
  BY <1>1 DEF Idle, CallState, Running, Waiting, Get
<1>3. token[cl] \in Token
  BY DEF Get, Ind, StateType, TokensFit
<1>4. call[c].pc # "lookup"
  BY DEF Get, At
<1> QED BY <1>1, <1>2, <1>3, <1>4, AttemptFits DEF Get

LEMMA ProceedFits == ASSUME Ind, Ind', AllFit, NEW c \in Call, Proceed(c) PROVE AllFit'
<1>1. call[c] \in CallState /\ call[c].pc \in {"prepared", "refreshed"} /\ Good(call[c])
  BY DEF Proceed, Ind, StateType
<1>2. call[c].by \in Client /\ token[call[c].by] # None
  BY <1>1 DEF Good, Holds, Busy
<1>3. token[call[c].by] \in Token
  BY <1>2 DEF Ind, StateType
<1> QED BY <1>1, <1>2, <1>3, AttemptFits DEF Proceed

LEMMA RepeatFits == ASSUME Ind, Ind', AllFit, NEW c \in Call, Repeat(c) PROVE AllFit'
<1>1. PICK q, s : q = [call[c] EXCEPT !.again = TRUE] /\ s = Sent(q)
  OBVIOUS
<1>2. /\ call[c] \in CallState /\ call[c].pc = "reply" /\ Good(call[c]) /\ Fits(call[c])
  BY DEF Repeat, EntryGone, Replied, At, Ind, StateType, AllFit
<1>3. call[c].by \in Client /\ token[call[c].by] \in Token
  BY <1>2 DEF Good, Holds, Busy, Running, Ind, StateType
<1>4. q \in CallState /\ q.by = call[c].by /\ q.refreshed = call[c].refreshed
  BY <1>1, <1>2 DEF CallState
<1>5. StateType /\ q.by \in Client /\ token[q.by] \in Token
  BY <1>3, <1>4 DEF Ind
<1>6. s.pc = "send" /\ s.by = q.by /\ s.sent = token[q.by]
  BY <1>1, <1>4, <1>5, SentFields
<1>7. s.refreshed = call[c].refreshed
  BY <1>1, <1>4 DEF Sent, CallState
<1>8. s.by \in View => s.sent.n >= s.refreshed
  <2> SUFFICES ASSUME s.by \in View PROVE s.sent.n >= s.refreshed
    OBVIOUS
  <2>1. token[s.by].n \in Nat /\ call[c].refreshed \in Nat
    BY <1>3, <1>4, <1>6, CallFields, ViewFields, NoneIsNoKey
  <2> QED BY <1>2, <1>4, <1>6, <1>7, <2>1 DEF Fits
<1>9. Quiet(call[c], s)
  BY <1>4, <1>6, <1>7, <1>8 DEF Quiet
<1>10. call' = [call EXCEPT ![c] = s] /\ UNCHANGED Tokens
  BY <1>1 DEF Repeat
<1> QED BY <1>9, <1>10, OneQuiet

LEMMA ServerAnswersFits ==
  ASSUME Ind, Ind', AllFit, NEW c \in Call, NEW s \in Status, ServerAnswers(c, s)
  PROVE  AllFit'
<1>1. PICK r : r = [call[c] EXCEPT !.pc = "reply", !.status = s]
  OBVIOUS
<1>2. call[c] \in CallState /\ call[c].pc = "send" /\ Fits(call[c])
  BY DEF ServerAnswers, At, Ind, StateType, AllFit
<1>3. /\ r.pc = "reply" /\ r.by = call[c].by /\ r.sent = call[c].sent
      /\ r.refreshed = call[c].refreshed
  BY <1>1, <1>2 DEF CallState
<1>4. Quiet(call[c], r)
  BY <1>2, <1>3 DEF Quiet, Fits
<1>5. call' = [call EXCEPT ![c] = r] /\ UNCHANGED Tokens
  BY <1>1 DEF ServerAnswers
<1> QED BY <1>4, <1>5, OneQuiet

LEMMA SettleWithFits ==
  ASSUME Ind, Ind', AllFit, NEW c \in Call, NEW body, SettleWith(c, body), UNCHANGED Tokens
  PROVE  AllFit'
<1>1. PICK r : call' = [call EXCEPT ![c] = r] /\ r.pc = "settle" /\ r.by = call[c].by
               /\ r.refreshed = call[c].refreshed
  <2>1. call[c] \in CallState
    BY DEF Ind, StateType
  <2>2. PICK r : r = [call[c] EXCEPT !.pc = "settle", !.body = body, !.sent = None,
                       !.inm = None, !.revalidating = FALSE,
                       !.status = IF call[c].status = "unauthorized" THEN call[c].status ELSE None]
    OBVIOUS
  <2>3. r.pc = "settle" /\ r.by = call[c].by /\ r.refreshed = call[c].refreshed
    BY <2>1, <2>2 DEF CallState
  <2> QED BY <2>2, <2>3 DEF SettleWith
<1>2. Quiet(call[c], r)
  BY <1>1 DEF Quiet
<1> QED BY <1>1, <1>2, OneQuiet

LEMMA SettleFits == ASSUME Ind, Ind', AllFit, NEW c \in Call, Settle(c) PROVE AllFit'
<1>0. PICK s : s = call[c]
  OBVIOUS
<1>1. call' = [d \in Call |->
         IF d = c \/ (At(d, "join") /\ call[d].on = c)
         THEN IF s.status = "unauthorized"
              THEN [Idle EXCEPT !.pc = "denied", !.by = call[d].by, !.refreshed = call[d].refreshed]
              ELSE Done(call[d].asked, s.body, s.again)
         ELSE call[d]]
  BY <1>0 DEF Settle
<1>2. ASSUME NEW d \in Call PROVE Quiet(call[d], call'[d])
  <2>1. CASE d = c \/ (At(d, "join") /\ call[d].on = c)
    <3>1. CASE s.status = "unauthorized"
      <4>1. PICK e : e = [Idle EXCEPT !.pc = "denied", !.by = call[d].by,
                                      !.refreshed = call[d].refreshed]
        OBVIOUS
      <4>2. e.pc = "denied" /\ e.by = call[d].by /\ e.refreshed = call[d].refreshed
        BY <4>1 DEF Idle
      <4>3. call'[d] = e
        BY <1>1, <2>1, <3>1, <4>1
      <4> QED BY <4>2, <4>3 DEF Quiet
    <3>2. CASE s.status # "unauthorized"
      <4>1. PICK e : e = Done(call[d].asked, s.body, s.again)
        OBVIOUS
      <4>2. e.pc = "done" /\ e.refreshed = 0
        BY <4>1 DEF Done, Idle
      <4>3. call'[d] = e
        BY <1>1, <2>1, <3>2, <4>1
      <4> QED BY <4>2, <4>3 DEF Quiet
    <3> QED BY <3>1, <3>2
  <2>2. CASE ~(d = c \/ (At(d, "join") /\ call[d].on = c))
    BY <1>1, <2>2 DEF Quiet
  <2> QED BY <2>1, <2>2
<1> QED BY <1>2, QuietStep DEF Settle

LEMMA RejectedFits ==
  ASSUME Ind, Ind', AllFit, NEW c \in Call, call' = [call EXCEPT ![c] = Rejected],
         UNCHANGED Tokens
  PROVE  AllFit'
<1>1. Quiet(call[c], Rejected)
  BY RejectedType DEF Quiet
<1> QED BY <1>1, OneQuiet

LEMMA LookupFits == ASSUME Ind, Ind', AllFit, NEW c \in Call, NEW v \in View, Lookup(c, v)
                    PROVE  AllFit'
<1>0. PICK r : r = [Idle EXCEPT !.pc = "lookup", !.by = v, !.since = issued[Identity[v]]]
  OBVIOUS
<1>1. /\ r.pc = "lookup" /\ r.by = v /\ r.since = issued[Identity[v]] /\ r.refreshed = 0
  BY <1>0 DEF Idle
<1>2. call'[c] = r /\ \A d \in Call : d # c => call'[d] = call[d]
  BY <1>0 DEF Lookup, Ind, StateType
<1>3. UNCHANGED <<issued, token, refreshing>>
  BY DEF Lookup, Tokens
<1>4. Fits(call[c])'
  <2>1. ASSUME NEW e \in Call, call'[e].pc = "lookup" PROVE call'[e].since >= 0
    BY <1>1, <1>2, <2>1, CallFields, ViewFields
  <2>2. r.refreshed = 0 /\ issued[Identity[v]] >= 0 /\ (refreshing[v] # None => refreshing[v].n >= 0)
    BY <1>1, ViewFields
  <2> QED BY <1>1, <1>2, <1>3, <2>1, <2>2 DEF Fits
<1>5. ASSUME NEW d \in Call, d # c PROVE Fits(call[d])'
  <2>1. Fits(call[d]) /\ call'[d] = call[d]
    BY <1>2, <1>5 DEF AllFit
  <2>2. \A e \in Call : e # c => call'[e] = call[e]
    BY <1>2
  <2> QED BY <1>1, <1>2, <1>3, <2>1, <2>2 DEF Fits
<1> QED BY <1>4, <1>5 DEF AllFit

LEMMA LookupAnswersFits ==
  ASSUME Ind, Ind', AllFit, NEW c \in Call, LookupAnswers(c)
  PROVE  AllFit'
<1>0. PICK v, r : /\ v = call[c].by
                   /\ r = [call[c] EXCEPT !.pc = "prepared", !.since = 0, !.overtaken = FALSE]
  OBVIOUS
<1>1. /\ call[c] \in CallState /\ call[c].pc = "lookup" /\ v \in View /\ Good(call[c])
  BY <1>0 DEF LookupAnswers, At, Ind, StateType, Good, Holds
<1>2. r.pc = "prepared" /\ r.by = v /\ r.refreshed = call[c].refreshed
  BY <1>0, <1>1 DEF CallState
<1>3. /\ call'[c] = r /\ \A d \in Call : d # c => call'[d] = call[d]
      /\ UNCHANGED <<issued, refreshing>>
  BY <1>0 DEF LookupAnswers, Prepared, Ind, StateType
<1>4. /\ \A w \in View : w # v => token'[w] = token[w]
      /\ \/ token' = token
         \/ ~call[c].overtaken /\ token'[v].n >= call[c].since /\ token'[v] # None
  <2>1. CASE call[c].overtaken
    BY <1>0, <2>1 DEF LookupAnswers
  <2>2. CASE ~call[c].overtaken
    <3>1. PICK n \in call[c].since .. issued[Identity[v]] :
            token' = [token EXCEPT ![v] = [char |-> Identity[v], n |-> n]]
      BY <1>0, <2>2 DEF LookupAnswers
    <3>2. call[c].since \in Nat /\ issued[Identity[v]] \in Nat
      BY <1>1, CallFields, ViewFields
    <3>3. v \in Client /\ \A w \in View : w \in Client
      BY <1>1, ConstantsAssumption
    <3>4. token'[v] = [char |-> Identity[v], n |-> n] /\ \A w \in View : w # v => token'[w] = token[w]
      BY <3>1, <3>3 DEF Ind, StateType
    <3>5. token'[v] # None
      BY <1>1, <1>2, <1>3, <3>3 DEF Ind, Good, Holds, Busy
    <3> QED BY <2>2, <3>2, <3>4, <3>5
  <2> QED BY <2>1, <2>2
<1>5. ASSUME NEW d \in Call PROVE Fits(call[d])'
  <2>1. SUFFICES ASSUME call'[d].by \in View PROVE Fits(call[d])'
    BY DEF Fits
  <2>2. /\ call[d].by = call'[d].by /\ call[d].refreshed = call'[d].refreshed
        /\ call'[d].pc \in {"send", "reply"} => call'[d] = call[d]
    BY <1>0, <1>2, <1>3
  <2>3. Fits(call[d]) /\ call[d].refreshed \in Nat /\ call[c].since \in Nat
    BY CallFields DEF AllFit
  <2>4. \A e \in Call : call'[e].pc = "lookup" => call'[e] = call[e]
    BY <1>2, <1>3
  <2>5. call[d].by = v /\ ~call[c].overtaken => call[c].since >= call[d].refreshed
    BY <1>0, <1>1, <2>3 DEF Fits
  <2>6. call[d].refreshed # 0 =>
          token'[call[d].by] # None /\ token'[call[d].by].n >= call[d].refreshed
    <3>1. CASE token'[call[d].by] = token[call[d].by]
      BY <2>1, <2>2, <2>3, <3>1 DEF Fits
    <3>2. CASE token'[call[d].by] # token[call[d].by]
      <4>1. call[d].by = v /\ ~call[c].overtaken /\ token'[v].n >= call[c].since /\ token'[v] # None
        BY <1>4, <2>1, <2>2, <3>2
      <4>2. token'[v].n \in Nat
        <5>1. v \in Client /\ token' \in [Client -> Token \cup {None}]
          BY <1>1, ConstantsAssumption DEF Ind, StateType
        <5>2. token'[v] \in Token
          BY <4>1, <5>1
        <5> QED BY <5>2, KeyFields, ConstantsAssumption DEF Token
      <4> QED BY <2>3, <2>5, <4>1, <4>2
    <3> QED BY <3>1, <3>2
  <2> QED BY <1>3, <2>1, <2>2, <2>3, <2>4, <2>6 DEF Fits
<1> QED BY <1>5 DEF AllFit

LEMMA SetAccessTokenFits ==
  ASSUME Ind, Ind', AllFit, NEW cl \in Client, NEW t \in Token, SetAccessToken(cl, t)
  PROVE  AllFit'
<1>1. /\ \A v \in View : token'[v] = token[v]
      /\ UNCHANGED <<issued, refreshing, call>>
  BY ConstantsAssumption DEF SetAccessToken, Ind, StateType
<1> QED BY <1>1 DEF AllFit, Fits

LEMMA RefreshFits == ASSUME Ind, Ind', AllFit, NEW c \in Call, Refresh(c) PROVE AllFit'
<1>0. PICK cl, r : cl = call[c].by /\ r = [call[c] EXCEPT !.pc = "refresh"]
  OBVIOUS
<1>1. /\ call[c] \in CallState /\ call[c].pc = "denied" /\ Good(call[c])
      /\ call'[c] = r /\ \A d \in Call : d # c => call'[d] = call[d]
      /\ UNCHANGED <<issued, token>>
  BY <1>0 DEF Refresh, At, Ind, StateType
<1>2. r.pc = "refresh" /\ r.by = cl /\ r.refreshed = call[c].refreshed
  BY <1>0, <1>1 DEF CallState
<1>3. \A v \in View : refreshing'[v] = refreshing[v] \/ refreshing'[v].n = issued[Identity[v]]
  <2> SUFFICES ASSUME NEW v \in View, refreshing'[v] # refreshing[v]
               PROVE  refreshing'[v].n = issued[Identity[v]]
    OBVIOUS
  <2>1. v \in Client /\ cl \in Client /\ token[cl] # None
    BY <1>0, <1>1, ConstantsAssumption DEF Good, Holds, Busy
  <2>2. refreshing' = [refreshing EXCEPT ![cl] =
                       [char |-> token[cl].char, n |-> issued[token[cl].char]]]
    BY <1>0 DEF Refresh
  <2>3. v = cl /\ refreshing'[v].n = issued[token[cl].char]
    BY <2>1, <2>2 DEF Ind, StateType
  <2> QED BY <2>1, <2>3, ViewFields
<1>4. ASSUME NEW d \in Call PROVE Fits(call[d])'
  <2>1. /\ call[d].by = call'[d].by /\ call[d].refreshed = call'[d].refreshed
        /\ call'[d].pc \in {"send", "reply"} => call'[d] = call[d]
    BY <1>0, <1>1, <1>2
  <2>2. Fits(call[d])
    BY DEF AllFit
  <2>3. \A e \in Call : call'[e].pc = "lookup" => call'[e] = call[e]
    BY <1>1, <1>2
  <2> QED BY <1>1, <1>3, <2>1, <2>2, <2>3 DEF Fits
<1> QED BY <1>4 DEF AllFit

LEMMA RefreshAnswersFits ==
  ASSUME Ind, Ind', AllFit, NEW cl \in Client, RefreshAnswers(cl)
  PROVE  AllFit'
<1>0. PICK n \in refreshing[cl].n .. issued[refreshing[cl].char] + 1 :
         /\ n <= MaxToken[refreshing[cl].char]
         /\ issued' = [issued EXCEPT ![refreshing[cl].char] = IF n > @ THEN n ELSE @]
         /\ token' = [token EXCEPT ![cl] = [char |-> refreshing[cl].char, n |-> n]]
         /\ call' = [c \in Call |->
              IF Awaits(call[c], cl) THEN [call[c] EXCEPT !.pc = "refreshed", !.refreshed = n]
              ELSE Overtakes(call[c], cl)]
  BY DEF RefreshAnswers
<1>1. PICK ch : ch = refreshing[cl].char
  OBVIOUS
<1>2. /\ ch \in Character /\ issued[ch] \in Nat /\ refreshing[cl].n \in Nat /\ n \in Nat
      /\ refreshing[cl] # None /\ n >= refreshing[cl].n
  <2>1. refreshing[cl] \in Token
    BY DEF RefreshAnswers, Ind, StateType
  <2>2. ch \in Character /\ refreshing[cl].n \in Nat
    BY <1>1, <2>1, KeyFields, ConstantsAssumption DEF Token
  <2>3. issued[ch] \in Nat
    BY <2>2 DEF Ind, StateType
  <2>4. n \in refreshing[cl].n .. issued[ch] + 1
    BY <1>0, <1>1
  <2> QED BY <2>1, <2>2, <2>3, <2>4, NoneIsNoKey
<1>3. /\ issued'[ch] >= n
      /\ \A h \in Character : issued'[h] \in Nat /\ issued[h] \in Nat /\ issued'[h] >= issued[h]
  <2>0. issued \in [Character -> Nat] /\ issued' \in [Character -> Nat]
    BY DEF Ind, StateType
  <2>1. issued' = [issued EXCEPT ![ch] = IF n > issued[ch] THEN n ELSE issued[ch]]
    BY <1>0, <1>1
  <2>2. issued'[ch] = IF n > issued[ch] THEN n ELSE issued[ch]
    BY <1>2, <2>0, <2>1
  <2>3. issued'[ch] >= n /\ issued'[ch] >= issued[ch]
    <3>1. CASE n > issued[ch]
      BY <1>2, <2>2, <3>1
    <3>2. CASE ~(n > issued[ch])
      BY <1>2, <2>2, <3>2
    <3> QED BY <3>1, <3>2
  <2>4. \A h \in Character : h # ch => issued'[h] = issued[h]
    BY <2>0, <2>1
  <2> QED BY <2>0, <2>3, <2>4
<1>4. /\ token'[cl] = [char |-> ch, n |-> n] /\ token'[cl].n = n
      /\ \A v \in View : v # cl => token'[v] = token[v]
  BY <1>0, <1>1, ConstantsAssumption DEF Ind, StateType
<1>5. token'[cl] # None
  <2>1. n <= MaxToken[ch] /\ MaxToken[ch] \in Nat
    BY <1>0, <1>1, <1>2, ConstantsAssumption
  <2>2. n \in 0 .. MaxToken[ch]
    BY <1>2, <2>1
  <2>3. token'[cl] \in Key
    BY <1>2, <1>4, <2>2, MakeKey
  <2> QED BY <2>3, NoneIsNoKey
<1>6. /\ refreshing'[cl] = None
      /\ \A v \in View : v # cl => refreshing'[v] = refreshing[v]
  BY ConstantsAssumption DEF RefreshAnswers, Ind, StateType
<1>7. ASSUME NEW d \in Call
      PROVE  /\ call'[d].by = call[d].by
             /\ call'[d].pc \in {"send", "reply"} => call'[d] = call[d]
             /\ call'[d].refreshed = call[d].refreshed \/ (call[d].by = cl /\ call'[d].refreshed = n)
             /\ call'[d].pc = "lookup" =>
                  /\ call[d].pc = "lookup" /\ call'[d].since = call[d].since
                  /\ ~call'[d].overtaken => ~call[d].overtaken /\ call[d].by # cl
  <2>1. call[d] \in CallState
    BY DEF Ind, StateType
  <2>2. CASE Awaits(call[d], cl)
    <3>1. PICK e : e = [call[d] EXCEPT !.pc = "refreshed", !.refreshed = n]
      OBVIOUS
    <3>2. e.pc = "refreshed" /\ e.by = call[d].by /\ e.refreshed = n /\ call[d].by = cl
      BY <2>1, <2>2, <3>1 DEF CallState, Awaits
    <3>3. call'[d] = e
      BY <1>0, <2>2, <3>1
    <3> QED BY <3>2, <3>3
  <2>3. CASE ~Awaits(call[d], cl) /\ call[d].pc = "lookup" /\ call[d].by = cl
    <3>1. PICK e : e = [call[d] EXCEPT !.overtaken = TRUE]
      OBVIOUS
    <3>2. /\ e.pc = "lookup" /\ e.by = call[d].by /\ e.refreshed = call[d].refreshed
          /\ e.overtaken /\ e.since = call[d].since
      BY <2>1, <2>3, <3>1 DEF CallState
    <3>3. call'[d] = e
      BY <1>0, <2>3, <3>1 DEF Overtakes
    <3> QED BY <2>3, <3>2, <3>3
  <2>4. CASE ~Awaits(call[d], cl) /\ ~(call[d].pc = "lookup" /\ call[d].by = cl)
    BY <1>0, <2>4 DEF Overtakes
  <2> QED BY <2>2, <2>3, <2>4
<1>8. ASSUME NEW d \in Call, call'[d].by \in View PROVE Fits(call[d])'
  <2>0. PICK v : v = call[d].by
    OBVIOUS
  <2>1. /\ v \in View /\ call'[d].by = v /\ Fits(call[d]) /\ call[d].refreshed \in Nat
        /\ Identity[v] \in Character
    BY <1>7, <1>8, <2>0, CallFields, ViewFields DEF AllFit
  <2>2. CASE v # cl
    <3>1. /\ call'[d].refreshed = call[d].refreshed /\ token'[v] = token[v]
          /\ refreshing'[v] = refreshing[v]
      BY <1>4, <1>6, <1>7, <2>0, <2>1, <2>2
    <3>2. call[d].refreshed <= issued'[Identity[v]]
      BY <1>3, <2>0, <2>1 DEF Fits
    <3>3. ASSUME NEW e \in Call, call'[e].pc = "lookup", ~call'[e].overtaken, call'[e].by = v
          PROVE  call'[e].since >= call[d].refreshed
      BY <1>7, <2>0, <2>1, <3>3 DEF Fits
    <3> QED BY <1>7, <2>0, <2>1, <3>1, <3>2, <3>3 DEF Fits
  <2>3. CASE v = cl
    <3>1. refreshing[cl].char = Identity[cl] /\ ch = Identity[cl]
      BY <1>1, <1>2, <2>1, <2>3, ViewFields
    <3>2. n >= call[d].refreshed
      BY <1>2, <2>0, <2>1, <2>3 DEF Fits
    <3>3. call'[d].refreshed <= n /\ call'[d].refreshed \in Nat
      BY <1>2, <1>7, <2>1, <3>2
    <3>4. call'[d].refreshed <= issued'[Identity[v]]
      BY <1>2, <1>3, <2>3, <3>1, <3>3
    <3>5. \A e \in Call : ~(call'[e].pc = "lookup" /\ ~call'[e].overtaken /\ call'[e].by = v)
      BY <1>7, <2>3
    <3>6. call'[d].pc \in {"send", "reply"} => call'[d].sent.n >= call'[d].refreshed
      BY <1>7, <2>0, <2>1 DEF Fits
    <3>7. token'[v].n >= call'[d].refreshed
      BY <1>2, <1>4, <2>3, <3>3
    <3> QED BY <1>5, <1>6, <2>1, <2>3, <3>4, <3>5, <3>6, <3>7 DEF Fits
  <2> QED BY <2>2, <2>3
<1> QED BY <1>8 DEF AllFit, Fits

LEMMA RefreshFailsFits ==
  ASSUME Ind, Ind', AllFit, NEW cl \in Client, RefreshFails(cl)
  PROVE  AllFit'
<1>1. /\ \A c \in Call : call'[c] = Rejected \/ call'[c] = call[c]
      /\ \A v \in View : refreshing'[v] = refreshing[v] \/ refreshing'[v] = None
      /\ UNCHANGED <<issued, token>>
  BY ConstantsAssumption DEF RefreshFails, Ind, StateType
<1>2. Rejected.by \notin View
  BY NoneAssumption, ConstantsAssumption DEF Rejected, Done, Idle
<1>3. ASSUME NEW c \in Call, call'[c].by \in View PROVE Fits(call[c])'
  <2>1. call'[c] = call[c] /\ Fits(call[c])
    BY <1>1, <1>2, <1>3 DEF AllFit
  <2>2. \A e \in Call : call'[e].pc = "lookup" => call'[e] = call[e]
    BY <1>1, RejectedType
  <2> QED BY <1>1, <1>3, <2>1, <2>2 DEF Fits
<1> QED BY <1>3 DEF AllFit, Fits

LEMMA EnvironmentFits ==
  ASSUME Ind, Ind', AllFit,
         \/ \E ch \in Character : Issue(ch) \/ Expire(ch)
         \/ \E k \in Key : Age(k) \/ Evict(k)
         \/ UNCHANGED vars
  PROVE  AllFit'
<1>1. UNCHANGED <<token, refreshing, call>>
  BY DEF Issue, Expire, Age, Evict, vars, Tokens
<1>2. \A h \in Character : issued'[h] >= issued[h] /\ issued[h] \in Nat /\ issued'[h] \in Nat
  BY DEF Issue, Expire, Age, Evict, vars, Tokens, Ind, StateType
<1>3. ASSUME NEW c \in Call, call[c].by \in View PROVE Fits(call[c])'
  <2>1. /\ Fits(call[c]) /\ call[c].refreshed \in Nat
        /\ Identity[call[c].by] \in Character
    BY <1>3, CallFields, ViewFields DEF AllFit
  <2>2. call[c].refreshed <= issued'[Identity[call[c].by]]
    BY <1>2, <1>3, <2>1 DEF Fits
  <2> QED BY <1>1, <1>3, <2>1, <2>2 DEF Fits
<1> QED BY <1>1, <1>3 DEF AllFit, Fits

LEMMA FitsStep == Ind /\ AllFit /\ [Next]_vars => AllFit'
<1> SUFFICES ASSUME Ind, AllFit, [Next]_vars PROVE AllFit'
  OBVIOUS
<1>0. Ind'
  BY IndStep
<1>1. ASSUME NEW c \in Call, \E v \in View : Lookup(c, v) PROVE AllFit'
  BY <1>0, <1>1, LookupFits
<1>2. ASSUME NEW c \in Call, \E cl \in Client : Get(c, cl) PROVE AllFit'
  BY <1>0, <1>2, GetFits
<1>3. ASSUME NEW c \in Call, LookupFails(c) \/ StillDenied(c) PROVE AllFit'
  BY <1>0, <1>3, RejectedFits DEF LookupFails, StillDenied
<1>4. ASSUME NEW c \in Call, \E s \in Status : ServerAnswers(c, s) PROVE AllFit'
  BY <1>0, <1>4, ServerAnswersFits
<1>5. ASSUME NEW c \in Call,
             \/ Accept(c) \/ NotModified(c) \/ BareNotModified(c) \/ ServeStale(c) \/ Reject(c)
      PROVE  AllFit'
  BY <1>0, <1>5, SettleWithFits DEF Accept, NotModified, BareNotModified, ServeStale, Reject
<1>6. ASSUME NEW c \in Call,
             \/ LookupAnswers(c) \/ Refresh(c) \/ Proceed(c) \/ Repeat(c) \/ Settle(c)
      PROVE  AllFit'
  BY <1>0, <1>6, LookupAnswersFits, RefreshFits, ProceedFits, RepeatFits, SettleFits
<1>7. ASSUME NEW cl \in Client,
             RefreshAnswers(cl) \/ RefreshFails(cl) \/ \E t \in Token : SetAccessToken(cl, t)
      PROVE  AllFit'
  BY <1>0, <1>7, RefreshAnswersFits, RefreshFailsFits, SetAccessTokenFits
<1> QED BY <1>0, <1>1, <1>2, <1>3, <1>4, <1>5, <1>6, <1>7, EnvironmentFits DEF Next

(* What a view sends after a 401 is the token its refresh gave, or a newer  *)
(* one: a lookup answered late does not undo a refresh (tokenWrites in      *)
(* ApiClient.ts).                                                           *)
THEOREM EveryReplayUsesRefresh == Spec => []ReplayUsesRefresh
<1>1. Init => AllFit
  <2> SUFFICES ASSUME Init PROVE AllFit
    OBVIOUS
  <2>1. \A c \in Call : call[c].by \notin View
    BY NoneAssumption, ConstantsAssumption DEF Init, Idle
  <2> QED BY <2>1 DEF AllFit, Fits
<1>2. Ind /\ AllFit /\ [Next]_vars => AllFit'
  BY FitsStep
<1>3. AllFit => ReplayUsesRefresh
  BY DEF AllFit, Fits, ReplayUsesRefresh
<1> QED BY <1>1, <1>2, <1>3, Inductive, PTL DEF Spec

-----------------------------------------------------------------------------
(* A refresh and those who wait for it.  A step that begins and ends no     *)
(* wait and no refresh.                                                     *)
LEMMA AwaitedSame ==
  ASSUME RefreshIsAwaited, UNCHANGED refreshing,
         \A c \in Call : "refresh" \in {call[c].pc, call'[c].pc} => call'[c] = call[c]
  PROVE  RefreshIsAwaited'
<1>1. \A c \in Call, cl \in Client : Awaits(call[c], cl)' <=> Awaits(call[c], cl)
  BY DEF Awaits
<1> QED BY <1>1 DEF RefreshIsAwaited

LEMMA AwaitedOne ==
  ASSUME Ind, RefreshIsAwaited, UNCHANGED refreshing, NEW c \in Call, NEW r,
         call' = [call EXCEPT ![c] = r], "refresh" \notin {call[c].pc, r.pc}
  PROVE  RefreshIsAwaited'
<1>1. \A d \in Call : "refresh" \in {call[d].pc, call'[d].pc} => call'[d] = call[d]
  BY DEF Ind, StateType
<1> QED BY <1>1, AwaitedSame

LEMMA AwaitedAttempt ==
  ASSUME Ind, RefreshIsAwaited, UNCHANGED refreshing, NEW c \in Call, NEW r \in CallState,
         call[c].pc # "refresh", Attempt(c, r)
  PROVE  RefreshIsAwaited'
<1>1. \E s : call' = [call EXCEPT ![c] = s] /\ s.pc # "refresh"
  <2> DEFINE t == token[r.by]
             k == Trusted(r.by, t)
             asks == [r EXCEPT !.asked = t, !.sent = None, !.on = None]
  <2>1. Done(t, cache[k].char, FALSE).pc # "refresh"
    BY DEF Done, Idle
  <2>2. [asks EXCEPT !.pc = "join", !.on = inflight[k]].pc # "refresh"
    BY DEF CallState
  <2>3. Sent([asks EXCEPT !.key = k]).pc # "refresh"
    BY DEF Sent, CallState
  <2> QED BY <2>1, <2>2, <2>3 DEF Attempt
<1> QED BY <1>1, AwaitedOne

LEMMA AwaitedSettles ==
  ASSUME Ind, RefreshIsAwaited, UNCHANGED refreshing, NEW c \in Call, NEW body,
         call[c].pc = "reply", SettleWith(c, body)
  PROVE  RefreshIsAwaited'
<1>1. call[c] \in CallState
  BY DEF Ind, StateType
<1>2. PICK r : r = [call[c] EXCEPT !.pc = "settle", !.body = body, !.sent = None, !.inm = None,
         !.revalidating = FALSE,
         !.status = IF call[c].status = "unauthorized" THEN call[c].status ELSE None]
  OBVIOUS
<1>3. r.pc = "settle" /\ call' = [call EXCEPT ![c] = r]
  BY <1>1, <1>2 DEF SettleWith, CallState
<1> QED BY <1>3, AwaitedOne

LEMMA AwaitedStep == Ind /\ RefreshIsAwaited /\ [Next]_vars => RefreshIsAwaited'
<1> SUFFICES ASSUME Ind, RefreshIsAwaited, [Next]_vars PROVE RefreshIsAwaited'
  OBVIOUS
<1>0. /\ \A c \in Call : call[c] \in CallState
      /\ refreshing \in [Client -> Token \cup {None}]
      /\ call \in [Call -> CallState]
  BY DEF Ind, StateType
<1>1. ASSUME NEW c \in Call, NEW v \in View, Lookup(c, v) PROVE RefreshIsAwaited'
  <2>1. PICK r : r = [Idle EXCEPT !.pc = "lookup", !.by = v, !.since = issued[Identity[v]]]
    OBVIOUS
  <2>2. r.pc = "lookup" /\ call' = [call EXCEPT ![c] = r] /\ call[c].pc = "idle"
    BY <1>1, <2>1 DEF Lookup, At, Idle
  <2> QED BY <1>1, <2>2, AwaitedOne DEF Lookup, Tokens
<1>2. ASSUME NEW c \in Call, NEW cl \in Client, Get(c, cl) PROVE RefreshIsAwaited'
  <2>1. [Idle EXCEPT !.by = cl] \in CallState
    BY IdleType DEF CallState
  <2> QED BY <1>2, <2>1, AwaitedAttempt DEF Get, At, Tokens
<1>3. ASSUME NEW c \in Call, LookupAnswers(c) PROVE RefreshIsAwaited'
  <2>1. PICK r : r = [call[c] EXCEPT !.pc = "prepared", !.since = 0, !.overtaken = FALSE]
    OBVIOUS
  <2>2. r.pc = "prepared" /\ call' = [call EXCEPT ![c] = r] /\ call[c].pc = "lookup"
    BY <1>0, <1>3, <2>1 DEF LookupAnswers, Prepared, At, CallState
  <2> QED BY <1>3, <2>2, AwaitedOne DEF LookupAnswers
<1>4. ASSUME NEW c \in Call, LookupFails(c) \/ StillDenied(c) PROVE RefreshIsAwaited'
  BY <1>4, RejectedType, AwaitedOne DEF LookupFails, StillDenied, At, Tokens
<1>5. ASSUME NEW c \in Call, Refresh(c) PROVE RefreshIsAwaited'
  <2>1. PICK r, cl : r = [call[c] EXCEPT !.pc = "refresh"] /\ cl = call[c].by
    OBVIOUS
  <2>2. /\ r.pc = "refresh" /\ r.by = cl /\ call[c].pc = "denied"
        /\ call'[c] = r /\ \A d \in Call : d # c => call'[d] = call[d]
    BY <1>0, <1>5, <2>1 DEF Refresh, At, CallState
  <2>3. /\ \A b \in Client : b # cl => refreshing'[b] = refreshing[b]
        /\ refreshing'[cl] # None
    <3>1. Ind'
      BY <1>5, RefreshStep
    <3>2. Holds(call[c])'
      BY <3>1 DEF Ind, Good
    <3> QED BY <1>0, <1>5, <2>1, <2>2, <3>2 DEF Refresh, Holds
  <2>4. \A b \in Client, d \in Call : b # cl => (Awaits(call[d], b)' <=> Awaits(call[d], b))
    BY <2>2 DEF Awaits
  <2>5. Awaits(call[c], cl)'
    BY <2>2 DEF Awaits
  <2> QED BY <2>3, <2>4, <2>5 DEF RefreshIsAwaited
<1>6. ASSUME NEW c \in Call, Proceed(c) PROVE RefreshIsAwaited'
  BY <1>0, <1>6, AwaitedAttempt DEF Proceed, Tokens
<1>7. ASSUME NEW c \in Call, NEW s \in Status, ServerAnswers(c, s) PROVE RefreshIsAwaited'
  <2>1. PICK r : r = [call[c] EXCEPT !.pc = "reply", !.status = s]
    OBVIOUS
  <2>2. r.pc = "reply" /\ call' = [call EXCEPT ![c] = r] /\ call[c].pc = "send"
    BY <1>0, <1>7, <2>1 DEF ServerAnswers, At, CallState
  <2> QED BY <1>7, <2>2, AwaitedOne DEF ServerAnswers, Tokens
<1>8. ASSUME NEW c \in Call,
             Accept(c) \/ NotModified(c) \/ BareNotModified(c) \/ ServeStale(c) \/ Reject(c)
      PROVE  RefreshIsAwaited'
  BY <1>8, AwaitedSettles DEF Accept, NotModified, BareNotModified, EntryGone, ServeStale, Reject,
     Replied, At, Tokens
<1>9. ASSUME NEW c \in Call, Repeat(c) PROVE RefreshIsAwaited'
  <2>1. PICK r : r = Sent([call[c] EXCEPT !.again = TRUE])
    OBVIOUS
  <2>2. r.pc = "send" /\ call' = [call EXCEPT ![c] = r] /\ call[c].pc = "reply"
    BY <1>0, <1>9, <2>1 DEF Repeat, EntryGone, Replied, At, Sent, CallState
  <2> QED BY <1>9, <2>2, AwaitedOne DEF Repeat, Tokens
<1>10. ASSUME NEW c \in Call, Settle(c) PROVE RefreshIsAwaited'
  <2>1. UNCHANGED refreshing /\ call[c].pc = "settle"
    BY <1>10 DEF Settle, At, Tokens
  <2>2. ASSUME NEW d \in Call, "refresh" \in {call[d].pc, call'[d].pc}
        PROVE  call'[d] = call[d]
    <3>1. CASE d = c \/ (At(d, "join") /\ call[d].on = c)
      <4>1. call[d].pc # "refresh"
        BY <2>1, <3>1 DEF At
      <4>2. \/ call'[d] = [Idle EXCEPT !.pc = "denied", !.by = call[d].by,
                                       !.refreshed = call[d].refreshed]
            \/ call'[d] = Done(call[d].asked, call[c].body, call[c].again)
        BY <1>10, <3>1 DEF Settle
      <4>3. call'[d].pc # "refresh"
        BY <4>2 DEF Done, Idle
      <4> QED BY <2>2, <4>1, <4>3
    <3>2. CASE ~(d = c \/ (At(d, "join") /\ call[d].on = c))
      BY <1>10, <3>2 DEF Settle
    <3> QED BY <3>1, <3>2
  <2> QED BY <2>1, <2>2, AwaitedSame
<1>11. ASSUME NEW cl \in Client, RefreshAnswers(cl) \/ RefreshFails(cl)
       PROVE  RefreshIsAwaited'
  <2>1. /\ refreshing'[cl] = None
        /\ \A b \in Client : b # cl => refreshing'[b] = refreshing[b]
    BY <1>0, <1>11 DEF RefreshAnswers, RefreshFails
  <2>2. ASSUME NEW d \in Call, Awaits(call[d], cl)
        PROVE  call'[d].pc # "refresh"
    <3>1. CASE RefreshAnswers(cl)
      <4>1. PICK n : call'[d] = [call[d] EXCEPT !.pc = "refreshed", !.refreshed = n]
        BY <2>2, <3>1 DEF RefreshAnswers
      <4> QED BY <1>0, <4>1 DEF CallState
    <3>2. CASE RefreshFails(cl)
      BY <2>2, <3>2, RejectedType DEF RefreshFails
    <3> QED BY <1>11, <3>1, <3>2
  <2>3. ASSUME NEW d \in Call, ~Awaits(call[d], cl)
        PROVE  call'[d].pc = call[d].pc /\ call'[d].by = call[d].by
    <3>1. call'[d] = call[d] \/ call'[d] = [call[d] EXCEPT !.overtaken = TRUE]
      BY <1>11, <2>3 DEF RefreshAnswers, RefreshFails, Overtakes
    <3> QED BY <1>0, <3>1 DEF CallState
  <2>4. \A d \in Call : ~Awaits(call[d], cl)'
    BY <2>2, <2>3 DEF Awaits
  <2>5. \A d \in Call, b \in Client : b # cl => (Awaits(call[d], b)' <=> Awaits(call[d], b))
    BY <2>2, <2>3 DEF Awaits
  <2> QED BY <2>1, <2>4, <2>5 DEF RefreshIsAwaited
<1>12. CASE \/ \E cl \in Client, t \in Token : SetAccessToken(cl, t)
            \/ \E ch \in Character : Issue(ch) \/ Expire(ch)
            \/ \E k \in Key : Age(k) \/ Evict(k)
            \/ UNCHANGED vars
  <2>1. UNCHANGED <<refreshing, call>>
    BY <1>12 DEF SetAccessToken, Issue, Expire, Age, Evict, vars, Tokens
  <2> QED BY <2>1, AwaitedSame
<1> QED BY <1>1, <1>2, <1>3, <1>4, <1>5, <1>6, <1>7, <1>8, <1>9, <1>10, <1>11, <1>12 DEF Next

(* A client's refresh slot is taken exactly while a rejected call waits for *)
(* the refresh, whether it succeeds or fails (ApiClient.refreshToken).      *)
THEOREM RefreshIsAlwaysAwaited == Spec => []RefreshIsAwaited
<1>1. Init => RefreshIsAwaited
  BY DEF Init, RefreshIsAwaited, Awaits, Idle
<1>2. Ind /\ Ind' /\ RefreshIsAwaited /\ [Next]_vars => RefreshIsAwaited'
  BY AwaitedStep
<1> QED BY <1>1, <1>2, Inductive, PTL DEF Spec
=============================================================================
