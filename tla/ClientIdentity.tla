--------------------------- MODULE ClientIdentity ---------------------------
(***************************************************************************)
(* Whose data a call gets.  Clients that share one cache and one           *)
(* deduplicator make authenticated GETs of one URL under access tokens of  *)
(* several characters: an identity view (ApiClient.forIdentity) asks its   *)
(* identity for a token before each request, any other client is given     *)
(* tokens by setAccessToken.  Both refresh after a 401.  A cache entry and *)
(* a request in flight belong to the character of a token once ESI has     *)
(* accepted it, and to the token itself (its hash) before (cacheKey.ts).   *)
(*                                                                         *)
(* A body is the character whose data it is, and its ETag names it.  What  *)
(* runs between two awaits is one step.                                    *)
(***************************************************************************)
EXTENDS Naturals

CONSTANTS Call,
          Client,
          View,        \* the clients that are identity views
          Identity,    \* whose token each view sends
          Character,
          MaxToken,    \* bound: tokens issued for each character
          Before,      \* the tokens ESI has already accepted from each client
          None

ASSUME ConstantsAssumption ==
  /\ View \subseteq Client /\ Identity \in [View -> Character]
  /\ MaxToken \in [Character -> Nat \ {0}]
  /\ Before \subseteq [char : Character, n : {1}]

VARIABLES
  issued,     \* the newest token of each character
  expired,    \* tokens up to this one are refused with a 401
  token,      \* accessToken of each client
  refreshing, \* refreshInFlight: the token it began with (see Refresh), or None
  accepted,   \* the tokens ESI has accepted from each client
  cache,      \* the entry under each key: whose data, and is it fresh
  inflight,   \* the deduplicator's entry under each key
  call        \* where each call is, and its locals

vars == <<issued, expired, token, refreshing, accepted, cache, inflight, call>>

Key == UNION {[char : {ch}, n : 0 .. MaxToken[ch]] : ch \in Character}   \* n = 0: the character
Token == {k \in Key : k.n # 0}
Entry == [char : Character, fresh : BOOLEAN]
Status == {"ok", "notModified", "unauthorized", "serverError", "failed"}

ASSUME NoneAssumption ==
  None \notin Call \cup Client \cup Character \cup Key \cup Entry \cup Status

Running == {"send", "reply", "settle"}
Waiting == {"lookup", "prepared", "join", "denied", "refresh", "refreshed"}

CallState ==
  [pc : {"idle", "done"} \cup Running \cup Waiting,
   by : Client \cup {None},
   since : Nat,                      \* a lookup: the newest token when it began
   overtaken : BOOLEAN,              \* tokenWrites has changed since
   asked : Token \cup {None},        \* the client's token when the attempt began
   key : Key \cup {None},            \* the key in the deduplicator
   on : Call \cup {None},
   sent : Token \cup {None},
   inm : Character \cup {None},      \* the ETag in If-None-Match
   revalidating : BOOLEAN,
   status : Status \cup {None},
   body : Character \cup {None},     \* None is a rejection
   again : BOOLEAN,                  \* the request was repeated after a 304
   refreshed : Nat]                  \* what this call's refresh gave, if it refreshed

Idle == [pc |-> "idle", by |-> None, since |-> 0, overtaken |-> FALSE, asked |-> None,
         key |-> None, on |-> None, sent |-> None, inm |-> None, revalidating |-> FALSE,
         status |-> None, body |-> None, again |-> FALSE, refreshed |-> 0]

(* A waiting call waits for something that is still under way. *)
WellFormed(r) ==
  /\ r.pc = "join" => call[r.on].pc \in Running
  /\ r.pc = "refresh" => refreshing[r.by] # None

TypeOK ==
  /\ issued \in [Character -> Nat] /\ expired \in [Character -> Nat]
  /\ \A ch \in Character : expired[ch] <= issued[ch] /\ issued[ch] <= MaxToken[ch]
  /\ token \in [Client -> Token \cup {None}]
  /\ refreshing \in [Client -> Token \cup {None}]
  /\ accepted \in [Client -> SUBSET Token]
  /\ cache \in [Key -> Entry \cup {None}]
  /\ inflight \in [Key -> Call \cup {None}]
  /\ call \in [Call -> CallState]
  /\ \A c \in Call : WellFormed(call[c])

(* Requests have been made before. *)
Init ==
  /\ issued = [ch \in Character |-> 1]
  /\ expired = [ch \in Character |-> 0]
  /\ token \in [Client -> {t \in Token : t.n = 1} \cup {None}]
  /\ \A cl \in Client : token[cl] = None <=> cl \in View
  /\ refreshing = [cl \in Client |-> None]
  /\ accepted = [cl \in Client |-> {t \in Before : cl \in View => t.char = Identity[cl]}]
  /\ cache \in [Key -> Entry \cup {None}]
  /\ \A k \in Key : cache[k] # None => cache[k].char = k.char /\ k.n = 0
  /\ inflight = [k \in Key |-> None]
  /\ call = [c \in Call |-> Idle]

At(c, label) == call[c].pc = label
Tokens == <<issued, expired, token, refreshing>>

-----------------------------------------------------------------------------
(* Keys. *)

Claimed(t) == [char |-> t.char, n |-> 0]

\* Mutant: the character a token claims keys what is served under it.
TrustedAtOnce(cl, t) == Claimed(t)

Trusted(cl, t) == IF t \in accepted[cl] THEN Claimed(t) ELSE t

\* Mutant: the answer belongs to the token the client holds by now.
AnswerKeyOfClient(c) == Trusted(call[c].by, token[call[c].by])

(* What ESI answered belongs to the token that was sent. *)
AnswerKey(c) == Trusted(call[c].by, call[c].sent)

-----------------------------------------------------------------------------
(* Tokens. *)

(* A view asks its identity, before anything else. *)
Lookup(c, v) ==
  /\ At(c, "idle")
  /\ call' = [call EXCEPT ![c] =
       [Idle EXCEPT !.pc = "lookup", !.by = v, !.since = issued[Identity[v]]]]
  /\ UNCHANGED <<Tokens, accepted, cache, inflight>>

Prepared(c) ==
  call' = [call EXCEPT ![c] = [@ EXCEPT !.pc = "prepared", !.since = 0, !.overtaken = FALSE]]

\* Mutant: the lookup's token replaces a refreshed one.
LookupOverwrites(c) ==
  /\ At(c, "lookup")
  /\ LET v == call[c].by IN
       \E n \in call[c].since .. issued[Identity[v]] :
         token' = [token EXCEPT ![v] = [char |-> Identity[v], n |-> n]]
  /\ Prepared(c)
  /\ UNCHANGED <<issued, expired, refreshing, accepted, cache, inflight>>

(* The identity names a token it has held since it was asked.  A refresh    *)
(* that has written meanwhile keeps its own.                                *)
LookupAnswers(c) ==
  /\ At(c, "lookup")
  /\ LET v == call[c].by IN
       \E n \in call[c].since .. issued[Identity[v]] :
         token' = IF call[c].overtaken THEN token
                  ELSE [token EXCEPT ![v] = [char |-> Identity[v], n |-> n]]
  /\ Prepared(c)
  /\ UNCHANGED <<issued, expired, refreshing, accepted, cache, inflight>>

Done(asked, body, again) ==
  [Idle EXCEPT !.pc = "done", !.asked = asked, !.body = body, !.again = again]
Rejected == Done(None, None, FALSE)

LookupFails(c) ==
  /\ At(c, "lookup")
  /\ call' = [call EXCEPT ![c] = Rejected]
  /\ UNCHANGED <<Tokens, accepted, cache, inflight>>

(* tokenWrites is counted up: every lookup under way notices. *)
Overtakes(r, cl) == IF r.pc = "lookup" /\ r.by = cl THEN [r EXCEPT !.overtaken = TRUE] ELSE r

(* The application gives a client the token of whoever is signed in. *)
SetAccessToken(cl, t) ==
  /\ cl \notin View /\ t.n <= issued[t.char]
  /\ token' = [token EXCEPT ![cl] = t]
  /\ UNCHANGED <<issued, expired, refreshing, accepted, cache, inflight, call>>

(* After a 401: one refresh per client at a time and per call.  The token   *)
(* provider answers with a token of the character that was refused.         *)
Refresh(c) ==
  /\ At(c, "denied") /\ call[c].refreshed = 0
  /\ LET cl == call[c].by IN
       refreshing' = IF refreshing[cl] # None THEN refreshing
                     ELSE [refreshing EXCEPT ![cl] =
                            [char |-> token[cl].char, n |-> issued[token[cl].char]]]
  /\ call' = [call EXCEPT ![c].pc = "refresh"]
  /\ UNCHANGED <<issued, expired, token, accepted, cache, inflight>>

(* Refused again: the call rejects. *)
StillDenied(c) ==
  /\ At(c, "denied") /\ call[c].refreshed # 0
  /\ call' = [call EXCEPT ![c] = Rejected]
  /\ UNCHANGED <<Tokens, accepted, cache, inflight>>

Awaits(r, cl) == r.pc = "refresh" /\ r.by = cl

(* refreshToken: the client has the token, and everyone who waits for it    *)
(* may replay.                                                              *)
RefreshAnswers(cl) ==
  /\ refreshing[cl] # None
  /\ LET ch == refreshing[cl].char IN
       \E n \in refreshing[cl].n .. issued[ch] + 1 :
         /\ n <= MaxToken[ch]
         /\ issued' = [issued EXCEPT ![ch] = IF n > @ THEN n ELSE @]
         /\ token' = [token EXCEPT ![cl] = [char |-> ch, n |-> n]]
         /\ call' = [c \in Call |->
              IF Awaits(call[c], cl) THEN [call[c] EXCEPT !.pc = "refreshed", !.refreshed = n]
              ELSE Overtakes(call[c], cl)]
  /\ refreshing' = [refreshing EXCEPT ![cl] = None]
  /\ UNCHANGED <<expired, accepted, cache, inflight>>

\* Mutant: the refresh that failed is kept, so that the next 401 joins it.
RefreshFailsKept(cl) ==
  /\ refreshing[cl] # None
  /\ call' = [c \in Call |-> IF Awaits(call[c], cl) THEN Rejected ELSE call[c]]
  /\ UNCHANGED <<issued, expired, token, refreshing, accepted, cache, inflight>>

RefreshFails(cl) ==
  /\ refreshing[cl] # None
  /\ refreshing' = [refreshing EXCEPT ![cl] = None]
  /\ call' = [c \in Call |-> IF Awaits(call[c], cl) THEN Rejected ELSE call[c]]
  /\ UNCHANGED <<issued, expired, token, accepted, cache, inflight>>

-----------------------------------------------------------------------------
(* Requests. *)

(* executeRequest up to its first await.  The ETag it names is that of the  *)
(* character's entry, accepted or not.                                      *)
Sent(r) ==
  LET t == token[r.by]
      entry == cache[Claimed(t)]
  IN [r EXCEPT !.pc = "send", !.sent = t, !.status = None,
               !.inm = IF entry = None THEN None ELSE entry.char,
               !.revalidating = cache[Trusted(r.by, t)] # None]

(* One attempt under the token the client holds now: a fresh entry answers; *)
(* otherwise join the request in flight or send one.                        *)
Attempt(c, r) ==
  LET t == token[r.by]
      k == Trusted(r.by, t)
      asks == [r EXCEPT !.asked = t, !.sent = None, !.on = None]
      fresh == cache[k] # None /\ cache[k].fresh
  IN \/ /\ fresh
        /\ call' = [call EXCEPT ![c] = Done(t, cache[k].char, FALSE)]
        /\ UNCHANGED inflight
     \/ /\ ~fresh /\ inflight[k] # None
        /\ call' = [call EXCEPT ![c] = [asks EXCEPT !.pc = "join", !.on = inflight[k]]]
        /\ UNCHANGED inflight
     \/ /\ ~fresh /\ inflight[k] = None
        /\ call' = [call EXCEPT ![c] = Sent([asks EXCEPT !.key = k])]
        /\ inflight' = [inflight EXCEPT ![k] = c]

(* A client that is no view starts at once. *)
Get(c, cl) ==
  /\ At(c, "idle") /\ cl \notin View
  /\ Attempt(c, [Idle EXCEPT !.by = cl])
  /\ UNCHANGED <<Tokens, accepted, cache>>

(* A view with its token, or any client with a refreshed one. *)
Proceed(c) ==
  /\ call[c].pc \in {"prepared", "refreshed"}
  /\ Attempt(c, call[c])
  /\ UNCHANGED <<Tokens, accepted, cache>>

(* ESI answers, or nothing does.  A 200 or 304 accepts the token that was   *)
(* sent, in the client that sent it.                                        *)
ServerAnswers(c, s) ==
  /\ At(c, "send")
  /\ LET r == call[c]
         dead == r.sent.n <= expired[r.sent.char]
     IN /\ s \in {"ok", "notModified"} => ~dead
        /\ s = "unauthorized" => dead
        /\ s = "notModified" => r.inm = r.sent.char
        /\ call' = [call EXCEPT ![c] = [@ EXCEPT !.pc = "reply", !.status = s]]
        /\ accepted' = IF s \in {"ok", "notModified"}
                       THEN [accepted EXCEPT ![r.by] = @ \cup {r.sent}] ELSE accepted
  /\ UNCHANGED <<Tokens, cache, inflight>>

Replied(c, s) == At(c, "reply") /\ call[c].status = s
SettleWith(c, body) ==
  call' = [call EXCEPT ![c] =
    [@ EXCEPT !.pc = "settle", !.body = body, !.sent = None, !.inm = None, !.revalidating = FALSE,
              !.status = IF call[c].status = "unauthorized" THEN call[c].status ELSE None]]

(* A 200 is cached. *)
Accept(c) ==
  /\ Replied(c, "ok")
  /\ cache' = [cache EXCEPT ![AnswerKey(c)] = [char |-> call[c].sent.char, fresh |-> TRUE]]
  /\ SettleWith(c, call[c].sent.char)
  /\ UNCHANGED <<Tokens, accepted, inflight>>

(* A 304: the entry is the answer, and fresh again. *)
NotModified(c) ==
  /\ Replied(c, "notModified")
  /\ LET k == AnswerKey(c) IN
       /\ cache[k] # None
       /\ cache' = [cache EXCEPT ![k].fresh = TRUE]
       /\ SettleWith(c, cache[k].char)
  /\ UNCHANGED <<Tokens, accepted, inflight>>

EntryGone(c) == Replied(c, "notModified") /\ cache[AnswerKey(c)] = None

(* A 304 whose entry has left the cache: the request is repeated, under the *)
(* token the client holds now.                                              *)
Repeat(c) ==
  /\ EntryGone(c) /\ call[c].revalidating
  /\ call' = [call EXCEPT ![c] = Sent([@ EXCEPT !.again = TRUE])]
  /\ UNCHANGED <<Tokens, accepted, cache, inflight>>

(* Unless the key that was looked up when it was sent had no entry: then    *)
(* the 304 is an error.                                                     *)
BareNotModified(c) ==
  /\ EntryGone(c) /\ ~call[c].revalidating
  /\ SettleWith(c, None)
  /\ UNCHANGED <<Tokens, accepted, cache, inflight>>

(* A 5xx: the stored body is served stale.  Any other error rejects. *)
ServeStale(c) ==
  /\ Replied(c, "serverError")
  /\ LET entry == cache[AnswerKey(c)] IN SettleWith(c, IF entry = None THEN None ELSE entry.char)
  /\ UNCHANGED <<Tokens, accepted, cache, inflight>>

Reject(c) ==
  /\ Replied(c, "failed") \/ Replied(c, "unauthorized")
  /\ SettleWith(c, None)
  /\ UNCHANGED <<Tokens, accepted, cache, inflight>>

(* The promise settles for everyone who awaits it. *)
Settle(c) ==
  /\ At(c, "settle")
  /\ inflight' = [inflight EXCEPT ![call[c].key] = None]
  /\ LET s == call[c] IN
       call' = [d \in Call |->
         IF d = c \/ (At(d, "join") /\ call[d].on = c)
         THEN IF s.status = "unauthorized"
              THEN [Idle EXCEPT !.pc = "denied", !.by = call[d].by, !.refreshed = call[d].refreshed]
              ELSE Done(call[d].asked, s.body, s.again)
         ELSE call[d]]
  /\ UNCHANGED <<Tokens, accepted, cache>>

-----------------------------------------------------------------------------
(* The environment. *)

Issue(ch) ==
  /\ issued[ch] < MaxToken[ch]
  /\ issued' = [issued EXCEPT ![ch] = @ + 1]
  /\ UNCHANGED <<expired, token, refreshing, accepted, cache, inflight, call>>

Expire(ch) ==
  /\ expired[ch] < issued[ch]
  /\ expired' = [expired EXCEPT ![ch] = @ + 1]
  /\ UNCHANGED <<issued, token, refreshing, accepted, cache, inflight, call>>

(* An entry ages past its TTL, or leaves the cache. *)
Age(k) ==
  /\ cache[k] # None /\ cache[k].fresh
  /\ cache' = [cache EXCEPT ![k].fresh = FALSE]
  /\ UNCHANGED <<Tokens, accepted, inflight, call>>

Evict(k) ==
  /\ cache[k] # None
  /\ cache' = [cache EXCEPT ![k] = None]
  /\ UNCHANGED <<Tokens, accepted, inflight, call>>

-----------------------------------------------------------------------------
Next ==
  \/ \E c \in Call :
       \/ \E v \in View : Lookup(c, v)
       \/ \E cl \in Client : Get(c, cl)
       \/ LookupAnswers(c) \/ LookupFails(c) \/ Refresh(c) \/ StillDenied(c)
       \/ Proceed(c) \/ \E s \in Status : ServerAnswers(c, s)
       \/ Accept(c) \/ NotModified(c) \/ Repeat(c) \/ BareNotModified(c)
       \/ ServeStale(c) \/ Reject(c) \/ Settle(c)
  \/ \E cl \in Client :
       RefreshAnswers(cl) \/ RefreshFails(cl) \/ \E t \in Token : SetAccessToken(cl, t)
  \/ \E ch \in Character : Issue(ch) \/ Expire(ch)
  \/ \E k \in Key : Age(k) \/ Evict(k)

Spec == Init /\ [][Next]_vars

-----------------------------------------------------------------------------
Answered(c) == At(c, "done") /\ call[c].body # None

(* A call is answered with the data of the character whose token its client *)
(* held when it asked: whatever the client's token has become meanwhile,    *)
(* and whoever's request it joined.  A request repeated after a 304 is left *)
(* out; see JoinedAnswersAreOwn.                                           *)
AnswersAreOwn ==
  \A c \in Call : Answered(c) /\ ~call[c].again => call[c].body = call[c].asked.char

(* And ESI has accepted that very token, from whoever sent it: the          *)
(* character a token only claims is served nothing.                         *)
AnsweredTokensAreAccepted ==
  \A c \in Call :
    Answered(c) /\ ~call[c].again => \E cl \in Client : call[c].asked \in accepted[cl]

(* The entry of a character has its data; no entry is kept for a token.     *)
EntryIsOwn ==
  \A k \in Key : cache[k] # None => cache[k].char = k.char /\ k.n = 0

(* A client has a refresh under way exactly while a rejected call waits for *)
(* it: no call is left behind by one that settled, and none waits for one   *)
(* that has, whichever way it went.                                         *)
RefreshIsAwaited ==
  \A cl \in Client : refreshing[cl] # None <=> \E c \in Call : Awaits(call[c], cl)

(* A view that refreshed replays with the token the refresh gave it, or a   *)
(* newer one: a lookup that is answered late does not bring back the one    *)
(* that was refused.                                                        *)
ReplayUsesRefresh ==
  \A c \in Call :
    call[c].by \in View /\ call[c].pc \in {"send", "reply"} => call[c].sent.n >= call[c].refreshed

(* "Two concurrent GETs to one authenticated endpoint under tokens for      *)
(* different characters are two different questions" (cacheKey.ts): a call  *)
(* that joined another's request gets its own character's data.             *)
JoinedAnswersAreOwn ==
  [][\A c \in Call :
       At(c, "join") /\ Answered(c)' => call'[c].body = call'[c].asked.char]_vars
=============================================================================
