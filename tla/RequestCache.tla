---------------------------- MODULE RequestCache ----------------------------
(***************************************************************************)
(* How concurrent calls of one client share the ETag cache: GETs of one    *)
(* URL and writes under its path or another one (handleRequest and         *)
(* executeRequest with cachePolicy, statusHandling, writeLog,              *)
(* ETagCacheManager and RequestDeduplicator).  A body is the version of    *)
(* the resource the server answered with; its ETag names that version.     *)
(*                                                                         *)
(* A call is one caller's handleRequest.  The call that sends a request    *)
(* for all who join it is their leader.  What runs between two awaits is   *)
(* one step.  A cache entry's age is the flag `fresh` (its spec TTL has    *)
(* not elapsed).                                                           *)
(***************************************************************************)
EXTENDS Integers, Sequences, FiniteSets

CONSTANTS Caller,
          MaxVersion,    \* bound: versions the resource goes through
          MaxWrite,      \* bound: writes that succeed
          MaxTry,        \* maxRetries
          RecentWrites,  \* RECENT_WRITES: paths the write log keeps
          Dedup,         \* is a deduplicator configured?
          None

ASSUME ConstantsAssumption ==
  MaxVersion \in Nat \ {0} /\ {MaxWrite, MaxTry, RecentWrites} \subseteq Nat /\ Dedup \in BOOLEAN

VARIABLES
  server,    \* the version the server holds
  cache,     \* the entry of the URL, or None
  log,       \* the write log: its generation, and the paths written last
  inflight,  \* the deduplicator's entry for the URL: a leader, or None
  call,      \* where each caller's call is, and its locals
  floor      \* the newest version a completed write of this client produced

vars == <<server, cache, log, inflight, call, floor>>

Version == 1 .. MaxVersion
Path == {"own", "other"}       \* is the URL under the written path?
Entry == [etag : Version, body : Version, fresh : BOOLEAN]

Running == {"send", "reply", "settle"}   \* the phases of a leader
Writing == {"write", "written"}

Reply == [status : {"ok"}, body : Version] \cup
         [status : {"notModified", "serverError", "failed"}, body : {None}]
ASSUME NoneAssumption == None \notin Caller \cup Reply \cup Version \cup Entry

Failed == [status |-> "failed", body |-> None]

CallState ==
  [pc : {"idle", "join", "backoff", "done"} \cup Running \cup Writing,
   on : Caller \cup {None},         \* the leader joined
   inm : Version \cup {None},       \* If-None-Match sent
   gen : Nat,                       \* write generation when it was sent
   reply : Reply \cup {None},
   body : Version \cup {None},      \* the result; None is a rejection
   floor : 0 .. MaxVersion,         \* `floor` when the call was made
   try : 0 .. MaxTry,
   detached : BOOLEAN,              \* a write took it out of the deduplicator
   path : Path]

Idle == [pc |-> "idle", on |-> None, inm |-> None, gen |-> 0, reply |-> None, body |-> None,
         floor |-> 0, try |-> 0, detached |-> FALSE, path |-> "own"]

WellFormed(r) ==
  /\ r.pc \in {"reply", "written"} => r.reply # None
  /\ r.pc = "join" => r.on # None

TypeOK ==
  /\ server \in Version
  /\ cache \in Entry \cup {None}
  /\ log.gen \in Nat
  /\ log.recent \in Seq(Path) /\ Len(log.recent) <= RecentWrites
  /\ inflight \in Caller \cup {None}
  /\ call \in [Caller -> CallState]
  /\ \A c \in Caller : WellFormed(call[c])
  /\ floor \in 0 .. MaxVersion

Init ==
  /\ server = 1
  /\ cache = None
  /\ log = [gen |-> 0, recent |-> <<>>]
  /\ inflight = None
  /\ call = [c \in Caller |-> Idle]
  /\ floor = 0

Fresh == cache # None /\ cache.fresh
At(c, label) == call[c].pc = label
Replied(c, status) == At(c, "reply") /\ call[c].reply.status = status

(* The call under way at c, sent by executeRequest: the generation and the  *)
(* ETag are read before anything is awaited.                                *)
Sent(r) ==
  [r EXCEPT !.pc = "send", !.gen = log.gen, !.reply = None,
            !.inm = IF cache = None THEN None ELSE cache.etag]

-----------------------------------------------------------------------------
(* Reading. *)

\* Mutant: a call that starts an attempt never joins the one in flight.
AttemptAlone(c, r) ==
  IF Fresh
  THEN /\ call' = [call EXCEPT ![c] = [r EXCEPT !.pc = "done", !.body = cache.body]]
       /\ UNCHANGED inflight
  ELSE /\ call' = [call EXCEPT ![c] = Sent(r)]
       /\ inflight' = IF Dedup THEN c ELSE None

(* One attempt: a fresh entry answers; otherwise join the request in flight *)
(* or send one.                                                             *)
Attempt(c, r) ==
  \/ /\ Fresh
     /\ call' = [call EXCEPT ![c] = [r EXCEPT !.pc = "done", !.body = cache.body]]
     /\ UNCHANGED inflight
  \/ /\ ~Fresh
     /\ \/ /\ inflight # None
           /\ call' = [call EXCEPT ![c] = [r EXCEPT !.pc = "join", !.on = inflight]]
           /\ UNCHANGED inflight
        \/ /\ inflight = None
           /\ call' = [call EXCEPT ![c] = Sent(r)]
           /\ inflight' = IF Dedup THEN c ELSE None

Get(c) ==
  /\ At(c, "idle")
  /\ Attempt(c, [Idle EXCEPT !.floor = floor])
  /\ UNCHANGED <<server, cache, log, floor>>

Retry(c) ==
  /\ At(c, "backoff")
  /\ Attempt(c, call[c])
  /\ UNCHANGED <<server, cache, log, floor>>

(* The server answers a GET with the version it holds, a 304 if that is the *)
(* one the client named, a 5xx, or not at all (the timeout, a 4xx).         *)
ServerAnswers(c) ==
  /\ At(c, "send")
  /\ \E s \in {"ok", "notModified", "serverError", "failed"} :
       /\ s = "notModified" => call[c].inm = server
       /\ s = "ok" => call[c].inm # server
       /\ call' = [call EXCEPT ![c] = [@ EXCEPT !.pc = "reply", !.reply =
            [status |-> s, body |-> IF s = "ok" THEN server ELSE None]]]
  /\ UNCHANGED <<server, cache, log, inflight, floor>>

(* executeRequest resolves with a body, or rejects with None. *)
SettleWith(c, body) ==
  call' = [call EXCEPT ![c] = [@ EXCEPT !.pc = "settle", !.body = body,
                                        !.reply = None, !.inm = None, !.gen = 0]]

\* Mutant: a write log that lost the write is taken to hold none.
InvalidatedSinceForgets(gen) ==
  LET n == Len(log.recent) IN
    \E i \in 1 .. n : log.gen - n + i > gen /\ log.recent[i] = "own"

(* invalidatedSince: a write since generation gen was under the URL's path, *)
(* or the log no longer knows.                                              *)
InvalidatedSince(gen) ==
  LET n == Len(log.recent) IN
    /\ log.gen # gen
    /\ \/ log.gen - gen > n
       \/ \E i \in 1 .. n : log.gen - n + i > gen /\ log.recent[i] = "own"

(* A 200: cacheResponse stores the body unless a write overtook the read.   *)
(* Nothing is stored of an answer without an ETag, or by this call of one   *)
(* that has more pages.                                                     *)
Accept(c) ==
  /\ Replied(c, "ok")
  /\ LET v == call[c].reply.body IN
       /\ \/ UNCHANGED cache
          \/ /\ ~InvalidatedSince(call[c].gen)
             /\ cache' = [etag |-> v, body |-> v, fresh |-> TRUE]
       /\ SettleWith(c, v)
  /\ UNCHANGED <<server, log, inflight, floor>>

\* Mutant: the 304's own ETag replaces the stored one.
NotModifiedOwnEtag(c) ==
  /\ Replied(c, "notModified")
  /\ cache # None
  /\ cache' = [cache EXCEPT !.fresh = TRUE, !.etag = call[c].inm]
  /\ SettleWith(c, cache.body)
  /\ UNCHANGED <<server, log, inflight, floor>>

(* A 304: the stored body, whichever it is by now, is the answer, and its   *)
(* freshness starts over.                                                   *)
NotModified(c) ==
  /\ Replied(c, "notModified")
  /\ cache # None
  /\ cache' = [cache EXCEPT !.fresh = TRUE]
  /\ SettleWith(c, cache.body)
  /\ UNCHANGED <<server, log, inflight, floor>>

\* Mutant: the request is repeated with the headers it had.
RepeatSameHeaders(c) ==
  /\ Replied(c, "notModified")
  /\ cache = None
  /\ call' = [call EXCEPT ![c].pc = "send", ![c].reply = None]
  /\ UNCHANGED <<server, cache, log, inflight, floor>>

(* A 304 whose entry left the cache meanwhile: executeRequest starts over. *)
Repeat(c) ==
  /\ Replied(c, "notModified")
  /\ cache = None
  /\ call' = [call EXCEPT ![c] = Sent(@)]
  /\ UNCHANGED <<server, cache, log, inflight, floor>>

(* A 5xx: the stored body is served stale, whatever its age. *)
ServeStale(c) ==
  /\ Replied(c, "serverError")
  /\ SettleWith(c, IF cache = None THEN None ELSE cache.body)
  /\ UNCHANGED <<server, cache, log, inflight, floor>>

Reject(c) ==
  /\ Replied(c, "failed")
  /\ SettleWith(c, None)
  /\ UNCHANGED <<server, cache, log, inflight, floor>>

(* What the promise of leader c settled with, for one caller that awaits    *)
(* it: an error may be retried.                                             *)
Result(r, body, again) ==
  IF body = None /\ again /\ r.try < MaxTry
  THEN [Idle EXCEPT !.pc = "backoff", !.floor = r.floor, !.try = r.try + 1]
  ELSE [Idle EXCEPT !.pc = "done", !.floor = r.floor, !.body = body]

(* The promise settles: the finally of dedupe deletes the key, whoever is   *)
(* in it, and everyone who joined has the result.                           *)
Settle(c) ==
  /\ At(c, "settle")
  /\ inflight' = None
  /\ \E again \in BOOLEAN :
       call' = [d \in Caller |->
         IF d = c \/ (At(d, "join") /\ call[d].on = c)
         THEN Result(call[d], call[c].body, again) ELSE call[d]]
  /\ UNCHANGED <<server, cache, log, floor>>

Return(c) ==
  /\ At(c, "done")
  /\ call' = [call EXCEPT ![c] = Idle]
  /\ UNCHANGED <<server, cache, log, inflight, floor>>

-----------------------------------------------------------------------------
(* Writing. *)

Write(c, p) ==
  /\ At(c, "idle")
  /\ log.gen + Cardinality({d \in Caller : call[d].pc \in Writing}) < MaxWrite
  /\ call' = [call EXCEPT ![c] = [Idle EXCEPT !.pc = "write", !.path = p]]
  /\ UNCHANGED <<server, cache, log, inflight, floor>>

(* The server applies the write and answers 2xx; or the call fails, before  *)
(* or after the write was applied.                                          *)
ServerWrites(c) ==
  /\ At(c, "write")
  /\ \E applied \in BOOLEAN, ok \in BOOLEAN :
       /\ ok => applied
       /\ server' = IF applied /\ call[c].path = "own" THEN server + 1 ELSE server
       /\ server' \in Version
       /\ call' = [call EXCEPT ![c] = [@ EXCEPT !.pc = "written", !.reply =
            IF ok THEN [status |-> "ok", body |-> server'] ELSE Failed]]
  /\ UNCHANGED <<cache, log, inflight, floor>>

\* Mutant: the log is never trimmed.
RecordUntrimmed(p) == [gen |-> log.gen + 1, recent |-> Append(log.recent, p)]

Record(p) ==
  LET all == Append(log.recent, p) IN
    [gen |-> log.gen + 1, recent |-> IF Len(all) > RecentWrites THEN Tail(all) ELSE all]

\* Mutant: reads in flight are not detached.
InvalidateKeepsInflight(c) ==
  /\ At(c, "written") /\ call[c].reply.status = "ok"
  /\ log' = Record(call[c].path)
  /\ call' = [call EXCEPT ![c] = Idle]
  /\ IF call[c].path = "own"
     THEN /\ cache' = None
          /\ floor' = IF call[c].reply.body > floor THEN call[c].reply.body ELSE floor
     ELSE UNCHANGED <<cache, floor>>
  /\ UNCHANGED <<server, inflight>>

(* invalidateAfterWrite: detach the reads in flight under the path, delete  *)
(* its entries, record the write.                                           *)
InvalidateAfterWrite(c) ==
  /\ At(c, "written") /\ call[c].reply.status = "ok"
  /\ log' = Record(call[c].path)
  /\ IF call[c].path = "own"
     THEN /\ inflight' = None
          /\ call' = [d \in Caller |->
               IF d = c THEN Idle
               ELSE IF d = inflight THEN [call[d] EXCEPT !.detached = TRUE] ELSE call[d]]
          /\ cache' = None
          /\ floor' = IF call[c].reply.body > floor THEN call[c].reply.body ELSE floor
     ELSE /\ call' = [call EXCEPT ![c] = Idle]
          /\ UNCHANGED <<inflight, cache, floor>>
  /\ UNCHANGED server

(* A write that failed invalidates nothing, even if the server applied it. *)
WriteFailed(c) ==
  /\ At(c, "written") /\ call[c].reply = Failed
  /\ call' = [call EXCEPT ![c] = Idle]
  /\ UNCHANGED <<server, cache, log, inflight, floor>>

-----------------------------------------------------------------------------
(* The environment. *)

(* The resource changes without this client. *)
ServerChanges ==
  /\ server < MaxVersion
  /\ server' = server + 1
  /\ UNCHANGED <<cache, log, inflight, call, floor>>

(* The entry's spec TTL elapses. *)
Age ==
  /\ Fresh
  /\ cache' = [cache EXCEPT !.fresh = FALSE]
  /\ UNCHANGED <<server, log, inflight, call, floor>>

(* The entry expires, makes room for another URL's, or its body failed the  *)
(* endpoint's schema.                                                       *)
Evict ==
  /\ cache # None
  /\ cache' = None
  /\ UNCHANGED <<server, log, inflight, call, floor>>

-----------------------------------------------------------------------------
(* What a call does once it was made. *)
Proceed(c) ==
  \/ Retry(c) \/ ServerAnswers(c)
  \/ Accept(c) \/ NotModified(c) \/ Repeat(c) \/ ServeStale(c) \/ Reject(c)
  \/ Settle(c) \/ Return(c)
  \/ ServerWrites(c) \/ InvalidateAfterWrite(c) \/ WriteFailed(c)

Next ==
  \/ \E c \in Caller : Proceed(c) \/ Get(c) \/ \E p \in Path : Write(c, p)
  \/ ServerChanges
  \/ Age
  \/ Evict

Spec == Init /\ [][Next]_vars

(* The server answers or the timeout fires, backoffs end, and the event     *)
(* loop runs what is ready.  Nobody has to make a call.                     *)
FairSpec == Spec /\ \A c \in Caller : WF_vars(Proceed(c))

-----------------------------------------------------------------------------
(* A read made after a write of this client completed never answers with a  *)
(* body from before the write: not from the cache, not stale on an error,   *)
(* not by joining or retrying, and not through a 304.                       *)
ReadsFollowWrites ==
  \A c \in Caller : At(c, "done") /\ call[c].body # None => call[c].body >= call[c].floor

(* Nor does the cache hold one: a read that the write overtook stores       *)
(* nothing, however many writes it outlived.                                *)
NoPreWriteEntry == cache # None => cache.body >= floor

(* The stored ETag names the stored body; otherwise the next 304 would      *)
(* confirm a body the server does not hold.                                 *)
EtagNamesBody == cache # None => cache.etag = cache.body

(* What both rest on.  The body a leader has in hand is as new as f. *)
InHand(c, f) ==
  /\ Replied(c, "ok") => call[c].reply.body >= f
  /\ At(c, "settle") /\ call[c].body # None => call[c].body >= f

(* The server is never behind a write; a call never ahead of them. *)
FloorIsOld ==
  /\ floor <= server
  /\ \A c \in Caller :
       /\ call[c].floor <= floor /\ call[c].gen <= log.gen
       /\ At(c, "written") /\ call[c].reply.status = "ok" => call[c].reply.body <= server

(* A body from before a write meets a log that says so, a leader that may   *)
(* still be joined has none, and no caller was promised one.                *)
OldBodiesAreKnown ==
  /\ \A c \in Caller :
       Replied(c, "ok") /\ ~InvalidatedSince(call[c].gen) => call[c].reply.body >= floor
  /\ inflight # None => InHand(inflight, floor)
  /\ \A c \in Caller :
       /\ InHand(c, call[c].floor)
       /\ At(c, "join") => InHand(call[c].on, call[c].floor)

WriteInv == FloorIsOld /\ OldBodiesAreKnown /\ NoPreWriteEntry /\ ReadsFollowWrites

(* Identical GETs in flight share one request, until a write under their    *)
(* path completes; one under another path changes nothing.  After one they  *)
(* need not: a read that the write detached deletes its successor's entry   *)
(* in the deduplicator when it ends.                                        *)
Coalesced ==
  floor = 0 => \A c, d \in Caller :
    call[c].pc \in Running /\ call[d].pc \in Running => c = d

(* Every call settles: retries and repeats come to an end and nobody waits  *)
(* for a leader that is gone, however often the entry is evicted.           *)
EveryCallSettles ==
  LET c == CHOOSE d \in Caller : TRUE   \* callers are alike
  IN ~At(c, "idle") ~> At(c, "idle")
=============================================================================
