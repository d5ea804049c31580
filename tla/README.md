# ESI.ts: specifications

TLA+ models of the stateful core of ESI.ts, a TypeScript client for EVE Online's
ESI API: the token file and its lock, the token manager, the identity of each
request, the request cache, the circuit breaker, the rate limiter and the walk
through paged collections. TLC checks each model on small instances; TLAPS proves
the main results for every value of the constants.
Paths below are relative to the library's source directory, `src/src/`.

## 1. Inventory

A `handleRequest` runs as asynchronous JavaScript: between two `await`s nothing
else of the same process runs, and at every `await` anything may. Several
processes meet only in the file system, at EVE SSO and at ESI.

| Component | State | Operations | Hard part | What makes it correct |
|---|---|---|---|---|
| **Lock file** `auth/storage/FileTokenStorage.ts:288-451` | lock file, guard file `.break`, ages, a turn per process | `locked`, `acquireLockFile`, `breakStaleLock`, `withGuard`, `releaseLockFile` | several processes; crashes at any step; files judged stale and removed later | one holder at a time; only own or stale files are removed; nobody is wedged |
| **Token file storage** `FileTokenStorage.ts:108-281` | the JSON file, an in-memory copy, a write chain | `get`, `set`, `delete`, `load`, `invalidate`, `persist` | read-modify-write of the whole file | a write changes one record and loses none |
| **Token manager** `auth/EsiTokenManager.ts` | `inFlight` per character, `generations`, the storage | `getToken`, `refresh`, `refreshAll`, `addCharacter`, `importToken`, `removeCharacter` | refresh tokens rotate on use; logins and removals race with refreshes; two processes refresh the same character | a token is spent once; the newest login wins; "revoked" is true |
| **SSO client, JWKS** `auth/EveSsoClient.ts`, `auth/jwks.ts` | the key cache with its cooldown | code exchange, refresh, revoke, verify | coalesced key fetches | keys are refetched at most once per cooldown |
| **Request pipeline** `core/ApiRequestHandler.ts`, `core/requestPipeline/` | locals of each call | cache lookup, conditional GET, 304, stale serving, writes, retries | results that arrive after the state they were computed from has changed | a read never answers with data older than this client's own write |
| **ETag cache** `core/cache/ETagCacheManager.ts` | entries by URL and identity | `get`, `set`, `deleteByPath`, eviction | replaced or evicted while a 304 is in flight | the ETag names the body stored with it |
| **Write log** `core/cache/writeLog.ts` | a generation, the last paths written | `recordWrite`, `invalidatedSince` | forgets old writes | never says "not written" of a path that was |
| **Deduplicator** `core/RequestDeduplicator.ts` | in-flight promises by key | `dedupe`, `detachByPath`, `clear` | a detached request outlives its entry | identical GETs share one request |
| **Retry strategy** `core/RetryStrategy.ts` | attempt counter | `execute` | retries what has meanwhile been decided otherwise | ends; a 401 refreshes the token once |
| **Circuit breaker** `core/circuitBreaker/CircuitBreaker.ts` | state, failures, probe count per key | `checkCircuit`, `recordSuccess`, `recordFailure`, `reset`, `cleanup` | calls report after the state they were admitted under is gone | probe slots are never leaked; open holds for its timeout |
| **Rate limiter** `core/rateLimiter/RateLimiter.ts` | a bucket and a block per group, the error budget, a queue | `checkRateLimit`, `updateFromResponse` | calls sleep on state that answers to other calls change; answers arrive out of order | a blocked group is waited for; a spent budget is waited out; requests are spaced; no call waits for ever |
| **API client** `core/ApiClient.ts` | access token, `refreshInFlight`, `tokenWrites` | `setAccessToken`, `forIdentity`, `prepareToken`, `refreshToken` | lookups, refreshes and explicit tokens overlap | a refused token does not come back; who waits for a refresh hears of it |
| **Cache and request keys** `core/cache/cacheKey.ts` | the tokens ESI accepted, per client | `buildCacheKey`, `buildConditionalCacheKey`, `buildDedupeKey`, `markTokenAccepted` | the client's token changes while requests are in flight | an answer is the asking character's own |
| **Pagination** `core/pagination/`, `requestPipeline/paginationOrchestration.ts` | pages fetched, page count, cursor | offset walks (eager, streamed, in waves), cursor walks | the collection changes during a walk | a short result says so; pages stay in order; walks end |
| **Batch requests** `core/BatchRequestHandler.ts`, `core/util/concurrency.ts` | a pool of workers | `batch`, `runWithConcurrency` | one failing item | bounded, results in order |
| **Shared cache store** `core/cache/CacheStoreCache.ts` | an external key-value store | as the ETag cache | another process's writes | as the ETag cache |
| **Middleware, facades, endpoint tables, SDE, adapters, logger, configuration, test doubles** | none that outlives a call, or immutable data | | | data formatting and delegation |

Interaction. A facade calls `handleRequest`, which asks the cache, joins or
starts a request in the deduplicator under the retry strategy, and runs
`executeRequest`; that calls `executeSingleFetch`, which asks the circuit
breaker, waits for the rate limiter, fetches, and reports to both. A first page
that names more pages starts a walk, each page a request of its own. A 401 calls
`ApiClient.refreshToken`, which calls the token manager, which reads and writes
its `ITokenStorage`, under the storage's lease if it has one (`withLock`).

The hazards of this code, each at its line with the properties that guard it,
are listed under `hazards` in `PROJECT.json`.

## 2. Modules

| Module | Models | Built on |
|---|---|---|
| `LockFile` | the advisory lock file and its guard | |
| `TokenStore` | abstract: what a shared `ITokenStorage` promises | |
| `SharedTokenFile` | `set`/`delete` of the token file under the lock; implements `TokenStore` | `LockFile` |
| `TokenManager` | `EsiTokenManager` for one character, its storage and SSO | |
| `LocalTokenFile` | `FileTokenStorage` without `lock`: the shared map, the write chain, `invalidate` | |
| `RequestCache` | concurrent reads and writes of one URL through cache, write log, deduplicator and retries | |
| `ClientIdentity` | whose data a call gets: clients, tokens, accepted identities, keys, 401s | |
| `FetchParameters` | the constants of the three modules below | |
| `CircuitBreaker` | one circuit and the calls that run under it | `FetchParameters` |
| `RateLimiter` | the rate limiter of one user and the calls it holds back | `FetchParameters` |
| `SingleFetch` | `executeSingleFetch`: a call passes the circuit, the limiter and the server; implements `CircuitBreaker` and `RateLimiter` | `CircuitBreaker`, `RateLimiter` |
| `PageWalk` | the eager, the streamed and the wave-by-wave walk through a changing collection | |
| `*Proofs` | theorems about the module they are named after, and about the module it is built on | |
| `MC*` | constants and symmetry for TLC | |

`RequestCache`, `ClientIdentity`, `SingleFetch` and `PageWalk` cut the pipeline
along its questions: how old an answer is, whose it is, whether and when a request
goes out, and what many requests add up to. Each keeps the code's control that
its question depends on and leaves the others' outcome to a free choice.

Operators named like an action with a suffix and marked "Mutant" are plausible
bugs. No specification uses them; each property is known to fail when one of
them takes its action's place.

### LockFile

One step is one file-system call with the code up to the next. A process has at
most one turn at the file, since `locked` queues the callers of a process. `pc`
says where the turn is; `target` is the lock body it may delete once it is under
the guard (the body judged stale, or its own); `lockStale`/`guardStale` say that
a file is `staleMs` old. Removal is the delicate part and is modelled as
written: the guard is unlinked by path, without looking at it again
(`BreakGuard`, `LeaveGuard`), and so is the lock once it was compared
(`Recheck`, then `UnlinkLock`). `GiveUp` is every deadline and every rejected
file operation before `fn` runs or before the lock is compared. `UnlinkFails` is
a failing `unlink`, which every caller swallows: the file stays and the code goes
on. `Crash` leaves the files. `Overrun` lets a live holder's lock go stale;
`GuardLeft` lets a guard be left behind, by a process that dies under it or cannot
delete it.

### SharedTokenFile and TokenStore

`fn` of the lock reads the file, changes one record and renames a new file over
the old one. `file` maps to the abstract `tokens`; every step of the lock and
every read is a stutter, and `Persist` is a `Put`. That is the claim of interest:
`Persist` writes the *whole* copy, so it is a `Put` only if nobody wrote since
the copy was read.

### LocalTokenFile

A read of the file is named by the call that began it, and so is the map it makes;
`from` is the map a call works on, which `invalidate()` may have dropped from the
cache meanwhile. `Begin` is a call up to its first `await`, `Change` the change of
the shared map with the snapshot `persist` takes, `Write` one link of the write
chain. `kept`, `asked` and `seen` exist only to state the properties.

### TokenManager

A task is one caller's operation; a manager is a process. A storage call is two
steps, its effect (`Read`, `Write`) and the code after the `await`
(`Peeked`, `SeenGot`, `Got`, `ExistGot`, `PutDone`). With `Gap` other tasks run in
between, as with a file or a database; without it they do not, as with
`MemoryTokenStorage`. A record is its refresh token, the login it descends from
and the `revoked` flag; `login` and `dead` exist only to state that a newer login
wins, and `sso.lost` only to tell a lost rotation from a token spent twice.
`Locking` says whether the storage has `withLock`; the lease is then one atomic
resource, which `LockFile` justifies. `Faults` lets storage calls reject (`ReadFails`,
`WriteFails`), replies get lost and processes die; `SsoTimeout` says whether requests
to SSO have a timeout. A joined refresh needs no state of the
joining caller: it holds nothing and does nothing when the promise settles.
What an access token's expiry decides (is the record fresh?) is a free choice.

### RequestCache

A body is the version of the resource the server answered with, and its ETag
names that version, so "older" is `<`. `Get` is `handleRequest`: a fresh entry
answers, a request in flight is joined, otherwise one is sent with the write
generation and the ETag of that moment. `Accept`, `NotModified`, `Repeat`,
`ServeStale` and `Reject` are `executeRequest` after its `await`; `Accept` may store
nothing, as of an answer without an ETag or one that has more pages. `Settle` is the
`finally` of `dedupe` together with everyone who joined. A write is to the path
of this URL (`own`) or to another one, which matters because both push entries
out of the write log. `floor` records the newest version a completed write of
this client produced.

### ClientIdentity

A body is the character whose data it is; a token is its character and a number.
A key is a character (`n = 0`), once ESI has accepted the token from this client,
or the token itself, which stands for its hash. `Lookup`, `LookupAnswers` and
`overtaken` are `prepareToken` with `tokenWrites`; `Refresh`, `RefreshAnswers` and
`RefreshFails` are the one refresh after a 401; `Attempt` is `operation` in
`handleRequest` up to the next `await`; `Sent` is the start of `executeRequest`, which
reads the client's token at that moment. What ESI answered is stored and looked
up under the token that was sent (`AnswerKey`). The token provider answers with a
token of the character that was refused, as `EsiTokenManager` does.

### CircuitBreaker

`circuit` is the record, `running` the calls that were admitted and have not
reported, and `probes` those the current half-open period admitted. `failures`
is counted up to the threshold, beyond which the code makes no difference.
`lastFailure` says whether `resetTimeoutMs` has elapsed.

### RateLimiter

Instants are kept as the time left until them, and `Tick` takes a unit off each. A
call's steps are the stretches of code between its sleeps: the block of its group
(at most `Rounds` times, 10 in the code), the error budget, the bucket, its turn in
`minDelayChain`, and the delay after the last request. `Answer` is
`updateFromResponse`; it may name another group than the call's, and each of the two
headers of the error budget may be missing (`Report`). A bucket with few tokens left
delays by up to a second: a free choice. `late`, `owed` and `window` exist only to
state the properties; `window` is the end of a spent budget's window by the shortest
account given of it since it was reported spent. A timer never fires early, which
holds below the 2^31 ms that `setTimeout` can count.

### SingleFetch

A step of the composition is a step of the limiter, together with the step of the
circuit the code makes at the same place: `Start` is `checkCircuit` and entering
`checkRateLimit`, and every way out of the call (`Refused`, `Answered`, `Lost`) reports
exactly once, in one of the three branches or in the `finally`.

### PageWalk

`items` is the collection in the server's order; an item is added in front or
removed anywhere, at most `MaxChange` times, also by a write of this client. `how`
says which of the three walks it is, `throwing` whether `incompletePages` is
`'throw'`. Page 1 gives `total`; then one page is requested at a time, or a wave.
`Collect` and `CollectWave` are the code after the `await`, `Resolve` the end, where
the eager walk stores its result if the write log allows it.

## 3. Runs

| Run | Checks | Instance |
|---|---|---|
| `lock_live` | whatever is left behind, somebody gets to run `fn` again, guards left behind and overruns included | 2 processes that compete for ever, 2 turn numbers, 2 crashes |
| `lock_guardcrash` | *violation*: mutual exclusion after a crash under the guard | 3 processes, 1 crash |
| `shared_file` | mutual exclusion, justified removals, no lost update: refinement of `TokenStore` | 3 processes, 2 turns, 1 crash, 2 characters |
| `local_file` | acknowledged writes stay; `invalidate()` is honoured | 3 calls, 2 characters, 1 invalidation, failing reads and writes |
| `manager_single` | revocations real, stored tokens usable, newest login wins | 1 manager, 3 calls, 4 refresh tokens, 2 logins/removals |
| `manager_shared` | tokens spent once across processes; stored tokens usable, and slots and leases freed, whatever fails | 2 managers, 2 calls each, 2 refresh tokens, faults |
| `manager_removal` | *violation*: the newest login wins over a storage that takes time | 1 manager, 2 calls |
| `cache` | reads follow writes; ETags name bodies; identical GETs coalesce; calls settle | 3 calls, 1 write, 2 versions, 1 retry, log of 0 |
| `client` | answers are the asker's own and asked under an accepted token; replays use the refreshed token; a refresh leaves nobody waiting | 2 calls, a view and another client, 2 characters |
| `client_joined` | *violation*: a joined answer is the joiner's own | the same, both first tokens accepted before |
| `fetch` | probe slots, half-open ends, refinement of the circuit with its fairness; blocks, budget, spacing, and the wait for them ends | 2 calls, threshold 2, 2 probes, waits up to 2, 2 rounds |
| `pages` | unchanged collections whole, losses said, partial results prefixes, caching follows writes, walks end | pages of 2, limit of 3 pages, up to 7 items, 3 changes, waves of 2 |

Bounds and why they are enough:

- `MaxTurn` 2 and 3 processes let one process return to the lock while a second
  holds it and a third is about to delete what it judged stale, the pattern of
  every known lock-file bug; one crash leaves a file to break, two leave a lock
  and then the next one.
- `lock_live` has no end of turns: a process begins to count anew once no file and no
  turn bears one of its numbers (`Renumber`), as nonces never run out. Bounded turns
  would let a waiter get the lock merely because its competitors have stopped.
- `local_file`: three calls are a reader whose read is overtaken by `invalidate()`, a
  call after it, and a second writer.
- `MaxRt` and `MaxGen` bound tokens SSO issues and completed logins: 4 and 2 admit
  a rotation, a login during it, a second login or removal, and a rotation after
  each. `manager_shared` needs 2 tokens only: the second spending of the first
  token is the failure. It has no logins: the generations are per process, and
  logins are `manager_single`'s subject, which in turn has no faults.
- `RecentWrites` is 0 instead of 64, so that one write makes the log forget and
  `invalidatedSince` answers by the count alone; that it compares the paths it still
  holds is covered by the proof, for every length. `MaxVersion` 2 is a body before and after the write.
  `MaxTry` 1 is one retry.
- `client`: character `a` has two tokens, so that one can be refused and refreshed,
  and `b` one, for a client that changes hands. `Before` is the tokens ESI accepted
  earlier: that of `a` in `client`, so that `b`'s is still only a claim; both in
  `client_joined`. The proofs cover any clients, tokens and calls.
- `fetch`: two calls are a probe and one from before the circuit opened, or two
  probes. Waits of 2 let a block be renewed while a call sleeps on it. One group
  only, and no third call that two probe slots would refuse: the proofs cover any
  groups, calls and limits.
- `pages`: 7 items make four pages, one above the limit; 3 changes can empty the
  last page, or shift a whole page to one already read.
- `Proc` and `Call` are symmetric where no liveness property is checked.

`CHECK_DEADLOCK FALSE` is set where bounded counters make the system stop (turns,
tokens, writes, versions, changes). `SingleFetch` has none and is checked for
deadlock.

Fairness. `LockFile`: a live process goes on, since its file operations settle,
and files age; no process has to time out, crash or come back. What follows is
that the lock is never wedged (`NeverWedged`), unless file operations keep failing. It
does not follow that every turn gets it: `acquireLockFile` polls without a queue between
processes, so that a turn which always looks at the wrong moment waits until its
deadline (TLC shows that behaviour); the deadline ends it. `TokenManager`: a task that
made a call goes on, since storage answers and the event loop runs continuations;
nobody has to call. That SSO answers is assumed only where `SsoTimeout` says that
requests have a timeout (`Answers`). It is not the default: `ssoTimeoutMs` is unset
unless the application sets it (`auth/EveSsoClient.ts:28`, `EsiTokenManager.ts:34-38`),
and then a hung connection keeps the slot, and the lease of a live process, for ever;
without the assumption TLC refutes `EverySlotIsFreed` and `LeaseIsReturned`. Two
conjuncts, because `Continue` and `Proceed` of one task are never enabled together.
`RequestCache`: a call that was made proceeds, since requests to ESI always have a
timeout (`core/requestPipeline/fetchExecution.ts:182-184`). `CircuitBreaker`: an
admitted call reports; no caller need ever come again, so that a circuit leaves
half-open by its probes alone. `SingleFetch` does not assume this but implies it
(`CircuitSpec`), from its own fairness: time passes, timers fire, and the request
timeout ends every request that was sent. `PageWalk`: pages answer or fail, and the
consumer of a stream takes what it is given.

### Where code and words differ

- **`lock_guardcrash`**: `withGuard` removes the guard it judged stale without
  checking that it still is the one it looked at. Two waiters that both judged a
  crashed remover's guard stale can remove it one after the other, the second
  removing the first one's fresh guard. Two removers, one lock taken between
  their check and their unlink, and two holders follow. `auth/types.ts:48-50`
  promises exclusion. It takes a crash inside two file operations and two waiters.
- **`manager_removal`**: `removeCharacter` and `storeResponse` bump the generation
  only after their `await`ed write; a refresh that passes `supersededBy` while
  that write is under way, or whose own write is already under way, stores over
  it. The comment at `EsiTokenManager.ts:159-163` says it does not.
- **`client_joined`**: a 304 whose entry has left the cache makes `executeRequest` call
  itself (`core/ApiRequestHandler.ts:113-134`) inside the promise other callers
  joined. The repeat takes the client's token of *that* moment. If `setAccessToken`
  gave the client another character's token meanwhile, everyone who joined under
  the first character's key is answered with the second one's data. The comments at
  `cacheKey.ts:189-192` and `ApiRequestHandler.ts:342-344` rule this out. It takes an
  eviction, a change of character and a join in one request's time; identity views,
  whose character never changes, are not affected.

Smaller differences, found while modelling and checked by TLC in passing; no run
keeps them.

- The `finally` of `dedupe` (`RequestDeduplicator.ts:22-24`) deletes the key whoever is in
  it. A read detached by a write deletes its successor's entry when it ends, and a third
  identical GET is sent beside the second. More than the saving is lost: if the server
  changes between their answers and the older one is stored last, it replaces the newer
  entry, and the 304 to a request that names the newer ETag finds the older body,
  answers with it and makes it fresh again, although "A 304 confirms the stored body is
  current" (`core/requestPipeline/statusHandling.ts:109-110`). In TLC,
  `Replied(c, "notModified") /\ cache # None => cache.body >= call[c].inm` fails with two
  callers, one write and three versions. The body is never from before a completed write
  of this client (`ReadsFollowWrites`); it is a version the server has left since.
  Hence `floor = 0`, no write under the path, in `Coalesced`.
- An answer that names only `x-esi-error-limit-reset` passes by the guard against late
  reports and shortens the wait inside a spent window (`RateLimiter.ts:322-336`), while
  `exhaustedUntil` stays; the next call is sent before the window ends that the report
  of the spent budget named. `SpentBudgetIsWaitedOut` therefore takes the shortest account
  an answer gave of it.
- `recordSuccess` ignores a late success while the circuit is open, but not once a
  probe has made it half-open, against its comment "Only a half-open probe may close
  the circuit" (`CircuitBreaker.ts:119-120`): the late success closes the circuit while
  the probe is still under way.
- A request is sent although its group is blocked (`[][Sent(c) => ~IsBlocked(c)]_vars`
  fails), when the block was set after the call had passed the check and during its
  waits for the budget, the bucket or its turn; the comment at `RateLimiter.ts:378`
  says "Never proceed while still blocked". `OnlyLateBlocksAreMissed` says that this
  is the only way. A request is likewise sent under a circuit that opened while the
  call waited in the limiter (`guides/ARCHITECTURE.md:866`: "No HTTP call").
- A 420 or 429 extends no block that is still running, so a shorter `Retry-After`
  stands; `guides/ARCHITECTURE.md:786` says "60 s if nothing longer is set".
- `invalidate()` between two sets of an unlocked token file lets the second read the
  file before the first was written, and then write it away: a set that resolved is
  lost, against `guides/AUTHENTICATION.md:184` ("`set` must be durable before it
  resolves"). Hence `generation = 0` in `ResolvedWritesStay`.
- A 304 under a token ESI had not accepted before, whose character's entry leaves the
  cache meanwhile, is not repeated but rejects (`BareNotModified`): `hasCachedEntry` asked
  for the token's key when the request was sent, and the ETag came from the
  character's. A late 401 begins a second refresh for a token that was already
  replaced, though `guides/ERRORS.md:254` has a burst of 401s trigger one SSO call.
- A walk that stopped short is cached like a whole one, so that later calls are
  answered without the warning that is "the only sign the caller gets"
  (`tests/bdd/features/core/0051-resilience.feature:581`).
- With `incompletePages: 'throw'` a walk over a shrinking collection can still miss
  items that moved to a page already read, without a page being empty;
  `guides/CHARTER.md:405` has "the whole dataset or throws". `QuietLossIsSmall` bounds
  the loss by a page for walks page by page; a wave can lose more.

Without a deduplicator (it is on by default) two GETs of one URL can be in
flight, and the older body may be stored last, at any time. The run assumes one, and so
does the proof of `Coalesced`.

## 4. Proofs

TLAPS proves, for every value of the constants that satisfies the named
assumptions of each module:

- **`SharedTokenFileProofs`**, the lock. `TypeCorrect` needs nothing more. `LeaseIsExclusive` (mutual
  exclusion) assumes `~GuardLeft` and `~Overrun`; `lock_guardcrash` shows that the
  first is needed, and the second is the code's own premise (`staleMs` exceeds
  any holder's time). Mutual exclusion is not inductive: a second holder appears
  because some process deleted the lock long after deciding to. `Inv` says that
  what is going to be deleted belongs to a *spent* turn, one that will not run
  `fn` again: removers are one at a time (`GuardIsExclusive`), a remover deletes
  the file it read (`RemovesItsTarget`), targets and stale files are spent
  (`TargetIsSpent`, `StaleIsSpent`), and the file that is there belongs to a
  holder or a spent turn (`LockIsAccountedFor`). `SpentIsStable` is the central
  lemma: turns never become unspent. Then `HolderOwnsLock` gives exclusion.
  `RemovalsAreJustified` needs only `~GuardLeft`: from `GuardIsExclusive` and
  `RemovesItsTarget`, the file a remover deletes is the one it read again under the
  guard, and that one was stale or its own.
- **`SharedTokenFileProofs`**, the file. `LockSpecHolds` projects the file's behaviours
  to the lock's, so exclusion carries over; with it `FileInv` (a change is under way only
  under the lock, and the copy is the file) is inductive, `CopyStaysCurrent`, and
  `FileImplementsTokenStore` maps `Persist` to `Put` and everything else to a
  stutter.
- **`RequestCacheProofs`**. `ReadsAlwaysFollowWrites`: a read made after a completed
  write never answers with a pre-write body. `WriteInv` is inductive: a body older
  than `floor` is known to the log as invalidated, or cannot be joined any more,
  and no caller that was promised `floor` waits for it (`OldBodiesAreKnown`).
  `LogGrows` is the lemma about the log: recording a write never makes an
  invalidated read look valid, whatever is trimmed, and a write to the path
  invalidates every read sent before it. With and without a deduplicator.
  `EtagsNameBodies`: an entry is stored and renewed with the ETag of its own body.
  `RequestsAreShared` assumes a deduplicator: until a write under the path completes
  only the owner of the key runs.
- **`LocalTokenFileProofs`**. `InvalidateIsAlwaysHonoured` rests on the generation: a map
  is the cache, or is joined, only if its read began in the current generation
  (`seen` of a read is never before its `began`). `ResolvedWritesAlwaysStay`: without
  `invalidate()` there is one map, every snapshot in the chain contains the changes
  of the snapshots before it, and the file is the newest one written, so that a
  record differs from what was last acknowledged only by a write that failed.
- **`ClientIdentityProofs`**. `EveryAnswerIsOwn`, `EveryAnsweredTokenWasAccepted`,
  `EveryEntryIsOwn`, `EveryReplayUsesRefresh` and `RefreshIsAlwaysAwaited`, for any clients, characters and calls.
  The invariant says what each key may hold: an entry only a character's, and that
  character's data; a request in flight, as long as it was not repeated, was sent
  under a token its key stands for, and joined by callers whose key it is. A reply
  2xx or 304 has made its token an accepted one, so what it stores goes to the
  character's key.
- **`SingleFetchProofs`**, the circuit. `SlotsAreNeverLeaked`, `StateIsConsistent` and
  `OpenAlwaysHolds`, for any number of calls and any thresholds, from the
  conjunction of the type invariant and the two state invariants.
- **`RateLimiterProofs`**. `OnlyLateBlocksAreEverMissed`: the ghost `late` collects exactly
  the calls past the check whose group is blocked by an answer. `SendsAreAlwaysSpaced`:
  only the head of the queue sleeps on the spacing, and what it has left to sleep
  covers what `since` lacks. `SpentBudgetIsAlwaysWaitedOut`: what is `owed` never exceeds
  what the call has left to sleep, because a report of budget inside the window of a
  spent one is ignored, so that `reset` covers `window` as long as that lasts
  (`BudgetKept`). For any groups, calls and delays.
- **`SingleFetchProofs`**, the composition. `FetchImplementsCircuit` and `FetchImplementsLimiter` map every
  step of the composition to a step or a stutter of each component, so that their
  theorems hold of it (`FetchLeaksNoSlot`, `FetchTypeCorrect`, `FetchMissesOnlyLateBlocks`,
  `FetchSendsAreSpaced`, `FetchWaitsOutSpentBudget`). `RunningIsAlwaysUnderWay` is the link
  between the two: the circuit counts exactly the calls that are not idle in the
  limiter, without which a report of the one would not be allowed to the other.

- **`TokenManagerProofs`**. `TypeCorrect` needs no hypothesis; besides the types it says
  what the locals of a task hold where it is (`WellFormed`). `SpentOnceHolds`,
  `StoredStaysUsable`, `OnlyEndedAreRevoked` and `NewestWinsHolds` hold under `Regime`: one
  manager over a storage that answers at once (`~Gap`, `MemoryTokenStorage`), with
  logins and removals; or no logins and removals, over any storage, for one manager
  or for any number of them with the lease. Both runs that pass lie inside it.
  Outside it the properties fail in TLC, as the code lets them: a login over a
  storage that takes time (`manager_removal`), a login in one process during a
  refresh in another (generations are per process), two processes without
  `withLock`. Any number of managers, calls, tokens and logins.

  None of the four is inductive. That two refreshes do not spend one token depends
  on where each token came from: a refresh that still counts (`Active`) has the lease,
  or its manager's slot (`HasTurn`), hence there is one (`Exclusion`); what it read is
  still stored (`ReadLast`), because only its own kind and logins write; and a token
  SSO has just issued is in nobody's hands but its receiver's (`BringsNew`, `Apart`). A
  refresh is `Overtaken` from the write of a login or removal until it settles:
  between that write and the bump of the generation, the window of
  `manager_removal`, it must not be about to write (`ReadLast`), which is what `~Gap` gives.
  `StoreUsable` and `StoreKnown` carry the properties of the store itself. Most steps
  touch one task and at most issue a token (`FrameStep`); `AnswerStep`,
  `RefreshWriteStep`, `LoginWriteStep` and `PutDoneLoginStep` are the four that do more.
- **`PageWalkProofs`**, all six invariants of `pages`, with no hypothesis beyond the
  module's. `WalkedHolds` is the core: the result is the concatenation of the pages
  below the ones under way, whichever answer came first, a warning tells of an
  empty page among them, and nothing above `next` was asked for. `TypeCorrect`,
  `ShortIsAlwaysSaid` and `PartialIsAlwaysPrefix` follow from it. For
  `UnchangedIsAlwaysWhole`, `Sound` adds that answers are pages of the collection of
  then while it has not changed; without additions an equal length means no change.
  For `QuietLossIsAlwaysSmall`, `LossIsSmall` counts the items that a removal moved past
  the walk: one removal moves at most one item over the border of a page
  (`LossOnChange`), so that the loss is at most what was removed, and if the last page
  was not empty fewer than `PageSize` were. `EntryAlwaysFollowsWrites` relates
  `began`, which the write log is asked about, to `seen`, which page 1 contains.

  These proofs need what `FlattenSeq`, a recursive function, computes. The library's
  induction theorems cannot be used, since they take an operator as a parameter;
  `WFMin` of `WellFoundedInduction` takes a set, and gives `LeastNumber` and `NatInductive`,
  with which `FlattenStep` and `PagesOfWhole` are proved.

Every invariant and every safety action property of a passing run is stated by a
theorem. Some theorems are narrower than the property's name suggests: those of
`TokenManager` by `Regime`, those of the lock by `~GuardLeft` and `~Overrun`,
`ResolvedWritesAlwaysStay` by the absence of `invalidate()`.

Only model-checked: every liveness property (fairness and `ENABLED` are outside
the prover's reach), that is `NeverWedged`, `EverySlotIsFreed`, `LeaseIsReturned`,
`EveryCallSettles`, `HalfOpenEnds`, `CheckEnds`, `WalkEnds` and the fairness part of
`CircuitSpec`, whose safety part is `FetchImplementsCircuit`. Invariants that only
proofs use (`Inv`, `WriteInv`, `CopyIsCurrent`, `StateFollowsFailures`, `OpenHolds`,
`EntryIsOwn`, `RunningIsUnderWay`, `Ind` of `TokenManagerProofs`, `Walked`, `Sound` and
`LossIsSmall`), and `TypeOK` of the modules whose run does not name it, hold in TLC
too and have no run.

## 5. What is taken from outside

- SSO rotates a refresh token on every use and answers `invalid_grant` to a token
  it has rotated, revoked or never issued (`Answer`, `PlayerRevokes`).
- ESI answers a GET with the version it holds then, and a write's answer arrives
  after the write was applied (`ServerAnswers`, `ServerWrites`). A node that lags
  behind its own writes is not modelled.
- Creating a file by hard link fails if the path exists; rename replaces a file in
  one step (`TryLock`, `Persist`).

- An access token is refused from some moment on, and never accepted again; ESI
  answers 304 only to the ETag of the data it would send (`ServerAnswers`, `Expire`).
- The pages ESI answers are slices of the collection as it is then, with the page
  count of that moment (`PageOf`, `XPages`).

## 6. Plan

Done: the modules above. The order was set by what goes worst when it goes wrong:
lost tokens, then wrong answers, then requests that should not go out.

Next, proving more: what the liveness properties rest on and is itself safety (a
taken slot or lease of `TokenManager` belongs to a refresh that is under way, a key of
the deduplicator to a call that will settle it); a bound for what a wave of `PageWalk`
loses; the token manager's store as an implementation of one with a single login.

Then, modelling more: the key set of `jwks.ts` (one fetch at a time, the cooldown, the
last good set kept), `runWithConcurrency` (results in order, every item settled, a
bound on what runs), the cursor walk, and `CacheStoreCache` beside the ETag cache.

## 7. Not modelled

- Generated code and data: `src/generated/`, `schemas/generated/`, `adapters/*.generated.ts`,
  `types/generated/`, `core/endpoints/` are tables, types and schemas, most of the
  library's lines. They have no behaviour; `createClient` only maps a call to
  `handleRequest`. `scripts/` and `etc/` build them.
- `jwks.ts`, `BatchRequestHandler`, `concurrency.ts`, `CursorPaginationHandler` and
  `CacheStoreCache`: they have a little state each, and are in the plan.
- `sde/` (parsing and indexing static data), `client/` and adapters (delegation),
  logging, configuration, test doubles.
- Within the modelled parts: several rate-limit users with their clean-up, `reset()`
  and test mode; the bound of 64 accepted tokens; clients without token or provider;
  retries other than of a 401 in `ClientIdentity`; scopes and hooks of the token
  manager; client shutdown; the wording of errors, header parsing, lengths of
  backoffs, and user callbacks (middleware, hooks), which keep no state in the
  library.
