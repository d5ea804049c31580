------------------------------ MODULE PageWalk ------------------------------
(***************************************************************************)
(* A walk through the pages of a collection that may change meanwhile: the *)
(* eager call (PaginationHandler.fetchRemainingPages), the stream          *)
(* (fetchPages) and fetchAllPages, which requests the pages in waves.      *)
(* Page 1 says how many pages there are; the walk never asks again.        *)
(*                                                                         *)
(* The eager call also caches what it collected, unless a write of this    *)
(* client under the path has completed since it began.  What a page        *)
(* request goes through is in SingleFetch; here it answers or fails.       *)
(***************************************************************************)
EXTENDS Naturals, Sequences, FiniteSets, SequencesExt, FiniteSetsExt, Functions

CONSTANTS PageSize,
          MaxPages,      \* MAX_PAGES, the most pages a walk requests
          Concurrency,   \* pages in a wave of fetchAllPages
          MaxItem,       \* bound: items the collection ever has
          MaxChange,     \* bound: items added or removed
          MaxWrite,      \* bound: of these, by this client
          None

ASSUME ConstantsAssumption ==
  /\ {PageSize, MaxPages, Concurrency, MaxItem} \subseteq Nat \ {0}
  /\ {MaxChange, MaxWrite} \subseteq Nat

VARIABLES
  items,    \* the collection, in the server's order
  changes,  \* changes so far
  written,  \* this client's writes: those the server applied, those that completed
  entry,    \* what the cache has for the URL: [items, writes], or None
  pc, how, throwing,  \* the walk, of which kind, with incompletePages: 'throw' or not
  began,    \* the write generation the walk began in
  before,   \* the collection when page 1 was answered
  seen,     \* the writes applied by then
  grown,    \* was an item added since?
  total,    \* X-Pages of page 1
  next,     \* the next page to request
  got,      \* the answer of each page, or None
  reading,  \* the pages requested and not yet collected
  result,   \* the items collected, or yielded
  warned    \* was the walk said to be incomplete?

server == <<items, changes, grown, written, entry>>
kind == <<how, throwing, began>>
vars == <<server, kind, pc, before, seen, total, next, got, reading, result, warned>>

Item == 1 .. MaxItem
Items == Seq(Item)
Page == 1 .. MaxPages
Ended == {"resolved", "fetch-failed", "empty-page", "page-cap"}
Entry == [items : Seq(Item), writes : 0 .. MaxWrite]
ASSUME NoneAssumption == None \notin {<<>>}

TypeOK ==
  /\ items \in Items /\ before \in Items /\ IsInjective(items)
  /\ changes \in 0 .. MaxChange
  /\ written \in [applied : 0 .. MaxWrite, done : 0 .. MaxWrite] /\ written.done <= written.applied
  /\ entry = None \/ entry \in Entry
  /\ pc \in {"new", "first", "answered", "walk"} \cup Ended
  /\ how \in {"eager", "stream", "all"} /\ throwing \in BOOLEAN
  /\ began \in 0 .. MaxWrite /\ seen \in 0 .. MaxWrite
  /\ grown \in BOOLEAN /\ warned \in BOOLEAN
  /\ total \in 1 .. MaxItem /\ next \in 2 .. MaxPages + 1
  /\ got \in [Page -> Items \cup {None}]
  /\ reading \subseteq Page /\ (reading # {} => pc = "walk")
  /\ result \in Seq(Item)

Init ==
  /\ \E n \in 0 .. MaxItem : items = [i \in 1 .. n |-> i]
  /\ changes = 0 /\ written = [applied |-> 0, done |-> 0] /\ entry = None
  /\ pc = "new" /\ how = "eager" /\ throwing = FALSE /\ began = 0
  /\ before = <<>> /\ seen = 0 /\ grown = FALSE /\ total = 1 /\ next = 2
  /\ got = [p \in Page |-> None] /\ reading = {} /\ result = <<>> /\ warned = FALSE

Least(a, b) == IF a < b THEN a ELSE b

-----------------------------------------------------------------------------
(* The server. *)

PageOf(p) == SubSeq(items, (p - 1) * PageSize + 1, Least(p * PageSize, Len(items)))
XPages == IF items = <<>> THEN 1 ELSE (Len(items) + PageSize - 1) \div PageSize

Fresh(i) == \A j \in 1 .. Len(items) : items[j] < i   \* an item is never added again

(* An item is added in front, or one is removed. *)
Change ==
  /\ changes < MaxChange /\ changes' = changes + 1
  /\ \/ /\ grown' = TRUE
        /\ \E i \in Item : Fresh(i) /\ Len(items) < MaxItem /\ items' = <<i>> \o items
     \/ /\ items # <<>>
        /\ \E i \in 1 .. Len(items) : items' = RemoveAt(items, i)
        /\ UNCHANGED grown

Walk == <<kind, pc, before, seen, total, next, got, reading, result, warned>>

ServerChanges == Change /\ UNCHANGED <<written, entry, Walk>>

(* A write of this client: the server applies it, and later it completes,   *)
(* which deletes the entry (invalidateAfterWrite).                          *)
ServerWrites ==
  /\ written.applied < MaxWrite
  /\ written' = [written EXCEPT !.applied = @ + 1]
  /\ Change
  /\ UNCHANGED <<entry, Walk>>

WriteCompletes ==
  /\ written.done < written.applied
  /\ written' = [written EXCEPT !.done = @ + 1]
  /\ entry' = None
  /\ UNCHANGED <<items, changes, grown, Walk>>

-----------------------------------------------------------------------------
(* The walk. *)

\* Mutant: off by one.
LastPageBut == Least(total - 1, MaxPages)

LastPage == Least(total, MaxPages)

Start(h, t) ==
  /\ pc = "new"
  /\ pc' = "first" /\ how' = h /\ throwing' = t
  /\ began' = written.done
  /\ UNCHANGED <<server, before, seen, total, next, got, reading, result, warned>>

(* The server answers with page 1 and the page count. *)
FirstAnswers ==
  /\ pc = "first"
  /\ pc' = "answered"
  /\ before' = items /\ grown' = FALSE /\ seen' = written.applied
  /\ total' = XPages
  /\ got' = [got EXCEPT ![1] = PageOf(1)]
  /\ UNCHANGED <<items, changes, written, entry, kind, next, reading, result, warned>>

\* Mutant: the write generation is taken when page 1 is in.
BeginLate ==
  /\ pc = "answered"
  /\ result' = got[1]
  /\ pc' = IF total > MaxPages /\ throwing THEN "page-cap" ELSE "walk"
  /\ began' = written.done
  /\ UNCHANGED <<server, how, throwing, before, seen, total, next, got, reading, warned>>

(* Page 1 is in.  A count above the limit is refused before any further     *)
(* request, if such a walk is to throw.                                     *)
Begin ==
  /\ pc = "answered"
  /\ result' = got[1]
  /\ pc' = IF total > MaxPages /\ throwing THEN "page-cap" ELSE "walk"
  /\ UNCHANGED <<server, kind, before, seen, total, next, got, reading, warned>>

(* The next page, or for fetchAllPages the next wave. *)
Request ==
  /\ pc = "walk" /\ reading = {} /\ next <= LastPage
  /\ next' = IF how = "all" THEN Least(next + Concurrency, LastPage + 1) ELSE next + 1
  /\ reading' = next .. next' - 1
  /\ UNCHANGED <<server, kind, pc, before, seen, total, got, result, warned>>

PageAnswers(p) ==
  /\ p \in reading /\ got[p] = None
  /\ got' = [got EXCEPT ![p] = PageOf(p)]
  /\ UNCHANGED <<server, kind, pc, before, seen, total, next, reading, result, warned>>

Reject(reason) == pc' = reason /\ UNCHANGED <<warned, entry>>

\* Mutant: the other pages of the wave are still collected.
PageFailsAlone ==
  /\ pc = "first" \/ \E p \in reading : got[p] = None
  /\ pc' = "fetch-failed" /\ reading' = {p \in reading : got[p] # None}
  /\ UNCHANGED <<server, kind, before, seen, total, next, got, result, warned>>

(* A page, the first one too, fails after its retries: the walk rejects. *)
PageFails ==
  /\ pc = "first" \/ \E p \in reading : got[p] = None
  /\ pc' = "fetch-failed" /\ reading' = {}
  /\ UNCHANGED <<server, kind, before, seen, total, next, got, result, warned>>

AllIn == reading # {} /\ \A p \in reading : got[p] # None
Empty == {p \in reading : got[p] = <<>>}
Pages(from, to) == FlattenSeq([i \in 1 .. to - from + 1 |-> got[from + i - 1]])

(* The call resolves.  The eager one caches its result, short or not, if no *)
(* write has completed since it began.                                      *)
Resolve(short) ==
  /\ pc' = "resolved" /\ warned' = short
  /\ entry' = IF how = "eager" /\ written.done = began
              THEN [items |-> result, writes |-> seen] ELSE entry

\* Mutant: an empty last page is taken for the end of the collection.
CollectLenient ==
  /\ how # "all" /\ AllIn
  /\ IF Empty = {}
     THEN result' = result \o got[Min(reading)] /\ UNCHANGED <<pc, warned, entry>>
     ELSE /\ UNCHANGED result
          /\ IF throwing /\ LastPage \notin Empty THEN Reject("empty-page")
             ELSE Resolve(LastPage \notin Empty)
  /\ reading' = {}
  /\ UNCHANGED <<items, changes, grown, written, kind, before, seen, total, next, got>>

(* The eager call and the stream: an empty page ends the walk. *)
Collect ==
  /\ how # "all" /\ AllIn
  /\ \/ /\ Empty = {}
        /\ result' = result \o got[Min(reading)]
        /\ UNCHANGED <<pc, warned, entry>>
     \/ /\ Empty # {} /\ UNCHANGED result
        /\ IF throwing THEN Reject("empty-page") ELSE Resolve(TRUE)
  /\ reading' = {}
  /\ UNCHANGED <<items, changes, grown, written, kind, before, seen, total, next, got>>

\* Mutant: the whole wave is collected before its pages are looked at.
CollectWaveFirst ==
  /\ how = "all" /\ AllIn
  /\ result' = result \o Pages(Min(reading), Max(reading))
  /\ \/ Empty = {} /\ UNCHANGED <<pc, warned, entry>>
     \/ Empty # {} /\ throwing /\ Reject("empty-page")
     \/ Empty # {} /\ ~throwing /\ warned' = TRUE /\ UNCHANGED <<pc, entry>>
  /\ reading' = {}
  /\ UNCHANGED <<items, changes, grown, written, kind, before, seen, total, next, got>>

(* fetchAllPages: a wave is collected in page order.  An empty page rejects *)
(* with the pages before it, or is skipped with a warning.                  *)
CollectWave ==
  /\ how = "all" /\ AllIn
  /\ \/ /\ Empty # {} /\ throwing
        /\ result' = result \o Pages(Min(reading), Min(Empty) - 1)
        /\ Reject("empty-page")
     \/ /\ Empty = {} \/ ~throwing
        /\ result' = result \o Pages(Min(reading), Max(reading))
        /\ warned' = (warned \/ Empty # {})
        /\ UNCHANGED <<pc, entry>>
  /\ reading' = {}
  /\ UNCHANGED <<items, changes, grown, written, kind, before, seen, total, next, got>>

AllPages == pc = "walk" /\ reading = {} /\ next > LastPage

\* Mutant: the walk waits for pages above the limit.
FinishAtTotal ==
  /\ AllPages /\ next > total
  /\ Resolve(warned)
  /\ UNCHANGED <<items, changes, grown, written, kind, before, seen, total, next, got, reading, result>>

(* Every page is in; with more pages than the limit, the walk is short. *)
Finish ==
  /\ AllPages
  /\ Resolve(warned \/ total > MaxPages)
  /\ UNCHANGED <<items, changes, grown, written, kind, before, seen, total, next, got, reading, result>>

-----------------------------------------------------------------------------
Proceed ==
  \/ FirstAnswers \/ Begin \/ Request \/ Collect \/ CollectWave \/ Finish \/ PageFails
  \/ \E p \in Page : PageAnswers(p)

Next ==
  \/ ServerChanges \/ ServerWrites \/ WriteCompletes
  \/ \E h \in {"eager", "stream", "all"}, t \in BOOLEAN : Start(h, t)
  \/ Proceed

Spec == Init /\ [][Next]_vars

(* Each page answers or fails in the end, and the event loop runs what is   *)
(* ready; the consumer of a stream takes the pages it is given.             *)
FairSpec == Spec /\ WF_vars(Proceed)

-----------------------------------------------------------------------------
(* A collection that does not change during the walk is collected whole and *)
(* in order, in whatever order its pages arrive.                            *)
UnchangedIsWhole ==
  pc = "resolved" /\ ~warned /\ ~grown /\ Len(items) = Len(before) => result = before

(* A walk that missed a page, or found one empty, says so: it warns, or it  *)
(* does not resolve.                                                        *)
ShortIsSaid ==
  pc = "resolved" => ((\E p \in 2 .. total : p > MaxPages \/ got[p] = <<>>) <=> warned)

(* A walk that rejects because of an empty page hands out all pages before  *)
(* it and no others, even if later ones were in already.                    *)
PartialIsPrefix ==
  pc = "empty-page" =>
    \E p \in 2 .. LastPage : got[p] = <<>> /\ result = Pages(1, p - 1)
                         /\ \A q \in 2 .. p - 1 : got[q] # <<>>

(* When nothing is added meanwhile, a walk page by page that resolves       *)
(* without a warning misses fewer items than a page holds: a larger loss    *)
(* would have emptied its last page.  In a wave the last page may be        *)
(* answered before the loss.                                                *)
Missed == {i \in ToSet(before) \cap ToSet(items) : i \notin ToSet(result)}
QuietLossIsSmall ==
  pc = "resolved" /\ how # "all" /\ ~warned /\ ~grown => Cardinality(Missed) < PageSize

(* A walk that a write of this client overtook is not cached, however late  *)
(* its pages arrive: an entry has what every completed write left.          *)
EntryFollowsWrites == entry # None => entry.writes >= written.done

(* The page count is read once, so that the walk ends while the collection  *)
(* grows.                                                                   *)
WalkEnds == pc = "first" ~> pc \in Ended
=============================================================================
