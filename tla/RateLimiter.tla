---------------------------- MODULE RateLimiter ----------------------------
(***************************************************************************)
(* The rate limiter of one user (RateLimiter.ts) and the calls it holds    *)
(* back.  A call enters checkRateLimit, sleeps there as often as it is     *)
(* told to, queues for the minimum delay, is sent, and its answer tells    *)
(* the limiter more.  Everything between two sleeps is one step.           *)
(*                                                                         *)
(* Instants are kept as the time left until them, which Tick takes off     *)
(* all of them: a deadline that has passed is 0, so clearing a block whose *)
(* end has passed changes nothing here.  A sleeper may wake late, never    *)
(* early: so timers behave below the 2^31 ms that setTimeout can count.    *)
(***************************************************************************)
EXTENDS FetchParameters, Sequences, SequencesExt

VARIABLES
  blocked,    \* of each group: how long its block lasts
  remain,     \* the error budget: "ample", "low" or "spent"
  reset,      \* the reset the last report of the budget came with
  exhausted,  \* how long the window of a spent budget lasts
  since,      \* time since the last request went out, counted up to MinDelay
  pc,         \* where each call is
  left,       \* how long a sleeping call sleeps on
  round,      \* how often a call slept on a block
  chain,      \* minDelayChain: the calls that queue to be sent
  window,     \* how long the spent budget's window lasts by the shortest account
              \* an answer gave of it since the budget was reported spent
  owed,       \* of the window a call saw the budget spent in: how much is left
  late        \* the calls whose group was blocked after they had checked

limiter == <<blocked, remain, reset, exhausted, since>>
calls == <<pc, left, round, chain>>
ghosts == <<window, owed, late>>
vars == <<limiter, calls, ghosts>>

Time == 0 .. MaxWait
Budget == {"ample", "low", "spent"}
Asleep == {"block", "budget", "bucket", "spacing"}
Label == {"idle", "queued", "away"} \cup Asleep
Lesser(a, b) == IF a < b THEN a ELSE b
Left(t) == IF t = 0 THEN 0 ELSE t - 1

TypeOK ==
  /\ blocked \in [Group -> Time]
  /\ remain \in Budget
  /\ reset \in Time /\ exhausted \in Time
  /\ since \in 0 .. MinDelay
  /\ pc \in [Call -> Label]
  /\ left \in [Call -> Nat]
  /\ round \in [Call -> 0 .. Rounds]
  /\ chain \in Seq(Call)
  /\ window \in Time
  /\ owed \in [Call -> Time]
  /\ late \subseteq Call

Init ==
  /\ blocked = [g \in Group |-> 0]
  /\ remain = "ample" /\ reset = 0 /\ exhausted = 0
  /\ since = MinDelay
  /\ pc = [c \in Call |-> "idle"]
  /\ left = [c \in Call |-> 0]
  /\ round = [c \in Call |-> 0]
  /\ chain = <<>>
  /\ window = 0
  /\ owed = [c \in Call |-> 0]
  /\ late = {}

-----------------------------------------------------------------------------
(* checkRateLimit, from the first of its waits to the last. *)

Sleep(c, label, t) ==
  /\ pc' = [pc EXCEPT ![c] = label]
  /\ left' = [left EXCEPT ![c] = t]
  /\ UNCHANGED chain

\* Mutant: the delay is computed when the call arrives, not when its turn comes.
QueueAtOnce(c) ==
  /\ pc' = [pc EXCEPT ![c] = "spacing"]
  /\ left' = [left EXCEPT ![c] = MinDelay - since]
  /\ chain' = Append(chain, c)

(* enforceMinDelay: the call queues behind the ones before it. *)
Queue(c) ==
  /\ pc' = [pc EXCEPT ![c] = "queued"]
  /\ chain' = Append(chain, c)
  /\ UNCHANGED left

(* A bucket with tokens left is no reason to wait; a low or an empty one    *)
(* delays the call by at most a second.                                     *)
LookAtBucket(c) == Queue(c) \/ Sleep(c, "bucket", 1)

BudgetWait == CASE remain = "spent" -> reset
                [] remain = "low"   -> Lesser(reset, LowWait)
                [] OTHER            -> 0

LookAtBudget(c) ==
  /\ owed' = [owed EXCEPT ![c] = window]
  /\ IF BudgetWait > 0 THEN Sleep(c, "budget", BudgetWait) ELSE LookAtBucket(c)

IsBlocked(c) == blocked[GroupOf[c]] > 0

SleepOnBlock(c) ==
  /\ Sleep(c, "block", blocked[GroupOf[c]])
  /\ round' = [round EXCEPT ![c] = @ + 1]
  /\ UNCHANGED owed

PassBlock(c) ==
  /\ LookAtBudget(c)
  /\ round' = [round EXCEPT ![c] = 0]

(* A call enters checkRateLimit. *)
Enter(c) ==
  /\ pc[c] = "idle"
  /\ late' = late \ {c}
  /\ IF IsBlocked(c) THEN SleepOnBlock(c) ELSE PassBlock(c)
  /\ UNCHANGED <<limiter, window>>

Wakes(c, label) == pc[c] = label /\ left[c] = 0

\* Mutant: the block is not looked at again after the sleep.
WakeFromBlockUnchecked(c) ==
  /\ Wakes(c, "block")
  /\ PassBlock(c)
  /\ UNCHANGED <<limiter, window, late>>

\* Mutant: the rounds are not counted.
WakeFromBlockForever(c) ==
  /\ Wakes(c, "block")
  /\ IF IsBlocked(c)
     THEN Sleep(c, "block", blocked[GroupOf[c]]) /\ UNCHANGED <<round, owed>>
     ELSE PassBlock(c)
  /\ UNCHANGED <<limiter, window, late>>

\* Mutant: one round too many.
WakeFromBlockOnceMore(c) ==
  /\ Wakes(c, "block")
  /\ IF IsBlocked(c) THEN round[c] <= Rounds /\ SleepOnBlock(c) ELSE PassBlock(c)
  /\ UNCHANGED <<limiter, window, late>>

(* The call slept until the block it saw ended, and looks again. *)
WakeFromBlock(c) ==
  /\ Wakes(c, "block")
  /\ IF IsBlocked(c) THEN round[c] < Rounds /\ SleepOnBlock(c) ELSE PassBlock(c)
  /\ UNCHANGED <<limiter, window, late>>

(* After the last round the call fails with a 429 of its own. *)
Refuse(c) ==
  /\ Wakes(c, "block") /\ IsBlocked(c) /\ round[c] = Rounds
  /\ pc' = [pc EXCEPT ![c] = "idle"]
  /\ round' = [round EXCEPT ![c] = 0]
  /\ UNCHANGED <<limiter, left, chain, ghosts>>

WakeFromBudget(c) ==
  /\ Wakes(c, "budget")
  /\ LookAtBucket(c)
  /\ UNCHANGED <<limiter, round, ghosts>>

WakeFromBucket(c) ==
  /\ Wakes(c, "bucket")
  /\ Queue(c)
  /\ UNCHANGED <<limiter, round, ghosts>>

(* The call's turn in the queue: it waits until minDelayMs after the last   *)
(* request.                                                                 *)
TakeTurn(c) ==
  /\ pc[c] = "queued" /\ chain # <<>> /\ Head(chain) = c
  /\ Sleep(c, "spacing", MinDelay - since)
  /\ UNCHANGED <<limiter, round, ghosts>>

(* checkRateLimit returns and the request goes out. *)
Send(c) ==
  /\ Wakes(c, "spacing")
  /\ pc' = [pc EXCEPT ![c] = "away"]
  /\ chain' = Tail(chain)
  /\ since' = 0
  /\ late' = late \ {c}
  /\ UNCHANGED <<blocked, remain, reset, exhausted, left, round, window, owed>>

Step(c) ==
  \/ WakeFromBlock(c) \/ WakeFromBudget(c) \/ WakeFromBucket(c)
  \/ TakeTurn(c) \/ Send(c)

-----------------------------------------------------------------------------
(* updateFromResponse.  The answer may name another group than the          *)
(* endpoint's; a header that blocks it for `until' replaces its block,      *)
(* and without one `until' is the block as it is.                           *)
Block(g, refused, until) ==
  LET block == IF refused /\ until = 0 THEN Penalty ELSE until
      checked == {c \in Call : GroupOf[c] = g /\ pc[c] \notin {"idle", "block", "away"}}
  IN /\ blocked' = [blocked EXCEPT ![g] = block]
     /\ late' = IF block > 0 THEN late \cup checked ELSE late

Believed(budget, seconds) ==
  /\ remain' = IF budget = "unsaid" THEN remain ELSE budget
  /\ reset' = seconds
  /\ exhausted' = IF budget = "spent" THEN seconds ELSE exhausted

\* Mutant: a late report of budget left is believed.
ReportBelieved(budget, seconds) == Believed(budget, seconds)

(* The headers of the error budget, each of which may be missing: `budget'  *)
(* is then "unsaid", and `seconds' the reset as it is.  A report of budget  *)
(* left inside the window of a spent one came late and is ignored; an       *)
(* answer that names only the reset never is.                               *)
Report(budget, seconds) ==
  IF budget \in {"ample", "low"} /\ remain = "spent" /\ exhausted > 0
  THEN UNCHANGED <<remain, reset, exhausted>>
  ELSE Believed(budget, seconds)

Account(budget, seconds) ==
  CASE budget = "spent"  -> seconds
    [] budget = "unsaid" -> Lesser(window, seconds)
    [] OTHER             -> window

Answer(c, g, refused, until) ==
  /\ pc[c] = "away"
  /\ pc' = [pc EXCEPT ![c] = "idle"]
  /\ Block(g, refused, until)
  /\ \E budget \in Budget \cup {"unsaid"}, seconds \in Time :
       Report(budget, seconds) /\ window' = Account(budget, seconds)
  /\ UNCHANGED <<since, left, round, chain, owed>>

(* A network failure or a timeout tells the limiter nothing. *)
NoAnswer(c) ==
  /\ pc[c] = "away"
  /\ pc' = [pc EXCEPT ![c] = "idle"]
  /\ UNCHANGED <<limiter, left, round, chain, ghosts>>

Return(c) ==
  \/ \E g \in Group, refused \in BOOLEAN, until \in Time : Answer(c, g, refused, until)
  \/ NoAnswer(c)

(* A unit of time passes. *)
Tick ==
  /\ blocked' = [g \in Group |-> Left(blocked[g])]
  /\ exhausted' = Left(exhausted)
  /\ since' = Lesser(since + 1, MinDelay)
  /\ left' = [c \in Call |-> Left(left[c])]
  /\ window' = Left(window)
  /\ owed' = [c \in Call |-> Left(owed[c])]
  /\ UNCHANGED <<remain, reset, pc, round, chain, late>>

-----------------------------------------------------------------------------
Next ==
  \/ \E c \in Call : Enter(c) \/ Step(c) \/ Refuse(c) \/ Return(c)
  \/ Tick

Spec == Init /\ [][Next]_vars

(* Time passes, timers fire and the request timeout ends every request.     *)
(* Nobody has to call.                                                      *)
FairSpec ==
  /\ Spec
  /\ WF_vars(Tick)
  /\ \A c \in Call : WF_vars(Step(c) \/ Refuse(c)) /\ WF_vars(Return(c))

-----------------------------------------------------------------------------
Sent(c) == pc[c] # "away" /\ pc'[c] = "away"

(* Requests of all groups together go out minDelayMs apart, however many    *)
(* calls wake at the same time.                                             *)
SendsAreSpaced == [][\A c \in Call : Sent(c) => since >= MinDelay]_vars

(* A call that finds the error budget spent is not sent in that window,     *)
(* whatever answers arrive meanwhile and in whichever order.  The window    *)
(* ends when the report of the spent budget says, or earlier if a later     *)
(* answer that names only a reset says so: that one is taken at its word    *)
(* although a report of budget left is not.                                 *)
SpentBudgetIsWaitedOut == [][\A c \in Call : Sent(c) => owed[c] = 0]_vars

(* A call is held back by the block of its group, also by one that is       *)
(* renewed while it sleeps.  Past the check only a block that an answer set *)
(* since then can stand.                                                    *)
OnlyLateBlocksAreMissed ==
  \A c \in Call :
    IsBlocked(c) /\ pc[c] \in {"budget", "bucket", "queued", "spacing"} => c \in late

(* Every call that enters is sent or refused: blocks that are renewed for   *)
(* ever do not hold it for ever.                                            *)
CheckEnds == \A c \in Call : pc[c] \notin {"idle", "away"} ~> pc[c] \in {"idle", "away"}
=============================================================================
