------------------------- MODULE RateLimiterProofs -------------------------
(* Theorems of RateLimiter, for any calls, groups, waits and rounds. *)
EXTENDS RateLimiter, TLAPS

USE DEF Time, Budget, Asleep, Label

LEMMA LeftType == \A t \in Nat : Left(t) \in Nat /\ Left(t) <= t /\ (t > 0 => Left(t) = t - 1)
BY DEF Left

LEMMA TimeType == Time \subseteq Nat /\ 0 \in Time /\ Penalty \in Time
BY TimeAssumption

LEMMA BudgetWaitType == TypeOK => BudgetWait \in Nat
BY TimeAssumption DEF TypeOK, BudgetWait, Lesser

(* A call in the queue is appended to it. *)
LEMMA QueueType ==
  ASSUME TypeOK, NEW c \in Call, LookAtBucket(c)
  PROVE  /\ pc' \in [Call -> Label] /\ left' \in [Call -> Nat] /\ chain' \in Seq(Call)
         /\ pc'[c] \in {"queued", "bucket"}
         /\ \A d \in Call : d # c => pc'[d] = pc[d] /\ left'[d] = left[d]
         /\ chain # <<>> => chain' # <<>> /\ Head(chain') = Head(chain)
<1>1. CASE Queue(c)
  <2>1. Append(chain, c) \in Seq(Call) /\ (chain # <<>> => Head(Append(chain, c)) = Head(chain))
        /\ Append(chain, c) # <<>>
    <3>1. chain \in Seq(Call)
      BY DEF TypeOK
    <3>2. /\ Append(chain, c) \in Seq(Call) /\ Len(Append(chain, c)) = Len(chain) + 1
          /\ \A i \in 1 .. Len(chain) : Append(chain, c)[i] = chain[i]
      BY <3>1
    <3>3. Len(chain) \in Nat /\ (chain # <<>> => 1 \in 1 .. Len(chain) /\ Head(chain) = chain[1])
      BY <3>1
    <3>4. Append(chain, c) # <<>> /\ Head(Append(chain, c)) = Append(chain, c)[1]
      BY <3>2, <3>3
    <3> QED BY <3>2, <3>3, <3>4
  <2> QED BY <1>1, <2>1 DEF Queue, TypeOK
<1>2. CASE Sleep(c, "bucket", 1)
  BY <1>2 DEF Sleep, TypeOK
<1> QED BY <1>1, <1>2 DEF LookAtBucket

LEMMA PassBlockType ==
  ASSUME TypeOK, NEW c \in Call, PassBlock(c)
  PROVE  /\ pc' \in [Call -> Label] /\ left' \in [Call -> Nat] /\ chain' \in Seq(Call)
         /\ round' \in [Call -> 0 .. Rounds]
         /\ owed' = [owed EXCEPT ![c] = window]
         /\ \/ pc'[c] = "budget" /\ left'[c] = BudgetWait
            \/ pc'[c] \in {"queued", "bucket"} /\ ~(BudgetWait > 0)
         /\ \A d \in Call : d # c => pc'[d] = pc[d] /\ left'[d] = left[d]
         /\ chain # <<>> => chain' # <<>> /\ Head(chain') = Head(chain)
<1>1. round' \in [Call -> 0 .. Rounds]
  BY RoundsAssumption DEF PassBlock, TypeOK
<1>2. CASE BudgetWait > 0
  BY <1>1, <1>2, BudgetWaitType DEF PassBlock, LookAtBudget, Sleep, TypeOK
<1>3. CASE ~(BudgetWait > 0)
  BY <1>1, <1>3, QueueType DEF PassBlock, LookAtBudget
<1> QED BY <1>2, <1>3

LEMMA SleepOnBlockType ==
  ASSUME TypeOK, NEW c \in Call, SleepOnBlock(c), round[c] < Rounds \/ round[c] = 0
  PROVE  /\ pc' = [pc EXCEPT ![c] = "block"] /\ left' \in [Call -> Nat]
         /\ round' \in [Call -> 0 .. Rounds]
         /\ \A d \in Call : d # c => left'[d] = left[d]
         /\ UNCHANGED <<chain, owed>>
<1>1. blocked[GroupOf[c]] \in Nat
  BY TimeType, GroupAssumption DEF TypeOK
<1>2. round[c] + 1 \in 0 .. Rounds
  BY RoundsAssumption DEF TypeOK
<1> QED BY <1>1, <1>2 DEF SleepOnBlock, Sleep, TypeOK

(* A call that is not in checkRateLimit has counted no rounds.              *)
Fresh == \A c \in Call : pc[c] # "block" => round[c] = 0

(* The wait for the budget lasts as long as the window of a spent one: no   *)
(* report of budget left is believed while exhaustedUntil stands, and no    *)
(* reset is stored that falls short of the window.                          *)
BudgetKept ==
  /\ exhausted > 0 => remain = "spent"
  /\ window <= exhausted /\ window <= reset

WindowKept ==
  /\ BudgetKept
  /\ \A c \in Call : pc[c] = "budget" => owed[c] <= left[c]
  /\ \A c \in Call : pc[c] \in {"bucket", "queued", "spacing"} => owed[c] = 0

(* The call at the head of the queue is the only one that waits out the     *)
(* minimum delay, and it waits long enough.                                 *)
HeadWaits ==
  \A c \in Call :
    pc[c] = "spacing" => chain # <<>> /\ c = Head(chain) /\ since + left[c] >= MinDelay

Ind == TypeOK /\ Fresh /\ WindowKept /\ HeadWaits /\ OnlyLateBlocksAreMissed

LEMMA IndInit == Init => Ind
BY TimeType, TimeAssumption, RoundsAssumption
   DEF Init, Ind, TypeOK, Fresh, WindowKept, BudgetKept, HeadWaits, OnlyLateBlocksAreMissed, IsBlocked

-----------------------------------------------------------------------------
LEMMA PassBlockStep ==
  ASSUME Ind, NEW c \in Call, PassBlock(c), ~IsBlocked(c), pc[c] \in {"idle", "block"},
         UNCHANGED <<limiter, window>>, late' \in {late, late \ {c}}
  PROVE  Ind'
<1>1. window \in Nat /\ owed'[c] = window /\ (\A d \in Call : d # c => owed'[d] = owed[d])
  BY PassBlockType, TimeType DEF Ind, TypeOK
<1>2. owed' \in [Call -> Time]
  <2>1. owed' = [owed EXCEPT ![c] = window]
    BY PassBlockType DEF Ind
  <2>2. owed \in [Call -> Time] /\ window \in Time
    BY DEF Ind, TypeOK
  <2> QED BY <2>1, <2>2
<1>3. TypeOK'
  BY <1>2, PassBlockType DEF Ind, TypeOK, limiter
<1>4. Fresh'
  BY DEF PassBlock, Ind, TypeOK, Fresh, LookAtBudget, LookAtBucket, Queue, Sleep
<1>5. WindowKept'
  <2>1. window <= BudgetWait
    <3>1. exhausted \in Nat
      BY TimeType DEF Ind, TypeOK
    <3>2. CASE window > 0
      BY <1>1, <3>1, <3>2 DEF Ind, WindowKept, BudgetKept, BudgetWait
    <3>3. CASE ~(window > 0)
      BY <1>1, <3>3, BudgetWaitType DEF Ind
    <3> QED BY <3>2, <3>3
  <2>2. ~(BudgetWait > 0) => window = 0
    BY <1>1, <2>1, BudgetWaitType DEF Ind
  <2> QED BY <1>1, <2>1, <2>2, PassBlockType DEF Ind, WindowKept, BudgetKept, limiter
<1>6. HeadWaits'
  BY PassBlockType DEF Ind, HeadWaits, limiter
<1>7. OnlyLateBlocksAreMissed'
  BY PassBlockType DEF Ind, OnlyLateBlocksAreMissed, IsBlocked, limiter
<1> QED BY <1>3, <1>4, <1>5, <1>6, <1>7 DEF Ind

LEMMA SleepOnBlockStep ==
  ASSUME Ind, NEW c \in Call, SleepOnBlock(c), pc[c] \in {"idle", "block"},
         pc[c] = "block" => round[c] < Rounds,
         UNCHANGED <<limiter, window>>, late' \in {late, late \ {c}}
  PROVE  Ind'
<1>1. round[c] < Rounds \/ round[c] = 0
  BY DEF Ind, Fresh
<1>2. TypeOK'
  BY <1>1, SleepOnBlockType DEF Ind, TypeOK, limiter
<1>3. /\ pc'[c] = "block" /\ UNCHANGED <<chain, owed>>
      /\ \A d \in Call : d # c => pc'[d] = pc[d] /\ left'[d] = left[d] /\ round'[d] = round[d]
  BY <1>1, SleepOnBlockType DEF Ind, TypeOK, SleepOnBlock
<1> QED
  BY <1>2, <1>3 DEF Ind, Fresh, WindowKept, BudgetKept, HeadWaits, OnlyLateBlocksAreMissed, IsBlocked, limiter

LEMMA LookAtBucketStep ==
  ASSUME Ind, NEW c \in Call, LookAtBucket(c), pc[c] \in {"budget", "bucket"}, left[c] = 0,
         UNCHANGED <<limiter, round, ghosts>>
  PROVE  Ind'
<1>1. TypeOK'
  BY QueueType DEF Ind, TypeOK, limiter, ghosts
<1>2. owed[c] = 0
  BY TimeType DEF Ind, WindowKept, TypeOK
<1> QED
  BY <1>1, <1>2, QueueType
     DEF Ind, Fresh, WindowKept, BudgetKept, HeadWaits, OnlyLateBlocksAreMissed, IsBlocked, limiter, ghosts

LEMMA TakeTurnStep == ASSUME Ind, NEW c \in Call, TakeTurn(c) PROVE Ind'
<1>1. since \in Nat /\ MinDelay - since \in Nat /\ since + (MinDelay - since) = MinDelay
  BY TimeAssumption DEF Ind, TypeOK
<1>2. /\ pc' = [pc EXCEPT ![c] = "spacing"] /\ left' = [left EXCEPT ![c] = MinDelay - since]
      /\ pc[c] = "queued" /\ Head(chain) = c /\ UNCHANGED <<limiter, round, ghosts, chain>>
  BY DEF TakeTurn, Sleep
<1>3. chain # <<>>
  BY DEF TakeTurn
<1>4. TypeOK'
  BY <1>1, <1>2 DEF Ind, TypeOK, limiter, ghosts
<1> QED
  BY <1>1, <1>2, <1>3, <1>4, TimeAssumption
     DEF Ind, TypeOK, Fresh, WindowKept, BudgetKept, HeadWaits, OnlyLateBlocksAreMissed, IsBlocked, limiter, ghosts

LEMMA SendStep == ASSUME Ind, NEW c \in Call, Send(c) PROVE Ind'
<1>1. /\ pc' = [pc EXCEPT ![c] = "away"] /\ chain' = Tail(chain) /\ since' = 0
      /\ late' = late \ {c} /\ pc[c] = "spacing"
      /\ UNCHANGED <<blocked, remain, reset, exhausted, left, round, window, owed>>
  BY DEF Send, Wakes
<1>2. chain # <<>> /\ c = Head(chain)
  BY <1>1 DEF Ind, HeadWaits
<1>3. Tail(chain) \in Seq(Call)
  BY <1>2 DEF Ind, TypeOK
<1>4. TypeOK'
  BY <1>1, <1>3, TimeAssumption DEF Ind, TypeOK
<1>5. \A d \in Call : pc'[d] # "spacing"
  BY <1>1, <1>2 DEF Ind, TypeOK, HeadWaits
<1> QED
  BY <1>1, <1>4, <1>5
     DEF Ind, TypeOK, Fresh, WindowKept, BudgetKept, HeadWaits, OnlyLateBlocksAreMissed, IsBlocked

LEMMA RefuseStep == ASSUME Ind, NEW c \in Call, Refuse(c) PROVE Ind'
<1>1. TypeOK'
  BY RoundsAssumption DEF Ind, TypeOK, Refuse, limiter, ghosts
<1> QED
  BY <1>1 DEF Ind, TypeOK, Fresh, WindowKept, BudgetKept, HeadWaits,
              OnlyLateBlocksAreMissed, IsBlocked,
              Refuse, limiter, ghosts

LEMMA ReportStep ==
  ASSUME TypeOK, BudgetKept,
         NEW budget \in Budget \cup {"unsaid"}, NEW seconds \in Time, Report(budget, seconds),
         window' = Account(budget, seconds)
  PROVE  /\ remain' \in Budget /\ reset' \in Time /\ exhausted' \in Time /\ window' \in Time
         /\ BudgetKept'
<1>1. /\ exhausted \in Nat /\ reset \in Nat /\ window \in Nat /\ seconds \in Nat
      /\ window \in Time /\ Lesser(window, seconds) \in {window, seconds}
      /\ Lesser(window, seconds) <= window /\ Lesser(window, seconds) <= seconds
  BY TimeType DEF TypeOK, Lesser
<1>2. CASE budget = "spent"
  BY <1>1, <1>2 DEF Report, Believed, Account, TypeOK, BudgetKept
<1>3. CASE budget = "unsaid"
  BY <1>1, <1>3 DEF Report, Believed, Account, TypeOK, BudgetKept
<1>4. CASE budget \in {"ample", "low"}
  <2>1. window' = window
    BY <1>4 DEF Account
  <2>2. CASE remain = "spent" /\ exhausted > 0
    BY <1>1, <1>4, <2>1, <2>2 DEF Report, TypeOK, BudgetKept
  <2>3. CASE ~(remain = "spent" /\ exhausted > 0)
    <3>1. exhausted = 0 /\ window = 0
      BY <1>1, <2>3 DEF BudgetKept
    <3> QED BY <1>1, <1>4, <2>1, <2>3, <3>1 DEF Report, Believed, TypeOK, BudgetKept
  <2> QED BY <2>2, <2>3
<1> QED BY <1>2, <1>3, <1>4

LEMMA AnswerStep ==
  ASSUME Ind, NEW c \in Call, NEW g \in Group, NEW refused \in BOOLEAN, NEW until \in Time,
         Answer(c, g, refused, until)
  PROVE  Ind'
<1> DEFINE block == IF refused /\ until = 0 THEN Penalty ELSE until
           checked == {d \in Call : GroupOf[d] = g /\ pc[d] \notin {"idle", "block", "away"}}
<1>1. /\ pc' = [pc EXCEPT ![c] = "idle"] /\ pc[c] = "away"
      /\ blocked' = [blocked EXCEPT ![g] = block]
      /\ late' = IF block > 0 THEN late \cup checked ELSE late
      /\ UNCHANGED <<since, left, round, chain, owed>>
  BY DEF Answer, Block
<1>2. /\ remain' \in Budget /\ reset' \in Time /\ exhausted' \in Time /\ window' \in Time
      /\ BudgetKept'
  BY ReportStep DEF Ind, WindowKept, Answer
<1>3. block \in Time
  BY TimeType
<1>4. checked \subseteq Call
  OBVIOUS
<1>5. TypeOK'
  <2> HIDE DEF block, checked
  <2> QED BY <1>1, <1>2, <1>3, <1>4 DEF Ind, TypeOK
<1>6. OnlyLateBlocksAreMissed'
  <2> SUFFICES ASSUME NEW d \in Call, blocked'[GroupOf[d]] > 0,
                      pc'[d] \in {"budget", "bucket", "queued", "spacing"}
               PROVE  d \in late'
    BY DEF OnlyLateBlocksAreMissed, IsBlocked
  <2>1. d # c /\ pc[d] = pc'[d] /\ GroupOf[d] \in Group
    BY <1>1, GroupAssumption DEF Ind, TypeOK
  <2>2. CASE GroupOf[d] = g
    <3>1. block > 0 /\ d \in checked
      BY <1>1, <2>1, <2>2 DEF Ind, TypeOK
    <3> QED BY <1>1, <3>1
  <2>3. CASE GroupOf[d] # g
    <3>1. blocked[GroupOf[d]] > 0
      BY <1>1, <2>1, <2>3 DEF Ind, TypeOK
    <3> QED BY <1>1, <2>1, <3>1 DEF Ind, OnlyLateBlocksAreMissed, IsBlocked
  <2> QED BY <2>2, <2>3
<1>7. Fresh' /\ WindowKept' /\ HeadWaits'
  <2> HIDE DEF block, checked
  <2> QED BY <1>1, <1>2 DEF Ind, TypeOK, Fresh, WindowKept, BudgetKept, HeadWaits
<1> QED BY <1>5, <1>6, <1>7 DEF Ind

LEMMA NoAnswerStep == ASSUME Ind, NEW c \in Call, NoAnswer(c) PROVE Ind'
BY DEF Ind, TypeOK, Fresh, WindowKept, BudgetKept, HeadWaits, OnlyLateBlocksAreMissed, IsBlocked, NoAnswer,
       limiter, ghosts

LEMMA TickStep == ASSUME Ind, Tick PROVE Ind'
<1>1. \A t \in Time : Left(t) \in Time
  BY LeftType, TimeAssumption DEF Left
<1>2. /\ blocked' \in [Group -> Time] /\ exhausted' \in Time
      /\ left' \in [Call -> Nat] /\ owed' \in [Call -> Time] /\ window' \in Time
      /\ \A c \in Call : left'[c] = Left(left[c]) /\ owed'[c] = Left(owed[c])
      /\ \A g \in Group : blocked'[g] = Left(blocked[g])
  BY <1>1, LeftType DEF Tick, Ind, TypeOK
<1>3. since' \in 0 .. MinDelay /\ (since' = since + 1 \/ since' = MinDelay)
  BY TimeAssumption DEF Tick, Ind, TypeOK, Lesser
<1>4. TypeOK'
  BY <1>2, <1>3 DEF Tick, Ind, TypeOK
<1>5. WindowKept'
  <2>1. \A a, b \in Nat : a <= b => Left(a) <= Left(b)
    BY DEF Left
  <2>2. Left(0) = 0
    BY DEF Left
  <2>3. exhausted \in Nat /\ reset \in Nat
    BY TimeType DEF Ind, TypeOK
  <2>4. exhausted' = Left(exhausted) /\ exhausted' <= exhausted
    BY <2>3, LeftType DEF Tick
  <2>5. BudgetKept'
    <3>1. /\ window' = Left(window) /\ exhausted' = Left(exhausted) /\ UNCHANGED <<remain, reset>>
          /\ window \in Nat /\ window' <= window
      BY LeftType, TimeType DEF Tick, Ind, TypeOK
    <3>2. Left(window) <= Left(exhausted)
      BY <2>1, <2>3, <3>1 DEF Ind, WindowKept, BudgetKept
    <3> QED BY <2>3, <2>4, <3>1, <3>2, <1>2, TimeType DEF Ind, WindowKept, BudgetKept, TypeOK
  <2>6. \A c \in Call : owed[c] \in Nat /\ left[c] \in Nat
    BY TimeType DEF Ind, TypeOK
  <2> QED BY <1>2, <2>1, <2>2, <2>5, <2>6 DEF Tick, Ind, WindowKept
<1>6. HeadWaits'
  <2> SUFFICES ASSUME NEW c \in Call, pc'[c] = "spacing"
               PROVE  chain' # <<>> /\ c = Head(chain') /\ since' + left'[c] >= MinDelay
    BY DEF HeadWaits
  <2>1. chain' = chain /\ chain # <<>> /\ c = Head(chain) /\ since + left[c] >= MinDelay
    BY DEF Tick, Ind, HeadWaits
  <2>2. since \in Nat /\ left[c] \in Nat /\ left'[c] = Left(left[c]) /\ MinDelay \in Nat
    BY <1>2, TimeAssumption DEF Ind, TypeOK
  <2>3. left'[c] \in Nat /\ (left[c] > 0 => left'[c] = left[c] - 1)
    BY <2>2, LeftType
  <2>4. left[c] = 0 => since >= MinDelay
    BY <2>1, <2>2
  <2>5. since' + left'[c] >= MinDelay
    BY <1>3, <2>1, <2>2, <2>3, <2>4
  <2> QED BY <2>1, <2>5
<1>7. OnlyLateBlocksAreMissed'
  <2>1. \A t \in Time : Left(t) > 0 => t > 0
    BY DEF Left
  <2>2. \A c \in Call : IsBlocked(c)' => IsBlocked(c)
    BY <1>2, <2>1, GroupAssumption DEF IsBlocked, Ind, TypeOK
  <2> QED BY <2>2 DEF Tick, Ind, OnlyLateBlocksAreMissed
<1>8. Fresh'
  BY DEF Tick, Ind, Fresh
<1> QED BY <1>4, <1>5, <1>6, <1>7, <1>8 DEF Ind

LEMMA IndStep == Ind /\ [Next]_vars => Ind'
<1> SUFFICES ASSUME Ind, [Next]_vars PROVE Ind'
  OBVIOUS
<1>1. ASSUME NEW c \in Call, Enter(c) PROVE Ind'
  BY <1>1, PassBlockStep, SleepOnBlockStep DEF Enter
<1>2. ASSUME NEW c \in Call, WakeFromBlock(c) PROVE Ind'
  BY <1>2, PassBlockStep, SleepOnBlockStep DEF WakeFromBlock, Wakes
<1>3. ASSUME NEW c \in Call, WakeFromBudget(c) \/ WakeFromBucket(c) PROVE Ind'
  BY <1>3, LookAtBucketStep DEF WakeFromBudget, WakeFromBucket, Wakes, LookAtBucket
<1>4. ASSUME NEW c \in Call, Return(c) PROVE Ind'
  BY <1>4, AnswerStep, NoAnswerStep DEF Return
<1>5. CASE UNCHANGED vars
  BY <1>5 DEF vars, limiter, calls, ghosts, Ind, TypeOK, Fresh, WindowKept, BudgetKept, HeadWaits,
              OnlyLateBlocksAreMissed, IsBlocked
<1> QED
  BY <1>1, <1>2, <1>3, <1>4, <1>5, TakeTurnStep, SendStep, RefuseStep, TickStep DEF Next, Step

LEMMA IndHolds == Spec => []Ind
BY IndInit, IndStep, PTL DEF Spec

(* Type correctness of the rate limiter and its calls. *)
THEOREM TypeCorrect == Spec => []TypeOK
BY IndHolds, PTL DEF Ind

(* Past the check only a block that an answer set since then can stand.     *)
THEOREM OnlyLateBlocksAreEverMissed == Spec => []OnlyLateBlocksAreMissed
BY IndHolds, PTL DEF Ind

LEMMA OnlySendSends == ASSUME Ind, Next, NEW c \in Call, Sent(c) PROVE Send(c)
<1>1. ASSUME NEW d \in Call, Enter(d) \/ WakeFromBlock(d) PROVE FALSE
  <2>1. PassBlock(d) \/ SleepOnBlock(d)
    BY <1>1 DEF Enter, WakeFromBlock
  <2>2. CASE PassBlock(d)
    BY <2>2, PassBlockType DEF Ind, Sent
  <2>3. CASE SleepOnBlock(d)
    BY <2>3 DEF Ind, TypeOK, SleepOnBlock, Sleep, Sent
  <2> QED BY <2>1, <2>2, <2>3
<1>2. ASSUME NEW d \in Call, LookAtBucket(d) PROVE FALSE
  BY <1>2, QueueType DEF Ind, Sent
<1>3. ASSUME NEW d \in Call, TakeTurn(d) \/ Refuse(d) \/ Return(d) PROVE FALSE
  BY <1>3 DEF TakeTurn, Sleep, Refuse, Return, Answer, NoAnswer, Ind, TypeOK, Sent
<1>4. ~Tick
  BY DEF Tick, Sent
<1>5. ASSUME NEW d \in Call, Send(d) PROVE Send(c)
  BY <1>5 DEF Send, Sent, Ind, TypeOK
<1> QED
  BY <1>1, <1>2, <1>3, <1>4, <1>5
     DEF Next, Step, WakeFromBudget, WakeFromBucket, LookAtBucket

(* Requests go out at least minDelayMs apart. *)
THEOREM SendsAreAlwaysSpaced == Spec => SendsAreSpaced
<1>1. Ind /\ [Next]_vars => [\A c \in Call : Sent(c) => since >= MinDelay]_vars
  <2> SUFFICES ASSUME Ind, Next, NEW c \in Call, Sent(c) PROVE since >= MinDelay
    OBVIOUS
  <2>1. Send(c)
    BY OnlySendSends
  <2> QED BY <2>1, TimeAssumption DEF Send, Wakes, Ind, HeadWaits, TypeOK
<1> QED BY IndHolds, <1>1, PTL DEF Spec, SendsAreSpaced

(* A call that finds the error budget spent waits its window out. *)
THEOREM SpentBudgetIsAlwaysWaitedOut == Spec => SpentBudgetIsWaitedOut
<1>1. Ind /\ [Next]_vars => [\A c \in Call : Sent(c) => owed[c] = 0]_vars
  <2> SUFFICES ASSUME Ind, Next, NEW c \in Call, Sent(c) PROVE owed[c] = 0
    OBVIOUS
  <2>1. Send(c)
    BY OnlySendSends
  <2> QED BY <2>1 DEF Send, Wakes, Ind, WindowKept
<1> QED BY IndHolds, <1>1, PTL DEF Spec, SpentBudgetIsWaitedOut
=============================================================================
