------------------------- MODULE SingleFetchProofs -------------------------
(***************************************************************************)
(* Theorems of CircuitBreaker, for any number of calls and any thresholds, *)
(* and then of SingleFetch, for any calls, groups and settings: a fetch is *)
(* a behaviour of the circuit and of the limiter, so that what is proved   *)
(* of each of them (here, and in RateLimiterProofs) holds of it.           *)
(***************************************************************************)
EXTENDS SingleFetch, FiniteSetTheorems, TLAPS

(* The state of a circuit that exists follows its record. *)
Ind == TypeOK /\ SlotsAreInUse /\ StateFollowsFailures

LEMMA TypeInit == Init => TypeOK
BY NoCircuitAssumption DEF Init, TypeOK

(* What recordFailure leaves is a circuit that is not half-open, is open    *)
(* from the threshold on, and stays open if it was.                         *)
LEMMA RecordFailureOpens ==
  ASSUME TypeOK, RecordFailure
  PROVE  /\ circuit' \in Circuit /\ circuit' # NoCircuit
         /\ circuit'.state # "half-open"
         /\ circuit'.failures = FailureThreshold => circuit'.state = "open"
         /\ circuit'.failures < FailureThreshold /\ (circuit = NoCircuit \/ State("closed"))
              => circuit'.state = "closed"
         /\ (State("open") \/ State("half-open")) => circuit'.state = "open"
         /\ (State("open") \/ State("half-open")) /\ circuit.failures = FailureThreshold
              => circuit'.failures = FailureThreshold
<1> DEFINE r == IF circuit = NoCircuit THEN NewCircuit ELSE circuit
           n == IF r.failures < FailureThreshold THEN r.failures + 1 ELSE FailureThreshold
           s == IF r.state = "half-open" \/ n = FailureThreshold THEN "open" ELSE r.state
<1>1. r \in Circuit
  BY ThresholdAssumption DEF TypeOK, NewCircuit, Circuit
<1>2. n \in 1 .. FailureThreshold
  BY <1>1, ThresholdAssumption DEF Circuit
<1>3. s \in {"closed", "open"} /\ (r.state = "open" => s = "open")
  BY <1>1 DEF Circuit
<1>4. circuit' = [r EXCEPT !.failures = n, !.state = s]
  BY DEF RecordFailure
<1>5. /\ circuit' \in Circuit
      /\ circuit'.failures = n /\ circuit'.state = s
  <2> HIDE DEF r, n, s
  <2>1. n \in 0 .. FailureThreshold /\ s \in {"closed", "open", "half-open"}
    BY <1>2, <1>3, ThresholdAssumption
  <2> QED BY <1>1, <1>4, <2>1 DEF Circuit
<1>6. circuit' # NoCircuit
  BY <1>5, NoCircuitAssumption
<1>7. circuit'.state # "half-open" /\ (n = FailureThreshold => s = "open")
  BY <1>3, <1>5
<1>8. n < FailureThreshold /\ (circuit = NoCircuit \/ State("closed")) => s = "closed"
  <2>1. circuit = NoCircuit \/ State("closed") => r.state = "closed"
    BY DEF State, NewCircuit
  <2>2. r.state = "closed" /\ n # FailureThreshold => s = "closed"
    OBVIOUS
  <2>3. n < FailureThreshold => n # FailureThreshold
    <3> HIDE DEF n
    <3> QED BY <1>2, ThresholdAssumption
  <2> HIDE DEF r, n, s
  <2> QED BY <2>1, <2>2, <2>3
<1>9. State("open") \/ State("half-open") => r = circuit /\ s = "open"
  <2>1. State("open") \/ State("half-open") => r = circuit /\ r.state \in {"open", "half-open"}
    BY DEF State
  <2>2. r.state = "half-open" => s = "open"
    OBVIOUS
  <2> HIDE DEF r, n, s
  <2> QED BY <1>3, <2>1, <2>2
<1>10. r.failures = FailureThreshold => n = FailureThreshold
  BY ThresholdAssumption
<1> QED
  <2> HIDE DEF r, n, s
  <2> QED BY <1>5, <1>6, <1>7, <1>8, <1>9, <1>10

LEMMA TypeStep == TypeOK /\ [Next]_vars => TypeOK'
<1> SUFFICES ASSUME TypeOK, [Next]_vars PROVE TypeOK'
  OBVIOUS
<1> USE ThresholdAssumption, NoCircuitAssumption
<1> USE DEF TypeOK, Circuit, NewCircuit, State
<1>1. ASSUME NEW c \in Call, AdmitClosed(c) PROVE TypeOK'
  BY <1>1 DEF AdmitClosed
<1>2. ASSUME NEW c \in Call, AdmitFirstProbe(c) PROVE TypeOK'
  <2>1. circuit \in Circuit /\ 1 \in 0 .. HalfOpenMaxAttempts
    BY <1>2 DEF AdmitFirstProbe
  <2>2. [circuit EXCEPT !.state = "half-open", !.attempts = 1] \in Circuit
    BY <2>1
  <2>3. {c} \subseteq Call /\ running \cup {c} \subseteq Call
    OBVIOUS
  <2> QED BY <1>2, <2>2, <2>3 DEF AdmitFirstProbe
<1>3. ASSUME NEW c \in Call, AdmitProbe(c) PROVE TypeOK'
  BY <1>3 DEF AdmitProbe
<1>4. ASSUME NEW c \in Call, Succeed(c) PROVE TypeOK'
  BY <1>4 DEF Succeed
<1>5. ASSUME NEW c \in Call, Fail(c) PROVE TypeOK'
  BY <1>5, RecordFailureOpens DEF Fail, RecordFailure
<1>6. CASE Reset
  BY <1>6 DEF Reset
<1>7. CASE Cleanup
  BY <1>7 DEF Cleanup
<1>8. CASE Elapse
  BY <1>8 DEF Elapse
<1>9. CASE UNCHANGED vars
  BY <1>9 DEF vars
<1> QED
  BY <1>1, <1>2, <1>3, <1>4, <1>5, <1>6, <1>7, <1>8, <1>9 DEF Next, Admit, Report

(* Type correctness of the circuit and its calls. *)
THEOREM TypeCorrect == Spec => []TypeOK
BY TypeInit, TypeStep, PTL DEF Spec

(* A half-open circuit's slots are its running probes, and the state agrees *)
(* with the failure count.                                                  *)
LEMMA IndStep == Ind /\ [Next]_vars => (SlotsAreInUse /\ StateFollowsFailures)'
<1> SUFFICES ASSUME Ind, [Next]_vars PROVE (SlotsAreInUse /\ StateFollowsFailures)'
  OBVIOUS
<1> USE ThresholdAssumption, NoCircuitAssumption
<1> USE DEF Ind, TypeOK, Circuit, NewCircuit, State
<1>1. ASSUME NEW c \in Call, AdmitClosed(c) PROVE (SlotsAreInUse /\ StateFollowsFailures)'
  BY <1>1 DEF AdmitClosed, SlotsAreInUse, StateFollowsFailures
<1>2. ASSUME NEW c \in Call, AdmitFirstProbe(c) PROVE (SlotsAreInUse /\ StateFollowsFailures)'
  <2>1. Cardinality({c}) = 1
    BY FS_Singleton
  <2> QED BY <1>2, <2>1 DEF AdmitFirstProbe, SlotsAreInUse, StateFollowsFailures
<1>3. ASSUME NEW c \in Call, AdmitProbe(c) PROVE (SlotsAreInUse /\ StateFollowsFailures)'
  <2>1. IsFiniteSet(probes)
    BY CallAssumption, FS_Subset
  <2>2. c \notin probes
    BY <1>3 DEF AdmitProbe, SlotsAreInUse
  <2>3. Cardinality(probes \cup {c}) = Cardinality(probes) + 1
    BY <2>1, <2>2, FS_AddElement
  <2> QED BY <1>3, <2>3 DEF AdmitProbe, SlotsAreInUse, StateFollowsFailures
<1>4. ASSUME NEW c \in Call, Succeed(c) PROVE (SlotsAreInUse /\ StateFollowsFailures)'
  BY <1>4 DEF Succeed, SlotsAreInUse, StateFollowsFailures
<1>5. ASSUME NEW c \in Call, Fail(c) PROVE (SlotsAreInUse /\ StateFollowsFailures)'
  BY <1>5, RecordFailureOpens DEF Fail, RecordFailure, SlotsAreInUse, StateFollowsFailures
<1>6. CASE Reset
  BY <1>6 DEF Reset, SlotsAreInUse, StateFollowsFailures
<1>7. CASE Cleanup
  BY <1>7 DEF Cleanup, SlotsAreInUse, StateFollowsFailures
<1>8. CASE Elapse
  BY <1>8 DEF Elapse, SlotsAreInUse, StateFollowsFailures
<1>9. CASE UNCHANGED vars
  BY <1>9 DEF vars, SlotsAreInUse, StateFollowsFailures
<1> QED
  BY <1>1, <1>2, <1>3, <1>4, <1>5, <1>6, <1>7, <1>8, <1>9 DEF Next, Admit, Report

LEMMA IndInit == Init => Ind
BY TypeInit DEF Init, Ind, State, SlotsAreInUse, StateFollowsFailures

LEMMA IndHolds == Spec => []Ind
<1>1. Ind /\ [Next]_vars => Ind'
  BY TypeStep, IndStep DEF Ind
<1> QED BY IndInit, <1>1, PTL DEF Spec

(* The slots of a half-open circuit are held by calls that will report: at  *)
(* most halfOpenMaxAttempts probes, none of them leaked.                    *)
THEOREM SlotsAreNeverLeaked == Spec => []SlotsAreInUse
BY IndHolds, PTL DEF Ind

(* Closed means below the threshold, and a circuit that opened has failed.  *)
THEOREM StateIsConsistent == Spec => []StateFollowsFailures
BY IndHolds, PTL DEF Ind

(* An open circuit holds until its reset timeout has elapsed, whatever      *)
(* earlier calls report.                                                    *)
THEOREM OpenAlwaysHolds == Spec => OpenHolds
<1> DEFINE A == State("open") /\ lastFailure = "recent" /\ circuit' # NoCircuit
                  => circuit'.state = "open" /\ running' \subseteq running
<1>1. Ind /\ [Next]_vars => [A]_vars
  <2> SUFFICES ASSUME Ind, Next, State("open"), lastFailure = "recent", circuit' # NoCircuit
               PROVE  circuit'.state = "open" /\ running' \subseteq running
    OBVIOUS
  <2> USE DEF State
  <2>1. ASSUME NEW c \in Call, Admit(c) PROVE FALSE
    BY <2>1 DEF Admit, AdmitClosed, AdmitFirstProbe, AdmitProbe
  <2>2. ASSUME NEW c \in Call, Succeed(c) PROVE circuit'.state = "open" /\ running' \subseteq running
    BY <2>2 DEF Succeed
  <2>3. ASSUME NEW c \in Call, Fail(c) PROVE circuit'.state = "open" /\ running' \subseteq running
    BY <2>3, RecordFailureOpens DEF Fail, Ind
  <2>4. CASE Reset
    BY <2>4 DEF Reset
  <2>5. CASE Cleanup
    BY <2>5 DEF Cleanup
  <2>6. CASE Elapse
    BY <2>6 DEF Elapse
  <2> QED BY <2>1, <2>2, <2>3, <2>4, <2>5, <2>6 DEF Next, Report
<1> QED BY IndHolds, <1>1, PTL DEF Spec, OpenHolds

-----------------------------------------------------------------------------
(* One HTTP attempt, past the circuit and the limiter. *)

(* Every step of a fetch is one of the circuit, or leaves it alone. *)
THEOREM FetchImplementsCircuit == FetchSpec => Spec
<1>1. FetchInit => Init
  BY DEF FetchInit
<1>2. [FetchNext]_fetchVars => [Next]_vars
  <2> SUFFICES ASSUME [FetchNext]_fetchVars PROVE Next \/ UNCHANGED vars
    OBVIOUS
  <2>1. ASSUME NEW c \in Call, Start(c) PROVE Next
    BY <2>1 DEF Start, Next
  <2>2. ASSUME NEW c \in Call, Wait(c) PROVE UNCHANGED vars
    BY <2>2 DEF Wait
  <2>3. ASSUME NEW c \in Call, Refused(c) \/ Answered(c) \/ Lost(c) PROVE Next
    BY <2>3 DEF Refused, Answered, Lost, Next, Report
  <2>4. CASE Tick
    BY <2>4 DEF Tick
  <2>5. CASE TimeoutElapses \/ Forget
    BY <2>5 DEF TimeoutElapses, Forget, Next
  <2>6. CASE UNCHANGED fetchVars
    BY <2>6 DEF fetchVars
  <2> QED BY <2>1, <2>2, <2>3, <2>4, <2>5, <2>6 DEF FetchNext
<1> QED BY <1>1, <1>2, PTL DEF FetchSpec, Spec

(* Every step of a fetch is one of the limiter, or leaves it alone. *)
THEOREM FetchImplementsLimiter == FetchSpec => RL!Spec
<1>1. FetchInit => RL!Init
  BY DEF FetchInit
<1>2. [FetchNext]_fetchVars => [RL!Next]_RL!vars
  <2> SUFFICES ASSUME [FetchNext]_fetchVars PROVE RL!Next \/ UNCHANGED RL!vars
    OBVIOUS
  <2>1. ASSUME UNCHANGED limiterVars PROVE UNCHANGED RL!vars
    BY <2>1 DEF limiterVars, RL!vars, RL!limiter, RL!calls, RL!ghosts
  <2>2. ASSUME NEW c \in Call, Answered(c) PROVE RL!Next
    BY <2>2 DEF Answered, RL!Return, RL!Next
  <2>3. CASE TimeoutElapses \/ Forget \/ UNCHANGED fetchVars
    BY <2>1, <2>3 DEF TimeoutElapses, Forget, fetchVars
  <2> QED
    BY <2>2, <2>3 DEF FetchNext, Start, Wait, Refused, Lost, Tick, RL!Next, RL!Return
<1> QED BY <1>1, <1>2, PTL DEF FetchSpec, RL!Spec

-----------------------------------------------------------------------------
(* Where a call is in the limiter. *)
Places == pc \in [Call -> RL!Label]

Underway == {c \in Call : pc[c] # "idle"}

(* A step of the limiter moves one call, and takes it from or to "idle"     *)
(* where it enters or leaves.                                               *)
LEMMA EnterMoves ==
  ASSUME Places, NEW c \in Call, RL!Enter(c)
  PROVE  Places' /\ Underway' = Underway \cup {c}
<1>1. \E label \in RL!Label \ {"idle"} : pc' = [pc EXCEPT ![c] = label]
  BY DEF RL!Enter, RL!SleepOnBlock, RL!PassBlock, RL!LookAtBudget, RL!LookAtBucket, RL!Queue,
         RL!Sleep, RL!Label, RL!Asleep
<1> QED BY <1>1 DEF Places, Underway

LEMMA StepMoves ==
  ASSUME Places, NEW c \in Call, RL!Step(c)
  PROVE  Places' /\ Underway' = Underway
<1>1. \E label \in RL!Label \ {"idle"} : pc' = [pc EXCEPT ![c] = label]
  BY DEF RL!Step, RL!WakeFromBlock, RL!WakeFromBudget, RL!WakeFromBucket, RL!TakeTurn, RL!Send,
         RL!SleepOnBlock, RL!PassBlock, RL!LookAtBudget, RL!LookAtBucket, RL!Queue, RL!Sleep,
         RL!Label, RL!Asleep
<1>2. pc[c] # "idle"
  BY DEF RL!Step, RL!WakeFromBlock, RL!WakeFromBudget, RL!WakeFromBucket, RL!TakeTurn, RL!Send,
         RL!Wakes
<1> QED BY <1>1, <1>2 DEF Places, Underway

LEMMA LeaveMoves ==
  ASSUME Places, NEW c \in Call, pc' = [pc EXCEPT ![c] = "idle"]
  PROVE  Places' /\ Underway' = Underway \ {c}
BY DEF Places, Underway, RL!Label

(* The calls the circuit counts as running are those the limiter or the     *)
(* server has: no call is admitted without a report to come, none reports   *)
(* twice.                                                                   *)
THEOREM RunningIsAlwaysUnderWay == FetchSpec => []RunningIsUnderWay
<1> DEFINE Inv == Places /\ running = Underway
<1>1. FetchInit => Inv
  BY DEF FetchInit, Init, RL!Init, Places, Underway, RL!Label
<1>2. Inv /\ [FetchNext]_fetchVars => Inv'
  <2> SUFFICES ASSUME Inv, [FetchNext]_fetchVars PROVE Inv'
    OBVIOUS
  <2>1. ASSUME NEW c \in Call, Start(c) PROVE Inv'
    BY <2>1, EnterMoves DEF Start, Admit, AdmitClosed, AdmitFirstProbe, AdmitProbe
  <2>2. ASSUME NEW c \in Call, Wait(c) PROVE Inv'
    BY <2>2, StepMoves DEF Wait, vars
  <2>3. ASSUME NEW c \in Call, Refused(c) \/ Answered(c) \/ Lost(c) PROVE Inv'
    <3>1. pc' = [pc EXCEPT ![c] = "idle"] /\ running' = running \ {c}
      BY <2>3 DEF Refused, Answered, Lost, RL!Refuse, RL!Answer, RL!NoAnswer, Succeed, Fail
    <3> QED BY <3>1, LeaveMoves
  <2>4. CASE Tick
    BY <2>4 DEF Tick, RL!Tick, vars, Places, Underway
  <2>5. CASE TimeoutElapses \/ Forget
    BY <2>5 DEF TimeoutElapses, Forget, Elapse, Reset, Cleanup, limiterVars, Places, Underway
  <2>6. CASE UNCHANGED fetchVars
    BY <2>6 DEF fetchVars, vars, limiterVars, Places, Underway
  <2> QED BY <2>1, <2>2, <2>3, <2>4, <2>5, <2>6 DEF FetchNext
<1>3. Inv => RunningIsUnderWay
  BY DEF RunningIsUnderWay, Underway
<1> QED BY <1>1, <1>2, <1>3, PTL DEF FetchSpec

(* In a fetch too, the slots of a half-open circuit are held by calls that  *)
(* are under way.                                                           *)
THEOREM FetchLeaksNoSlot == FetchSpec => []SlotsAreInUse
BY FetchImplementsCircuit, SlotsAreNeverLeaked, PTL

-----------------------------------------------------------------------------
(* The limiter with its theorems: the same definitions under another name.  *)
LP == INSTANCE RateLimiterProofs

LEMMA SameLimiter == RL!Spec => LP!Spec
<1> USE DEF RL!Lesser, LP!Lesser, RL!Left, LP!Left, RL!Time, LP!Time, RL!Budget, LP!Budget,
            RL!vars, LP!vars, RL!limiter, LP!limiter, RL!calls, LP!calls, RL!ghosts, LP!ghosts
<1>1. RL!Init => LP!Init
  BY DEF RL!Init, LP!Init
<1>2. ASSUME NEW c \in Call
      PROVE  /\ RL!IsBlocked(c) = LP!IsBlocked(c)
             /\ RL!Queue(c) = LP!Queue(c)
             /\ RL!LookAtBucket(c) = LP!LookAtBucket(c)
             /\ RL!SleepOnBlock(c) = LP!SleepOnBlock(c)
             /\ RL!PassBlock(c) = LP!PassBlock(c)
  BY DEF RL!IsBlocked, LP!IsBlocked, RL!Queue, LP!Queue, RL!LookAtBucket, LP!LookAtBucket,
         RL!Sleep, LP!Sleep, RL!SleepOnBlock, LP!SleepOnBlock, RL!PassBlock, LP!PassBlock,
         RL!LookAtBudget, LP!LookAtBudget, RL!BudgetWait, LP!BudgetWait
<1>3. ASSUME NEW c \in Call PROVE RL!Enter(c) = LP!Enter(c)
  BY <1>2 DEF RL!Enter, LP!Enter
<1>4. ASSUME NEW c \in Call PROVE RL!Step(c) = LP!Step(c) /\ RL!Refuse(c) = LP!Refuse(c)
  BY <1>2 DEF RL!Step, LP!Step, RL!Wakes, LP!Wakes, RL!WakeFromBlock, LP!WakeFromBlock,
              RL!WakeFromBudget, LP!WakeFromBudget, RL!WakeFromBucket, LP!WakeFromBucket,
              RL!TakeTurn, LP!TakeTurn, RL!Send, LP!Send, RL!Refuse, LP!Refuse,
              RL!Sleep, LP!Sleep
<1>5. ASSUME NEW c \in Call PROVE RL!Return(c) = LP!Return(c)
  BY DEF RL!Return, LP!Return, RL!Answer, LP!Answer, RL!NoAnswer, LP!NoAnswer,
         RL!Block, LP!Block, RL!Report, LP!Report, RL!Believed, LP!Believed,
         RL!Account, LP!Account
<1>6. RL!Tick = LP!Tick
  BY DEF RL!Tick, LP!Tick
<1>7. [RL!Next]_RL!vars => [LP!Next]_LP!vars
  BY <1>3, <1>4, <1>5, <1>6 DEF RL!Next, LP!Next
<1> QED BY <1>1, <1>7, PTL DEF RL!Spec, LP!Spec

LEMMA FetchIsLimited == FetchSpec => LP!Spec
BY FetchImplementsLimiter, SameLimiter, PTL

LEMMA CallsAreFinite == LP!IsFiniteSet(Call)
BY CallAssumption DEF IsFiniteSet, LP!IsFiniteSet

(* Type correctness of the composition. *)
THEOREM FetchTypeCorrect == FetchSpec => []FetchTypeOK
<1>1. LP!Spec => []LP!TypeOK
  BY LP!TypeCorrect, CallsAreFinite, GroupAssumption, TimeAssumption, RoundsAssumption,
     ThresholdAssumption, PTL
<1>2. LP!TypeOK => RL!TypeOK
  BY DEF LP!TypeOK, RL!TypeOK, LP!Time, RL!Time, LP!Budget, RL!Budget, LP!Label, RL!Label,
         LP!Asleep, RL!Asleep
<1> QED
  BY <1>1, <1>2, FetchIsLimited, FetchImplementsCircuit, TypeCorrect, PTL DEF FetchTypeOK

(* In a fetch, a block can stand over a call past the check only if an      *)
(* answer set it since the call looked.                                     *)
THEOREM FetchMissesOnlyLateBlocks == FetchSpec => []OnlyLateBlocksAreMissed
<1>1. LP!Spec => []LP!OnlyLateBlocksAreMissed
  BY LP!OnlyLateBlocksAreEverMissed, CallsAreFinite, GroupAssumption, TimeAssumption,
     RoundsAssumption, ThresholdAssumption, PTL
<1>2. LP!OnlyLateBlocksAreMissed => OnlyLateBlocksAreMissed
  BY DEF LP!OnlyLateBlocksAreMissed, OnlyLateBlocksAreMissed, RL!OnlyLateBlocksAreMissed,
         LP!IsBlocked, RL!IsBlocked
<1> QED BY <1>1, <1>2, FetchIsLimited, PTL

(* The requests of fetches go out at least minDelayMs apart. *)
THEOREM FetchSendsAreSpaced == FetchSpec => SendsAreSpaced
<1>1. LP!Spec => LP!SendsAreSpaced
  BY LP!SendsAreAlwaysSpaced, CallsAreFinite, GroupAssumption, TimeAssumption,
     RoundsAssumption, ThresholdAssumption, PTL
<1>2. [\A c \in Call : LP!Sent(c) => since >= MinDelay]_LP!vars
        => [\A c \in Call : RL!Sent(c) => since >= MinDelay]_RL!vars
  BY DEF LP!Sent, RL!Sent, RL!vars, LP!vars, RL!limiter, LP!limiter, RL!calls, LP!calls,
         RL!ghosts, LP!ghosts
<1>3. LP!SendsAreSpaced => SendsAreSpaced
  BY <1>2, PTL DEF LP!SendsAreSpaced, SendsAreSpaced, RL!SendsAreSpaced
<1> QED BY <1>1, <1>3, FetchIsLimited, PTL

(* A fetch that finds the error budget spent is sent after its window.      *)
THEOREM FetchWaitsOutSpentBudget == FetchSpec => SpentBudgetIsWaitedOut
<1>1. LP!Spec => LP!SpentBudgetIsWaitedOut
  BY LP!SpentBudgetIsAlwaysWaitedOut, CallsAreFinite, GroupAssumption, TimeAssumption,
     RoundsAssumption, ThresholdAssumption, PTL
<1>2. [\A c \in Call : LP!Sent(c) => owed[c] = 0]_LP!vars
        => [\A c \in Call : RL!Sent(c) => owed[c] = 0]_RL!vars
  BY DEF LP!Sent, RL!Sent, RL!vars, LP!vars, RL!limiter, LP!limiter, RL!calls, LP!calls,
         RL!ghosts, LP!ghosts
<1>3. LP!SpentBudgetIsWaitedOut => SpentBudgetIsWaitedOut
  BY <1>2, PTL DEF LP!SpentBudgetIsWaitedOut, SpentBudgetIsWaitedOut, RL!SpentBudgetIsWaitedOut
<1> QED BY <1>1, <1>3, FetchIsLimited, PTL
=============================================================================
