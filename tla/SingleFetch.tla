---------------------------- MODULE SingleFetch ----------------------------
(***************************************************************************)
(* executeSingleFetch (fetchExecution.ts): one HTTP attempt of each call,  *)
(* first past the circuit breaker, then through the rate limiter, then at  *)
(* the server; the outcome is reported to both.  The calls are of one      *)
(* endpoint, hence of one circuit.                                         *)
(***************************************************************************)
EXTENDS CircuitBreaker

VARIABLES blocked, remain, reset, exhausted, since,
          pc, left, round, chain, window, owed, late

RL == INSTANCE RateLimiter

limiterVars == <<blocked, remain, reset, exhausted, since,
                 pc, left, round, chain, window, owed, late>>
fetchVars == <<vars, limiterVars>>

FetchInit == Init /\ RL!Init

(* checkCircuit lets the call pass, and it enters checkRateLimit at once.   *)
(* A call that the circuit refuses changes nothing.                         *)
Start(c) == Admit(c) /\ RL!Enter(c)

(* The call wakes in the rate limiter; the circuit is not asked again. *)
Wait(c) == RL!Step(c) /\ UNCHANGED vars

\* Mutant: an attempt the rate limiter ends is not reported to the circuit.
RefusedUnreported(c) == RL!Refuse(c) /\ UNCHANGED vars

(* checkRateLimit throws: the finally records a failure. *)
Refused(c) == RL!Refuse(c) /\ Fail(c)

(* 420 and 429 block the group, and they and 5xx count as failures of the   *)
(* endpoint.                                                                *)
Answered(c) ==
  \E g \in Group, status \in {"ok", "limited", "failed"}, until \in RL!Time :
    /\ RL!Answer(c, g, status = "limited", until)
    /\ IF status = "ok" THEN Succeed(c) ELSE Fail(c)

(* The fetch rejects, or is aborted by the request timeout. *)
Lost(c) == RL!NoAnswer(c) /\ Fail(c)

Tick == RL!Tick /\ UNCHANGED vars
TimeoutElapses == Elapse /\ UNCHANGED limiterVars
Forget == (Reset \/ Cleanup) /\ UNCHANGED limiterVars

FetchNext ==
  \/ \E c \in Call : Start(c) \/ Wait(c) \/ Refused(c) \/ Answered(c) \/ Lost(c)
  \/ Tick
  \/ TimeoutElapses
  \/ Forget

FetchSpec == FetchInit /\ [][FetchNext]_fetchVars

(* Time passes, timers fire, and the request timeout ends every request. *)
FairFetchSpec ==
  /\ FetchSpec
  /\ WF_fetchVars(Tick)
  /\ \A c \in Call : WF_fetchVars(Wait(c) \/ Refused(c)) /\ WF_fetchVars(Answered(c) \/ Lost(c))

-----------------------------------------------------------------------------
(* Both components keep their promises together. *)
FetchTypeOK == TypeOK /\ RL!TypeOK
OnlyLateBlocksAreMissed == RL!OnlyLateBlocksAreMissed
SendsAreSpaced == RL!SendsAreSpaced
SpentBudgetIsWaitedOut == RL!SpentBudgetIsWaitedOut
CheckEnds == RL!CheckEnds

(* The circuit sees the calls it was written for: each one it admits        *)
(* reports exactly once and in the end, whatever the rate limiter does with *)
(* it.  That every call reports is an assumption of CircuitBreaker; here it *)
(* follows from the limiter's bounded waits and the request timeout.        *)
CircuitSpec == FairSpec

(* The circuit knows of exactly the calls that are in the limiter or at the *)
(* server.                                                                  *)
RunningIsUnderWay == running = {c \in Call : pc[c] # "idle"}
=============================================================================
