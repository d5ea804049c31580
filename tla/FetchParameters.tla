-------------------------- MODULE FetchParameters --------------------------
(***************************************************************************)
(* The calls that fetch one endpoint, and the settings of the circuit      *)
(* breaker and of the rate limiter they pass.                              *)
(***************************************************************************)
EXTENDS Naturals, FiniteSets

CONSTANTS Call                  \* calls that may be under way at a time
ASSUME CallAssumption == IsFiniteSet(Call)

(* The circuit breaker (CircuitBreaker.ts). *)
CONSTANTS FailureThreshold,     \* failureThreshold
          HalfOpenMaxAttempts   \* halfOpenMaxAttempts
ASSUME ThresholdAssumption ==
  FailureThreshold \in Nat \ {0} /\ HalfOpenMaxAttempts \in Nat \ {0}

(* The rate limiter (RateLimiter.ts). *)
CONSTANTS Group,       \* rate limit groups
          GroupOf,     \* the group of a call's endpoint in the specification
          MaxWait,     \* the longest Retry-After and error limit reset
          Penalty,     \* the block after a 420 or 429 that names none
          LowWait,     \* the longest wait for a low error budget
          MinDelay,    \* minDelayMs
          Rounds       \* how often a call sleeps on a block
ASSUME GroupAssumption == GroupOf \in [Call -> Group]
ASSUME TimeAssumption ==
  /\ MaxWait \in Nat /\ Penalty \in 1 .. MaxWait
  /\ LowWait \in Nat /\ MinDelay \in Nat
ASSUME RoundsAssumption == Rounds \in Nat \ {0}
=============================================================================
