--------------------------- MODULE CircuitBreaker ---------------------------
(***************************************************************************)
(* The circuit of one key (CircuitBreaker.ts) and the calls that run under *)
(* it (executeSingleFetch): a call is admitted by checkCircuit, is away    *)
(* for a while, and reports its outcome exactly once.  Circuits of         *)
(* different keys share nothing.                                           *)
(*                                                                         *)
(* Time is how long ago the last failure was: "recent" until               *)
(* resetTimeoutMs has elapsed.                                             *)
(***************************************************************************)
EXTENDS FetchParameters

CONSTANT NoCircuit

VARIABLES
  circuit,      \* the circuit's record, or NoCircuit before the first call
  lastFailure,  \* how long ago it failed
  running,      \* the calls that were admitted and have not reported
  probes        \* those of them, past and present, this half-open period admitted

vars == <<circuit, lastFailure, running, probes>>

Circuit == [state : {"closed", "open", "half-open"},
            failures : 0 .. FailureThreshold,   \* counted up to the threshold
            attempts : 0 .. HalfOpenMaxAttempts]
ASSUME NoCircuitAssumption == NoCircuit \notin Circuit

TypeOK ==
  /\ circuit \in Circuit \cup {NoCircuit}
  /\ lastFailure \in {"never", "recent", "elapsed"}
  /\ running \subseteq Call
  /\ probes \subseteq Call

NewCircuit == [state |-> "closed", failures |-> 0, attempts |-> 0]

Init ==
  /\ circuit = NoCircuit
  /\ lastFailure = "never"
  /\ running = {}
  /\ probes = {}

State(label) == circuit # NoCircuit /\ circuit.state = label

-----------------------------------------------------------------------------
(* checkCircuit.  A call it refuses changes nothing. *)

(* getOrCreate; a closed circuit admits every call. *)
AdmitClosed(c) ==
  /\ c \notin running
  /\ ~State("open") /\ ~State("half-open")
  /\ circuit' = IF circuit = NoCircuit THEN NewCircuit ELSE circuit
  /\ running' = running \cup {c}
  /\ UNCHANGED <<lastFailure, probes>>

\* Mutant: the first probe is not counted.
AdmitFirstProbeUncounted(c) ==
  /\ c \notin running
  /\ State("open") /\ lastFailure # "recent"
  /\ circuit' = [circuit EXCEPT !.state = "half-open", !.attempts = 0]
  /\ running' = running \cup {c}
  /\ probes' = {c}
  /\ UNCHANGED lastFailure

(* The reset timeout has elapsed: the circuit is half-open, and this call   *)
(* its first probe.                                                         *)
AdmitFirstProbe(c) ==
  /\ c \notin running
  /\ State("open") /\ lastFailure # "recent"
  /\ circuit' = [circuit EXCEPT !.state = "half-open", !.attempts = 1]
  /\ running' = running \cup {c}
  /\ probes' = {c}
  /\ UNCHANGED lastFailure

(* One of the further probes, up to halfOpenMaxAttempts. *)
AdmitProbe(c) ==
  /\ c \notin running
  /\ State("half-open") /\ circuit.attempts < HalfOpenMaxAttempts
  /\ circuit' = [circuit EXCEPT !.attempts = @ + 1]
  /\ running' = running \cup {c}
  /\ probes' = probes \cup {c}
  /\ UNCHANGED lastFailure

Admit(c) == AdmitClosed(c) \/ AdmitFirstProbe(c) \/ AdmitProbe(c)

-----------------------------------------------------------------------------
(* What a call reports. *)

(* recordSuccess: any response but 420, 429 and 5xx.  It is ignored while   *)
(* the circuit is open; otherwise the circuit is closed and starts over.    *)
Succeed(c) ==
  /\ c \in running
  /\ running' = running \ {c}
  /\ IF circuit = NoCircuit \/ State("open")
     THEN UNCHANGED <<circuit, probes>>
     ELSE circuit' = NewCircuit /\ probes' = {}
  /\ UNCHANGED lastFailure

(* recordFailure: a half-open circuit opens again, a closed one at the      *)
(* threshold.                                                               *)
RecordFailure ==
  /\ LET r == IF circuit = NoCircuit THEN NewCircuit ELSE circuit
         failures == IF r.failures < FailureThreshold THEN r.failures + 1 ELSE FailureThreshold
     IN circuit' = [r EXCEPT
          !.failures = failures,
          !.state = IF r.state = "half-open" \/ failures = FailureThreshold
                    THEN "open" ELSE r.state]
  /\ lastFailure' = "recent"
  /\ probes' = {}

\* Mutant: a call that ends without a response may report nothing.
FailSilently(c) ==
  /\ c \in running
  /\ running' = running \ {c}
  /\ RecordFailure \/ UNCHANGED <<circuit, lastFailure, probes>>

(* 420, 429, 5xx, no response, or the rate limiter gave up. *)
Fail(c) ==
  /\ c \in running
  /\ running' = running \ {c}
  /\ RecordFailure

-----------------------------------------------------------------------------
(* reset() and shutdown(): the record is deleted; calls under way go on. *)
Reset ==
  /\ circuit # NoCircuit
  /\ circuit' = NoCircuit
  /\ lastFailure' = "never"
  /\ probes' = {}
  /\ UNCHANGED running

(* cleanup(): the record of a healthy circuit whose last failure is         *)
(* staleThresholdMs ago (any setting) goes.                                 *)
Cleanup ==
  /\ State("closed") /\ circuit.failures = 0 /\ lastFailure # "never"
  /\ circuit' = NoCircuit
  /\ lastFailure' = "never"
  /\ UNCHANGED <<running, probes>>

(* resetTimeoutMs since the last failure has elapsed. *)
Elapse ==
  /\ lastFailure = "recent"
  /\ lastFailure' = "elapsed"
  /\ UNCHANGED <<circuit, running, probes>>

-----------------------------------------------------------------------------
Report(c) == Succeed(c) \/ Fail(c)

Next ==
  \/ \E c \in Call : Admit(c) \/ Report(c)
  \/ Reset
  \/ Cleanup
  \/ Elapse

Spec == Init /\ [][Next]_vars

(* The request timeout and the finally of executeSingleFetch: a call that   *)
(* was admitted reports.  Nobody has to call, to reset or to clean up.      *)
FairSpec == Spec /\ \A c \in Call : WF_vars(Report(c))

-----------------------------------------------------------------------------
(* A half-open circuit has admitted at most halfOpenMaxAttempts calls, each *)
(* of them is still under way, and there is one: no slot is leaked by a     *)
(* call that ended, and no further call reaches the endpoint.               *)
SlotsAreInUse ==
  State("half-open") =>
    /\ probes # {}
    /\ probes \subseteq running
    /\ Cardinality(probes) = circuit.attempts
    /\ Cardinality(probes) <= HalfOpenMaxAttempts

(* A closed circuit is below its threshold, and one that opened failed: an  *)
(* open circuit always has a last failure to count its timeout from.        *)
StateFollowsFailures ==
  circuit # NoCircuit =>
    /\ circuit.state = "closed" <=> circuit.failures < FailureThreshold
    /\ circuit.state # "closed" => lastFailure # "never"

(* Until the reset timeout has elapsed since the last failure an open       *)
(* circuit stays open and admits nobody, whatever the calls from before it  *)
(* opened report.                                                           *)
OpenHolds ==
  [][ State("open") /\ lastFailure = "recent" /\ circuit' # NoCircuit
        => circuit'.state = "open" /\ running' \subseteq running ]_vars

(* A half-open period ends: a circuit does not refuse every call for ever.  *)
HalfOpenEnds == State("half-open") ~> ~State("half-open")
=============================================================================
