--------------------------- MODULE CircuitBreaker ---------------------------
(***************************************************************************)
(* The circuit of one external service and the requests that call it       *)
(* through executeWithRetry.  Node runs one callback at a time, so a step  *)
(* is what happens between two awaits: from the admission to the start of  *)
(* the operation, and from its answer to the start of the backoff.         *)
(***************************************************************************)
EXTENDS Integers, FiniteSets

CONSTANTS
  Caller,       \* callers, each with one request at a time
  Threshold,    \* failureThreshold
  MaxAttempts,  \* maxAttempts, the first attempt included
  Failures      \* bound: answers that count as transient failures

ASSUME CircuitAssumption ==
  /\ Threshold \in Nat \ {0}
  /\ MaxAttempts \in Nat \ {0}
  /\ Failures \in Nat

VARIABLES
  state,          \* state of the circuit
  failures,       \* transient failures since the last success
  cooled,         \* openDurationMs has passed since openedAt
  probeInFlight,  \* the probe lock
  pc,             \* pc[c]: "idle", in the "call", or in the "backoff" after it
  attempt,        \* attempt[c]: calls begun for the request of c
  wasProbe,       \* wasProbe[c]: its call was admitted in half-open
  failed          \* transient failures so far

circuit == <<state, failures, cooled, probeInFlight>>
vars    == <<circuit, pc, attempt, wasProbe, failed>>

TypeOK ==
  /\ state \in {"closed", "open", "half-open"}
  /\ failures \in Nat
  /\ cooled \in BOOLEAN
  /\ probeInFlight \in BOOLEAN
  /\ pc \in [Caller -> {"idle", "call", "backoff"}]
  /\ attempt \in [Caller -> 0 .. MaxAttempts]
  /\ wasProbe \in [Caller -> BOOLEAN]
  /\ failed \in 0 .. Failures

Init ==
  /\ state = "closed"
  /\ failures = 0
  /\ cooled = FALSE
  /\ probeInFlight = FALSE
  /\ pc = [c \in Caller |-> "idle"]
  /\ attempt = [c \in Caller |-> 0]
  /\ wasProbe = [c \in Caller |-> FALSE]
  /\ failed = 0

-----------------------------------------------------------------------------
(* Admission.                                                              *)

\* allowRequest answers false: the circuit is open, or the lock is taken.
Cooling == state = "open" /\ ~cooled

\* The request of c ends, with a result or an error.
Finish(c) ==
  /\ pc' = [pc EXCEPT ![c] = "idle"]
  /\ attempt' = [attempt EXCEPT ![c] = 0]

Calling(c, probe) ==
  /\ pc' = [pc EXCEPT ![c] = "call"]
  /\ attempt' = [attempt EXCEPT ![c] = @ + 1]
  /\ wasProbe' = [wasProbe EXCEPT ![c] = probe]

\* execute in a closed circuit.
AdmitClosed(c) ==
  /\ state = "closed"
  /\ Calling(c, FALSE)
  /\ UNCHANGED circuit

\* execute as the probe of a half-open circuit, which the end of the cooldown
\* makes of an open one.
AdmitProbe(c) ==
  /\ state # "closed" /\ ~Cooling
  /\ ~probeInFlight
  /\ state' = "half-open"
  /\ probeInFlight' = TRUE
  /\ Calling(c, TRUE)
  /\ UNCHANGED <<failures, cooled>>

\* CircuitOpenError: it ends the request, without a retry.
Reject(c) ==
  /\ \/ Cooling /\ UNCHANGED state
     \/ ~Cooling /\ state # "closed" /\ probeInFlight /\ state' = "half-open"
  /\ Finish(c)
  /\ UNCHANGED <<failures, cooled, probeInFlight, wasProbe>>

\* A new request, or the next attempt of one after its backoff.
Execute(c) ==
  /\ pc[c] \in {"idle", "backoff"}
  /\ AdmitClosed(c) \/ AdmitProbe(c) \/ Reject(c)
  /\ UNCHANGED failed

-----------------------------------------------------------------------------
(* The answer.                                                             *)

\* Injected bug: the lock is freed by whichever call ends.
ReleaseAlways(c) == probeInFlight' = FALSE

\* Injected bug: only a success frees the lock.
ReleaseOnSuccess(c) ==
  probeInFlight' = (probeInFlight /\ ~(wasProbe[c] /\ state' = "closed"))

\* The finally block of execute.
ReleaseProbe(c) == probeInFlight' = (probeInFlight /\ ~wasProbe[c])

OnSuccess ==
  /\ state' = IF state = "half-open" THEN "closed" ELSE state
  /\ failures' = 0
  /\ UNCHANGED cooled

OnFailure ==
  /\ failures' = failures + 1
  /\ IF state = "half-open" \/ failures' >= Threshold
       THEN state' = "open" /\ cooled' = FALSE
       ELSE UNCHANGED <<state, cooled>>

Backoff(c) ==
  /\ pc' = [pc EXCEPT ![c] = "backoff"]
  /\ UNCHANGED attempt

\* executeWithRetry after a failure that counts as transient: a timeout, a
\* network error, a 5xx, or a 4xx that the operation threw as a plain Error,
\* as putS3Object does.
Retry(c) ==
  IF attempt[c] = MaxAttempts THEN Finish(c) ELSE Backoff(c)

Ended(c) == wasProbe' = [wasProbe EXCEPT ![c] = FALSE]

Succeed(c) ==
  /\ pc[c] = "call"
  /\ OnSuccess
  /\ ReleaseProbe(c)
  /\ Finish(c)
  /\ Ended(c)
  /\ UNCHANGED failed

Fail(c) ==
  /\ pc[c] = "call"
  /\ failed < Failures
  /\ failed' = failed + 1
  /\ OnFailure
  /\ ReleaseProbe(c)
  /\ Retry(c)
  /\ Ended(c)

\* isPermanentError, a 4xx thrown with its status: the circuit does not count
\* it.
Refuse(c) ==
  /\ pc[c] = "call"
  /\ UNCHANGED <<state, failures, cooled>>
  /\ ReleaseProbe(c)
  /\ Finish(c)
  /\ Ended(c)
  /\ UNCHANGED failed

Answer(c) == Succeed(c) \/ Fail(c) \/ Refuse(c)

\* openDurationMs after openedAt.
Cool ==
  /\ Cooling
  /\ cooled' = TRUE
  /\ UNCHANGED <<state, failures, probeInFlight, pc, attempt, wasProbe, failed>>

Next == Cool \/ \E c \in Caller : Execute(c) \/ Answer(c)

Spec == Init /\ [][Next]_vars

\* Time goes on, requests keep coming, operations obey their AbortSignal, and
\* a provider that is up does not answer every call with 4xx.
FairSpec ==
  /\ Spec
  /\ WF_vars(Cool)
  /\ \A c \in Caller : WF_vars(Execute(c)) /\ WF_vars(Answer(c))
  /\ \A c \in Caller : SF_vars(Succeed(c))

-----------------------------------------------------------------------------
(* Properties.                                                             *)

\* The probe lock is held exactly while the call that took it is in flight:
\* it is never lost, which would shut the circuit for good, and never doubled,
\* although calls of an earlier closed period end in any state (execute).
ProbeLock ==
  /\ probeInFlight <=> \E c \in Caller : wasProbe[c]
  /\ \A c \in Caller : wasProbe[c] => pc[c] = "call"
  /\ \A c, d \in Caller : wasProbe[c] /\ wasProbe[d] => c = d

\* A closed circuit is a whole threshold of failures away from opening less
\* those it counted: no late answer leaves it closed and already spent
\* (onSuccess, onFailure).
ClosedBelowThreshold == state = "closed" => failures < Threshold

\* What every step keeps: the two invariants above, and a caller that is about
\* to call has an attempt left (executeWithRetry).
IInv ==
  /\ TypeOK
  /\ ProbeLock
  /\ ClosedBelowThreshold
  /\ \A c \in Caller : /\ pc[c] = "idle" => attempt[c] = 0
                       /\ pc[c] = "backoff" => attempt[c] < MaxAttempts

\* Once the provider has stopped failing the circuit closes, and stays so:
\* neither late failures nor refused probes keep it from recovering.
Recovers == <>[](state = "closed")
=============================================================================
