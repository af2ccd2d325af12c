--------------------------- MODULE CircuitProofs ----------------------------
(***************************************************************************)
(* Proofs about CircuitBreaker for every set of callers, threshold, number *)
(* of attempts and number of failures.                                     *)
(***************************************************************************)
EXTENDS CircuitBreaker, TLAPS

\* Whatever ends the call of c, the lock is afterwards held exactly by the
\* other probes, and there is at most one.
LEMMA LockReleased ==
  ASSUME IInv, NEW c \in Caller, ReleaseProbe(c), Ended(c),
         \A d \in Caller \ {c} : pc'[d] = pc[d]
  PROVE  ProbeLock'
<1>1. wasProbe' = [wasProbe EXCEPT ![c] = FALSE]
  BY DEF Ended
<1>2. /\ wasProbe'[c] = FALSE
      /\ \A d \in Caller : d # c => wasProbe'[d] = wasProbe[d]
  BY <1>1 DEF IInv, TypeOK
<1>3. \A d \in Caller : wasProbe'[d] => wasProbe[d] /\ pc'[d] = "call"
  BY <1>2 DEF IInv, ProbeLock
<1>4. \A d, e \in Caller : wasProbe'[d] /\ wasProbe'[e] => d = e
  BY <1>3 DEF IInv, ProbeLock
<1>5. probeInFlight' <=> \E d \in Caller : wasProbe'[d]
  <2>1. CASE wasProbe[c]
    <3>1. ~probeInFlight'
      BY <2>1 DEF ReleaseProbe
    <3>2. \A d \in Caller : ~wasProbe'[d]
      BY <1>2, <1>3, <2>1 DEF IInv, ProbeLock
    <3> QED BY <3>1, <3>2
  <2>2. CASE ~wasProbe[c]
    <3>1. probeInFlight' <=> probeInFlight
      BY <2>2 DEF ReleaseProbe
    <3>2. \A d \in Caller : wasProbe'[d] <=> wasProbe[d]
      BY <1>2, <2>2
    <3> QED BY <3>1, <3>2 DEF IInv, ProbeLock
  <2> QED BY <2>1, <2>2
<1> QED BY <1>3, <1>4, <1>5 DEF ProbeLock

\* What Finish and Retry do to the request of c.
LEMMA Finished ==
  ASSUME IInv, NEW c \in Caller, Finish(c)
  PROVE  /\ pc' \in [Caller -> {"idle", "call", "backoff"}]
         /\ attempt' \in [Caller -> 0 .. MaxAttempts]
         /\ \A d \in Caller \ {c} : pc'[d] = pc[d]
         /\ pc'[c] # "call"
         /\ \A d \in Caller : /\ pc'[d] = "idle" => attempt'[d] = 0
                              /\ pc'[d] = "backoff" => attempt'[d] < MaxAttempts
BY CircuitAssumption DEF Finish, IInv, TypeOK, CircuitAssumption

LEMMA Retried ==
  ASSUME IInv, NEW c \in Caller, Retry(c)
  PROVE  /\ pc' \in [Caller -> {"idle", "call", "backoff"}]
         /\ attempt' \in [Caller -> 0 .. MaxAttempts]
         /\ \A d \in Caller \ {c} : pc'[d] = pc[d]
         /\ \A d \in Caller : /\ pc'[d] = "idle" => attempt'[d] = 0
                              /\ pc'[d] = "backoff" => attempt'[d] < MaxAttempts
<1>1. CASE attempt[c] = MaxAttempts
  <2>1. Finish(c)
    BY <1>1 DEF Retry
  <2> QED BY <2>1, Finished
<1>2. CASE attempt[c] # MaxAttempts
  <2>1. /\ pc' = [pc EXCEPT ![c] = "backoff"]
        /\ attempt' = attempt
    BY <1>2 DEF Retry, Backoff
  <2>2. attempt[c] < MaxAttempts
    BY <1>2, CircuitAssumption DEF IInv, TypeOK, CircuitAssumption
  <2> QED BY <2>1, <2>2 DEF IInv, TypeOK
<1> QED BY <1>1, <1>2

LEMMA Initially == Init => IInv
<1> SUFFICES ASSUME Init PROVE IInv
  OBVIOUS
<1>1. TypeOK
  <2>1. /\ failures \in Nat /\ failed \in 0 .. Failures
        /\ 0 \in 0 .. MaxAttempts
    BY CircuitAssumption DEF Init, CircuitAssumption
  <2> QED BY <2>1, Zenon DEF Init, TypeOK
<1>2. ProbeLock
  BY DEF Init, ProbeLock
<1>3. ClosedBelowThreshold
  BY CircuitAssumption DEF Init, ClosedBelowThreshold, CircuitAssumption
<1>4. \A c \in Caller : pc[c] = "idle" /\ attempt[c] = 0
  BY DEF Init
<1> QED BY <1>1, <1>2, <1>3, <1>4 DEF IInv

\* A call begins with an attempt to spare.
LEMMA Called ==
  ASSUME IInv, NEW c \in Caller, pc[c] \in {"idle", "backoff"},
         NEW probe \in BOOLEAN, Calling(c, probe)
  PROVE  /\ pc' \in [Caller -> {"idle", "call", "backoff"}]
         /\ attempt' \in [Caller -> 0 .. MaxAttempts]
         /\ wasProbe' = [wasProbe EXCEPT ![c] = probe]
         /\ wasProbe' \in [Caller -> BOOLEAN]
         /\ pc'[c] = "call"
         /\ \A d \in Caller : d # c => pc'[d] = pc[d]
         /\ \A d \in Caller : /\ pc'[d] = "idle" => attempt'[d] = 0
                              /\ pc'[d] = "backoff" => attempt'[d] < MaxAttempts
<1>1. attempt[c] + 1 \in 0 .. MaxAttempts
  BY CircuitAssumption DEF IInv, TypeOK, CircuitAssumption
<1> QED BY <1>1 DEF Calling, IInv, TypeOK

LEMMA AdmissionStep ==
  ASSUME IInv, NEW c \in Caller, Execute(c)
  PROVE  IInv'
<1>0. pc[c] \in {"idle", "backoff"} /\ failed' = failed /\ ~wasProbe[c]
  BY DEF Execute, IInv, ProbeLock
<1>1. CASE AdmitClosed(c)
  <2>1. Calling(c, FALSE) /\ UNCHANGED circuit
    BY <1>1 DEF AdmitClosed
  <2>2. TypeOK'
    BY <1>0, <2>1, Called DEF IInv, TypeOK, circuit
  <2>3. \A d \in Caller : wasProbe'[d] <=> wasProbe[d]
    BY <1>0, <2>1, Called DEF IInv, TypeOK
  <2>4. ProbeLock'
    BY <1>0, <2>1, <2>3, Called DEF IInv, ProbeLock, circuit
  <2> QED
    BY <1>0, <2>1, <2>2, <2>4, Called DEF IInv, ClosedBelowThreshold, circuit
<1>2. CASE AdmitProbe(c)
  <2>1. /\ Calling(c, TRUE) /\ UNCHANGED <<failures, cooled>>
        /\ ~probeInFlight /\ probeInFlight' = TRUE /\ state' = "half-open"
    BY <1>2 DEF AdmitProbe
  <2>2. TypeOK'
    BY <1>0, <2>1, Called DEF IInv, TypeOK
  <2>3. \A d \in Caller : wasProbe'[d] <=> d = c
    <3>1. \A d \in Caller : ~wasProbe[d]
      BY <2>1 DEF IInv, ProbeLock
    <3> QED BY <1>0, <2>1, <3>1, Called DEF IInv, TypeOK
  <2>4. ProbeLock'
    BY <1>0, <2>1, <2>3, Called DEF ProbeLock
  <2> QED
    BY <1>0, <2>1, <2>2, <2>4, Called DEF IInv, ClosedBelowThreshold
<1>3. CASE Reject(c)
  <2>1. /\ Finish(c) /\ UNCHANGED <<failures, cooled, probeInFlight, wasProbe>>
        /\ state' # "closed"
        /\ state' \in {"closed", "open", "half-open"}
    BY <1>3 DEF Reject, Cooling, IInv, TypeOK
  <2>2. TypeOK'
    BY <1>0, <2>1, Finished DEF IInv, TypeOK
  <2>3. ProbeLock'
    BY <1>0, <2>1, Finished DEF IInv, ProbeLock
  <2> QED BY <2>1, <2>2, <2>3, Finished DEF IInv, ClosedBelowThreshold
<1> QED BY <1>1, <1>2, <1>3 DEF Execute

LEMMA AnswerStep ==
  ASSUME IInv, NEW c \in Caller, Answer(c)
  PROVE  IInv'
<1>1. CASE Succeed(c)
  <2>1. /\ OnSuccess /\ ReleaseProbe(c) /\ Finish(c) /\ Ended(c)
        /\ failed' = failed
    BY <1>1 DEF Succeed
  <2>2. ProbeLock'
    BY <2>1, LockReleased, Finished
  <2>3. TypeOK'
    BY <2>1, Finished DEF IInv, TypeOK, OnSuccess, ReleaseProbe, Ended
  <2>4. ClosedBelowThreshold'
    BY <2>1, CircuitAssumption
       DEF OnSuccess, ClosedBelowThreshold, CircuitAssumption
  <2> QED BY <2>1, <2>2, <2>3, <2>4, Finished DEF IInv
<1>2. CASE Fail(c)
  <2>1. /\ OnFailure /\ ReleaseProbe(c) /\ Retry(c) /\ Ended(c)
        /\ failed < Failures /\ failed' = failed + 1
    BY <1>2 DEF Fail
  <2>2. ProbeLock'
    BY <2>1, LockReleased, Retried
  <2>3. TypeOK'
    <3>1. failures' \in Nat /\ failed' \in 0 .. Failures
      BY <2>1, CircuitAssumption DEF IInv, TypeOK, OnFailure, CircuitAssumption
    <3>2. state' \in {"closed", "open", "half-open"} /\ cooled' \in BOOLEAN
      BY <2>1, Zenon DEF IInv, TypeOK, OnFailure
    <3>3. probeInFlight' \in BOOLEAN /\ wasProbe' \in [Caller -> BOOLEAN]
      BY <2>1, Zenon DEF IInv, TypeOK, ReleaseProbe, Ended
    <3> QED BY <2>1, <3>1, <3>2, <3>3, Retried DEF TypeOK
  <2>4. ClosedBelowThreshold'
    BY <2>1, CircuitAssumption
       DEF IInv, TypeOK, OnFailure, ClosedBelowThreshold, CircuitAssumption
  <2> QED BY <2>1, <2>2, <2>3, <2>4, Retried DEF IInv
<1>3. CASE Refuse(c)
  <2>1. /\ UNCHANGED <<state, failures, cooled, failed>>
        /\ ReleaseProbe(c) /\ Finish(c) /\ Ended(c)
    BY <1>3 DEF Refuse
  <2>2. ProbeLock'
    BY <2>1, LockReleased, Finished
  <2>3. TypeOK'
    BY <2>1, Finished DEF IInv, TypeOK, ReleaseProbe, Ended
  <2> QED BY <2>1, <2>2, <2>3, Finished DEF IInv, ClosedBelowThreshold
<1> QED BY <1>1, <1>2, <1>3 DEF Answer

LEMMA Preserved == IInv /\ [Next]_vars => IInv'
<1> SUFFICES ASSUME IInv, [Next]_vars PROVE IInv'
  OBVIOUS
<1>1. CASE Cool
  BY <1>1 DEF Cool, Cooling, IInv, TypeOK, ProbeLock, ClosedBelowThreshold
<1>2. ASSUME NEW c \in Caller, Execute(c) \/ Answer(c) PROVE IInv'
  BY <1>2, AdmissionStep, AnswerStep
<1>3. CASE UNCHANGED vars
  BY <1>3 DEF vars, circuit, IInv, TypeOK, ProbeLock, ClosedBelowThreshold
<1> QED BY <1>1, <1>2, <1>3 DEF Next

\* The inductive invariant of the circuit breaker (circuit-breaker.ts).
THEOREM CircuitInvariance == Spec => []IInv
<1>1. Init => IInv
  BY Initially
<1>2. IInv /\ [Next]_vars => IInv'
  BY Preserved
<1> QED BY <1>1, <1>2, PTL DEF Spec

\* At most one probe is in flight, and the lock is held exactly while one is,
\* for any number of callers whose calls end in any order (execute).
THEOREM OneProbe == Spec => []ProbeLock
<1>1. IInv => ProbeLock
  BY DEF IInv
<1> QED BY <1>1, CircuitInvariance, PTL

\* A closed circuit has failures left before it opens (onFailure).
THEOREM SpareFailures == Spec => []ClosedBelowThreshold
<1>1. IInv => ClosedBelowThreshold
  BY DEF IInv
<1> QED BY <1>1, CircuitInvariance, PTL

\* Every variable of the circuit breaker keeps its type; in particular no
\* request calls the provider more than MaxAttempts times (executeWithRetry).
THEOREM CircuitTyping == Spec => []TypeOK
<1>1. IInv => TypeOK
  BY DEF IInv
<1> QED BY <1>1, CircuitInvariance, PTL
=============================================================================
