------------------------ MODULE OutboxContractProofs ------------------------
(***************************************************************************)
(* What Outbox promises, for every set of instances and events and every   *)
(* number of mishaps.  It implements OutboxContract: each of its steps is  *)
(* a step of the contract, or changes nothing the contract speaks about.   *)
(* And while no mishap happens, it drops no event silently.                *)
(***************************************************************************)
EXTENDS OutboxProofs

-----------------------------------------------------------------------------
(* The contract's variables as Outbox computes them.                       *)

\* A step as the contract sees it.
Seen == \/ Contract!Next
        \/ UNCHANGED <<StatusOf, AttemptsOf, Running, reserved, Closed>>

LEMMA RunningFacts ==
  \A k : k \in Running <=> \E w \in Worker : pc[w] = "dispatch" /\ CurKey(w) = k
BY DEF Running

\* What a step does to the handlers that run.
LEMMA RunningKept ==
  ASSUME \A v \in Worker : pc[v] = "dispatch" <=> pc'[v] = "dispatch",
         \A v \in Worker : pc[v] = "dispatch" => cur'[v] = cur[v]
  PROVE  UNCHANGED Running
<1>1. \A v \in Worker : pc[v] = "dispatch" => CurKey(v)' = CurKey(v)
  BY DEF CurKey
<1>2. \A k : k \in Running' <=>
        \E w \in Worker : pc'[w] = "dispatch" /\ CurKey(w)' = k
  BY DEF Running
<1> QED
  BY <1>1, <1>2, RunningFacts

LEMMA RunningEnds ==
  ASSUME IInv, NEW w \in Worker, pc[w] = "dispatch", pc'[w] # "dispatch",
         \A v \in Worker \ {w} : pc'[v] = pc[v] /\ cur'[v] = cur[v]
  PROVE  CurKey(w) \in Running /\ Running' = Running \ {CurKey(w)}
<1>1. \A v \in Worker \ {w} : CurKey(v)' = CurKey(v)
  BY DEF CurKey
<1>2. \A v \in Worker \ {w} : pc[v] = "dispatch" => CurKey(v) # CurKey(w)
  BY DEF IInv, HandlerExclusive, Reserving
<1>3. \A k : k \in Running' <=>
        \E v \in Worker : pc'[v] = "dispatch" /\ CurKey(v)' = k
  BY DEF Running
<1>4. \A k : k \in Running' <=> k \in Running /\ k # CurKey(w)
  BY <1>1, <1>2, <1>3, RunningFacts
<1> QED
  BY <1>4, RunningFacts

\* What a step does to the rows.
LEMMA RowsKept == UNCHANGED outbox => UNCHANGED <<StatusOf, AttemptsOf>>
BY DEF StatusOf, AttemptsOf

LEMMA OneRow ==
  ASSUME TypeOK, NEW e \in Event, NEW row, outbox' = [outbox EXCEPT ![e] = row]
  PROVE  /\ StatusOf' = [StatusOf EXCEPT ![e] = row.status]
         /\ AttemptsOf' = [AttemptsOf EXCEPT ![e] = row.attempts]
         /\ StatusOf[e] = outbox[e].status /\ AttemptsOf[e] = outbox[e].attempts
BY DEF TypeOK, StatusOf, AttemptsOf

-----------------------------------------------------------------------------
(* The steps.                                                              *)

\* What a step leaves alone when it touches no key: handlers, reservations.
KeysKept == UNCHANGED <<Running, reserved, Closed>>

\* A claim of rows that are due.
LEMMA ClaimSeen ==
  ASSUME IInv, NEW w \in Worker, CommitClaim(w) \/ ClaimFails(w)
  PROVE  Seen
<1> USE DEF IInv
<1>1. pc[w] = "claiming" /\ \E to \in {"loop", "idle"} : pc' = [pc EXCEPT ![w] = to]
  BY DEF CommitClaim, ClaimFails, Goto
<1>2. UNCHANGED <<ledger, reserved>>
  BY DEF CommitClaim, ClaimFails, LeaseRows, tables
<1>3. \A v \in Worker \ {w} : cur'[v] = cur[v]
  BY DEF CommitClaim, ClaimFails, Forget, TypeOK
<1>4. KeysKept
  BY <1>1, <1>2, <1>3, RunningKept DEF KeysKept, Closed, TypeOK
<1>5. CASE UNCHANGED outbox
  BY <1>4, <1>5, RowsKept DEF KeysKept, Seen
<1>6. CASE LeaseRows(todo[w], claims + 1)
  <2> DEFINE S == todo[w]
  <2>1. S \subseteq Event /\ \A e \in S : Due(e)
    BY <1>1 DEF ClaimOwnsRows, TypeOK
  <2>2. \A e \in Event :
          /\ outbox'[e].status = IF e \in S THEN "processing" ELSE outbox[e].status
          /\ outbox'[e].attempts = outbox[e].attempts
    BY <1>6, LeasedFacts DEF LeaseRows, TypeOK
  <2> HIDE DEF S
  <2>3. /\ StatusOf' = [e \in Event |-> IF e \in S THEN "processing"
                                                   ELSE StatusOf[e]]
        /\ UNCHANGED AttemptsOf
    BY <2>2 DEF StatusOf, AttemptsOf
  <2>4. \A e \in S : StatusOf[e] \in Contract!Open
    BY <2>1 DEF StatusOf, Due, Contract!Open
  <2>5. Contract!Claim(S)
    BY <1>4, <2>3, <2>4 DEF KeysKept, Contract!Claim
  <2> QED
    BY <2>1, <2>5 DEF Seen, Contract!Next
<1> QED
  BY <1>5, <1>6 DEF CommitClaim, ClaimFails, tables

\* The final update of an event, fenced by the lease token.
LEMMA AcknowledgeSeen ==
  ASSUME IInv, NEW w \in Worker, pc[w] = "ack",
         MarkProcessed(cur[w], token[w]), KeysKept
  PROVE  Seen
<1> USE DEF IInv
<1>1. PICK e \in Event : e = cur[w] /\ e \in todo[w] /\ token[w] # NoToken
  BY AtWork DEF Working
<1>2. CASE token[w] # outbox[e].token
  <2>1. UNCHANGED outbox
    BY <1>1, <1>2 DEF MarkProcessed, UpdateFenced, TypeOK
  <2> QED
    BY <2>1, RowsKept DEF KeysKept, Seen
<1>3. CASE token[w] = outbox[e].token
  <2>1. outbox' = [outbox EXCEPT ![e] = Acknowledged(outbox[e])]
    BY <1>1, <1>3 DEF MarkProcessed, UpdateFenced
  <2>2. outbox[e] \in Row /\ outbox[e].status = "processing"
    BY <1>1, <1>3 DEF LeaseColumns, TypeOK
  <2>3. /\ StatusOf' = [StatusOf EXCEPT ![e] = "processed"]
        /\ AttemptsOf' = [AttemptsOf EXCEPT ![e] = outbox[e].attempts]
        /\ StatusOf[e] = "processing" /\ AttemptsOf[e] = outbox[e].attempts
    <3>1. /\ StatusOf' = [StatusOf EXCEPT ![e] = Acknowledged(outbox[e]).status]
          /\ AttemptsOf' = [AttemptsOf EXCEPT ![e] =
                              Acknowledged(outbox[e]).attempts]
          /\ StatusOf[e] = outbox[e].status /\ AttemptsOf[e] = outbox[e].attempts
      BY <2>1, OneRow
    <3> QED
      BY <2>2, <3>1, AcknowledgedFacts
  <2>4. UNCHANGED AttemptsOf
    BY <2>3 DEF AttemptsOf
  <2>5. KeyOf[e] \in reserved
    BY <1>1 DEF AckReserved, CurKey
  <2>6. Contract!Acknowledge(e)
    BY <2>3, <2>4, <2>5 DEF KeysKept, Contract!Acknowledge
  <2> QED
    BY <2>6 DEF Seen, Contract!Next
<1> QED
  BY <1>2, <1>3

LEMMA FailureSeen ==
  ASSUME IInv, NEW w \in Worker, pc[w] = "nack",
         MarkFailure(cur[w], token[w], seen[w][cur[w]] + 1), KeysKept
  PROVE  Seen
<1> USE DEF IInv
<1>1. PICK e \in Event : e = cur[w] /\ e \in todo[w] /\ token[w] # NoToken
  BY AtWork DEF Working
<1>2. CASE token[w] # outbox[e].token
  <2>1. UNCHANGED outbox
    BY <1>1, <1>2 DEF MarkFailure, UpdateFenced, TypeOK
  <2> QED
    BY <2>1, RowsKept DEF KeysKept, Seen
<1>3. CASE token[w] = outbox[e].token
  <2>1. /\ outbox[e] \in Row /\ outbox[e].status = "processing"
        /\ seen[w][e] = outbox[e].attempts
        /\ outbox[e].attempts < MaxAttempts /\ outbox[e].attempts \in Nat
    BY <1>1, <1>3 DEF LeaseColumns, SnapshotCurrent, AttemptsLeft, TypeOK, Row
  <2> DEFINE n == outbox[e].attempts + 1
  <2>2. outbox' = [outbox EXCEPT ![e] = Failed(n)]
    BY <1>1, <1>3, <2>1 DEF MarkFailure, UpdateFenced
  <2>3. /\ n \in Nat /\ Failed(n).attempts = n
        /\ Failed(n).status = IF n = MaxAttempts THEN "dead_letter" ELSE "failed"
    BY <2>1, FailedFacts, OutboxAssumption
  <2>4. /\ StatusOf' = [StatusOf EXCEPT ![e] =
                         IF n = MaxAttempts THEN "dead_letter" ELSE "failed"]
        /\ AttemptsOf' = [AttemptsOf EXCEPT ![e] = AttemptsOf[e] + 1]
        /\ AttemptsOf'[e] = n
        /\ StatusOf[e] = "processing" /\ AttemptsOf[e] < MaxAttempts
    <3>1. /\ StatusOf' = [StatusOf EXCEPT ![e] = Failed(n).status]
          /\ AttemptsOf' = [AttemptsOf EXCEPT ![e] = Failed(n).attempts]
          /\ StatusOf[e] = outbox[e].status /\ AttemptsOf[e] = outbox[e].attempts
      BY <2>2, OneRow
    <3>2. AttemptsOf'[e] = n
      BY <2>3, <3>1 DEF AttemptsOf
    <3> QED
      BY <2>1, <2>3, <3>1, <3>2
  <2>5. Contract!Fail(e)
    BY <2>4 DEF KeysKept, Contract!Fail
  <2> QED
    BY <2>5 DEF Seen, Contract!Next
<1> QED
  BY <1>2, <1>3

LEMMA SettlementsSeen ==
  ASSUME IInv, NEW w \in Worker, Ack(w) \/ Nack(w) \/ NackFails(w)
  PROVE  Seen
<1> USE DEF IInv
<1>1. /\ pc[w] \in {"ack", "nack"}
      /\ \E to \in {"loop", "idle"} : pc' = [pc EXCEPT ![w] = to]
      /\ UNCHANGED <<ledger, reserved>>
      /\ \E x : cur' = [cur EXCEPT ![w] = x]
  BY DEF Ack, Nack, NackFails, Settle, Forget, Goto, MarkProcessed,
         MarkFailure, UpdateFenced, tables
<1>2. KeysKept
  BY <1>1, RunningKept DEF KeysKept, Closed, TypeOK
<1>3. CASE UNCHANGED outbox
  BY <1>2, <1>3, RowsKept DEF KeysKept, Seen
<1> QED
  BY <1>2, <1>3, AcknowledgeSeen, FailureSeen DEF Ack, Nack, NackFails, tables

\* The statements of the reservation, with and without an error.
LEMMA KeysSeen ==
  ASSUME IInv, NEW w \in Worker,
         \/ Reserve(w) \/ FinishKey(w) \/ ReleaseKey(w) \/ EventFaults(w)
  PROVE  Seen
<1> USE DEF IInv
<1> DEFINE k == CurKey(w)
<1>1. /\ pc[w] \in {"reserve", "lookup", "finish", "release", "ack"}
      /\ UNCHANGED cur
      /\ \E to \in PC : /\ pc' = [pc EXCEPT ![w] = to]
                        /\ to = "dispatch" => Reserve(w) /\ ledger[k] = "none"
  BY DEF Reserve, FinishKey, ReleaseKey, EventFaults, StatementThrows, Goto,
         local, PC
<1>2. k \in Key
  BY <1>1, AtWork DEF Working, Reserving
<1>3. pc'[w] # "dispatch" => UNCHANGED Running
  BY <1>1, RunningKept DEF TypeOK
<1>4. /\ ledger[k] = "none" => k \notin Running \cup Closed
      /\ pc[w] = "finish" => k \in reserved \ Running
  BY <1>2, RunningFacts
     DEF ReservationHeld, HandlerExclusive, LedgerReserved, Reserving, Closed
<1>5. CASE UNCHANGED <<outbox, ledger, reserved>> /\ pc'[w] # "dispatch"
  BY <1>3, <1>5, RowsKept DEF Seen, Closed
<1>6. CASE InsertReservation(k) /\ ledger[k] # "none" /\ pc'[w] # "dispatch"
  <2>1. UNCHANGED <<outbox, ledger, reserved>>
    BY <1>2, <1>6 DEF InsertReservation, LedgerReserved, TypeOK
  <2> QED
    BY <1>5, <1>6, <2>1
<1>7. CASE InsertReservation(k) /\ ledger[k] = "none"
  <2>1. UNCHANGED outbox /\ reserved' = reserved \cup {k} /\ UNCHANGED Closed
    BY <1>2, <1>7 DEF InsertReservation, Closed, TypeOK
  <2>2. Running' \in {Running, Running \cup {k}}
    <3>1. CASE pc'[w] = "dispatch"
      <4>1. \A v \in Worker : pc'[v] = "dispatch" <=> v = w \/ pc[v] = "dispatch"
        BY <1>1, <3>1 DEF TypeOK
      <4>2. \A v \in Worker : CurKey(v)' = CurKey(v)
        BY <1>1 DEF CurKey
      <4>3. \A x : x \in Running' <=>
              \E v \in Worker : pc'[v] = "dispatch" /\ CurKey(v)' = x
        BY DEF Running
      <4>4. \A x : x \in Running' <=> x \in Running \/ x = k
        BY <4>1, <4>2, <4>3, RunningFacts
      <4> QED
        BY <4>4
    <3> QED
      BY <1>3, <3>1
  <2>3. PICK l \in Key : l = k
    BY <1>2
  <2>4. Contract!Begin(l)
    BY <1>4, <1>7, <2>1, <2>2, <2>3, RowsKept DEF Contract!Begin
  <2> QED
    BY <2>4 DEF Seen, Contract!Next
<1>8. CASE CloseReservation(k) /\ pc[w] = "finish" /\ pc'[w] # "dispatch"
  <2>1. UNCHANGED <<outbox, reserved>> /\ Closed' = Closed \cup {k}
    BY <1>2, <1>8 DEF CloseReservation, ReservationHeld, Closed, TypeOK
  <2>2. PICK l \in Key : l = k
    BY <1>2
  <2>3. Contract!Close(l)
    BY <1>3, <1>4, <1>8, <2>1, <2>2, RowsKept DEF Contract!Close
  <2> QED
    BY <2>3 DEF Seen, Contract!Next
<1>9. CASE DeleteReservation(k) /\ pc'[w] # "dispatch"
  <2>1. UNCHANGED <<outbox, reserved, Closed>>
    BY <1>9 DEF DeleteReservation, Closed, TypeOK
  <2> QED
    BY <1>3, <1>9, <2>1, RowsKept DEF Seen
<1>10. CASE MarkProcessed(cur[w], token[w]) /\ pc[w] = "ack" /\ pc'[w] # "dispatch"
  <2>1. KeysKept
    BY <1>3, <1>10 DEF MarkProcessed, UpdateFenced, KeysKept, Closed
  <2> QED
    BY <1>10, <2>1, AcknowledgeSeen
<1>11. CASE Reserve(w)
  <2>1. ledger[k] # "none" => pc'[w] # "dispatch"
    BY <1>1, <1>11 DEF Reserve, Goto, TypeOK
  <2> QED
    BY <1>6, <1>7, <1>11, <2>1 DEF Reserve
<1>12. CASE ~ Reserve(w)
  <2>1. pc'[w] # "dispatch"
    BY <1>1, <1>12 DEF TypeOK
  <2> QED
    BY <1>5, <1>6, <1>7, <1>8, <1>9, <1>10, <1>12, <2>1
       DEF FinishKey, ReleaseKey, EventFaults, StatementThrows, tables
<1> QED
  BY <1>11, <1>12

\* A handler that runs ends, with its process or without.
LEMMA EndsSeen ==
  ASSUME IInv, NEW w \in Worker,
         DispatchReturns(w) \/ DispatchThrows(w) \/ Crash(w)
  PROVE  Seen
<1> USE DEF IInv
<1>1. /\ UNCHANGED <<outbox, ledger, reserved>>
      /\ \E to \in PC \ {"dispatch"} : pc' = [pc EXCEPT ![w] = to]
      /\ \A v \in Worker \ {w} : cur'[v] = cur[v]
  BY DEF DispatchReturns, DispatchThrows, Crash, Forget, Goto, local, tables,
         PC, TypeOK
<1>2. /\ pc'[w] # "dispatch"
      /\ \A v \in Worker \ {w} : pc'[v] = pc[v] /\ cur'[v] = cur[v]
  BY <1>1 DEF TypeOK
<1>3. CASE pc[w] = "dispatch"
  <2>1. PICK k \in Key : k = CurKey(w)
    BY <1>3, AtWork DEF Working, Reserving
  <2>2. k \in Running /\ Running' = Running \ {k}
    BY <1>2, <1>3, <2>1, RunningEnds
  <2>3. Contract!End(k)
    BY <1>1, <2>2, RowsKept DEF Contract!End, Closed
  <2> QED
    BY <2>3 DEF Seen, Contract!Next
<1>4. CASE pc[w] # "dispatch"
  <2>1. UNCHANGED Running
    BY <1>2, <1>4, RunningKept
  <2> QED
    BY <1>1, <2>1, RowsKept DEF Seen, Closed
<1> QED
  BY <1>3, <1>4

\* Publication, and the admin's reset.
LEMMA ResetsSeen ==
  ASSUME IInv, NEW e \in Event, Append(e) \/ Retry(e) \/ RequeueDeadLetter(e)
  PROVE  Seen
<1> USE DEF IInv
<1>1. /\ outbox' = [outbox EXCEPT ![e] = Fresh]
      /\ UNCHANGED <<ledger, reserved, pc, cur>>
      /\ Append(e) <=> outbox[e].status = "absent"
  BY DEF Append, Retry, RequeueDeadLetter, ResetRow, local
<1>2. /\ StatusOf' = [StatusOf EXCEPT ![e] = "pending"]
      /\ AttemptsOf' = [AttemptsOf EXCEPT ![e] = 0]
      /\ StatusOf[e] = outbox[e].status /\ AttemptsOf[e] = outbox[e].attempts
  <2>1. /\ StatusOf' = [StatusOf EXCEPT ![e] = Fresh.status]
        /\ AttemptsOf' = [AttemptsOf EXCEPT ![e] = Fresh.attempts]
        /\ StatusOf[e] = outbox[e].status /\ AttemptsOf[e] = outbox[e].attempts
    BY <1>1, OneRow
  <2> QED
    BY <2>1, FreshFacts
<1>3. KeysKept
  BY <1>1, RunningKept DEF KeysKept, Closed
<1>4. CASE outbox[e].status = "absent"
  <2>1. UNCHANGED AttemptsOf
    BY <1>2, <1>4 DEF AttemptsOf, AttemptsAccounting
  <2>2. Contract!Publish(e)
    BY <1>2, <1>3, <1>4, <2>1 DEF KeysKept, Contract!Publish
  <2> QED
    BY <2>2 DEF Seen, Contract!Next
<1>5. CASE outbox[e].status # "absent"
  <2>1. Contract!Reopen(e)
    BY <1>2, <1>3, <1>5 DEF KeysKept, Contract!Reopen
  <2> QED
    BY <2>1 DEF Seen, Contract!Next
<1> QED
  BY <1>4, <1>5

\* The rest changes nothing of what the contract speaks about.
LEMMA StuttersSeen ==
  ASSUME IInv,
         \/ \E w \in Worker :
              \/ SelectDue(w) \/ NextEvent(w) \/ EndTick(w) \/ Lookup(w)
              \/ Exit(w) \/ Stop(w) \/ Restart(w)
         \/ \E e \in Event : Clock(e)
         \/ UNCHANGED vars
  PROVE  Seen
<1> USE DEF IInv
<1>1. ASSUME NEW w \in Worker,
             \/ SelectDue(w) \/ NextEvent(w) \/ EndTick(w) \/ Lookup(w)
             \/ Exit(w) \/ Stop(w) \/ Restart(w)
      PROVE  Seen
  <2>1. /\ UNCHANGED <<outbox, ledger, reserved>>
        /\ \/ UNCHANGED pc
           \/ /\ pc[w] # "dispatch"
              /\ \E to \in PC \ {"dispatch"} : pc' = [pc EXCEPT ![w] = to]
        /\ \/ UNCHANGED cur
           \/ pc[w] # "dispatch" /\ \E x : cur' = [cur EXCEPT ![w] = x]
    BY <1>1 DEF SelectDue, NextEvent, EndTick, Lookup, Exit, Stop, Restart,
       Forget, Goto, local, tables, PC
  <2>2. UNCHANGED Running
    BY <2>1, RunningKept DEF TypeOK
  <2> QED
    BY <2>1, <2>2, RowsKept DEF Seen, Closed
<1>2. ASSUME NEW e \in Event, Clock(e) PROVE Seen
  <2>1. /\ UNCHANGED <<ledger, reserved, pc, cur>>
        /\ outbox' \in {[outbox EXCEPT ![e] = Expired(outbox[e])],
                        [outbox EXCEPT ![e] = Retriable(outbox[e])]}
    BY <1>2 DEF Clock, LeaseExpires, RetryComesDue, local
  <2>2. \A d \in Event : /\ outbox'[d].status = outbox[d].status
                         /\ outbox'[d].attempts = outbox[d].attempts
    BY <2>1, ClockFacts DEF TypeOK
  <2>3. UNCHANGED <<StatusOf, AttemptsOf>>
    BY <2>2 DEF StatusOf, AttemptsOf
  <2> QED
    BY <2>1, <2>3, RunningKept DEF Seen, Closed
<1>3. CASE UNCHANGED vars
  BY <1>3, RowsKept, RunningKept DEF vars, Seen, Closed
<1> QED
  BY <1>1, <1>2, <1>3

LEMMA StepSeen == IInv /\ [Next]_vars => Seen
BY ClaimSeen, SettlementsSeen, KeysSeen, EndsSeen, ResetsSeen, StuttersSeen
   DEF Next, Work

LEMMA InitSeen == Init => Contract!Init
<1> SUFFICES ASSUME Init PROVE Contract!Init
  OBVIOUS
<1>1. StatusOf = [e \in Event |-> "absent"] /\ AttemptsOf = [e \in Event |-> 0]
  BY DEF Init, Absent, StatusOf, AttemptsOf
<1>2. Running = {} /\ Closed = {}
  BY DEF Init, Running, Closed
<1> QED
  BY <1>1, <1>2 DEF Init, Contract!Init

\* The publishers, the admin and every mishap together implement the contract
\* of OutboxContract.
THEOREM ContractHolds == Spec => ImplementsContract
<1>1. IInv /\ [Next]_vars => [Contract!Next]_(Contract!contractVars)
  BY StepSeen DEF Seen, Contract!contractVars
<1> QED
  BY <1>1, InitSeen, Invariance, PTL DEF Spec, ImplementsContract, Contract!Spec

-----------------------------------------------------------------------------
(* What follows from the contract alone.                                   *)

LEMMA ContractKeepsPromises ==
  ASSUME StatusOf \in [Event -> Status], AttemptsOf \in [Event -> Nat],
         Contract!Promises, Contract!Next
  PROVE  Contract!Promises'
<1>1. \A e \in Event :
        /\ StatusOf[e] = "dead_letter" <=> AttemptsOf[e] = MaxAttempts
        /\ AttemptsOf[e] \in 0 .. MaxAttempts /\ MaxAttempts \in Nat \ {0}
        /\ StatusOf[e] = "processed" => KeyOf[e] \in reserved
  BY OutboxAssumption DEF Contract!Promises, OutboxAssumption
<1>2. Running \cup Closed \subseteq reserved /\ Running \cap Closed = {}
  BY DEF Contract!Promises
<1>3. ASSUME NEW d \in Event,
             Contract!Publish(d) \/ Contract!Acknowledge(d) \/ Contract!Reopen(d)
      PROVE  Contract!Promises'
  <2> SUFFICES ASSUME NEW e \in Event
               PROVE  /\ AttemptsOf'[e] \in 0 .. MaxAttempts
                      /\ StatusOf'[e] = "dead_letter" <=> AttemptsOf'[e] = MaxAttempts
                      /\ StatusOf'[e] = "processed" => KeyOf[e] \in reserved'
    BY <1>2, <1>3 DEF Contract!Promises, Contract!Publish, Contract!Acknowledge,
                      Contract!Reopen
  <2>1. CASE Contract!Publish(d)
    BY <1>1, <2>1 DEF Contract!Publish
  <2>2. CASE Contract!Acknowledge(d)
    BY <1>1, <2>2 DEF Contract!Acknowledge
  <2>3. CASE Contract!Reopen(d)
    BY <1>1, <2>3 DEF Contract!Reopen
  <2> QED
    BY <1>3, <2>1, <2>2, <2>3
<1>4. ASSUME NEW d \in Event, Contract!Fail(d) PROVE Contract!Promises'
  <2>1. /\ AttemptsOf' = [AttemptsOf EXCEPT ![d] = AttemptsOf[d] + 1]
        /\ AttemptsOf[d] < MaxAttempts /\ StatusOf[d] = "processing"
        /\ StatusOf' = [StatusOf EXCEPT ![d] = IF AttemptsOf'[d] = MaxAttempts
                                               THEN "dead_letter" ELSE "failed"]
        /\ UNCHANGED <<Running, reserved, Closed>>
    BY <1>4 DEF Contract!Fail
  <2>2. AttemptsOf'[d] = AttemptsOf[d] + 1 /\ AttemptsOf'[d] \in 0 .. MaxAttempts
    BY <1>1, <2>1
  <2>3. \A e \in Event \ {d} : AttemptsOf'[e] = AttemptsOf[e] /\ StatusOf'[e] = StatusOf[e]
    BY <2>1
  <2>4. StatusOf'[d] = IF AttemptsOf'[d] = MaxAttempts THEN "dead_letter" ELSE "failed"
    BY <2>1
  <2> QED
    BY <1>1, <1>2, <2>1, <2>2, <2>3, <2>4 DEF Contract!Promises
<1>5. ASSUME NEW S \in SUBSET Event, Contract!Claim(S) PROVE Contract!Promises'
  <2>1. \A e \in Event : StatusOf'[e] = IF e \in S THEN "processing" ELSE StatusOf[e]
    BY <1>5 DEF Contract!Claim
  <2>2. \A e \in S : StatusOf[e] # "dead_letter"
    BY <1>5 DEF Contract!Claim, Contract!Open
  <2>3. UNCHANGED <<AttemptsOf, Running, reserved, Closed>>
    BY <1>5 DEF Contract!Claim
  <2> QED
    BY <1>1, <1>2, <2>1, <2>2, <2>3 DEF Contract!Promises
<1>6. ASSUME NEW k \in Key, Contract!Begin(k) \/ Contract!End(k) \/ Contract!Close(k)
      PROVE  Contract!Promises'
  <2>1. UNCHANGED <<StatusOf, AttemptsOf>> /\ reserved \subseteq reserved'
    BY <1>6 DEF Contract!Begin, Contract!End, Contract!Close
  <2>2. (Running \cup Closed \subseteq reserved)' /\ (Running \cap Closed = {})'
    BY <1>2, <1>6 DEF Contract!Begin, Contract!End, Contract!Close
  <2> QED
    BY <1>1, <2>1, <2>2 DEF Contract!Promises
<1> QED
  BY <1>3, <1>4, <1>5, <1>6 DEF Contract!Next

\* The publishers keep what the contract promises: an event is given up at exactly
\* MaxAttempts failures, an acknowledged one had its key reserved, and no handler
\* executes for a key that is closed.
THEOREM PromisesKept == Spec => []Contract!Promises
<1>1. Init => Contract!Promises
  <2> SUFFICES ASSUME Contract!Init PROVE Contract!Promises
    BY InitSeen
  <2> QED
    BY OutboxAssumption DEF OutboxAssumption, Contract!Init, Contract!Promises
<1>2. IInv => StatusOf \in [Event -> Status] /\ AttemptsOf \in [Event -> Nat]
  BY DEF IInv, TypeOK, StatusOf, AttemptsOf, Row
<1>3. Contract!Promises /\ UNCHANGED Contract!contractVars => Contract!Promises'
  BY DEF Contract!Promises, Contract!contractVars
<1>4. IInv /\ Contract!Promises /\ [Contract!Next]_(Contract!contractVars)
        => Contract!Promises'
  BY <1>2, <1>3, ContractKeepsPromises
<1> QED
  BY <1>1, <1>4, ContractHolds, Invariance, PTL
  DEF Spec, ImplementsContract, Contract!Spec

-----------------------------------------------------------------------------
(* Without mishap nothing is dropped.                                      *)

\* The steps that are not a mishap, other than LeaseExpires.
Clean == \/ \E w \in Worker : Work(w) \/ Stop(w) \/ Restart(w)
         \/ \E e \in Event : Append(e) \/ RetryComesDue(e)
         \/ UNCHANGED vars

BudgetsKept == \A h \in Mishap : budget[h] <= Budget[h]

\* While nothing has gone wrong only clean steps happened: a lease that a
\* worker holds cannot run out, and no other lease exists.
LEMMA CleanStep ==
  ASSUME IInv, SteadyInv, [Next]_vars
  PROVE  /\ BudgetsKept'
         /\ Unhurt' => Unhurt /\ Clean
<1> USE DEF IInv
<1>1. /\ budget \in [Mishap -> Nat] /\ Budget \in [Mishap -> Nat]
      /\ BudgetsKept
      /\ {"crash", "fault", "slow", "manual", "stop"} \subseteq Mishap
  BY OutboxAssumption DEF TypeOK, SteadyInv, BudgetsKept, Mishap
<1>2. ASSUME NEW h \in Mishap, Spend(h)
      PROVE  BudgetsKept' /\ (Unhurt' => Unhurt /\ h = "stop")
  <2>1. /\ budget[h] > 0 /\ budget'[h] = budget[h] - 1
        /\ \A g \in Mishap \ {h} : budget'[g] = budget[g]
    BY <1>1, <1>2 DEF Spend
  <2>2. \A g \in Mishap : budget[g] \in Nat /\ Budget[g] \in Nat
                          /\ budget[g] <= Budget[g]
    BY <1>1 DEF BudgetsKept
  <2>3. budget'[h] # Budget[h]
    BY <2>1, <2>2
  <2>4. BudgetsKept'
    BY <2>1, <2>2 DEF BudgetsKept
  <2>5. Unhurt' => h = "stop"
    BY <2>3 DEF Unhurt
  <2> QED
    BY <2>1, <2>4, <2>5 DEF Unhurt
<1>3. UNCHANGED budget => BudgetsKept' /\ (Unhurt' => Unhurt)
  BY <1>1 DEF BudgetsKept, Unhurt
<1>4. ASSUME NEW w \in Worker,
             ClaimFails(w) \/ EventFaults(w) \/ NackFails(w) \/ Crash(w)
      PROVE  BudgetsKept' /\ ~ Unhurt'
  BY <1>1, <1>2, <1>4
     DEF ClaimFails, EventFaults, StatementThrows, NackFails, Crash
<1>5. ASSUME NEW e \in Event, Retry(e) \/ RequeueDeadLetter(e)
      PROVE  BudgetsKept' /\ ~ Unhurt'
  BY <1>1, <1>2, <1>5 DEF Retry, RequeueDeadLetter
<1>6. ASSUME NEW e \in Event, LeaseExpires(e)
      PROVE  BudgetsKept' /\ ~ Unhurt'
  <2>1. CASE Held(e)
    BY <1>1, <1>2, <1>6, <2>1 DEF LeaseExpires
  <2>2. CASE ~ Held(e)
    <3>1. outbox[e].status = "processing" /\ UNCHANGED budget
      BY <1>6, <2>2 DEF LeaseExpires, LeaseColumns
    <3>2. ~ Unhurt
      BY <2>2, <3>1 DEF SteadyInv, LeasesLast
    <3> QED
      BY <1>1, <3>1, <3>2 DEF BudgetsKept, Unhurt
  <2> QED
    BY <2>1, <2>2
<1>7. ASSUME NEW w \in Worker, Work(w) \/ Restart(w) PROVE UNCHANGED budget
  BY <1>7 DEF Work, SelectDue, CommitClaim, NextEvent, EndTick, Reserve,
     Lookup, DispatchReturns, DispatchThrows, FinishKey, ReleaseKey, Ack, Nack,
     Exit, Restart
<1>8. ASSUME NEW e \in Event, Append(e) \/ RetryComesDue(e)
      PROVE  UNCHANGED budget
  BY <1>8 DEF Append, RetryComesDue
<1>9. ASSUME NEW w \in Worker, Stop(w)
      PROVE  BudgetsKept' /\ (Unhurt' => Unhurt)
  BY <1>1, <1>2, <1>9 DEF Stop
<1>10. CASE UNCHANGED vars
  BY <1>3, <1>10, <1>1 DEF vars, BudgetsKept, Unhurt, Clean
<1> QED
  BY <1>1, <1>3, <1>4, <1>5, <1>6, <1>7, <1>8, <1>9, <1>10
     DEF Next, Clean, Clock, BudgetsKept, Unhurt

\* A worker that holds a lease and one that works are told apart by it.
LEMMA HolderFacts ==
  ASSUME IInv, LeasesLast
  PROVE  /\ \A w \in Worker : \A e \in todo[w] :
              token[w] # NoToken =>
                /\ e \in Event /\ outbox[e].token = token[w]
                /\ outbox[e].status = "processing" /\ outbox[e].lease = "future"
                /\ ~ Due(e)
                /\ \A v \in Worker : e \in todo[v] /\ token[v] # NoToken => v = w
         /\ \A w \in Worker : pc[w] \in Working =>
              cur[w] \in todo[w] /\ token[w] # NoToken
<1>1. ASSUME NEW w \in Worker, NEW e \in todo[w], token[w] # NoToken
      PROVE  /\ e \in Event /\ outbox[e].token = token[w]
             /\ outbox[e].status = "processing" /\ outbox[e].lease = "future"
             /\ ~ Due(e)
             /\ \A v \in Worker : e \in todo[v] /\ token[v] # NoToken => v = w
  <2>1. e \in Event /\ outbox[e].token = token[w]
    BY <1>1 DEF IInv, TypeOK, LeasesLast
  <2>2. outbox[e].status = "processing" /\ outbox[e].lease = "future"
    BY <1>1, <2>1 DEF IInv, LeaseColumns, LeasesLast
  <2>3. \A v \in Worker : e \in todo[v] /\ token[v] # NoToken => v = w
    BY <1>1, <2>1 DEF IInv, TokensUnique, LeasesLast
  <2> QED
    BY <2>1, <2>2, <2>3 DEF Due
<1> QED
  BY <1>1, AtWork DEF IInv

\* A row that is settled by the worker that holds it.
LEMMA SettledRow ==
  ASSUME IInv, LeasesLast, NEW w \in Worker, Ack(w) \/ Nack(w)
  PROVE  /\ cur[w] \in Event /\ cur[w] \in todo[w]
         /\ \/ outbox'[cur[w]].status = "processed" /\ pc[w] = "ack"
            \/ outbox'[cur[w]].status \in {"failed", "dead_letter"}
         /\ \A e \in Event \ {cur[w]} : outbox'[e] = outbox[e]
         /\ todo'[w] = todo[w] \ {cur[w]}
         /\ cur'[w] = NoEvent
         /\ pc'[w] = "loop"
         /\ \A v \in Worker \ {w} : /\ todo'[v] = todo[v] /\ cur'[v] = cur[v]
                                    /\ pc'[v] = pc[v]
         /\ UNCHANGED <<token, ledger, completions>>
<1>1. pc[w] \in Working
  BY DEF Ack, Nack, Working
<1>2. /\ cur[w] \in Event /\ cur[w] \in todo[w]
      /\ outbox[cur[w]].token = token[w] /\ outbox[cur[w]] \in Row
      /\ seen[w][cur[w]] + 1 \in Nat
  BY <1>1, HolderFacts, AtWork DEF IInv, TypeOK
<1>3. /\ \/ outbox'[cur[w]].status = "processed" /\ pc[w] = "ack"
         \/ outbox'[cur[w]].status \in {"failed", "dead_letter"}
      /\ \A e \in Event \ {cur[w]} : outbox'[e] = outbox[e]
  BY <1>2, AcknowledgedFacts, FailedFacts
     DEF Ack, Nack, MarkProcessed, MarkFailure, UpdateFenced, IInv, TypeOK
<1>4. UNCHANGED <<token, ledger, completions>>
  BY DEF Ack, Nack, MarkProcessed, MarkFailure, UpdateFenced
<1> QED
  BY <1>2, <1>3, <1>4 DEF Ack, Nack, Settle, Goto, IInv, TypeOK

LEMMA LeasesLastStep ==
  ASSUME IInv, LeasesLast, Clean
  PROVE  LeasesLast'
<1> USE DEF IInv
<1>1. TypeOK /\ WorkerShape
  OBVIOUS
<1>2. ASSUME UNCHANGED <<outbox, token>>,
             \A v \in Worker :
               \/ todo'[v] = todo[v]
               \/ token[v] = NoToken
      PROVE  LeasesLast'
  <2>1. \A v \in Worker : \A e \in todo'[v] :
          token'[v] # NoToken => outbox'[e].token = token'[v]
    BY <1>2 DEF LeasesLast
  <2>2. ASSUME NEW e \in Event, outbox'[e].status = "processing"
        PROVE  Held(e)' /\ outbox'[e].lease = "future"
    <3>1. /\ outbox[e].token # NoToken /\ Held(e) /\ outbox[e].lease = "future"
      BY <1>2, <2>2 DEF LeasesLast, LeaseColumns
    <3> QED
      BY <1>2, <3>1 DEF Held
  <2> QED
    BY <2>1, <2>2 DEF LeasesLast
<1>3. ASSUME NEW w \in Worker,
             \/ SelectDue(w) \/ NextEvent(w) \/ Reserve(w) \/ Lookup(w)
             \/ DispatchReturns(w) \/ DispatchThrows(w) \/ FinishKey(w)
             \/ ReleaseKey(w) \/ Exit(w) \/ Stop(w) \/ Restart(w)
      PROVE  LeasesLast'
  <2>1. /\ UNCHANGED <<outbox, token>>
        /\ \/ UNCHANGED todo
           \/ pc[w] = "idle" /\ \E x : todo' = [todo EXCEPT ![w] = x]
    BY <1>3 DEF SelectDue, NextEvent, Reserve, Lookup, DispatchReturns,
       DispatchThrows, FinishKey, ReleaseKey, Exit, Stop, Restart,
       InsertReservation, CloseReservation, DeleteReservation, local, tables
  <2> QED
    BY <1>2, <2>1 DEF WorkerShape, TypeOK
<1>4. ASSUME NEW w \in Worker, EndTick(w) PROVE LeasesLast'
  <2>1. /\ UNCHANGED outbox /\ todo[w] = {} /\ todo'[w] = {}
        /\ \A v \in Worker \ {w} : todo'[v] = todo[v] /\ token'[v] = token[v]
    BY <1>4 DEF EndTick, Forget, tables, TypeOK
  <2>2. \A e \in Event : Held(e) => Held(e)'
    BY <2>1 DEF Held
  <2> QED
    BY <2>1, <2>2 DEF LeasesLast
<1>5. ASSUME NEW w \in Worker, CommitClaim(w) PROVE LeasesLast'
  <2> DEFINE S == todo[w]
  <2>1. /\ token[w] = NoToken /\ S \subseteq Event /\ \A e \in S : Due(e)
        /\ claims + 1 # NoToken /\ claims + 1 \in Nat
    BY <1>5 DEF CommitClaim, WorkerShape, ClaimOwnsRows, TypeOK, NoToken
  <2>2. /\ token'[w] = claims + 1 /\ UNCHANGED todo
        /\ \A v \in Worker \ {w} : token'[v] = token[v]
    BY <1>5 DEF CommitClaim, TypeOK
  <2>3. /\ \A e \in S : /\ outbox'[e].token = claims + 1
                        /\ outbox'[e].lease = "future"
        /\ \A e \in Event \ S : outbox'[e] = outbox[e]
    BY <1>5, <2>1, LeasedFacts DEF CommitClaim, LeaseRows, TypeOK
  <2>4. \A v \in Worker \ {w} : token[v] # NoToken =>
          \A e \in todo[v] : e \in Event \ S
    BY <2>1, HolderFacts
  <2>5. ASSUME NEW e \in Event, outbox'[e].status = "processing"
        PROVE  Held(e)' /\ outbox'[e].lease = "future"
    <3>1. CASE e \in S
      BY <2>2, <2>3, <3>1 DEF Held
    <3>2. CASE e \notin S
      <4>1. /\ outbox'[e] = outbox[e] /\ outbox[e].token # NoToken
            /\ Held(e) /\ outbox[e].lease = "future"
        BY <2>3, <2>5, <3>2 DEF LeasesLast, LeaseColumns
      <4> QED
        BY <2>1, <2>2, <4>1 DEF Held
    <3> QED
      BY <3>1, <3>2
  <2>6. ASSUME NEW v \in Worker, NEW e \in todo'[v], token'[v] # NoToken
        PROVE  outbox'[e].token = token'[v]
    <3>1. CASE v = w
      BY <2>2, <2>3, <2>6, <3>1
    <3>2. CASE v # w
      BY <2>2, <2>3, <2>4, <2>6, <3>2 DEF LeasesLast
    <3> QED
      BY <3>1, <3>2
  <2> QED
    BY <2>5, <2>6 DEF LeasesLast
<1>6. ASSUME NEW w \in Worker, Ack(w) \/ Nack(w) PROVE LeasesLast'
  <2>1. PICK e \in Event : e = cur[w] /\ e \in todo[w] /\ token[w] # NoToken
    BY <1>6, AtWork DEF Ack, Nack, Working
  <2>2. /\ outbox'[e].status # "processing"
        /\ \A d \in Event \ {e} : outbox'[d] = outbox[d]
        /\ todo'[w] = todo[w] \ {e}
        /\ \A v \in Worker \ {w} : todo'[v] = todo[v]
        /\ UNCHANGED token
    BY <1>6, <2>1, SettledRow
  <2>3. \A v \in Worker : \A d \in todo'[v] :
          d \in Event /\ d \in todo[v] /\ (token[v] # NoToken => d # e)
    BY <2>1, <2>2, HolderFacts DEF TypeOK
  <2>4. \A v \in Worker : \A d \in todo'[v] :
          token'[v] # NoToken => outbox'[d].token = token'[v]
    BY <2>2, <2>3 DEF LeasesLast
  <2>5. ASSUME NEW d \in Event, outbox'[d].status = "processing"
        PROVE  Held(d)' /\ outbox'[d].lease = "future"
    <3>1. d # e /\ outbox'[d] = outbox[d] /\ Held(d) /\ outbox[d].lease = "future"
      BY <2>2, <2>5 DEF LeasesLast
    <3> QED
      BY <2>2, <3>1 DEF Held
  <2> QED
    BY <2>4, <2>5 DEF LeasesLast
<1>7. ASSUME NEW e \in Event, Append(e) \/ RetryComesDue(e) PROVE LeasesLast'
  <2>1. UNCHANGED <<todo, token>>
    BY <1>7 DEF Append, RetryComesDue, local
  <2>2. \A d \in Event : outbox'[d].status = "processing" =>
          /\ outbox'[d].token = outbox[d].token
          /\ outbox[d].status = "processing" /\ outbox'[d].lease = outbox[d].lease
    BY <1>7, FreshFacts, ClockFacts DEF Append, RetryComesDue, TypeOK
  <2>3. \A d \in Event : outbox[d].status = "processing" =>
          outbox'[d].token = outbox[d].token
    BY <1>7, FreshFacts, ClockFacts DEF Append, RetryComesDue, TypeOK
  <2>4. \A v \in Worker : \A d \in todo[v] :
          token[v] # NoToken => outbox'[d].token = token[v]
    BY <2>3, HolderFacts
  <2> QED
    BY <2>1, <2>2, <2>4 DEF LeasesLast, Held
<1>8. CASE UNCHANGED vars
  BY <1>2, <1>8 DEF vars
<1> QED
  BY <1>3, <1>4, <1>5, <1>6, <1>7, <1>8 DEF Clean, Work

\* The clean steps of handleEvent, and what the others leave alone.
HandlesCleanly(w) ==
  \/ Reserve(w) \/ Lookup(w) \/ DispatchReturns(w) \/ DispatchThrows(w)
  \/ FinishKey(w) \/ ReleaseKey(w)

LEMMA CleanFrame ==
  ASSUME IInv, Clean, \A w \in Worker : ~ HandlesCleanly(w)
  PROVE  /\ UNCHANGED <<ledger, completions>>
         /\ \A v \in Worker :
              /\ pc[v] \in Reserving \cup {"lookup"} =>
                   pc'[v] = pc[v] /\ cur'[v] = cur[v]
              /\ pc'[v] \in Reserving \cup {"lookup", "ack"} =>
                   pc'[v] = pc[v] /\ cur'[v] = cur[v]
<1> USE DEF IInv, TypeOK, Reserving
<1>1. ASSUME NEW w \in Worker,
             \/ SelectDue(w) \/ CommitClaim(w) \/ NextEvent(w) \/ EndTick(w)
             \/ Ack(w) \/ Nack(w) \/ Exit(w) \/ Restart(w)
      PROVE  /\ UNCHANGED <<ledger, completions>>
             /\ pc[w] \in {"idle", "claiming", "loop", "ack", "nack", "down"}
             /\ \E to \in {"idle", "claiming", "loop", "reserve", "down"} :
                  pc' = [pc EXCEPT ![w] = to]
             /\ UNCHANGED cur \/ \E x : cur' = [cur EXCEPT ![w] = x]
  BY <1>1 DEF SelectDue, CommitClaim, NextEvent, EndTick, Ack, Nack, Exit,
     Restart, Settle, Forget, Goto, LeaseRows, MarkProcessed, MarkFailure,
     UpdateFenced, local, tables
<1>2. ASSUME NEW w \in Worker,
             \/ SelectDue(w) \/ CommitClaim(w) \/ NextEvent(w) \/ EndTick(w)
             \/ Ack(w) \/ Nack(w) \/ Exit(w) \/ Restart(w)
      PROVE  \A v \in Worker : v # w => pc'[v] = pc[v] /\ cur'[v] = cur[v]
  BY <1>1, <1>2
<1>3. ASSUME NEW w \in Worker, Stop(w)
      PROVE  UNCHANGED <<ledger, completions, pc, cur>>
  BY <1>3 DEF Stop, local, tables
<1>4. ASSUME NEW e \in Event, Append(e) \/ RetryComesDue(e)
      PROVE  UNCHANGED <<ledger, completions, pc, cur>>
  BY <1>4 DEF Append, RetryComesDue, local
<1>5. CASE UNCHANGED vars
  BY <1>5 DEF vars
<1>6. ASSUME NEW w \in Worker,
             \/ SelectDue(w) \/ CommitClaim(w) \/ NextEvent(w) \/ EndTick(w)
             \/ Ack(w) \/ Nack(w) \/ Exit(w) \/ Restart(w)
      PROVE  /\ UNCHANGED <<ledger, completions>>
             /\ \A v \in Worker :
                  /\ pc[v] \in Reserving \cup {"lookup"} =>
                       pc'[v] = pc[v] /\ cur'[v] = cur[v]
                  /\ pc'[v] \in Reserving \cup {"lookup", "ack"} =>
                       pc'[v] = pc[v] /\ cur'[v] = cur[v]
  <2>1. /\ pc[w] \notin Reserving \cup {"lookup"}
        /\ pc'[w] \notin Reserving \cup {"lookup", "ack"}
    BY <1>1, <1>6
  <2> QED
    BY <1>1, <1>2, <1>6, <2>1
<1> QED
  BY <1>3, <1>4, <1>5, <1>6 DEF Clean, Work, HandlesCleanly

\* What a clean step of handleEvent does to its worker, and to its key.
LEMMA HandlerFrame ==
  ASSUME IInv, NEW w \in Worker, HandlesCleanly(w)
  PROVE  /\ pc[w] \in Working /\ CurKey(w) \in Key /\ UNCHANGED <<cur, outbox>>
         /\ \A v \in Worker : v # w => pc'[v] = pc[v]
         /\ \A v \in Worker : CurKey(v)' = CurKey(v)
         /\ \A k \in Key : k # CurKey(w) => ledger'[k] = ledger[k]
         /\ \A k \in Key : /\ completions[k] \in Nat
                           /\ completions[k] > 0 => completions'[k] > 0
         /\ \A v \in Worker : pc[v] \in Reserving => CurKey(v) \in Key
<1> USE DEF IInv, TypeOK
<1>1. /\ pc[w] \in Working /\ UNCHANGED <<cur, outbox>>
      /\ \E to \in PC : pc' = [pc EXCEPT ![w] = to]
  BY DEF HandlesCleanly, Reserve, Lookup, DispatchReturns, DispatchThrows,
     FinishKey, ReleaseKey, InsertReservation, CloseReservation,
     DeleteReservation, Goto, local, tables, Working, Reserving, PC
<1>2. CurKey(w) \in Key
  BY <1>1, AtWork
<1>3. \A k \in Key : k # CurKey(w) => ledger'[k] = ledger[k]
  BY <1>2 DEF HandlesCleanly, Reserve, Lookup, DispatchReturns, DispatchThrows,
     FinishKey, ReleaseKey, InsertReservation, CloseReservation,
     DeleteReservation, tables
<1>4. /\ completions \in [Key -> Nat]
      /\ \/ UNCHANGED completions
         \/ completions' = [completions EXCEPT ![CurKey(w)] =
                              completions[CurKey(w)] + 1]
  BY DEF HandlesCleanly, Reserve, Lookup, DispatchReturns, DispatchThrows,
     FinishKey, ReleaseKey
<1>5. \A k \in Key : completions[k] > 0 => completions'[k] > 0
  BY <1>2, <1>4
<1>6. \A v \in Worker : CurKey(v)' = CurKey(v)
  BY <1>1 DEF CurKey
<1>7. \A v \in Worker : pc[v] \in Reserving => CurKey(v) \in Key
  BY AtWork DEF Working
<1> QED
  BY <1>1, <1>2, <1>3, <1>4, <1>5, <1>6, <1>7

LEMMA ReservationsLiveStep ==
  ASSUME IInv, ReservationsLive, Clean
  PROVE  ReservationsLive'
<1> USE DEF IInv, TypeOK
<1>1. CASE \A w \in Worker : ~ HandlesCleanly(w)
  <2>1. \A v \in Worker : pc[v] \in Reserving => CurKey(v)' = CurKey(v)
    BY <1>1, CleanFrame DEF CurKey
  <2>2. \A v \in Worker : pc'[v] = "finish" =>
          pc[v] = "finish" /\ CurKey(v)' = CurKey(v)
    BY <1>1, CleanFrame DEF CurKey, Reserving
  <2>3. \A v \in Worker : pc[v] \in Reserving => pc'[v] \in Reserving
    BY <1>1, CleanFrame
  <2>4. UNCHANGED <<ledger, completions>>
    BY <1>1, CleanFrame
  <2> QED
    BY <2>1, <2>2, <2>3, <2>4 DEF ReservationsLive
<1>2. ASSUME NEW w \in Worker, HandlesCleanly(w) PROVE ReservationsLive'
  <2> DEFINE k == CurKey(w)
  <2>1. PICK l \in Key : l = k
    BY <1>2, HandlerFrame
  <2>2. \A v \in Worker : v # w /\ pc[v] \in Reserving => pc'[v] \in Reserving
    BY <1>2, HandlerFrame
  \* The handlers of the other keys.
  <2>3. \A j \in Key \ {l} :
          /\ ledger'[j] = "processed" => completions'[j] > 0
          /\ ledger'[j] = "processing" =>
               \E v \in Worker : pc'[v] \in Reserving /\ CurKey(v)' = j
    <3> SUFFICES ASSUME NEW j \in Key \ {l}
                 PROVE  /\ ledger'[j] = "processed" => completions'[j] > 0
                        /\ ledger'[j] = "processing" =>
                             \E v \in Worker : /\ pc'[v] \in Reserving
                                               /\ CurKey(v)' = j
      OBVIOUS
    <3>1. ledger'[j] = ledger[j] /\ (completions[j] > 0 => completions'[j] > 0)
      BY <1>2, <2>1, HandlerFrame
    <3>2. \A v \in Worker : CurKey(v)' = j <=> CurKey(v) = j
      BY <1>2, HandlerFrame
    <3>3. CurKey(w) # j
      BY <2>1
    <3> QED
      BY <2>2, <3>1, <3>2, <3>3 DEF ReservationsLive
  \* The handler of w's own key.
  <2>4. /\ ledger'[l] = "processed" => completions'[l] > 0
        /\ ledger'[l] = "processing" =>
             \/ pc'[w] \in Reserving
             \/ \E v \in Worker \ {w} : pc[v] \in Reserving /\ CurKey(v) = l
        /\ pc'[w] = "finish" => completions'[l] > 0
    <3> USE DEF ReservationsLive, Reserving
    <3>1. CASE Reserve(w)
      BY <2>1, <3>1 DEF Reserve, InsertReservation, Goto
    <3>2. CASE Lookup(w)
      BY <2>1, <3>2 DEF Lookup, Goto, tables
    <3>3. CASE DispatchReturns(w)
      <4>1. completions'[l] = completions[l] + 1 /\ completions[l] \in Nat
        BY <2>1, <3>3 DEF DispatchReturns
      <4> QED
        BY <2>1, <3>3, <4>1 DEF DispatchReturns, Goto, tables
    <3>4. CASE DispatchThrows(w)
      BY <2>1, <3>4 DEF DispatchThrows, Goto, tables
    <3>5. CASE FinishKey(w)
      <4>1. ledger'[l] \in {"none", "processed"} /\ completions'[l] > 0
        BY <2>1, <3>5 DEF FinishKey, CloseReservation
      <4> QED
        BY <3>5, <4>1 DEF FinishKey, Goto
    <3>6. CASE ReleaseKey(w)
      BY <2>1, <3>6 DEF ReleaseKey, DeleteReservation, Goto
    <3> QED
      BY <1>2, <3>1, <3>2, <3>3, <3>4, <3>5, <3>6 DEF HandlesCleanly
  <2>5. \A v \in Worker : pc'[v] = "finish" => completions'[CurKey(v)'] > 0
    <3> SUFFICES ASSUME NEW v \in Worker, pc'[v] = "finish"
                 PROVE  completions'[CurKey(v)'] > 0
      OBVIOUS
    <3>1. CASE v = w
      BY <1>2, <2>1, <2>4, <3>1, HandlerFrame
    <3>2. CASE v # w
      <4>1. /\ pc[v] = "finish" /\ CurKey(v)' = CurKey(v)
            /\ completions[CurKey(v)] > 0
        BY <1>2, <3>2, HandlerFrame DEF ReservationsLive
      <4>2. CurKey(v) \in Key
        BY <1>2, <4>1, HandlerFrame DEF Reserving
      <4> QED
        BY <1>2, <4>1, <4>2, HandlerFrame
    <3> QED
      BY <3>1, <3>2
  <2>6. ledger'[l] = "processing" =>
          \E v \in Worker : pc'[v] \in Reserving /\ CurKey(v)' = l
    BY <1>2, <2>1, <2>2, <2>4, HandlerFrame
  <2> QED
    BY <2>3, <2>4, <2>5, <2>6 DEF ReservationsLive
<1> QED
  BY <1>1, <1>2

\* Key k completed, or has an event that answers for it.
Settled(k) == completions[k] > 0 \/ \E d \in Event : KeyOf[d] = k /\ Answers(d)

\* What keeps the answers for a key: who relies on it found one already, and
\* an event that stops answering leaves another one or a completion.
LEMMA AnswersKept ==
  ASSUME KeysAnswered,
         \A k \in Key : completions[k] > 0 => completions'[k] > 0,
         \A k \in Key : Answered(k)' => Answered(k) \/ Settled(k)',
         \A d \in Event : Answers(d) => Answers(d)' \/ Settled(KeyOf[d])'
  PROVE  KeysAnswered'
<1>1. \A k \in Key : Answered(k) => Settled(k)
  BY DEF KeysAnswered, Settled
<1>2. \A k \in Key : Settled(k) => Settled(k)'
  BY DEF Settled
<1> QED
  BY <1>1, <1>2 DEF KeysAnswered, Settled

\* The steps after which nobody relies on an event who did not before.
LEMMA AnswersFrame ==
  ASSUME IInv, KeysAnswered,
         \A k \in Key : completions[k] > 0 => completions'[k] > 0,
         \A v \in Worker : pc'[v] \in {"lookup", "ack"} =>
                             pc[v] \in {"lookup", "ack"} /\ cur'[v] = cur[v],
         \A e \in Event : outbox'[e].status = "processed" =>
                            outbox[e].status = "processed",
         \A d \in Event : Answers(d) =>
           \/ outbox'[d].status = outbox[d].status
           \/ outbox'[d].status \in {"failed", "dead_letter"}
           \/ /\ outbox'[d].status = "processing"
              /\ \A v \in Worker : cur[v] = d => ~ Relies(v)
  PROVE  KeysAnswered'
<1>1. \A v \in Worker : pc'[v] \in {"lookup", "ack"} => CurKey(v)' = CurKey(v)
  BY DEF CurKey
<1>2. \A k \in Key : Answered(k)' => Answered(k)
  BY <1>1 DEF Answered, Relies
<1>3. \A d \in Event : Answers(d) => Answers(d)'
  BY DEF Answers, Relies
<1> QED
  BY <1>2, <1>3, AnswersKept

\* A worker whose key is reserved by another one, or closed, relies on it.
LEMMA ReserveAnswered ==
  ASSUME IInv, LeasesLast, ReservationsLive, KeysAnswered,
         NEW w \in Worker, Reserve(w)
  PROVE  KeysAnswered'
<1> USE DEF IInv, TypeOK
<1>1. /\ pc[w] = "reserve" /\ CurKey(w) \in Key
      /\ cur[w] \in Event /\ cur[w] \in todo[w] /\ token[w] # NoToken
      /\ KeyOf[cur[w]] = CurKey(w)
      /\ UNCHANGED <<outbox, cur, completions, todo, token>>
      /\ \A v \in Worker : v # w => pc'[v] = pc[v]
      /\ pc'[w] = IF ledger[CurKey(w)] = "none" THEN "dispatch" ELSE "lookup"
  BY AtWork DEF Reserve, InsertReservation, Goto, local, Working, CurKey
<1> PICK k \in Key : k = CurKey(w)
  BY <1>1
<1>2. CASE ledger[CurKey(w)] = "none"
  BY <1>1, <1>2, AnswersFrame
<1>3. CASE ledger[CurKey(w)] # "none"
  <2>1. Settled(k)'
    <3>1. CASE ledger[CurKey(w)] = "processed"
      BY <1>1, <3>1 DEF ReservationsLive, Settled
    <3>2. CASE ledger[CurKey(w)] = "processing"
      <4>1. PICK v \in Worker : pc[v] \in Reserving /\ CurKey(v) = CurKey(w)
        BY <1>1, <3>2 DEF ReservationsLive
      <4>2. PICK d \in Event : d = cur[v] /\ d \in todo[v]
        BY <4>1, AtWork DEF Working
      <4>3. /\ v # w /\ token[v] # NoToken /\ ~ Relies(v)
            /\ outbox[d].status = "processing" /\ KeyOf[d] = CurKey(w)
        BY <1>1, <4>1, <4>2, HolderFacts DEF Working, Reserving, Relies, CurKey
      <4>4. ASSUME NEW u \in Worker, cur[u] = d, pc'[u] \in {"lookup", "ack"}
            PROVE  FALSE
        <5>1. d \in todo[u] /\ token[u] # NoToken
          BY <1>1, <4>4, HolderFacts DEF Working
        <5>2. u = v
          BY <4>2, <4>3, <5>1, HolderFacts
        <5> QED
          BY <1>1, <4>1, <4>3, <4>4, <5>2 DEF Reserving
      <4> QED
        BY <1>1, <4>3, <4>4 DEF Settled, Answers, Relies
    <3> QED
      BY <1>1, <1>3, <3>1, <3>2
  <2>2. \A v \in Worker : CurKey(v)' = CurKey(v)
    BY <1>1 DEF CurKey
  <2>3. \A j \in Key : Answered(j)' => Answered(j) \/ j = k
    BY <1>1, <2>2 DEF Answered, Relies
  <2>4. \A d \in Event : Answers(d) => Answers(d)' \/ d = cur[w]
    BY <1>1 DEF Answers, Relies
  <2> QED
    BY <1>1, <2>1, <2>3, <2>4, AnswersKept
<1> QED
  BY <1>2, <1>3

\* A completed handler needs no other event of its key.
LEMMA FinishAnswered ==
  ASSUME IInv, ReservationsLive, KeysAnswered, NEW w \in Worker, FinishKey(w)
  PROVE  KeysAnswered'
<1> USE DEF IInv, TypeOK
<1>1. /\ CurKey(w) \in Key /\ completions[CurKey(w)] > 0
      /\ cur[w] \in Event /\ KeyOf[cur[w]] = CurKey(w)
      /\ UNCHANGED <<outbox, cur, completions>>
      /\ \A v \in Worker : v # w => pc'[v] = pc[v]
  BY AtWork DEF FinishKey, CloseReservation, Goto, local, Working, Reserving,
     CurKey, ReservationsLive
<1> PICK k \in Key : k = CurKey(w)
  BY <1>1
<1>2. Settled(k)'
  BY <1>1 DEF Settled
<1>3. \A v \in Worker : CurKey(v)' = CurKey(v)
  BY <1>1 DEF CurKey
<1>4. \A j \in Key : Answered(j)' => Answered(j) \/ j = k
  BY <1>1, <1>3 DEF Answered, Relies
<1>5. \A d \in Event : Answers(d) => Answers(d)' \/ d = cur[w]
  BY <1>1 DEF Answers, Relies
<1> QED
  BY <1>1, <1>2, <1>4, <1>5, AnswersKept

\* An acknowledged event relied on its key before.
LEMMA AckAnswered ==
  ASSUME IInv, LeasesLast, KeysAnswered, NEW w \in Worker, Ack(w)
  PROVE  KeysAnswered'
<1> USE DEF IInv, TypeOK
<1>1. PICK e \in Event : e = cur[w]
  BY SettledRow
<1>2. /\ pc[w] = "ack" /\ Relies(w) /\ KeyOf[e] = CurKey(w)
  BY <1>1 DEF Ack, Relies, CurKey
<1>3. /\ \A d \in Event \ {e} : outbox'[d] = outbox[d]
      /\ cur'[w] = NoEvent /\ pc'[w] = "loop" /\ UNCHANGED completions
      /\ \A v \in Worker \ {w} : cur'[v] = cur[v] /\ pc'[v] = pc[v]
  BY <1>1, SettledRow
<1>4. outbox[e].status = "processing"
  BY <1>1, <1>2, HolderFacts DEF Working
<1>5. \A v \in Worker : pc'[v] \in {"lookup", "ack"} =>
        Relies(v) /\ CurKey(v)' = CurKey(v)
  BY <1>3 DEF CurKey, Relies
<1>6. \A k \in Key : Answered(k)' => Answered(k)
  BY <1>1, <1>2, <1>3, <1>5 DEF Answered, Relies
<1>7. ASSUME NEW d \in Event, Answers(d) PROVE Answers(d)'
  <2>1. d # e
    BY <1>1, <1>2, <1>4, <1>7 DEF Answers
  <2>2. outbox'[d] = outbox[d]
    BY <1>3, <2>1
  <2>3. \A v \in Worker : cur'[v] = d /\ pc'[v] \in {"lookup", "ack"} =>
          cur[v] = d /\ Relies(v)
    BY <1>3 DEF Relies
  <2> QED
    BY <1>7, <2>2, <2>3 DEF Answers, Relies
<1> QED
  BY <1>3, <1>6, <1>7, AnswersKept

LEMMA KeysAnsweredStep ==
  ASSUME IInv, LeasesLast, ReservationsLive, KeysAnswered, Clean
  PROVE  KeysAnswered'
<1> USE DEF IInv, TypeOK
<1>1. CASE UNCHANGED vars
  BY <1>1, AnswersFrame DEF vars
<1>2. ASSUME NEW w \in Worker,
             \/ SelectDue(w) \/ NextEvent(w) \/ EndTick(w) \/ Lookup(w)
             \/ DispatchThrows(w) \/ ReleaseKey(w) \/ Exit(w) \/ Stop(w)
             \/ Restart(w)
      PROVE  KeysAnswered'
  <2>1. /\ UNCHANGED <<outbox, completions>>
        /\ \/ UNCHANGED pc
           \/ \E to : /\ pc' = [pc EXCEPT ![w] = to]
                      /\ to \in {"lookup", "ack"} => /\ pc[w] = "lookup"
                                                     /\ UNCHANGED cur
        /\ UNCHANGED cur \/ /\ pc[w] \notin {"lookup", "ack"}
                            /\ \E x : cur' = [cur EXCEPT ![w] = x]
    BY <1>2 DEF SelectDue, NextEvent, EndTick, Lookup, DispatchThrows,
       ReleaseKey, Exit, Stop, Restart, DeleteReservation, Goto, Forget,
       local, tables
  <2>2. \A v \in Worker : pc'[v] \in {"lookup", "ack"} =>
          pc[v] \in {"lookup", "ack"} /\ cur'[v] = cur[v]
    BY <2>1
  <2> QED
    BY <2>1, <2>2, AnswersFrame
<1>3. ASSUME NEW w \in Worker, DispatchReturns(w) PROVE KeysAnswered'
  <2>1. \A k \in Key : completions[k] > 0 => completions'[k] > 0
    BY <1>3, HandlerFrame DEF HandlesCleanly
  <2>2. /\ UNCHANGED <<outbox, cur>> /\ pc' = [pc EXCEPT ![w] = "finish"]
    BY <1>3 DEF DispatchReturns, Goto, local, tables
  <2> QED
    BY <2>1, <2>2, AnswersFrame
<1>4. ASSUME NEW w \in Worker, CommitClaim(w) PROVE KeysAnswered'
  <2>1. /\ todo[w] \subseteq Event /\ \A e \in todo[w] : Due(e)
        /\ claims + 1 \in Nat /\ UNCHANGED <<cur, completions>>
        /\ pc' = [pc EXCEPT ![w] = "loop"]
    BY <1>4 DEF CommitClaim, ClaimOwnsRows, Goto
  <2>2. \A e \in Event : IF e \in todo[w] THEN outbox'[e].status = "processing"
                                         ELSE outbox'[e] = outbox[e]
    BY <1>4, <2>1, LeasedFacts DEF CommitClaim, LeaseRows
  <2>3. \A e \in todo[w] : \A v \in Worker : cur[v] = e => ~ Relies(v)
    BY <2>1, HolderFacts DEF Relies, Working
  <2> QED
    BY <2>1, <2>2, <2>3, AnswersFrame
<1>5. ASSUME NEW w \in Worker, Nack(w) PROVE KeysAnswered'
  <2>1. PICK e \in Event : e = cur[w]
    BY <1>5, SettledRow
  <2>2. /\ outbox'[e].status \in {"failed", "dead_letter"}
        /\ \A d \in Event \ {e} : outbox'[d] = outbox[d]
        /\ pc'[w] = "loop" /\ UNCHANGED completions
        /\ \A v \in Worker \ {w} : cur'[v] = cur[v] /\ pc'[v] = pc[v]
    BY <1>5, <2>1, SettledRow DEF Nack
  <2> QED
    BY <2>2, AnswersFrame
<1>6. ASSUME NEW e \in Event, Append(e) \/ RetryComesDue(e) PROVE KeysAnswered'
  <2>1. UNCHANGED <<pc, cur, completions>>
    BY <1>6 DEF Append, RetryComesDue, local
  <2>2. \A d \in Event : \/ outbox'[d].status = outbox[d].status
                         \/ /\ outbox[d].status = "absent"
                            /\ outbox'[d].status = "pending"
    BY <1>6, FreshFacts, ClockFacts DEF Append, RetryComesDue
  <2> QED
    BY <2>1, <2>2, AnswersFrame DEF Answers
<1> QED
  BY <1>1, <1>2, <1>3, <1>4, <1>5, <1>6, ReserveAnswered, FinishAnswered,
     AckAnswered DEF Clean, Work

-----------------------------------------------------------------------------
(* The theorem.                                                            *)

LEMMA SteadyStep ==
  ASSUME IInv, SteadyInv, [Next]_vars
  PROVE  SteadyInv'
<1>1. BudgetsKept' /\ (Unhurt' => Unhurt /\ Clean)
  BY CleanStep
<1>2. ASSUME Unhurt' PROVE (LeasesLast /\ ReservationsLive /\ KeysAnswered)'
  <2>1. LeasesLast /\ ReservationsLive /\ KeysAnswered /\ Clean
    BY <1>1, <1>2 DEF SteadyInv
  <2> QED
    BY <2>1, LeasesLastStep, ReservationsLiveStep, KeysAnsweredStep
<1> QED
  BY <1>1, <1>2 DEF SteadyInv, BudgetsKept

LEMMA InitSteady ==
  ASSUME Init
  PROVE  SteadyInv
<1>1. \A h \in Mishap : budget[h] <= Budget[h]
  BY OutboxAssumption DEF Init
<1>2. LeasesLast
  BY DEF Init, LeasesLast, Absent
<1>3. ReservationsLive
  BY DEF Init, ReservationsLive
<1>4. KeysAnswered
  BY DEF Init, KeysAnswered, Answered, Relies, Absent
<1> QED
  BY <1>1, <1>2, <1>3, <1>4 DEF SteadyInv

\* With no crash, lost statement, overrun lease or manual reset, an
\* acknowledged event had the handler of its key completed, or an event of the
\* key is still in processing or has failed: AlreadyProcessing, which
\* acknowledges an event without running its handler (handleEvent), drops
\* nothing as long as the process that holds the reservation lives.
THEOREM NothingDropped == Spec => []NotDroppedWithoutMishap
<1>1. IInv /\ SteadyInv => NotDroppedWithoutMishap
  <2> SUFFICES ASSUME IInv, SteadyInv, Unhurt,
                      NEW e \in Event, outbox[e].status = "processed"
               PROVE  \/ completions[KeyOf[e]] > 0
                      \/ \E d \in Event :
                           /\ KeyOf[d] = KeyOf[e]
                           /\ outbox[d].status \in
                                {"processing", "failed", "dead_letter"}
    BY DEF NotDroppedWithoutMishap, Unhurt
  <2>1. KeyOf[e] \in Key /\ Answered(KeyOf[e])
    BY OutboxAssumption DEF Answered
  <2> QED
    BY <2>1 DEF SteadyInv, KeysAnswered, Answers
<1>2. Spec => []IInv
  BY Invariance
<1>3. IInv /\ SteadyInv /\ [Next]_vars => SteadyInv'
  BY SteadyStep
<1>4. Init => SteadyInv
  BY InitSteady
<1> QED
  BY <1>1, <1>2, <1>3, <1>4, PTL DEF Spec
=============================================================================
