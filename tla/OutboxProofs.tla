---------------------------- MODULE OutboxProofs ----------------------------
(***************************************************************************)
(* Proofs about Outbox for every set of workers, events and keys, every    *)
(* batch size, attempt limit and budget of mishaps.                        *)
(***************************************************************************)
EXTENDS OutboxInv, TLAPS

\* The rows that the statements write, column by column.
LEMMA FreshFacts ==
  /\ Fresh \in Row
  /\ Fresh.status = "pending" /\ Fresh.attempts = 0
  /\ Fresh.nextRetry = "null" /\ Fresh.token = NoToken /\ Fresh.lease = "null"
BY DEF Row, Status, Fresh, Absent, NoToken

LEMMA LeasedFacts ==
  ASSUME NEW row \in Row, NEW t \in Nat
  PROVE  /\ Leased(row, t) \in Row
         /\ Leased(row, t).status = "processing"
         /\ Leased(row, t).attempts = row.attempts
         /\ Leased(row, t).nextRetry = row.nextRetry
         /\ Leased(row, t).token = t /\ Leased(row, t).lease = "future"
BY DEF Leased, Row, Status

LEMMA AcknowledgedFacts ==
  ASSUME NEW row \in Row
  PROVE  /\ Acknowledged(row) \in Row
         /\ Acknowledged(row).status = "processed"
         /\ Acknowledged(row).attempts = row.attempts
         /\ Acknowledged(row).nextRetry = "null"
         /\ Acknowledged(row).token = NoToken
         /\ Acknowledged(row).lease = "null"
BY DEF Acknowledged, Row, Status, Fresh, Absent, NoToken

LEMMA FailedFacts ==
  ASSUME NEW n \in Nat
  PROVE  /\ Failed(n) \in Row
         /\ Failed(n).attempts = n
         /\ Failed(n).status =
              IF n >= MaxAttempts THEN "dead_letter" ELSE "failed"
         /\ Failed(n).nextRetry = IF n >= MaxAttempts THEN "null" ELSE "future"
         /\ Failed(n).token = NoToken /\ Failed(n).lease = "null"
BY DEF Failed, Row, Status, Fresh, Absent, NoToken

LEMMA ClockFacts ==
  ASSUME NEW row \in Row
  PROVE  /\ Expired(row) \in Row /\ Retriable(row) \in Row
         /\ Expired(row).status = row.status
         /\ Expired(row).attempts = row.attempts
         /\ Expired(row).nextRetry = row.nextRetry
         /\ Expired(row).token = row.token /\ Expired(row).lease = "past"
         /\ Retriable(row).status = row.status
         /\ Retriable(row).attempts = row.attempts
         /\ Retriable(row).nextRetry = "past"
         /\ Retriable(row).token = row.token
         /\ Retriable(row).lease = row.lease
BY DEF Expired, Retriable, Row, Status

\* What the reservations, closes and releases of a key do to the tables.
LEMMA LedgerTypes ==
  ASSUME TypeOK, NEW k \in Key,
         \/ InsertReservation(k) \/ CloseReservation(k) \/ DeleteReservation(k)
  PROVE  /\ outbox' = outbox
         /\ ledger' \in [Key -> {"none", "processing", "processed"}]
         /\ reserved' \in SUBSET Key
BY DEF TypeOK, InsertReservation, CloseReservation, DeleteReservation

\* What the final updates and resets of an event do to the tables.
LEMMA RowTypes ==
  ASSUME TypeOK, NEW e \in Event, NEW t \in Nat, NEW n \in Nat,
         \/ MarkProcessed(e, t) \/ MarkFailure(e, t, n) \/ ResetRow(e)
  PROVE  /\ outbox' \in [Event -> Row]
         /\ UNCHANGED <<ledger, reserved>>
<1> USE DEF TypeOK, UpdateFenced
<1>1. CASE MarkProcessed(e, t)
  BY <1>1, AcknowledgedFacts DEF MarkProcessed
<1>2. CASE MarkFailure(e, t, n)
  BY <1>2, FailedFacts DEF MarkFailure
<1>3. CASE ResetRow(e)
  BY <1>3, FreshFacts DEF ResetRow
<1> QED
  BY <1>1, <1>2, <1>3

LEMMA LeaseTypes ==
  ASSUME TypeOK, NEW S \in SUBSET Event, LeaseRows(S, claims + 1)
  PROVE  /\ outbox' \in [Event -> Row]
         /\ claims' \in Nat
         /\ UNCHANGED <<ledger, reserved>>
BY LeasedFacts DEF LeaseRows, TypeOK

LEMMA SpendTypes ==
  ASSUME TypeOK, NEW h \in Mishap, Spend(h)
  PROVE  budget' \in [Mishap -> Nat]
BY DEF TypeOK, Spend

LEMMA ForgetTypes ==
  ASSUME TypeOK, NEW w \in Worker, Forget(w)
  PROVE  /\ token' \in [Worker -> Nat]
         /\ todo' \in [Worker -> SUBSET Event]
         /\ cur' \in [Worker -> Event \cup {NoEvent}]
         /\ seen' \in [Worker -> [Event -> Nat]]
BY DEF TypeOK, Forget, NoToken

LEMMA SettleTypes ==
  ASSUME TypeOK, NEW w \in Worker, cur[w] \in Event, Settle(w)
  PROVE  /\ todo' \in [Worker -> SUBSET Event]
         /\ cur' \in [Worker -> Event \cup {NoEvent}]
         /\ seen' \in [Worker -> [Event -> Nat]]
         /\ pc' \in [Worker -> PC]
<1>1. [seen[w] EXCEPT ![cur[w]] = 0] \in [Event -> Nat]
  BY DEF TypeOK
<1> QED
  BY <1>1 DEF TypeOK, Settle, Goto, PC

\* A worker that works on an event has its row, its key and a lease token.
LEMMA AtWork ==
  ASSUME TypeOK, WorkerShape, NEW w \in Worker, pc[w] \in Working
  PROVE  /\ cur[w] \in Event /\ cur[w] \in todo[w]
         /\ CurKey(w) \in Key
         /\ token[w] \in Nat /\ token[w] # NoToken
         /\ seen[w][cur[w]] + 1 \in Nat
<1>1. cur[w] \in todo[w] /\ cur[w] \in Event
  BY DEF TypeOK, WorkerShape
<1>2. CurKey(w) \in Key
  BY <1>1, OutboxAssumption DEF CurKey
<1> QED
  BY <1>1, <1>2 DEF TypeOK, WorkerShape, Working, Reserving

LEMMA TypeStep == IInv /\ [Next]_vars => TypeOK'
<1> SUFFICES ASSUME IInv, [Next]_vars PROVE TypeOK'
  OBVIOUS
<1> USE DEF IInv
<1>1. ASSUME NEW w \in Worker, SelectDue(w) PROVE TypeOK'
  BY <1>1 DEF SelectDue, Claimable, Oldest, Goto, tables, TypeOK, PC, Row
<1>2. ASSUME NEW w \in Worker, CommitClaim(w) PROVE TypeOK'
  BY <1>2, LeaseTypes DEF CommitClaim, Goto, TypeOK, PC
<1>3. ASSUME NEW w \in Worker, ClaimFails(w) PROVE TypeOK'
  BY <1>3, LeaseTypes, SpendTypes, ForgetTypes
     DEF ClaimFails, Goto, tables, TypeOK, PC, Mishap
<1>4. ASSUME NEW w \in Worker, NextEvent(w) PROVE TypeOK'
  BY <1>4 DEF NextEvent, Goto, tables, TypeOK, PC
<1>5. ASSUME NEW w \in Worker, EndTick(w) PROVE TypeOK'
  BY <1>5, ForgetTypes DEF EndTick, Goto, tables, TypeOK, PC
<1>6. ASSUME NEW w \in Worker, Reserve(w) \/ FinishKey(w) \/ ReleaseKey(w)
      PROVE  TypeOK'
  <2>1. CurKey(w) \in Key
    BY <1>6, AtWork DEF Reserve, FinishKey, ReleaseKey, Working, Reserving
  <2> QED
    BY <1>6, <2>1, LedgerTypes
       DEF Reserve, FinishKey, ReleaseKey, Goto, local, TypeOK, PC
<1>7. ASSUME NEW w \in Worker,
             Lookup(w) \/ DispatchThrows(w) \/ Exit(w) \/ DispatchReturns(w)
      PROVE  TypeOK'
  <2>1. CASE DispatchReturns(w)
    <3>1. CurKey(w) \in Key
      BY <2>1, AtWork DEF DispatchReturns, Working, Reserving
    <3> QED
      BY <2>1, <3>1 DEF DispatchReturns, Goto, local, tables, TypeOK, PC
  <2>2. CASE Lookup(w) \/ DispatchThrows(w) \/ Exit(w)
    BY <2>2 DEF Lookup, DispatchThrows, Exit, Goto, local, tables, TypeOK, PC
  <2> QED
    BY <1>7, <2>1, <2>2
<1>8. ASSUME NEW w \in Worker, Ack(w) \/ Nack(w) PROVE TypeOK'
  <2>1. cur[w] \in Event /\ token[w] \in Nat /\ seen[w][cur[w]] + 1 \in Nat
    BY <1>8, AtWork DEF Ack, Nack, Working
  <2> QED
    BY <1>8, <2>1, RowTypes, SettleTypes DEF Ack, Nack, TypeOK
<1>9. ASSUME NEW w \in Worker, EventFaults(w) PROVE TypeOK'
  <2> DEFINE Stmt == \/ InsertReservation(CurKey(w))
                     \/ CloseReservation(CurKey(w))
                     \/ DeleteReservation(CurKey(w))
                     \/ MarkProcessed(cur[w], token[w])
                     \/ UNCHANGED tables
  <2>1. cur[w] \in Event /\ token[w] \in Nat /\ CurKey(w) \in Key
    BY <1>9, AtWork DEF EventFaults, StatementThrows, Working, Reserving
  <2>2. /\ Stmt /\ Spend("fault")
        /\ \E to \in PC : Goto(w, to)
        /\ UNCHANGED <<claims, local, stopping, completions>>
    BY <1>9 DEF EventFaults, StatementThrows, PC
  <2> QED
    BY <2>1, <2>2, LedgerTypes, RowTypes, SpendTypes
       DEF Goto, local, tables, TypeOK, Mishap
<1>10. ASSUME NEW w \in Worker, NackFails(w) PROVE TypeOK'
  <2>1. cur[w] \in Event /\ token[w] \in Nat /\ seen[w][cur[w]] + 1 \in Nat
    BY <1>10, AtWork DEF NackFails, Working
  <2> QED
    BY <1>10, <2>1, RowTypes, SpendTypes, ForgetTypes
       DEF NackFails, Goto, tables, TypeOK, PC, Mishap
<1>11. ASSUME NEW w \in Worker, Stop(w) \/ Crash(w) \/ Restart(w)
       PROVE  TypeOK'
  BY <1>11, SpendTypes, ForgetTypes
     DEF Stop, Crash, Restart, Goto, local, tables, TypeOK, PC, Mishap
<1>12. ASSUME NEW e \in Event, Clock(e) \/ Append(e) PROVE TypeOK'
  BY <1>12, SpendTypes, FreshFacts, ClockFacts
     DEF Clock, LeaseExpires, RetryComesDue, Append, local, TypeOK, Mishap
<1>13. ASSUME NEW e \in Event, Retry(e) \/ RequeueDeadLetter(e) PROVE TypeOK'
  BY <1>13, SpendTypes, RowTypes
     DEF Retry, RequeueDeadLetter, local, TypeOK, Mishap
<1>14. CASE UNCHANGED vars
  BY <1>14 DEF vars, TypeOK
<1> QED
  BY <1>1, <1>2, <1>3, <1>4, <1>5, <1>6, <1>7, <1>8, <1>9, <1>10, <1>11,
     <1>12, <1>13, <1>14 DEF Next, Work

-----------------------------------------------------------------------------
(* What one step can do to one row.                                        *)

Takes(e) == /\ Due(e)
            /\ outbox'[e] = Leased(outbox[e], claims + 1)
            /\ claims' = claims + 1

SettlesBy(w, e) ==
  /\ pc[w] \in {"ack", "nack"} /\ pc'[w] # pc[w]
  /\ cur[w] = e
  /\ token[w] # NoToken /\ token[w] = outbox[e].token
  /\ outbox'[e] \in {Acknowledged(outbox[e]), Failed(outbox[e].attempts + 1)}

Ticks(e) ==
  \/ outbox[e].lease = "future" /\ outbox'[e] = Expired(outbox[e])
  \/ outbox[e].nextRetry = "future" /\ outbox'[e] = Retriable(outbox[e])

RowChange(e) ==
  \/ outbox'[e] = outbox[e]
  \/ Takes(e)
  \/ \E w \in Worker : SettlesBy(w, e)
  \/ Ticks(e)
  \/ outbox'[e] = Fresh

\* A fenced update changes at most the row it names.
LEMMA FencedUpdate ==
  ASSUME IInv, NEW w \in Worker, pc[w] \in {"ack", "nack"}, pc'[w] # pc[w],
         \/ MarkProcessed(cur[w], token[w])
         \/ MarkFailure(cur[w], token[w], seen[w][cur[w]] + 1),
         NEW e \in Event
  PROVE  RowChange(e)
<1>1. cur[w] \in Event /\ cur[w] \in todo[w] /\ token[w] # NoToken
  BY AtWork DEF IInv, Working
<1>2. CASE cur[w] # e \/ token[w] # outbox[e].token
  BY <1>1, <1>2
     DEF MarkProcessed, MarkFailure, UpdateFenced, RowChange, IInv, TypeOK
<1>3. CASE cur[w] = e /\ token[w] = outbox[e].token
  <2>1. seen[w][e] = outbox[e].attempts
    BY <1>1, <1>3 DEF IInv, SnapshotCurrent
  <2> QED
    BY <1>1, <1>3, <2>1 DEF MarkProcessed, MarkFailure, UpdateFenced,
       RowChange, SettlesBy, IInv, TypeOK
<1> QED
  BY <1>2, <1>3

LEMMA LeaseChange ==
  ASSUME IInv, NEW w \in Worker, pc[w] = "claiming",
         LeaseRows(todo[w], claims + 1), NEW e \in Event
  PROVE  RowChange(e)
BY DEF IInv, ClaimOwnsRows, LeaseRows, RowChange, Takes

LEMMA RowStep ==
  ASSUME IInv, [Next]_vars, NEW e \in Event
  PROVE  RowChange(e)
<1>1. CASE outbox' = outbox
  BY <1>1 DEF RowChange
<1>2. ASSUME NEW w \in Worker, CommitClaim(w) \/ ClaimFails(w)
      PROVE  RowChange(e)
  BY <1>1, <1>2, LeaseChange DEF CommitClaim, ClaimFails, tables
<1>3. ASSUME NEW w \in Worker,
             Ack(w) \/ Nack(w) \/ EventFaults(w) \/ NackFails(w)
      PROVE  RowChange(e)
  <2>1. CASE Ack(w) \/ Nack(w)
    BY <2>1, FencedUpdate DEF Ack, Nack, Settle, Goto, IInv, TypeOK
  <2>2. CASE EventFaults(w)
    BY <1>1, <2>2, FencedUpdate
       DEF EventFaults, StatementThrows, InsertReservation, CloseReservation,
           DeleteReservation, Goto, tables, IInv, TypeOK
  <2>3. CASE NackFails(w)
    BY <1>1, <2>3, FencedUpdate DEF NackFails, Goto, tables, IInv, TypeOK
  <2> QED
    BY <1>3, <2>1, <2>2, <2>3
<1>4. ASSUME NEW d \in Event, Clock(d) PROVE RowChange(e)
  BY <1>4 DEF Clock, LeaseExpires, RetryComesDue, RowChange, Ticks, IInv,
              TypeOK
<1>5. ASSUME NEW d \in Event, Append(d) \/ Retry(d) \/ RequeueDeadLetter(d)
      PROVE  RowChange(e)
  BY <1>5 DEF Append, Retry, RequeueDeadLetter, ResetRow, RowChange, IInv,
              TypeOK
<1>6. ASSUME NEW w \in Worker,
             \/ SelectDue(w) \/ NextEvent(w) \/ EndTick(w) \/ Reserve(w)
             \/ Lookup(w) \/ DispatchReturns(w) \/ DispatchThrows(w)
             \/ FinishKey(w) \/ ReleaseKey(w) \/ Exit(w) \/ Stop(w)
             \/ Crash(w) \/ Restart(w)
      PROVE  RowChange(e)
  <2>1. outbox' = outbox
    BY <1>6 DEF SelectDue, NextEvent, EndTick, Reserve, Lookup,
       DispatchReturns, DispatchThrows, FinishKey, ReleaseKey, Exit, Stop,
       Crash, Restart, InsertReservation, CloseReservation,
       DeleteReservation, tables
  <2> QED
    BY <1>1, <2>1
<1>7. CASE UNCHANGED vars
  BY <1>1, <1>7 DEF vars
<1> QED
  BY <1>2, <1>3, <1>4, <1>5, <1>6, <1>7 DEF Next, Work

LEMMA LeaseColumnsStep == IInv /\ [Next]_vars => LeaseColumns'
<1> SUFFICES ASSUME IInv, [Next]_vars, NEW e \in Event
             PROVE  /\ (outbox'[e].status = "processing"
                          <=> outbox'[e].token # NoToken)
                    /\ (outbox'[e].status = "processing"
                          <=> outbox'[e].lease # "null")
  BY DEF LeaseColumns
<1>1. /\ outbox[e] \in Row /\ claims + 1 \in Nat /\ claims + 1 # NoToken
      /\ outbox[e].attempts + 1 \in Nat
  BY DEF IInv, TypeOK, Row, NoToken
<1>2. RowChange(e)
  BY RowStep
<1>3. CASE \E w \in Worker : SettlesBy(w, e)
  BY <1>1, <1>3, AcknowledgedFacts, FailedFacts DEF SettlesBy
<1>4. CASE Ticks(e)
  BY <1>1, <1>4, ClockFacts DEF Ticks, IInv, LeaseColumns
<1>5. CASE Takes(e)
  BY <1>1, <1>5, LeasedFacts DEF Takes
<1>6. CASE outbox'[e] = Fresh
  BY <1>6, FreshFacts
<1>7. CASE outbox'[e] = outbox[e]
  BY <1>7 DEF IInv, LeaseColumns
<1> QED
  BY <1>2, <1>3, <1>4, <1>5, <1>6, <1>7 DEF RowChange

LEMMA AttemptsStep ==
  IInv /\ [Next]_vars => AttemptsAccounting' /\ AttemptsLeft'
<1> SUFFICES ASSUME IInv, [Next]_vars, NEW e \in Event
             PROVE  /\ (outbox'[e].status = "dead_letter"
                          <=> outbox'[e].attempts = MaxAttempts)
                    /\ outbox'[e].attempts <= MaxAttempts
                    /\ outbox'[e].status = "failed"
                         => /\ outbox'[e].attempts > 0
                            /\ outbox'[e].nextRetry # "null"
                    /\ outbox'[e].status \in {"absent", "pending"}
                         => outbox'[e].attempts = 0
                    /\ outbox'[e].status \in
                         {"absent", "pending", "processing", "failed",
                          "processed"}
                         => outbox'[e].attempts < MaxAttempts
  BY DEF AttemptsAccounting, AttemptsLeft
<1>1. /\ outbox[e] \in Row /\ claims + 1 \in Nat
      /\ outbox[e].attempts \in Nat /\ outbox[e].attempts + 1 \in Nat
      /\ MaxAttempts \in Nat /\ MaxAttempts > 0
  BY OutboxAssumption DEF IInv, TypeOK, Row
<1>2. RowChange(e)
  BY RowStep
<1>4. CASE Takes(e)
  <2>1. outbox[e].attempts < MaxAttempts
    BY <1>4 DEF Takes, Due, IInv, AttemptsLeft
  <2>3. /\ Leased(outbox[e], claims + 1).status = "processing"
        /\ Leased(outbox[e], claims + 1).attempts = outbox[e].attempts
    BY <1>1, LeasedFacts
  <2>2. /\ outbox'[e].status = "processing"
        /\ outbox'[e].attempts = outbox[e].attempts
    BY <1>4, <2>3 DEF Takes
  <2> QED
    BY <1>1, <2>1, <2>2
<1> USE DEF IInv, AttemptsAccounting, AttemptsLeft
<1>3. CASE outbox'[e] = outbox[e]
  BY <1>3
<1>5. CASE \E w \in Worker : SettlesBy(w, e)
  <2>1. outbox[e].status = "processing"
    BY <1>5 DEF SettlesBy, LeaseColumns
  <2>2. outbox[e].attempts < MaxAttempts
    BY <2>1
  <2> QED
    BY <1>1, <1>5, <2>1, <2>2, AcknowledgedFacts, FailedFacts DEF SettlesBy
<1>6. CASE Ticks(e)
  BY <1>1, <1>6, ClockFacts DEF Ticks
<1>7. CASE outbox'[e] = Fresh
  BY <1>1, <1>7, FreshFacts
<1> QED
  BY <1>2, <1>3, <1>4, <1>5, <1>6, <1>7 DEF RowChange

\* The promise of the claim, step by step: a lease that still runs keeps its
\* token, and only the holder of the token settles the row.
LEMMA LiveLeaseStep ==
  ASSUME IInv, [Next]_vars, NEW e \in Event,
         outbox[e].lease = "future", outbox'[e].token # NoToken
  PROVE  outbox'[e].token = outbox[e].token
<1>1. outbox[e] \in Row /\ outbox[e].attempts + 1 \in Nat
  BY DEF IInv, TypeOK, Row
<1>2. ~ Due(e)
  BY DEF IInv, LeaseColumns, Due
<1> QED
  BY <1>1, <1>2, RowStep, FreshFacts, AcknowledgedFacts, FailedFacts,
     ClockFacts DEF RowChange, Takes, SettlesBy, Ticks

LEMMA HolderStep ==
  ASSUME IInv, [Next]_vars, NEW e \in Event,
         outbox'[e].status \in Outcome, outbox'[e].status # outbox[e].status
  PROVE  \E w \in Worker : /\ pc[w] \in {"ack", "nack"} /\ pc'[w] # pc[w]
                           /\ cur[w] = e
                           /\ token[w] # NoToken
                           /\ token[w] = outbox[e].token
<1>1. outbox[e] \in Row /\ claims + 1 \in Nat
  BY DEF IInv, TypeOK
<1>2. ~ Takes(e) /\ outbox'[e] # Fresh
  BY <1>1, FreshFacts, LeasedFacts DEF Takes, Outcome
<1>3. ~ Ticks(e)
  BY <1>1, ClockFacts DEF Ticks
<1> QED
  BY <1>2, <1>3, RowStep DEF RowChange, SettlesBy

-----------------------------------------------------------------------------
(* Workers, tokens and claims.                                             *)

LEMMA WorkerShapeStep == IInv /\ [Next]_vars => WorkerShape'
<1> SUFFICES ASSUME IInv, [Next]_vars PROVE WorkerShape'
  OBVIOUS
<1> USE DEF IInv, WorkerShape, Working, Reserving, NoToken
<1>1. ASSUME NEW w \in Worker, SelectDue(w) \/ Exit(w) \/ NextEvent(w)
      PROVE  WorkerShape'
  BY <1>1 DEF SelectDue, Exit, NextEvent, Goto, local, TypeOK
<1>2. ASSUME NEW w \in Worker, CommitClaim(w) PROVE WorkerShape'
  BY <1>2 DEF CommitClaim, Goto, TypeOK
<1>3. ASSUME NEW w \in Worker,
             ClaimFails(w) \/ EndTick(w) \/ NackFails(w) \/ Crash(w)
      PROVE  WorkerShape'
  <2>1. Forget(w) /\ (Goto(w, "idle") \/ Goto(w, "down"))
    BY <1>3 DEF ClaimFails, EndTick, NackFails, Crash
  <2> QED
    BY <2>1 DEF Forget, Goto, TypeOK
<1>4. ASSUME NEW w \in Worker,
             \/ Reserve(w) \/ Lookup(w) \/ DispatchReturns(w)
             \/ DispatchThrows(w) \/ FinishKey(w) \/ ReleaseKey(w)
      PROVE  WorkerShape'
  BY <1>4 DEF Reserve, Lookup, DispatchReturns, DispatchThrows, FinishKey,
              ReleaseKey, Goto, local, TypeOK
<1>5. ASSUME NEW w \in Worker, Ack(w) \/ Nack(w) PROVE WorkerShape'
  BY <1>5 DEF Ack, Nack, Settle, Goto, TypeOK
<1>6. ASSUME NEW w \in Worker, EventFaults(w) PROVE WorkerShape'
  BY <1>6 DEF EventFaults, StatementThrows, Goto, local, TypeOK
<1>7. ASSUME NEW w \in Worker, Stop(w) \/ Restart(w) PROVE WorkerShape'
  BY <1>7 DEF Stop, Restart, Goto, local, TypeOK
<1>8. ASSUME NEW e \in Event,
             Clock(e) \/ Append(e) \/ Retry(e) \/ RequeueDeadLetter(e)
      PROVE  WorkerShape'
  BY <1>8 DEF Clock, LeaseExpires, RetryComesDue, Append, Retry,
              RequeueDeadLetter, local
<1>9. CASE UNCHANGED vars
  BY <1>9 DEF vars
<1> QED
  BY <1>1, <1>2, <1>3, <1>4, <1>5, <1>6, <1>7, <1>8, <1>9 DEF Next, Work

\* A step gives a worker no token but its old one, none, or a fresh one, and
\* at most one worker draws the fresh one.
LEMMA TokenStep ==
  ASSUME IInv, [Next]_vars
  PROVE  /\ claims' \in {claims, claims + 1}
         /\ \/ \A v \in Worker : token'[v] \in {token[v], NoToken}
            \/ \E w \in Worker :
                 /\ pc[w] = "claiming"
                 /\ claims' = claims + 1
                 /\ token' = [token EXCEPT ![w] = claims + 1]
<1> USE DEF IInv, TypeOK, NoToken
<1>1. ASSUME NEW w \in Worker, CommitClaim(w)
      PROVE  /\ pc[w] = "claiming"
             /\ claims' = claims + 1
             /\ token' = [token EXCEPT ![w] = claims + 1]
  BY <1>1 DEF CommitClaim, LeaseRows
<1>2. ASSUME NEW w \in Worker,
             ClaimFails(w) \/ EndTick(w) \/ NackFails(w) \/ Crash(w)
      PROVE  /\ claims' \in {claims, claims + 1}
             /\ \A v \in Worker : token'[v] \in {token[v], NoToken}
  BY <1>2 DEF ClaimFails, EndTick, NackFails, Crash, Forget, LeaseRows
<1>3. ASSUME NEW w \in Worker,
             \/ SelectDue(w) \/ NextEvent(w) \/ Reserve(w) \/ Lookup(w)
             \/ DispatchReturns(w) \/ DispatchThrows(w) \/ FinishKey(w)
             \/ ReleaseKey(w) \/ Ack(w) \/ Nack(w) \/ Exit(w)
             \/ EventFaults(w) \/ Stop(w) \/ Restart(w)
      PROVE  UNCHANGED <<claims, token>>
  BY <1>3 DEF SelectDue, NextEvent, Reserve, Lookup, DispatchReturns,
     DispatchThrows, FinishKey, ReleaseKey, Ack, Nack, Exit, EventFaults,
     StatementThrows, Stop, Restart, local
<1>4. ASSUME NEW e \in Event,
             Clock(e) \/ Append(e) \/ Retry(e) \/ RequeueDeadLetter(e)
      PROVE  UNCHANGED <<claims, token>>
  BY <1>4 DEF Clock, LeaseExpires, RetryComesDue, Append, Retry,
              RequeueDeadLetter, local
<1>5. CASE UNCHANGED vars
  BY <1>5 DEF vars
<1> QED
  BY <1>1, <1>2, <1>3, <1>4, <1>5 DEF Next, Work

LEMMA TokensUniqueStep == IInv /\ [Next]_vars => TokensUnique'
<1> SUFFICES ASSUME IInv, [Next]_vars PROVE TokensUnique'
  OBVIOUS
<1>1. ASSUME NEW e \in Event PROVE outbox'[e].token <= claims'
  <2>1. /\ outbox[e] \in Row /\ outbox[e].token <= claims
        /\ outbox[e].attempts + 1 \in Nat /\ outbox[e].token \in Nat
        /\ claims \in Nat /\ claims + 1 \in Nat
    BY DEF IInv, TypeOK, TokensUnique, Row
  <2>2. claims' \in Nat /\ claims' >= claims
    BY <2>1, TokenStep
  <2>3. outbox'[e].token \in {NoToken, outbox[e].token} \/ Takes(e)
    BY <2>1, RowStep, FreshFacts, AcknowledgedFacts, FailedFacts, ClockFacts
       DEF RowChange, SettlesBy, Ticks
  <2>4. CASE Takes(e)
    BY <2>1, <2>4, LeasedFacts DEF Takes
  <2> QED
    BY <2>1, <2>2, <2>3, <2>4 DEF NoToken
<1>2. /\ \A w \in Worker : token'[w] <= claims'
      /\ \A v, w \in Worker : token'[v] = token'[w] /\ token'[v] # NoToken
                                => v = w
  <2>1. /\ claims \in Nat /\ token \in [Worker -> Nat]
        /\ \A w \in Worker : token[w] <= claims
        /\ \A v, w \in Worker : token[v] = token[w] /\ token[v] # NoToken
                                  => v = w
    BY DEF IInv, TypeOK, TokensUnique
  <2>2. CASE \A v \in Worker : token'[v] \in {token[v], NoToken}
    BY <2>1, <2>2, TokenStep DEF NoToken
  <2>3. CASE \E w \in Worker : /\ claims' = claims + 1
                               /\ token' = [token EXCEPT ![w] = claims + 1]
    BY <2>1, <2>3 DEF NoToken
  <2> QED
    BY <2>2, <2>3, TokenStep
<1> QED
  BY <1>1, <1>2 DEF TokensUnique

\* A worker that keeps a token keeps what it read under that token.
LEMMA BatchFrame ==
  ASSUME IInv, [Next]_vars, NEW w \in Worker, token'[w] # NoToken
  PROVE  \/ CommitClaim(w)
         \/ /\ token'[w] = token[w]
            /\ todo'[w] \subseteq todo[w]
            /\ \A e \in todo'[w] : seen'[w][e] = seen[w][e]
<1> USE DEF IInv, TypeOK, WorkerShape
<1>1. ASSUME NEW v \in Worker, SelectDue(v)
      PROVE  v # w /\ UNCHANGED <<token[w], todo[w], seen[w]>>
  BY <1>1 DEF SelectDue
<1>2. ASSUME NEW v \in Worker, CommitClaim(v), v # w
      PROVE  UNCHANGED <<token[w], todo[w], seen[w]>>
  BY <1>2 DEF CommitClaim
<1>3. ASSUME NEW v \in Worker,
             ClaimFails(v) \/ EndTick(v) \/ NackFails(v) \/ Crash(v)
      PROVE  v # w /\ UNCHANGED <<token[w], todo[w], seen[w]>>
  BY <1>3 DEF ClaimFails, EndTick, NackFails, Crash, Forget
<1>4. ASSUME NEW v \in Worker, Ack(v) \/ Nack(v)
      PROVE  /\ token'[w] = token[w]
             /\ todo'[w] \subseteq todo[w]
             /\ \A e \in todo'[w] : seen'[w][e] = seen[w][e]
  <2>1. cur[v] \in Event /\ token' = token /\ Settle(v)
    BY <1>4, AtWork DEF Ack, Nack, Working
  <2>2. CASE v = w
    BY <2>1, <2>2 DEF Settle
  <2>3. CASE v # w
    BY <2>1, <2>3 DEF Settle
  <2> QED
    BY <2>2, <2>3
<1>5. ASSUME NEW v \in Worker,
             \/ NextEvent(v) \/ Reserve(v) \/ Lookup(v) \/ DispatchReturns(v)
             \/ DispatchThrows(v) \/ FinishKey(v) \/ ReleaseKey(v) \/ Exit(v)
             \/ EventFaults(v) \/ Stop(v) \/ Restart(v)
      PROVE  UNCHANGED <<token, todo, seen>>
  BY <1>5 DEF NextEvent, Reserve, Lookup, DispatchReturns, DispatchThrows,
     FinishKey, ReleaseKey, Exit, EventFaults, StatementThrows, Stop, Restart,
     local
<1>6. ASSUME NEW e \in Event,
             Clock(e) \/ Append(e) \/ Retry(e) \/ RequeueDeadLetter(e)
      PROVE  UNCHANGED <<token, todo, seen>>
  BY <1>6 DEF Clock, LeaseExpires, RetryComesDue, Append, Retry,
              RequeueDeadLetter, local
<1>7. CASE UNCHANGED vars
  BY <1>7 DEF vars
<1> QED
  BY <1>1, <1>2, <1>3, <1>4, <1>5, <1>6, <1>7 DEF Next, Work

LEMMA SnapshotStep == IInv /\ [Next]_vars => SnapshotCurrent'
<1> SUFFICES ASSUME IInv, [Next]_vars,
                    NEW w \in Worker, NEW e \in todo'[w],
                    token'[w] # NoToken, token'[w] = outbox'[e].token
             PROVE  seen'[w][e] = outbox'[e].attempts
  BY DEF SnapshotCurrent
<1>1. e \in Event
  BY TypeStep DEF TypeOK
<1>2. /\ outbox[e] \in Row /\ claims + 1 \in Nat
      /\ outbox[e].attempts + 1 \in Nat
  BY <1>1 DEF IInv, TypeOK, Row
<1>3. CASE CommitClaim(w)
  <2>1. /\ e \in todo[w] /\ seen'[w][e] = seen[w][e]
        /\ seen[w][e] = outbox[e].attempts
        /\ outbox'[e] = Leased(outbox[e], claims + 1)
    BY <1>1, <1>3 DEF CommitClaim, LeaseRows, IInv, ClaimOwnsRows
  <2> QED
    BY <1>2, <2>1, LeasedFacts
<1>4. CASE /\ token'[w] = token[w]
           /\ todo'[w] \subseteq todo[w]
           /\ \A d \in todo'[w] : seen'[w][d] = seen[w][d]
  <2>1. token[w] # claims + 1
    BY <1>4 DEF IInv, TypeOK, TokensUnique
  <2>2. /\ outbox'[e].attempts = outbox[e].attempts
        /\ outbox'[e].token = outbox[e].token
    <3>1. ~ Takes(e)
      <4>1. Leased(outbox[e], claims + 1).token = claims + 1
        BY <1>2, LeasedFacts
      <4>2. outbox'[e].token # claims + 1
        BY <1>4, <2>1
      <4> QED
        BY <4>1, <4>2 DEF Takes
    <3>2. ~ (\E v \in Worker : SettlesBy(v, e))
      BY <1>2, AcknowledgedFacts, FailedFacts DEF SettlesBy
    <3>3. outbox'[e] # Fresh
      BY FreshFacts
    <3>4. CASE Ticks(e)
      BY <1>2, <3>4, ClockFacts DEF Ticks
    <3> QED
      BY <1>1, <3>1, <3>2, <3>3, <3>4, RowStep DEF RowChange
  <2> QED
    BY <1>4, <2>2 DEF IInv, SnapshotCurrent
<1> QED
  BY <1>3, <1>4, BatchFrame

\* While a claim transaction is open its rows change by the clock alone.
LEMMA ClaimFrame ==
  ASSUME IInv, [Next]_vars, NEW w \in Worker, pc'[w] = "claiming"
  PROVE  \/ SelectDue(w)
         \/ /\ pc[w] = "claiming"
            /\ todo'[w] = todo[w] /\ seen'[w] = seen[w]
            /\ \A e \in todo[w] : outbox'[e] = outbox[e] \/ Ticks(e)
<1> USE DEF IInv, TypeOK
<1>1. ASSUME NEW v \in Worker, SelectDue(v), v # w
      PROVE  UNCHANGED <<pc[w], todo[w], seen[w], outbox>>
  BY <1>1 DEF SelectDue, Goto, tables
<1>2. ASSUME NEW v \in Worker, CommitClaim(v) \/ ClaimFails(v)
      PROVE  /\ v # w /\ UNCHANGED <<pc[w], todo[w], seen[w]>>
             /\ \A e \in todo[w] : outbox'[e] = outbox[e]
  <2>1. v # w /\ UNCHANGED <<pc[w], todo[w], seen[w]>>
    BY <1>2 DEF CommitClaim, ClaimFails, Goto, Forget
  <2>2. /\ pc[v] = "claiming"
        /\ LeaseRows(todo[v], claims + 1) \/ outbox' = outbox
    BY <1>2 DEF CommitClaim, ClaimFails, tables
  <2>3. pc[w] = "claiming" /\ todo[v] \cap todo[w] = {}
    BY <2>1, <2>2 DEF ClaimOwnsRows
  <2> QED
    BY <2>1, <2>2, <2>3 DEF LeaseRows
<1>3. ASSUME NEW v \in Worker, Ack(v) \/ Nack(v) \/ EventFaults(v)
      PROVE  /\ v # w /\ UNCHANGED <<pc[w], todo[w], seen[w]>>
             /\ pc[w] = "claiming"
                  => \A e \in todo[w] : outbox'[e] = outbox[e]
  <2>1. v # w /\ UNCHANGED <<pc[w], todo[w], seen[w]>>
    BY <1>3 DEF Ack, Nack, Settle, EventFaults, StatementThrows, Goto, local
  <2>2. \/ outbox' = outbox
        \/ /\ cur[v] \notin Locked
           /\ \E row : outbox' = [outbox EXCEPT ![cur[v]] = row]
    BY <1>3 DEF Ack, Nack, EventFaults, StatementThrows, InsertReservation,
       CloseReservation, DeleteReservation, MarkProcessed, MarkFailure,
       UpdateFenced, tables
  <2> QED
    BY <2>1, <2>2 DEF Locked
<1>4. ASSUME NEW v \in Worker, NackFails(v)
      PROVE  /\ v # w /\ UNCHANGED <<pc[w], todo[w], seen[w]>>
             /\ pc[w] = "claiming"
                  => \A e \in todo[w] : outbox'[e] = outbox[e]
  <2>1. v # w /\ UNCHANGED <<pc[w], todo[w], seen[w]>>
    BY <1>4 DEF NackFails, Forget, Goto
  <2>2. \/ outbox' = outbox
        \/ /\ cur[v] \notin Locked
           /\ \E row : outbox' = [outbox EXCEPT ![cur[v]] = row]
    BY <1>4 DEF NackFails, MarkFailure, UpdateFenced, tables
  <2> QED
    BY <2>1, <2>2 DEF Locked
<1>5. ASSUME NEW v \in Worker,
             \/ NextEvent(v) \/ EndTick(v) \/ Reserve(v) \/ Lookup(v)
             \/ DispatchReturns(v) \/ DispatchThrows(v) \/ FinishKey(v)
             \/ ReleaseKey(v) \/ Exit(v) \/ Stop(v) \/ Crash(v) \/ Restart(v)
      PROVE  UNCHANGED <<pc[w], todo[w], seen[w], outbox>>
  <2>1. outbox' = outbox
    BY <1>5 DEF NextEvent, EndTick, Reserve, Lookup, DispatchReturns,
       DispatchThrows, FinishKey, ReleaseKey, Exit, Stop, Crash, Restart,
       InsertReservation, CloseReservation, DeleteReservation, tables
  <2>2. \/ UNCHANGED <<pc, todo, seen>>
        \/ \E to \in PC \ {"claiming"} : Goto(v, to) /\ UNCHANGED <<todo, seen>>
        \/ \E to \in PC \ {"claiming"} : Goto(v, to) /\ Forget(v)
    BY <1>5 DEF NextEvent, EndTick, Reserve, Lookup, DispatchReturns,
       DispatchThrows, FinishKey, ReleaseKey, Exit, Stop, Crash, Restart,
       local, PC
  <2> QED
    BY <2>1, <2>2 DEF Goto, Forget
<1>6. ASSUME NEW d \in Event, Clock(d)
      PROVE  /\ UNCHANGED <<pc, todo, seen>>
             /\ \A e \in todo[w] : outbox'[e] = outbox[e] \/ Ticks(e)
  BY <1>6 DEF Clock, LeaseExpires, RetryComesDue, Ticks, local
<1>7. ASSUME NEW d \in Event, Append(d) \/ Retry(d) \/ RequeueDeadLetter(d)
      PROVE  /\ UNCHANGED <<pc, todo, seen>>
             /\ \A e \in todo[w] : outbox'[e] = outbox[e]
  <2>1. UNCHANGED <<pc, todo, seen>>
    BY <1>7 DEF Append, Retry, RequeueDeadLetter, local
  <2>2. d \notin todo[w]
    BY <1>7, <2>1 DEF Append, Retry, RequeueDeadLetter, Locked,
       ClaimOwnsRows, Due
  <2> QED
    BY <1>7, <2>1, <2>2 DEF Append, Retry, RequeueDeadLetter, ResetRow
<1>8. CASE UNCHANGED vars
  BY <1>8 DEF vars
<1> QED
  BY <1>1, <1>2, <1>3, <1>4, <1>5, <1>6, <1>7, <1>8 DEF Next, Work

LEMMA ClaimOwnsRowsStep == IInv /\ [Next]_vars => ClaimOwnsRows'
<1> SUFFICES ASSUME IInv, [Next]_vars, NEW w \in Worker, pc'[w] = "claiming"
             PROVE  /\ \A e \in todo'[w] :
                         Due(e)' /\ seen'[w][e] = outbox'[e].attempts
                    /\ \A v \in Worker \ {w} :
                         pc'[v] = "claiming" => todo'[v] \cap todo'[w] = {}
  BY DEF ClaimOwnsRows
<1>1. ASSUME NEW v \in Worker, SelectDue(v)
      PROVE  /\ todo'[v] \subseteq Claimable
             /\ \A e \in todo'[v] : seen'[v][e] = outbox[e].attempts
             /\ outbox' = outbox
             /\ \A u \in Worker \ {v} : pc'[u] = pc[u] /\ todo'[u] = todo[u]
  BY <1>1 DEF SelectDue, Oldest, Claimable, Goto, tables, IInv, TypeOK
<1>2. CASE SelectDue(w)
  BY <1>1, <1>2 DEF Claimable, Locked, Due, IInv, TypeOK
<1>3. CASE /\ pc[w] = "claiming"
           /\ todo'[w] = todo[w] /\ seen'[w] = seen[w]
           /\ \A e \in todo[w] : outbox'[e] = outbox[e] \/ Ticks(e)
  <2>1. ASSUME NEW e \in todo'[w]
        PROVE  Due(e)' /\ seen'[w][e] = outbox'[e].attempts
    <3>1. e \in Event /\ outbox[e] \in Row
      BY <1>3 DEF IInv, TypeOK
    <3>2. Due(e) /\ seen[w][e] = outbox[e].attempts
      BY <1>3 DEF IInv, ClaimOwnsRows
    <3>3. CASE outbox'[e] = outbox[e]
      BY <1>3, <3>2, <3>3 DEF Due
    <3>4. CASE Ticks(e)
      BY <1>3, <3>1, <3>2, <3>4, ClockFacts
         DEF Due, Ticks, IInv, LeaseColumns
    <3> QED
      BY <1>3, <3>3, <3>4
  <2>2. ASSUME NEW v \in Worker \ {w}, pc'[v] = "claiming"
        PROVE  todo'[v] \cap todo'[w] = {}
    <3>1. CASE SelectDue(v)
      BY <1>1, <1>3, <3>1 DEF Claimable, Locked
    <3>2. CASE pc[v] = "claiming" /\ todo'[v] = todo[v]
      BY <1>3, <3>2 DEF IInv, ClaimOwnsRows
    <3> QED
      BY <2>2, <3>1, <3>2, ClaimFrame
  <2> QED
    BY <2>1, <2>2
<1> QED
  BY <1>2, <1>3, ClaimFrame

-----------------------------------------------------------------------------
(* Reservations.                                                           *)

KeyInv == /\ ReservationHeld
          /\ HandlerExclusive
          /\ RepeatsAccounted
          /\ LedgerReserved

\* A step that leaves every key and every running handler alone.
Quiet == /\ UNCHANGED <<ledger, reserved, completions>>
         /\ FaultsSpent' \in {FaultsSpent, FaultsSpent + 1}
         /\ \A v \in Worker : pc'[v] \in Reserving
                                => pc'[v] = pc[v] /\ cur'[v] = cur[v]

LEMMA SpendFacts ==
  ASSUME TypeOK
  PROVE  /\ FaultsSpent \in Int
         /\ UNCHANGED budget => FaultsSpent' = FaultsSpent
         /\ Spend("fault") => FaultsSpent' = FaultsSpent + 1
         /\ \A h \in Mishap : Spend(h)
              => FaultsSpent' \in {FaultsSpent, FaultsSpent + 1}
<1>1. "fault" \in Mishap /\ budget \in [Mishap -> Nat]
      /\ Budget \in [Mishap -> Nat]
  BY OutboxAssumption DEF TypeOK, Mishap
<1> QED
  BY <1>1 DEF FaultsSpent, Spend

LEMMA QuietKeepsKeys == IInv /\ Quiet => KeyInv'
<1> SUFFICES ASSUME IInv, Quiet PROVE KeyInv'
  OBVIOUS
<1>1. \A v \in Worker : pc'[v] \in Reserving => CurKey(v)' = CurKey(v)
  BY DEF Quiet, CurKey
<1>2. ReservationHeld' /\ HandlerExclusive' /\ LedgerReserved'
  BY <1>1 DEF Quiet, IInv, ReservationHeld, HandlerExclusive, LedgerReserved,
              Reserving
<1>3. RepeatsAccounted'
  <2>1. /\ FaultsSpent \in Int /\ FaultsSpent' \in Int
        /\ FaultsSpent' >= FaultsSpent
    BY SpendFacts DEF Quiet, IInv
  <2>2. completions \in [Key -> Nat]
    BY DEF IInv, TypeOK
  <2>3. \A v \in Worker : pc'[v] \in Reserving => CurKey(v) \in Key
    BY AtWork DEF Quiet, IInv, Working
  <2> QED
    BY <1>1, <2>1, <2>2, <2>3 DEF Quiet, IInv, RepeatsAccounted, Reserving
<1> QED
  BY <1>2, <1>3 DEF KeyInv

\* The actions of handleEvent, and the errors of its statements.
Handles(w) ==
  \/ Reserve(w) \/ DispatchReturns(w) \/ DispatchThrows(w)
  \/ FinishKey(w) \/ ReleaseKey(w) \/ EventFaults(w)

LEMMA QuietStep ==
  ASSUME IInv, [Next]_vars, \A w \in Worker : ~ Handles(w)
  PROVE  Quiet
<1> USE DEF IInv, TypeOK, Quiet, Reserving
<1>1. ASSUME NEW w \in Worker,
             \/ SelectDue(w) \/ CommitClaim(w) \/ NextEvent(w) \/ EndTick(w)
             \/ Lookup(w) \/ Ack(w) \/ Nack(w) \/ Exit(w) \/ Restart(w)
      PROVE  Quiet
  <2>1. UNCHANGED <<ledger, reserved, completions, budget>>
    BY <1>1 DEF SelectDue, CommitClaim, NextEvent, EndTick, Lookup, Ack, Nack,
       Exit, Restart, LeaseRows, MarkProcessed, MarkFailure, UpdateFenced,
       tables
  <2>2. /\ \E to \in PC \ Reserving : Goto(w, to)
        /\ \/ UNCHANGED cur
           \/ \E x : cur' = [cur EXCEPT ![w] = x]
    BY <1>1 DEF SelectDue, CommitClaim, NextEvent, EndTick, Lookup, Ack, Nack,
       Exit, Restart, Settle, Forget, Goto, local, PC
  <2> QED
    BY <2>1, <2>2, SpendFacts DEF Goto
<1>2. ASSUME NEW w \in Worker, ClaimFails(w) \/ NackFails(w) \/ Crash(w)
      PROVE  Quiet
  <2>1. /\ UNCHANGED <<ledger, reserved, completions>>
        /\ Spend("fault") \/ Spend("crash")
        /\ Forget(w)
        /\ Goto(w, "idle") \/ Goto(w, "down")
    BY <1>2 DEF ClaimFails, NackFails, Crash, LeaseRows, MarkFailure,
       UpdateFenced, tables
  <2>2. "fault" \in Mishap /\ "crash" \in Mishap
    BY DEF Mishap
  <2> QED
    BY <2>1, <2>2, SpendFacts DEF Goto, Forget
<1>3. ASSUME NEW w \in Worker, Stop(w) PROVE Quiet
  <2>1. "stop" \in Mishap
    BY DEF Mishap
  <2> QED
    BY <1>3, <2>1, SpendFacts DEF Stop, local, tables
<1>4. ASSUME NEW e \in Event,
             Clock(e) \/ Append(e) \/ Retry(e) \/ RequeueDeadLetter(e)
      PROVE  Quiet
  <2>1. /\ UNCHANGED <<ledger, reserved, completions, pc, cur>>
        /\ UNCHANGED budget \/ Spend("slow") \/ Spend("manual")
    BY <1>4 DEF Clock, LeaseExpires, RetryComesDue, Append, Retry,
       RequeueDeadLetter, ResetRow, local
  <2>2. "slow" \in Mishap /\ "manual" \in Mishap
    BY DEF Mishap
  <2> QED
    BY <2>1, <2>2, SpendFacts
<1>5. CASE UNCHANGED vars
  BY <1>5, SpendFacts DEF vars
<1> QED
  BY <1>1, <1>2, <1>3, <1>4, <1>5 DEF Next, Work, Handles

\* A worker that moves while its handler is reserved moves alone: no other
\* handler of its key is reserved.
LEMMA KeyStep == IInv /\ [Next]_vars => KeyInv'
<1> SUFFICES ASSUME IInv, [Next]_vars, NEW w \in Worker, Handles(w)
             PROVE  KeyInv'
  BY QuietStep, QuietKeepsKeys
<1> DEFINE k == CurKey(w)
<1>1. /\ pc[w] \in Working /\ k \in Key
      /\ cur' = cur
      /\ \E to \in PC : pc' = [pc EXCEPT ![w] = to]
  <2>1. /\ pc[w] \in Working /\ cur' = cur
        /\ \E to \in PC : pc' = [pc EXCEPT ![w] = to]
    BY DEF Handles, Reserve, DispatchReturns, DispatchThrows, FinishKey,
       ReleaseKey, EventFaults, StatementThrows, Goto, local, Working,
       Reserving, PC
  <2> QED
    BY <2>1, AtWork DEF IInv
<1>2. \A v \in Worker : /\ CurKey(v)' = CurKey(v)
                        /\ v # w => pc'[v] = pc[v]
  BY <1>1 DEF CurKey, IInv, TypeOK
<1>3. /\ pc \in [Worker -> PC] /\ FaultsSpent \in Int
      /\ ledger \in [Key -> {"none", "processing", "processed"}]
      /\ completions \in [Key -> Nat] /\ reserved \in SUBSET Key
  BY SpendFacts DEF IInv, TypeOK
<1>4. /\ ReservationHeld /\ HandlerExclusive
      /\ RepeatsAccounted /\ LedgerReserved
  BY DEF IInv
<1>5. \A v \in Worker : pc[v] \in Reserving => CurKey(v) \in Key
  BY AtWork DEF IInv, Working
<1> USE DEF KeyInv, ReservationHeld, HandlerExclusive, RepeatsAccounted,
            LedgerReserved, Reserving
<1>6. ASSUME pc' = [pc EXCEPT ![w] = "dispatch"], ledger[k] = "none",
             ledger' = [ledger EXCEPT ![k] = "processing"],
             reserved' = reserved \cup {k},
             UNCHANGED completions, FaultsSpent' = FaultsSpent
      PROVE  KeyInv'
  BY <1>1, <1>2, <1>3, <1>4, <1>5, <1>6
<1>7. ASSUME NEW to, to \notin Reserving, pc' = [pc EXCEPT ![w] = to],
             ledger' \in {ledger, [ledger EXCEPT ![k] = "processing"]},
             reserved' \in {reserved, reserved \cup {k}},
             ledger' # ledger => ledger[k] = "none" /\ k \in reserved',
             UNCHANGED completions,
             FaultsSpent' \in {FaultsSpent, FaultsSpent + 1}
      PROVE  KeyInv'
  BY <1>1, <1>2, <1>3, <1>4, <1>5, <1>7
<1>8. ASSUME pc[w] = "dispatch", pc' = [pc EXCEPT ![w] = "finish"],
             completions' = [completions EXCEPT ![k] = @ + 1],
             UNCHANGED <<ledger, reserved>>, FaultsSpent' = FaultsSpent
      PROVE  KeyInv'
  BY <1>1, <1>2, <1>3, <1>4, <1>5, <1>8
<1>9. ASSUME pc[w] = "dispatch", pc' = [pc EXCEPT ![w] = "release"],
             UNCHANGED <<ledger, reserved, completions>>,
             FaultsSpent' = FaultsSpent
      PROVE  KeyInv'
  BY <1>1, <1>2, <1>3, <1>4, <1>5, <1>9
<1>10. ASSUME pc[w] = "finish",
              \/ /\ pc' = [pc EXCEPT ![w] = "ack"]
                 /\ FaultsSpent' = FaultsSpent
                 /\ ledger' = [ledger EXCEPT ![k] = "processed"]
              \/ /\ pc' = [pc EXCEPT ![w] = "release"]
                 /\ FaultsSpent' = FaultsSpent + 1
                 /\ ledger' \in {ledger, [ledger EXCEPT ![k] = "processed"]},
              UNCHANGED <<reserved, completions>>
       PROVE  KeyInv'
  BY <1>1, <1>2, <1>3, <1>4, <1>5, <1>10
<1>11. ASSUME pc[w] = "release", pc' = [pc EXCEPT ![w] = "nack"],
              \/ ledger' = ledger
              \/ /\ ledger[k] = "processing"
                 /\ ledger' = [ledger EXCEPT ![k] = "none"],
              UNCHANGED <<reserved, completions>>,
              FaultsSpent' \in {FaultsSpent, FaultsSpent + 1}
       PROVE  KeyInv'
  BY <1>1, <1>2, <1>3, <1>4, <1>5, <1>11
<1> HIDE DEF KeyInv, ReservationHeld, HandlerExclusive, RepeatsAccounted,
             LedgerReserved, Reserving
<1>12. /\ UNCHANGED budget => FaultsSpent' = FaultsSpent
       /\ Spend("fault") => FaultsSpent' = FaultsSpent + 1
  BY SpendFacts DEF IInv
<1>13. CASE Reserve(w)
  <2>1. ledger[k] = "none" \/ (ledger[k] # "none" /\ ledger' = ledger)
    BY <1>3, <1>13 DEF Reserve, InsertReservation
  <2> QED
    BY <1>3, <1>4, <1>6, <1>7, <1>12, <1>13, <2>1
       DEF Reserve, InsertReservation, Goto, Reserving, LedgerReserved
<1>14. CASE DispatchReturns(w)
  BY <1>8, <1>12, <1>14 DEF DispatchReturns, Goto, tables
<1>15. CASE DispatchThrows(w)
  BY <1>9, <1>12, <1>15 DEF DispatchThrows, Goto, tables
<1>16. CASE FinishKey(w)
  <2>1. ledger[k] = "processing"
    BY <1>4, <1>16 DEF FinishKey, ReservationHeld
  <2> QED
    BY <1>10, <1>12, <1>16, <2>1 DEF FinishKey, CloseReservation, Goto
<1>17. CASE ReleaseKey(w)
  <2>1. \/ ledger' = ledger
        \/ /\ ledger[k] = "processing"
           /\ ledger' = [ledger EXCEPT ![k] = "none"]
    BY <1>3, <1>17 DEF ReleaseKey, DeleteReservation
  <2> QED
    BY <1>11, <1>12, <1>17, <2>1 DEF ReleaseKey, DeleteReservation, Goto
<1>18. CASE EventFaults(w)
  <2>1. CASE StatementThrows(w, "reserve", "nack", InsertReservation(k))
    BY <1>3, <1>7, <1>12, <2>1
       DEF StatementThrows, InsertReservation, Goto, Reserving, tables
  <2>2. CASE StatementThrows(w, "lookup", "nack", UNCHANGED tables)
    BY <1>7, <1>12, <2>2 DEF StatementThrows, Goto, Reserving, tables
  <2>3. CASE StatementThrows(w, "finish", "release", CloseReservation(k))
    <3>1. ledger[k] = "processing"
      BY <1>4, <2>3 DEF StatementThrows, ReservationHeld
    <3> QED
      BY <1>10, <1>12, <2>3, <3>1
         DEF StatementThrows, CloseReservation, Goto, tables
  <2>4. CASE StatementThrows(w, "release", "nack", DeleteReservation(k))
    <3>1. \/ ledger' = ledger
          \/ /\ ledger[k] = "processing"
             /\ ledger' = [ledger EXCEPT ![k] = "none"]
      BY <1>3, <2>4 DEF StatementThrows, DeleteReservation, tables
    <3> QED
      BY <1>11, <1>12, <2>4, <3>1
         DEF StatementThrows, DeleteReservation, Goto, tables
  <2>5. CASE StatementThrows(w, "ack", "nack",
               cur[w] \notin Locked /\ MarkProcessed(cur[w], token[w]))
    BY <1>7, <1>12, <2>5
       DEF StatementThrows, MarkProcessed, UpdateFenced, Goto, Reserving,
           tables
  <2> QED
    BY <1>18, <2>1, <2>2, <2>3, <2>4, <2>5 DEF EventFaults
<1> QED
  BY <1>13, <1>14, <1>15, <1>16, <1>17, <1>18 DEF Handles

LEMMA AckReservedStep == IInv /\ [Next]_vars => AckReserved'
<1> SUFFICES ASSUME IInv, [Next]_vars, NEW w \in Worker,
                    pc'[w] \in {"lookup", "ack"}
             PROVE  CurKey(w)' \in reserved'
  BY DEF AckReserved
<1> USE DEF IInv, TypeOK
<1>1. ASSUME NEW v \in Worker,
             Reserve(v) \/ Lookup(v) \/ FinishKey(v) \/ EventFaults(v)
                \/ DispatchReturns(v) \/ DispatchThrows(v) \/ ReleaseKey(v)
      PROVE  CurKey(w)' \in reserved'
  <2>1. /\ cur' = cur /\ reserved \subseteq reserved'
        /\ pc[v] \in Working
        /\ \E to \in PC :
             /\ pc' = [pc EXCEPT ![v] = to]
             /\ to \in {"lookup", "ack"} => \/ CurKey(v) \in reserved'
                                           \/ pc[v] \in {"lookup", "finish"}
    BY <1>1 DEF Reserve, Lookup, FinishKey, EventFaults, StatementThrows,
       DispatchReturns, DispatchThrows, ReleaseKey, InsertReservation,
       CloseReservation, DeleteReservation, MarkProcessed, UpdateFenced,
       Goto, local, tables, PC, Working, Reserving
  <2>2. CurKey(v) \in Key
    BY <2>1, AtWork
  <2>3. pc[v] \in {"lookup", "finish"} => CurKey(v) \in reserved
    BY <2>2 DEF AckReserved, ReservationHeld, LedgerReserved
  <2>4. CurKey(w)' = CurKey(w)
    BY <2>1 DEF CurKey
  <2> QED
    BY <2>1, <2>3, <2>4 DEF AckReserved
<1>2. CASE UNCHANGED reserved /\ pc'[w] = pc[w] /\ cur'[w] = cur[w]
  BY <1>2 DEF AckReserved, CurKey
<1>3. ASSUME NEW v \in Worker,
             \/ SelectDue(v) \/ CommitClaim(v) \/ NextEvent(v) \/ EndTick(v)
             \/ Ack(v) \/ Nack(v) \/ Exit(v) \/ Restart(v)
             \/ ClaimFails(v) \/ NackFails(v) \/ Crash(v)
      PROVE  CurKey(w)' \in reserved'
  <2>1. /\ UNCHANGED reserved
        /\ \E to \in PC \ {"lookup", "ack"} : Goto(v, to)
        /\ \/ UNCHANGED cur
           \/ \E x : cur' = [cur EXCEPT ![v] = x]
    BY <1>3 DEF SelectDue, CommitClaim, NextEvent, EndTick, Ack, Nack,
       Exit, Restart, ClaimFails, NackFails, Crash, Settle, Forget, Goto,
       LeaseRows, MarkProcessed, MarkFailure, UpdateFenced, local, tables, PC
  <2>2. pc'[w] = pc[w] /\ cur'[w] = cur[w]
    BY <2>1 DEF Goto
  <2> QED
    BY <1>2, <2>1, <2>2
<1>4. ASSUME NEW v \in Worker, Stop(v) PROVE CurKey(w)' \in reserved'
  BY <1>2, <1>4 DEF Stop, local, tables
<1>5. ASSUME NEW e \in Event,
             Clock(e) \/ Append(e) \/ Retry(e) \/ RequeueDeadLetter(e)
      PROVE  CurKey(w)' \in reserved'
  BY <1>2, <1>5 DEF Clock, LeaseExpires, RetryComesDue, Append, Retry,
     RequeueDeadLetter, ResetRow, local
<1>6. CASE UNCHANGED vars
  BY <1>2, <1>6 DEF vars
<1> QED
  BY <1>1, <1>3, <1>4, <1>5, <1>6 DEF Next, Work

-----------------------------------------------------------------------------
(* The theorems.                                                           *)

LEMMA InitInv == Init => IInv
<1> SUFFICES ASSUME Init PROVE IInv
  OBVIOUS
<1>1. /\ Absent \in Row /\ Absent.status = "absent" /\ Absent.attempts = 0
      /\ Absent.token = NoToken /\ Absent.lease = "null"
  BY DEF Absent, Row, Status, NoToken
<1>2. MaxAttempts \in Nat /\ MaxAttempts > 0
  BY OutboxAssumption
<1>3. TypeOK
  BY <1>1, OutboxAssumption DEF Init, TypeOK, PC, NoToken
<1>4. WorkerShape /\ TokensUnique /\ LeaseColumns /\ ClaimOwnsRows
      /\ SnapshotCurrent
  BY <1>1 DEF Init, WorkerShape, TokensUnique, LeaseColumns, ClaimOwnsRows,
     SnapshotCurrent, Working, Reserving, NoToken
<1>5. ReservationHeld /\ HandlerExclusive /\ LedgerReserved /\ AckReserved
  BY DEF Init, ReservationHeld, HandlerExclusive, LedgerReserved, AckReserved,
     Reserving
<1>6. RepeatsAccounted
  BY OutboxAssumption DEF Init, RepeatsAccounted, FaultsSpent, Mishap
<1>7. AttemptsAccounting /\ AttemptsLeft
  BY <1>1, <1>2 DEF Init, AttemptsAccounting, AttemptsLeft
<1> QED
  BY <1>3, <1>4, <1>5, <1>6, <1>7 DEF IInv

LEMMA NextInv == IInv /\ [Next]_vars => IInv'
BY TypeStep, WorkerShapeStep, TokensUniqueStep, LeaseColumnsStep,
   ClaimOwnsRowsStep, SnapshotStep, KeyStep, AckReservedStep, AttemptsStep
   DEF IInv, KeyInv

\* The inductive invariant holds in every reachable state of Outbox: each
\* tick of processDueBatch, each admin call and each mishap preserves it.
THEOREM Invariance == Spec => []IInv
BY InitInv, NextInv, PTL DEF Spec

\* Every variable keeps its type, for any number of instances and events.
THEOREM Typing == Spec => []TypeOK
<1>1. IInv => TypeOK
  BY DEF IInv
<1> QED
  BY Invariance, <1>1, PTL

\* reserveProcessedEvent is a lock: no two workers ever execute the handler
\* of one idempotency key at the same time.
THEOREM Exclusion == Spec => []HandlerExclusive
<1>1. IInv => HandlerExclusive
  BY DEF IInv
<1> QED
  BY Invariance, <1>1, PTL

\* Without a failed SQL statement no handler completes twice: a crash, a
\* takeover, a duplicate or a manual retry alone never repeats it.
THEOREM BoundedRepetition == Spec => []RepeatsNeedFaults
<1>1. IInv => RepeatsNeedFaults
  BY OutboxAssumption
     DEF IInv, TypeOK, RepeatsAccounted, RepeatsNeedFaults, FaultsSpent, Mishap
<1> QED
  BY Invariance, <1>1, PTL

\* An event is given up at exactly MaxAttempts failures, whatever late
\* updates race with it.
THEOREM Accounting == Spec => []AttemptsAccounting
<1>1. IInv => AttemptsAccounting
  BY DEF IInv
<1> QED
  BY Invariance, <1>1, PTL

\* FOR UPDATE SKIP LOCKED and the lease condition of the claim together keep
\* every running lease with its owner.
THEOREM NoTheft == Spec => LiveLeaseNotStolen
<1>1. IInv /\ [Next]_vars =>
        [\A e \in Event :
           outbox[e].lease = "future" /\ outbox'[e].token # NoToken
             => outbox'[e].token = outbox[e].token]_vars
  BY LiveLeaseStep
<1> QED
  BY Invariance, <1>1, PTL DEF Spec, LiveLeaseNotStolen

\* A worker whose claim was taken over or reset cannot settle the row.
THEOREM Fencing == Spec => OnlyHolderSettles
<1>1. IInv /\ [Next]_vars =>
        [\A e \in Event :
           outbox'[e].status \in Outcome /\ outbox'[e].status # outbox[e].status
             => \E w \in Worker : HolderActs(w, e)]_vars
  BY HolderStep DEF HolderActs
<1> QED
  BY Invariance, <1>1, PTL DEF Spec, OnlyHolderSettles
=============================================================================
