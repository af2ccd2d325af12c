------------------------------- MODULE Outbox -------------------------------
(***************************************************************************)
(* The transactional outbox: OutboxPublisher workers (one per backend      *)
(* instance) that claim due rows of outbox_events under a lease, run the   *)
(* handler of each event under a reservation in processed_events, and      *)
(* record the outcome; the admin's manual retry and requeue; crashes,      *)
(* deployments, leases that run out and SQL statements that fail.          *)
(*                                                                         *)
(* Every SQL statement is one action, so the workers interleave exactly    *)
(* where the code awaits the database.  The claim is a transaction of two  *)
(* actions: its SELECT ... FOR UPDATE locks the rows, its COMMIT shows the *)
(* new lease.                                                              *)
(***************************************************************************)
EXTENDS Integers, FiniteSets

CONSTANTS
  Worker,       \* backend instances, each with one OutboxPublisher
  Event,        \* rows of outbox_events
  Key,          \* handler idempotency keys
  KeyOf,        \* KeyOf[e]: eventType:aggregateType:aggregateId of event e
  Kind,         \* Kind[k]: what dispatchEvent does with events of key k
  CreatedAt,    \* CreatedAt[e]: created_at, the order of the claim
  NoEvent,      \* no event: a worker between two events
  BatchSize,    \* OUTBOX_BATCH_SIZE
  MaxAttempts,  \* OUTBOX_MAX_ATTEMPTS
  Budget        \* Budget[h]: how often mishap h may happen (a bound)

\* What may go wrong, or be done by hand, a bounded number of times:
\* "crash" a worker's process dies, "stop" it is shut down gracefully,
\* "fault" an SQL statement throws, "slow" a lease runs out while its worker
\* is still at work, "manual" an admin resets an event.
Mishap == {"crash", "stop", "fault", "slow", "manual"}

\* "order.created" runs the order saga, "fact" is acknowledged with no side
\* effect, "unknown" has no handler and throws.
Kinds == {"order.created", "fact", "unknown"}

ASSUME OutboxAssumption ==
  /\ IsFiniteSet(Event)
  /\ NoEvent \notin Event
  /\ KeyOf \in [Event -> Key]
  /\ Kind \in [Key -> Kinds]
  /\ CreatedAt \in [Event -> Nat]
  /\ BatchSize \in Nat \ {0}
  /\ MaxAttempts \in Nat \ {0}
  /\ Budget \in [Mishap -> Nat]

NoToken == 0

VARIABLES
  outbox,       \* outbox[e]: the row of event e
  ledger,       \* ledger[k]: the row of key k in processed_events
  claims,       \* how many lease tokens (UUIDs) have been drawn
  pc,           \* pc[w]: the await worker w is at
  token,        \* token[w]: lease token of the batch w works on
  todo,         \* todo[w]: events of the batch not settled yet
  cur,          \* cur[w]: the event being processed
  seen,         \* seen[w][e]: attempts as read by the claim
  stopping,     \* workers whose isShuttingDown is set
  budget,       \* mishaps left
  reserved,     \* history: keys that ever had a row in processed_events
  completions   \* history: completions[k] handler runs that returned

tables  == <<outbox, ledger, reserved>>
local   == <<token, todo, cur, seen>>
vars    == <<outbox, ledger, claims, pc, token, todo, cur, seen,
             stopping, budget, reserved, completions>>

-----------------------------------------------------------------------------
(* Rows and program counters.                                              *)

Status  == {"absent", "pending", "processing", "processed", "failed",
            "dead_letter"}
Outcome == {"processed", "failed", "dead_letter"}

\* A timestamp column is kept as its comparison with CURRENT_TIMESTAMP.
Row == [status    : Status,
        attempts  : Nat,
        nextRetry : {"null", "future", "past"},
        token     : Nat,
        lease     : {"null", "future", "past"}]

Absent == [status |-> "absent", attempts |-> 0, nextRetry |-> "null",
           token |-> NoToken, lease |-> "null"]

\* The columns an append and a manual retry both leave behind.
Fresh == [Absent EXCEPT !.status = "pending"]

\* The awaits of processDueBatch, in order; "down" is a dead process.
PC == {"down", "idle", "claiming", "loop", "reserve", "lookup", "dispatch",
       "finish", "release", "ack", "nack"}

\* Program counters at which the handler of cur[w] is reserved by w.
Reserving == {"dispatch", "finish", "release"}
\* Program counters at which w works on the event cur[w].
Working == {"reserve", "lookup", "ack", "nack"} \cup Reserving

TypeOK ==
  /\ outbox \in [Event -> Row]
  /\ ledger \in [Key -> {"none", "processing", "processed"}]
  /\ claims \in Nat
  /\ pc \in [Worker -> PC]
  /\ token \in [Worker -> Nat]
  /\ todo \in [Worker -> SUBSET Event]
  /\ cur \in [Worker -> Event \cup {NoEvent}]
  /\ seen \in [Worker -> [Event -> Nat]]
  /\ stopping \in SUBSET Worker
  /\ budget \in [Mishap -> Nat]
  /\ reserved \in SUBSET Key
  /\ completions \in [Key -> Nat]

Init ==
  /\ outbox = [e \in Event |-> Absent]
  /\ ledger = [k \in Key |-> "none"]
  /\ claims = 0
  /\ pc = [w \in Worker |-> "idle"]
  /\ token = [w \in Worker |-> NoToken]
  /\ todo = [w \in Worker |-> {}]
  /\ cur = [w \in Worker |-> NoEvent]
  /\ seen = [w \in Worker |-> [e \in Event |-> 0]]
  /\ stopping = {}
  /\ budget = Budget
  /\ reserved = {}
  /\ completions = [k \in Key |-> 0]

-----------------------------------------------------------------------------
(* SQL statements: each says what becomes of outbox, ledger and reserved.  *)

CurKey(w) == KeyOf[cur[w]]

\* Rows locked by claim transactions that have not committed.
Locked == UNION {todo[w] : w \in {v \in Worker : pc[v] = "claiming"}}

\* Injected bug: crashed claims are never reclaimed.
DueButNotReclaimed(e) ==
  \/ outbox[e].status = "pending" /\ outbox[e].nextRetry # "future"
  \/ outbox[e].status = "failed" /\ outbox[e].nextRetry = "past"

\* The WHERE clause of the claim.
Due(e) ==
  \/ outbox[e].status = "pending" /\ outbox[e].nextRetry # "future"
  \/ outbox[e].status = "failed" /\ outbox[e].nextRetry = "past"
  \/ outbox[e].status = "processing" /\ outbox[e].lease = "past"

\* Injected bug: SELECT without FOR UPDATE SKIP LOCKED.
ClaimableUnlocked == {e \in Event : Due(e)}

\* FOR UPDATE SKIP LOCKED: rows another claim holds are passed over.
Claimable == {e \in Event : Due(e)} \ Locked

\* ORDER BY created_at LIMIT BatchSize; ties are broken either way.
Oldest(S) ==
  {B \in SUBSET S :
     /\ IF Cardinality(S) <= BatchSize THEN B = S
                                       ELSE Cardinality(B) = BatchSize
     /\ \A x \in B, y \in S \ B : CreatedAt[x] <= CreatedAt[y]}

\* The columns markRowsAsProcessing sets.
Leased(row, t) ==
  [row EXCEPT !.status = "processing", !.token = t, !.lease = "future"]

\* Its UPDATE, visible when the claim commits.
LeaseRows(S, t) ==
  /\ outbox' = [e \in Event |->
                  IF e \in S THEN Leased(outbox[e], t) ELSE outbox[e]]
  /\ claims' = claims + 1
  /\ UNCHANGED <<ledger, reserved>>

\* INSERT IGNORE into processed_events.
InsertReservation(k) ==
  /\ ledger' = [ledger EXCEPT ![k] = IF @ = "none" THEN "processing" ELSE @]
  /\ reserved' = reserved \cup {k}
  /\ UNCHANGED outbox

\* markProcessedEvent.
CloseReservation(k) ==
  /\ ledger' = [ledger EXCEPT ![k] = IF @ = "none" THEN @ ELSE "processed"]
  /\ UNCHANGED <<outbox, reserved>>

\* Injected bug: the reservation of a failed handler is kept.
KeepReservation(k) == UNCHANGED <<ledger, outbox, reserved>>

\* releaseProcessedEventReservation.
DeleteReservation(k) ==
  /\ ledger' = [ledger EXCEPT ![k] = IF @ = "processing" THEN "none" ELSE @]
  /\ UNCHANGED <<outbox, reserved>>

\* Injected bug: the final update is not fenced by the lease token.
UpdateUnfenced(e, t, row) ==
  /\ outbox' = [outbox EXCEPT ![e] = row]
  /\ UNCHANGED <<ledger, reserved>>

\* UPDATE outbox_events ... WHERE id = e AND lease_token = t: without effect
\* once the row belongs to another claim, or to none.
UpdateFenced(e, t, row) ==
  /\ outbox' = [outbox EXCEPT ![e] = IF @.token = t THEN row ELSE @]
  /\ UNCHANGED <<ledger, reserved>>

\* The columns markProcessed sets.
Acknowledged(row) ==
  [Fresh EXCEPT !.status = "processed", !.attempts = row.attempts]

\* The columns set after failure n: by markDeadLetter once the attempts are
\* used up, by markFailed with a next attempt before that.
Failed(n) ==
  [Fresh EXCEPT !.attempts = n,
     !.status    = IF n >= MaxAttempts THEN "dead_letter" ELSE "failed",
     !.nextRetry = IF n >= MaxAttempts THEN "null" ELSE "future"]

MarkProcessed(e, t) == UpdateFenced(e, t, Acknowledged(outbox[e]))
MarkFailure(e, t, n) == UpdateFenced(e, t, Failed(n))

\* Injected bug: the manual retry leaves the lease columns alone.
ResetKeepingLease(e) ==
  /\ outbox' = [outbox EXCEPT ![e] =
                 [Fresh EXCEPT !.token = outbox[e].token]]
  /\ UNCHANGED <<ledger, reserved>>

\* The UPDATE of retry and of requeueDeadLetter.
ResetRow(e) ==
  /\ outbox' = [outbox EXCEPT ![e] = Fresh]
  /\ UNCHANGED <<ledger, reserved>>

-----------------------------------------------------------------------------
(* The publisher.                                                          *)

Spend(h) == budget[h] > 0 /\ budget' = [budget EXCEPT ![h] = @ - 1]

Goto(w, to) == pc' = [pc EXCEPT ![w] = to]

\* Worker w forgets its batch: the tick is over, or its process is gone.
Forget(w) ==
  /\ token' = [token EXCEPT ![w] = NoToken]
  /\ todo' = [todo EXCEPT ![w] = {}]
  /\ cur' = [cur EXCEPT ![w] = NoEvent]
  /\ seen' = [seen EXCEPT ![w] = [e \in Event |-> 0]]

\* processDueBatch: a tick of an idle publisher opens the claim transaction
\* and selects the due rows.  (A tick with none due changes nothing.)
SelectDue(w) ==
  /\ pc[w] = "idle"
  /\ w \notin stopping
  /\ Claimable # {}
  /\ \E batch \in Oldest(Claimable) :
       /\ todo' = [todo EXCEPT ![w] = batch]
       /\ seen' = [seen EXCEPT ![w] = [e \in Event |->
                     IF e \in batch THEN outbox[e].attempts ELSE 0]]
  /\ Goto(w, "claiming")
  /\ UNCHANGED <<tables, claims, token, cur, stopping, budget, completions>>

\* markRowsAsProcessing and the COMMIT of the claim.
CommitClaim(w) ==
  /\ pc[w] = "claiming"
  /\ LeaseRows(todo[w], claims + 1)
  /\ token' = [token EXCEPT ![w] = claims + 1]
  /\ Goto(w, "loop")
  /\ UNCHANGED <<todo, cur, seen, stopping, budget, completions>>

\* The claim throws: it is rolled back, or the COMMIT took effect and only
\* its answer was lost.  processDueBatch ends the tick.
ClaimFails(w) ==
  /\ pc[w] = "claiming"
  /\ Spend("fault")
  /\ \/ LeaseRows(todo[w], claims + 1)
     \/ UNCHANGED <<tables, claims>>
  /\ Forget(w)
  /\ Goto(w, "idle")
  /\ UNCHANGED <<stopping, completions>>

\* The for loop of processDueBatch takes the next event of the batch.
NextEvent(w) ==
  /\ pc[w] = "loop"
  /\ \E e \in todo[w] :
       /\ \A d \in todo[w] : CreatedAt[e] <= CreatedAt[d]
       /\ cur' = [cur EXCEPT ![w] = e]
  /\ Goto(w, "reserve")
  /\ UNCHANGED <<tables, claims, token, todo, seen, stopping, budget,
                 completions>>

\* The batch is done; isRunning is cleared.
EndTick(w) ==
  /\ pc[w] = "loop"
  /\ todo[w] = {}
  /\ Forget(w)
  /\ Goto(w, "idle")
  /\ UNCHANGED <<tables, claims, stopping, budget, completions>>

\* Injected bug: a key that is already there counts as reserved.
ReserveTwice(w) ==
  /\ pc[w] = "reserve"
  /\ InsertReservation(CurKey(w))
  /\ Goto(w, "dispatch")
  /\ UNCHANGED <<claims, local, stopping, budget, completions>>

\* reserveProcessedEvent: affectedRows says whether w holds the key.
Reserve(w) ==
  /\ pc[w] = "reserve"
  /\ InsertReservation(CurKey(w))
  /\ Goto(w, IF ledger[CurKey(w)] = "none" THEN "dispatch" ELSE "lookup")
  /\ UNCHANGED <<claims, local, stopping, budget, completions>>

\* findProcessedEventByKey: AlreadyProcessed or AlreadyProcessing, and also
\* when the row is gone by now; handleEvent returns in every case.
Lookup(w) ==
  /\ pc[w] = "lookup"
  /\ Goto(w, "ack")
  /\ UNCHANGED <<tables, claims, local, stopping, budget, completions>>

\* dispatchEvent returns.
DispatchReturns(w) ==
  /\ pc[w] = "dispatch"
  /\ Kind[CurKey(w)] # "unknown"
  /\ completions' = [completions EXCEPT ![CurKey(w)] = @ + 1]
  /\ Goto(w, "finish")
  /\ UNCHANGED <<tables, claims, local, stopping, budget>>

\* dispatchEvent throws: the saga failed, or no handler is registered.
DispatchThrows(w) ==
  /\ pc[w] = "dispatch"
  /\ Kind[CurKey(w)] # "fact"
  /\ Goto(w, "release")
  /\ UNCHANGED <<tables, claims, local, stopping, budget, completions>>

FinishKey(w) ==
  /\ pc[w] = "finish"
  /\ CloseReservation(CurKey(w))
  /\ Goto(w, "ack")
  /\ UNCHANGED <<claims, local, stopping, budget, completions>>

ReleaseKey(w) ==
  /\ pc[w] = "release"
  /\ DeleteReservation(CurKey(w))
  /\ Goto(w, "nack")
  /\ UNCHANGED <<claims, local, stopping, budget, completions>>

\* Worker w has settled cur[w] and returns to its loop.
Settle(w) ==
  /\ todo' = [todo EXCEPT ![w] = @ \ {cur[w]}]
  /\ cur' = [cur EXCEPT ![w] = NoEvent]
  /\ seen' = [seen EXCEPT ![w][cur[w]] = 0]
  /\ Goto(w, "loop")

\* processEventWithContext after handleEvent returned.  An UPDATE waits for
\* a row that a claim has locked.
Ack(w) ==
  /\ pc[w] = "ack"
  /\ cur[w] \notin Locked
  /\ MarkProcessed(cur[w], token[w])
  /\ Settle(w)
  /\ UNCHANGED <<claims, token, stopping, budget, completions>>

\* The catch of processEventWithContext.
Nack(w) ==
  /\ pc[w] = "nack"
  /\ cur[w] \notin Locked
  /\ MarkFailure(cur[w], token[w], seen[w][cur[w]] + 1)
  /\ Settle(w)
  /\ UNCHANGED <<claims, token, stopping, budget, completions>>

\* The statement w awaits at `from` throws, having taken effect or not.
StatementThrows(w, from, to, Statement) ==
  /\ pc[w] = from
  /\ Spend("fault")
  /\ Statement \/ UNCHANGED tables
  /\ Goto(w, to)
  /\ UNCHANGED <<claims, local, stopping, completions>>

\* Where each throw is caught: a failed reserve, release or final update by
\* processEventWithContext, a failed finish by handleEvent.
EventFaults(w) ==
  \/ StatementThrows(w, "reserve", "nack", InsertReservation(CurKey(w)))
  \/ StatementThrows(w, "lookup", "nack", UNCHANGED tables)
  \/ StatementThrows(w, "finish", "release", CloseReservation(CurKey(w)))
  \/ StatementThrows(w, "release", "nack", DeleteReservation(CurKey(w)))
  \/ StatementThrows(w, "ack", "nack",
                     cur[w] \notin Locked /\ MarkProcessed(cur[w], token[w]))

\* A throw inside that catch leaves processEvent: the tick ends and the rest
\* of the batch stays in processing.
NackFails(w) ==
  /\ pc[w] = "nack"
  /\ Spend("fault")
  /\ \/ cur[w] \notin Locked /\ MarkFailure(cur[w], token[w], seen[w][cur[w]] + 1)
     \/ UNCHANGED tables
  /\ Forget(w)
  /\ Goto(w, "idle")
  /\ UNCHANGED <<claims, stopping, completions>>

-----------------------------------------------------------------------------
(* Processes, clock and admin.                                             *)

\* onModuleDestroy: no tick starts any more.
Stop(w) ==
  /\ pc[w] # "down"
  /\ w \notin stopping
  /\ Spend("stop")
  /\ stopping' = stopping \cup {w}
  /\ UNCHANGED <<tables, claims, pc, local, completions>>

\* waitUntilIdle is over and the process exits.
Exit(w) ==
  /\ w \in stopping
  /\ pc[w] = "idle"
  /\ Goto(w, "down")
  /\ UNCHANGED <<tables, claims, local, stopping, budget, completions>>

\* The process dies anywhere, or its shutdown timeout passes; an open claim
\* transaction is rolled back by the server.
Crash(w) ==
  /\ pc[w] # "down"
  /\ Spend("crash")
  /\ Forget(w)
  /\ Goto(w, "down")
  /\ UNCHANGED <<tables, claims, stopping, completions>>

Restart(w) ==
  /\ pc[w] = "down"
  /\ stopping' = stopping \ {w}
  /\ Goto(w, "idle")
  /\ UNCHANGED <<tables, claims, local, budget, completions>>

\* A live worker still has e of claim outbox[e].token to settle.
Held(e) == \E w \in Worker : e \in todo[w] /\ token[w] = outbox[e].token

Expired(row)   == [row EXCEPT !.lease = "past"]
Retriable(row) == [row EXCEPT !.nextRetry = "past"]

\* lease_expires_at passes.
LeaseExpires(e) ==
  /\ outbox[e].lease = "future"
  /\ IF Held(e) THEN Spend("slow") ELSE UNCHANGED budget
  /\ outbox' = [outbox EXCEPT ![e] = Expired(@)]
  /\ UNCHANGED <<ledger, reserved, claims, pc, local, stopping, completions>>

\* next_retry_at passes.
RetryComesDue(e) ==
  /\ outbox[e].nextRetry = "future"
  /\ outbox' = [outbox EXCEPT ![e] = Retriable(@)]
  /\ UNCHANGED <<ledger, reserved, claims, pc, local, stopping, budget,
                 completions>>

\* A business transaction commits event e.
Append(e) ==
  /\ outbox[e].status = "absent"
  /\ outbox' = [outbox EXCEPT ![e] = Fresh]
  /\ UNCHANGED <<ledger, reserved, claims, pc, local, stopping, budget,
                 completions>>

\* POST /outbox/:id/retry, whatever the status.
Retry(e) ==
  /\ outbox[e].status # "absent"
  /\ e \notin Locked
  /\ Spend("manual")
  /\ ResetRow(e)
  /\ UNCHANGED <<claims, pc, local, stopping, completions>>

\* POST /outbox/:id/requeue, dead letters only.
RequeueDeadLetter(e) ==
  /\ outbox[e].status = "dead_letter"
  /\ e \notin Locked
  /\ Spend("manual")
  /\ ResetRow(e)
  /\ UNCHANGED <<claims, pc, local, stopping, completions>>

\* What a running process does of itself.
Work(w) ==
  \/ SelectDue(w) \/ CommitClaim(w) \/ NextEvent(w) \/ EndTick(w)
  \/ Reserve(w) \/ Lookup(w) \/ DispatchReturns(w) \/ DispatchThrows(w)
  \/ FinishKey(w) \/ ReleaseKey(w) \/ Ack(w) \/ Nack(w)
  \/ Exit(w)

Clock(e) == LeaseExpires(e) \/ RetryComesDue(e)

Next ==
  \/ \E w \in Worker : \/ Work(w) \/ ClaimFails(w) \/ EventFaults(w)
                       \/ NackFails(w) \/ Stop(w) \/ Crash(w) \/ Restart(w)
  \/ \E e \in Event : Clock(e) \/ Append(e) \/ Retry(e) \/ RequeueDeadLetter(e)

Spec == Init /\ [][Next]_vars

\* Timers tick, statements end, dead instances are restarted and time goes
\* on; no mishap and no admin is owed.
Fairness ==
  /\ \A w \in Worker : WF_vars(Work(w)) /\ WF_vars(Restart(w))
  /\ \A e \in Event : WF_vars(Clock(e))

FairSpec == Spec /\ Fairness

-----------------------------------------------------------------------------
(* Safety.                                                                 *)

\* At most one worker executes the handler of a key, from the reservation to
\* its close or release, however many duplicates of the event are in flight
\* and whatever leases run out meanwhile (reserveProcessedEvent).
HandlerExclusive ==
  \A v, w \in Worker :
    /\ pc[v] \in Reserving /\ pc[w] \in Reserving
    /\ CurKey(v) = CurKey(w)
    => v = w

\* A handler that completed is run again only after an SQL statement failed
\* between its completion and markProcessedEvent: crashes, takeovers of a
\* lease, duplicates of the event and manual retries never repeat it.
RepeatsNeedFaults ==
  \A k \in Key : completions[k] <= 1 + Budget["fault"] - budget["fault"]

\* The attempts column follows the status through every race of a stale
\* worker's final update with a takeover or a manual retry: a row is given
\* up at exactly MaxAttempts failures, and only then.
AttemptsAccounting ==
  \A e \in Event :
    LET row == outbox[e] IN
    /\ row.status = "dead_letter" <=> row.attempts = MaxAttempts
    /\ row.attempts <= MaxAttempts
    /\ row.status = "failed" => row.attempts > 0 /\ row.nextRetry # "null"
    /\ row.status \in {"absent", "pending"} => row.attempts = 0

\* A claim never takes a row out of a lease that still runs, although two
\* publishers select at the same time (FOR UPDATE SKIP LOCKED).
LiveLeaseNotStolen ==
  [][\A e \in Event :
       outbox[e].lease = "future" /\ outbox'[e].token # NoToken
         => outbox'[e].token = outbox[e].token]_vars

\* Worker w, which holds the current lease token of row e, settles e.
HolderActs(w, e) ==
  /\ pc[w] \in {"ack", "nack"}
  /\ pc'[w] # pc[w]
  /\ cur[w] = e
  /\ token[w] # NoToken
  /\ token[w] = outbox[e].token

\* Only the worker that holds the row's current lease token settles it: the
\* late update of a worker whose claim was taken over, or reset by an admin,
\* changes nothing (markProcessed, markFailed, markDeadLetter).
OnlyHolderSettles ==
  [][\A e \in Event :
       outbox'[e].status \in Outcome /\ outbox'[e].status # outbox[e].status
         => \E w \in Worker : HolderActs(w, e)]_vars

\* With no crash, lost statement, overrun lease or manual reset, and whatever
\* graceful shutdowns happen, a key whose events are all acknowledged had its
\* handler completed: nothing is dropped silently.
NotDroppedWithoutMishap ==
  (\A h \in Mishap \ {"stop"} : budget[h] = Budget[h])
    => \A e \in Event :
         outbox[e].status = "processed" =>
           \/ completions[KeyOf[e]] > 0
           \/ \E d \in Event : /\ KeyOf[d] = KeyOf[e]
                               /\ outbox[d].status \in
                                    {"processing", "failed", "dead_letter"}

-----------------------------------------------------------------------------
(* Liveness.                                                               *)

\* Once mishaps end, every event in the table is acknowledged or given up:
\* no crash, lost statement or abandoned batch leaves it in between.
EventuallySettled ==
  \A e \in Event :
    outbox[e].status = "pending"
      ~> outbox[e].status \in {"processed", "dead_letter"}

-----------------------------------------------------------------------------
(* What the documentation says and the code does not do.                   *)

\* "at least once": an acknowledged event had its handler completed for some
\* event of its key, or somebody still answers for the key.
AtLeastOnce ==
  \A e \in Event :
    outbox[e].status = "processed" =>
      \/ completions[KeyOf[e]] > 0
      \/ \E d \in Event : /\ KeyOf[d] = KeyOf[e]
                          /\ outbox[d].status # "processed"

-----------------------------------------------------------------------------
(* The contract this specification implements.                             *)

\* The variables of the contract as the rows and the workers give them.
StatusOf   == [e \in Event |-> outbox[e].status]
AttemptsOf == [e \in Event |-> outbox[e].attempts]
Running    == {CurKey(w) : w \in {v \in Worker : pc[v] = "dispatch"}}
Closed     == {k \in Key : ledger[k] = "processed"}

Contract == INSTANCE OutboxContract WITH
  status <- StatusOf, attempts <- AttemptsOf, running <- Running, closed <- Closed

\* The publishers implement the contract of OutboxContract.
ImplementsContract == Contract!Spec
=============================================================================
