----------------------------- MODULE OrderSaga ------------------------------
(***************************************************************************)
(* One order after its creation: the process manager that produces the     *)
(* avatar and the QR code of an order.created event and compensates when a *)
(* stage fails, beside API clients that change the status of the order.    *)
(*                                                                         *)
(* A transaction is two actions where it reads the order row: the SELECT   *)
(* ... FOR UPDATE that takes the row lock, and the COMMIT.  The handler is *)
(* one process: processed_events admits one at a time (HandlerExclusive of *)
(* Outbox).  Beside it are the row of the event in outbox_events, the      *)
(* workers that claimed it and come to the reservation, and the row of the *)
(* event's key in processed_events: a worker that finds the key there      *)
(* acknowledges the event, whatever became of the handler.                 *)
(***************************************************************************)
EXTENDS Integers, Sequences

CONSTANTS
  Client,       \* API requests that change the status of the order
  Saga,         \* the process manager, as an owner of the row lock
  NoOne,        \* no owner
  MaxAttempts,  \* OUTBOX_MAX_ATTEMPTS
  Faults,       \* bound: statements that throw, crashes, leases overrun
  Requeues      \* bound: manual resets of the event

ASSUME SagaAssumption ==
  /\ Saga \notin Client
  /\ NoOne \notin Client \cup {Saga}
  /\ MaxAttempts \in Nat \ {0}
  /\ Faults \in Nat
  /\ Requeues \in Nat

OrderStatus == {"pending", "paid", "completed", "cancelled", "failed"}
Stage       == {"avatar", "qr"}

\* order-state-machine: where a status may go.
Transitions ==
  [pending   |-> {"paid", "completed", "cancelled", "failed"},
   paid      |-> {"completed", "cancelled", "failed"},
   completed |-> {},
   cancelled |-> {},
   failed    |-> {"pending", "cancelled"}]

CanTransition(from, to) == to \in Transitions[from]

VARIABLES
  order,     \* the row of the order: status and version
  saga,      \* its row in order_sagas: status and completed_stages
  events,    \* the order.status_changed events appended, in commit order
  lock,      \* owner of the row lock of the order
  view,      \* view[a]: the order as transaction a read it under the lock
  pc,        \* where the handler and the worker that runs it are
  outbox,    \* the row of order.created in outbox_events
  visitors,  \* how many workers claimed the row and have not come to the key
  mine,      \* the lease token of the row is that of the handler's worker
  nack,      \* ... of a worker that has yet to count a failure
  key,       \* the row of the event's key in processed_events
  attempts,  \* failed deliveries of order.created
  requeued,  \* manual resets so far
  faults,    \* faults so far
  loose,     \* history: how a handler came apart from its key or its event
  request,   \* request[c]: the status change that client c asks for
  generated  \* history: how often each stage was generated

rows    == <<outbox, visitors, mine, nack, key, attempts, requeued, loose>>
handler == <<saga, pc, generated, faults, rows>>
clients == <<request>>
orders  == <<order, events, lock, view>>
vars    == <<order, saga, events, lock, view, pc, outbox, visitors, mine, nack,
             key, attempts, requeued, faults, loose, request, generated>>

Actor == Client \cup {Saga}
OrderRow == [status : OrderStatus, version : Nat]

\* A new order has version 0.
NewOrder == [status |-> "pending", version |-> 0]
NoSaga   == [status |-> "none", stages |-> {}]

\* Inside the try block of handle.
Body == {"avatar", "markAvatar", "refresh", "qr", "markQr", "complete"}

\* The handler executes; its worker has yet to close the key or to release it.
Inside == Body \cup {"start", "reopen", "compensate", "failing"}
Live   == Inside \cup {"returned", "threw"}

\* "closed": the key is, and the row of the event comes next.
HandlerPC == Live \cup {"idle", "closed"}

\* "current": the row has its token; "late": it was claimed or reset since.
Visitor == {"current", "late"}

Waiting(current, late) ==
  [w \in Visitor |-> IF w = "current" THEN current ELSE late]

\* "left": a reservation whose handler is gone; "overrun", "reset": the row was
\* claimed again or reset while the handler ran.
Mishap == {"left", "overrun", "reset"}

\* A request: how the client locks ("optimistic" carries the version it read,
\* with the status it saw then), and its progress.  Its target is any status, chosen
\* where it is first looked at.
Request == [mode : {"optimistic", "pessimistic"}, seen : OrderRow,
            state : {"new", "asked", "locked", "answered"}]

NoRequest == [mode |-> "optimistic", seen |-> NewOrder, state |-> "new"]

Answered == [NoRequest EXCEPT !.state = "answered"]

Event == [from : OrderStatus, to : OrderStatus, version : Nat, by : Actor]

TypeOK ==
  /\ order \in OrderRow
  /\ saga \in [status : {"none", "running", "failed", "completed"},
               stages : SUBSET Stage]
  /\ events \in Seq(Event)
  /\ lock \in Actor \cup {NoOne}
  /\ view \in [Actor -> OrderRow]
  /\ pc \in HandlerPC
  /\ outbox \in {"due", "leased", "processed", "dead"}
  /\ visitors \in [Visitor -> Nat]
  /\ mine \in BOOLEAN
  /\ nack \in BOOLEAN
  /\ key \in {"none", "processing", "processed", "deleted"}
  /\ attempts \in 0 .. MaxAttempts
  /\ requeued \in 0 .. Requeues
  /\ faults \in 0 .. Faults
  /\ loose \in SUBSET Mishap
  /\ request \in [Client -> Request]
  /\ generated \in [Stage -> Nat]

Init ==
  /\ order = NewOrder
  /\ saga = NoSaga
  /\ events = << >>
  /\ lock = NoOne
  /\ view = [a \in Actor |-> NewOrder]
  /\ pc = "idle"
  /\ outbox = "due"
  /\ visitors = Waiting(0, 0)
  /\ mine = FALSE
  /\ nack = FALSE
  /\ key = "none"
  /\ attempts = 0
  /\ requeued = 0
  /\ faults = 0
  /\ loose = {}
  /\ request = [c \in Client |-> NoRequest]
  /\ generated = [s \in Stage |-> 0]

-----------------------------------------------------------------------------
(* The order row.                                                          *)

\* Injected bug: the SELECT has no FOR UPDATE.
LockOrderShared(a) ==
  /\ view' = [view EXCEPT ![a] = order]
  /\ lock' = a
  /\ UNCHANGED <<order, events>>

\* SELECT ... FOR UPDATE: waits for the lock, then reads.
LockOrder(a) ==
  /\ lock = NoOne
  /\ view' = [view EXCEPT ![a] = order]
  /\ lock' = a
  /\ UNCHANGED <<order, events>>

\* UPDATE orders SET status, version = version + 1 and the INSERT of the
\* event OrderStatusChanged, in the transaction of a.
Change(a, to) ==
  /\ order' = [status |-> to, version |-> order.version + 1]
  /\ events' = Append(events, [from |-> view[a].status, to |-> to,
                               version |-> view[a].version + 1, by |-> a])

\* COMMIT or ROLLBACK of a.
Unlock(a) == lock' = NoOne /\ view' = [view EXCEPT ![a] = NewOrder]

-----------------------------------------------------------------------------
(* API clients.                                                            *)

\* GET /orders/:id, then PATCH /orders/:id/status or .../pessimistic.
Ask(c) ==
  /\ request[c].state = "new"
  /\ \E mode \in {"optimistic", "pessimistic"} :
       request' = [request EXCEPT ![c] =
         [mode |-> mode, state |-> "asked",
          seen |-> IF mode = "optimistic" THEN order ELSE NewOrder]]
  /\ UNCHANGED <<orders, handler>>

\* findByIdForUpdate.
Select(c) ==
  /\ request[c].state = "asked"
  /\ LockOrder(c)
  /\ request' = [request EXCEPT ![c].state = "locked"]
  /\ UNCHANGED handler

\* Injected bug: updateStatus compares the status, not the version.
AcceptableByStatus(c, to) ==
  /\ request[c].mode = "optimistic" => view[c].status = request[c].seen.status
  /\ CanTransition(view[c].status, to)

\* The checks of updateStatus and updateStatusPessimistic.
Acceptable(c, to) ==
  /\ request[c].mode = "optimistic" => view[c].version = request[c].seen.version
  /\ CanTransition(view[c].status, to)

UpdateStatus(c) ==
  /\ request[c].state = "locked"
  /\ \E to \in OrderStatus : Acceptable(c, to) /\ Change(c, to)
  /\ Unlock(c)
  /\ request' = [request EXCEPT ![c] = Answered]
  /\ UNCHANGED handler

\* 409, 400 or any failure: the transaction is rolled back.
Reject(c) ==
  /\ request[c].state = "locked"
  /\ Unlock(c)
  /\ request' = [request EXCEPT ![c] = Answered]
  /\ UNCHANGED <<order, events, handler>>

-----------------------------------------------------------------------------
(* The process manager.                                                    *)

\* Injected bug: completed stages are not looked at.
AfterStartAfresh(stages) == "avatar"

\* What handle does next with the stages it was told are completed.
AfterStart(stages)   == IF "avatar" \in stages THEN "refresh" ELSE "avatar"
AfterRefresh(stages) == IF "qr" \in stages THEN "complete" ELSE "qr"

\* startOrResume of an order without a saga, or with one that did not fail.
Start ==
  /\ pc = "start"
  /\ saga.status # "failed"
  /\ saga' = IF saga.status = "none" THEN [saga EXCEPT !.status = "running"]
                                     ELSE saga
  /\ pc' = AfterStart(saga.stages)
  /\ UNCHANGED <<orders, rows, faults, clients, generated>>

\* startOrResume of a failed saga: it locks the order ...
Resume ==
  /\ pc = "start"
  /\ saga.status = "failed"
  /\ LockOrder(Saga)
  /\ pc' = "reopen"
  /\ UNCHANGED <<saga, rows, faults, clients, generated>>

\* Injected bug: the order is left failed when the saga runs again.
ReopenSagaOnly ==
  /\ saga' = [saga EXCEPT !.status = "running"]
  /\ UNCHANGED <<order, events>>

\* ... reopens it, and runs again.
ReopenOrder ==
  /\ saga' = [saga EXCEPT !.status = "running"]
  /\ IF view[Saga].status = "failed" THEN Change(Saga, "pending")
                                     ELSE UNCHANGED <<order, events>>

Reopen ==
  /\ pc = "reopen"
  /\ ReopenOrder
  /\ Unlock(Saga)
  /\ pc' = AfterStart(saga.stages)
  /\ UNCHANGED <<rows, faults, clients, generated>>

\* The second startOrResume.  The saga cannot be failed here.
Refresh ==
  /\ pc = "refresh"
  /\ pc' = AfterRefresh(saga.stages)
  /\ UNCHANGED <<saga, orders, rows, faults, clients, generated>>

\* generateUserAvatar or generateMapQr returns.
Generate(s) ==
  /\ pc = s
  /\ generated' = [generated EXCEPT ![s] = @ + 1]
  /\ pc' = IF s = "avatar" THEN "markAvatar" ELSE "markQr"
  /\ UNCHANGED <<saga, orders, rows, faults, clients>>

\* It throws: the provider, the storage or the circuit breaker.
StageFails(s) ==
  /\ pc = s
  /\ pc' = "compensate"
  /\ UNCHANGED <<saga, orders, rows, faults, clients, generated>>

\* The UPDATE of markStageCompleted.
StoreStage(s) ==
  saga' = [saga EXCEPT !.stages = @ \cup {s}]

\* markStageCompleted: nobody writes the row between its SELECT and UPDATE.
MarkStage(s) ==
  /\ pc = IF s = "avatar" THEN "markAvatar" ELSE "markQr"
  /\ StoreStage(s)
  /\ pc' = IF s = "avatar" THEN "refresh" ELSE "complete"
  /\ UNCHANGED <<orders, rows, faults, clients, generated>>

CompleteSaga == saga' = [saga EXCEPT !.status = "completed"]

Complete ==
  /\ pc = "complete"
  /\ CompleteSaga
  /\ pc' = "returned"
  /\ UNCHANGED <<orders, rows, faults, clients, generated>>

\* compensate: the saga fails, the order is locked ...
Compensate ==
  /\ pc = "compensate"
  /\ LockOrder(Saga)
  /\ pc' = "failing"
  /\ UNCHANGED <<saga, rows, faults, clients, generated>>

\* ... and fails too, whatever it was, unless it is failed or cancelled.
FailOrder ==
  /\ saga' = [saga EXCEPT !.status = "failed"]
  /\ IF view[Saga].status \in {"failed", "cancelled"}
       THEN UNCHANGED <<order, events>>
       ELSE Change(Saga, "failed")

Fail ==
  /\ pc = "failing"
  /\ FailOrder
  /\ Unlock(Saga)
  /\ pc' = "threw"
  /\ UNCHANGED <<rows, faults, clients, generated>>

-----------------------------------------------------------------------------
(* Faults of the handler.                                                  *)

Fault == faults < Faults /\ faults' = faults + 1

\* A throw of startOrResume leaves handle; one inside the try block is
\* compensated.  The statement took effect or it did not.
Throws ==
  /\ Fault
  /\ \/ /\ pc = "start"
        /\ saga.status # "failed"
        /\ saga' \in {saga, IF saga.status = "none"
                              THEN [saga EXCEPT !.status = "running"] ELSE saga}
        /\ pc' = "threw"
        /\ UNCHANGED orders
     \/ /\ pc = "reopen"
        /\ ReopenOrder \/ UNCHANGED <<saga, order, events>>
        /\ Unlock(Saga)
        /\ pc' = "threw"
     \/ /\ pc = "failing"
        /\ FailOrder \/ UNCHANGED <<saga, order, events>>
        /\ Unlock(Saga)
        /\ pc' = "threw"
     \/ /\ pc \in {"markAvatar", "refresh", "markQr", "complete"}
        /\ \/ UNCHANGED saga
           \/ pc = "markAvatar" /\ StoreStage("avatar")
           \/ pc = "markQr" /\ StoreStage("qr")
           \/ pc = "complete" /\ CompleteSaga
        /\ pc' = "compensate"
        /\ UNCHANGED orders
  /\ UNCHANGED <<rows, clients, generated>>

\* What becomes of a reservation that nobody will close or release.
LeaveBehind ==
  loose' = IF key = "processing" THEN loose \cup {"left"} ELSE loose

\* The process of the handler dies: the transaction it is in is rolled back.
Abandon ==
  /\ pc # "idle"
  /\ Fault
  /\ pc' = "idle"
  /\ mine' = FALSE
  /\ LeaveBehind
  /\ IF lock = Saga THEN Unlock(Saga) ELSE UNCHANGED <<lock, view>>
  /\ UNCHANGED <<saga, order, events, outbox, visitors, nack, key, attempts,
                 requeued, clients, generated>>

-----------------------------------------------------------------------------
(* The delivery of the event.                                              *)

\* The row gets another token, or none; whoever has not come to the key is late.
TokenLost(how, claims) ==
  /\ mine' = FALSE
  /\ nack' = FALSE
  /\ visitors' = Waiting(claims, visitors["current"] + visitors["late"])
  /\ loose' = IF mine /\ key = "processing" /\ pc \in Live
                THEN loose \cup {how} ELSE loose

\* claimDueEvents.
TakeRow ==
  /\ outbox \in {"due", "leased"}
  /\ outbox' = "leased"
  /\ TokenLost("overrun", 1)
  /\ UNCHANGED <<saga, orders, pc, key, attempts, requeued, clients, generated>>

\* A worker that is alive has the token.
Held == mine \/ nack \/ visitors["current"] > 0

\* A due row, or one whose worker is gone: its lease runs out.
Claim == ~Held /\ TakeRow /\ UNCHANGED faults

\* The lease runs out under its worker.
Overrun == Held /\ TakeRow /\ Fault

\* reserveProcessedEvent inserts the key.
Free == key \in {"none", "deleted"}

Arrive(w) ==
  /\ visitors[w] > 0
  /\ visitors' = [visitors EXCEPT ![w] = @ - 1]

\* The worker runs the handler.
Reserve(w) ==
  /\ Arrive(w)
  /\ Free
  /\ key' = "processing"
  /\ mine' = (w = "current")
  /\ loose' = IF w = "late" THEN loose \cup {"overrun"} ELSE loose
  /\ pc' = "start"
  /\ UNCHANGED <<saga, orders, outbox, nack, attempts, requeued, faults, clients,
                 generated>>

\* The key is there: handleEvent returns, and the event is acknowledged.
AcknowledgeUnrun(w) ==
  /\ Arrive(w)
  /\ ~Free
  /\ outbox' = IF w = "current" THEN "processed" ELSE outbox
  /\ UNCHANGED <<saga, orders, pc, mine, nack, key, attempts, requeued, faults,
                 loose, clients, generated>>

Visit(w) == Reserve(w) \/ AcknowledgeUnrun(w)

\* The reservation throws, and is there or not; a later statement of a worker
\* without a reservation throws; or the worker dies.
VisitThrows(w) ==
  /\ Arrive(w)
  /\ Fault
  /\ nack' \in {nack, nack \/ w = "current"}
  /\ \/ UNCHANGED <<key, loose>>
     \/ Free /\ key' = "processing" /\ loose' = loose \cup {"left"}
  /\ UNCHANGED <<saga, orders, pc, mine, outbox, attempts, requeued, clients,
                 generated>>

\* markProcessedEvent.
Close ==
  /\ pc = "returned"
  /\ key' = "processed"
  /\ pc' = "closed"
  /\ UNCHANGED <<saga, orders, outbox, visitors, mine, nack, attempts, requeued,
                 faults, loose, clients, generated>>

\* markProcessed, under the lease token.
Settle ==
  /\ pc = "closed"
  /\ outbox' = IF mine THEN "processed" ELSE outbox
  /\ mine' = FALSE
  /\ pc' = "idle"
  /\ UNCHANGED <<saga, orders, visitors, nack, key, attempts, requeued, faults,
                 loose, clients, generated>>

\* handleEvent throws: its worker goes on to count the failure, which has no effect
\* without the token.
LeaveHandler ==
  /\ pc' = "idle"
  /\ mine' = FALSE
  /\ nack' = (nack \/ mine)

\* releaseProcessedEventReservation: a DELETE ... WHERE status = 'processing'.
Release ==
  /\ pc = "threw"
  /\ key' = IF key = "processing" THEN "deleted" ELSE key
  /\ LeaveHandler
  /\ UNCHANGED <<saga, orders, outbox, visitors, attempts, requeued, faults, loose,
                 clients, generated>>

\* Injected bug: the failure is not counted.
FailDeliveryUncounted ==
  /\ UNCHANGED attempts
  /\ outbox' = "due"

\* The failure is counted: retry or dead letter.
FailDelivery ==
  /\ attempts' = attempts + 1
  /\ outbox' = IF attempts' >= MaxAttempts THEN "dead" ELSE "due"

\* markFailed or markDeadLetter, under the lease token.
Nack ==
  /\ nack
  /\ FailDelivery
  /\ nack' = FALSE
  /\ UNCHANGED <<saga, orders, pc, visitors, mine, key, requeued, faults, loose,
                 clients, generated>>

\* One of these four throws, or the last one's worker dies.  What had taken effect
\* nevertheless shows only for the key: a row that was settled is not counted
\* against again.
DeliveryThrows ==
  /\ Fault
  /\ \/ /\ pc = "returned"
        /\ key' \in {key, "processed"}
        /\ pc' = "threw"
        /\ UNCHANGED <<mine, nack, loose>>
     \/ /\ pc = "threw"
        /\ LeaveBehind
        /\ LeaveHandler
        /\ UNCHANGED key
     \/ /\ pc = "closed"
        /\ LeaveHandler
        /\ UNCHANGED <<key, loose>>
     \/ /\ nack
        /\ nack' = FALSE
        /\ UNCHANGED <<pc, mine, key, loose>>
  /\ UNCHANGED <<saga, orders, outbox, visitors, attempts, requeued, clients,
                 generated>>

\* POST /outbox/:id/retry of any event, and .../requeue of a dead letter.
Reset ==
  /\ requeued < Requeues
  /\ requeued' = requeued + 1
  /\ outbox' = "due"
  /\ attempts' = 0
  /\ TokenLost("reset", 0)
  /\ UNCHANGED <<saga, orders, pc, key, faults, clients, generated>>

Handle ==
  \/ Start \/ Resume \/ Reopen \/ Refresh \/ Complete \/ Compensate \/ Fail
  \/ \E s \in Stage : Generate(s) \/ StageFails(s) \/ MarkStage(s)

Finish == Close \/ Settle \/ Release \/ Nack

Delivery ==
  \/ Claim \/ Overrun \/ Finish \/ DeliveryThrows \/ Reset
  \/ \E w \in Visitor : Visit(w) \/ VisitThrows(w)

Next ==
  \/ Handle \/ Throws \/ Abandon \/ Delivery
  \/ \E c \in Client : Ask(c) \/ Select(c) \/ UpdateStatus(c) \/ Reject(c)

Spec == Init /\ [][Next]_vars

\* Statements end, row locks are released, due events and abandoned leases are
\* claimed, and a worker whose lease lasts comes to the key.
Fairness ==
  /\ WF_vars(Handle)
  /\ WF_vars(Finish)
  /\ WF_vars(Claim)
  /\ WF_vars(Visit("current"))
  /\ \A c \in Client : WF_vars(UpdateStatus(c) \/ Reject(c))

FairSpec == Spec /\ Fairness

-----------------------------------------------------------------------------
(* Properties.                                                             *)

\* The status_changed events tell the history of the order without gap or
\* contradiction, whoever changed it: one event per version, each from where
\* the last one ended, the last one at the current status (updateStatus,
\* updateStatusPessimistic, startOrResume and compensate under one row lock).
EventChain ==
  /\ Len(events) = order.version
  /\ \A i \in 1 .. Len(events) :
       /\ events[i].version = i
       /\ events[i].from = IF i = 1 THEN "pending" ELSE events[i - 1].to
  /\ order.status = IF events = << >> THEN "pending"
                                      ELSE events[Len(events)].to

\* An accepted optimistic update acts on the very row its client read: no
\* change of another client or of the saga happened in between, not even one
\* that came back to the same status (updateStatus).
NoLostUpdate ==
  [][\A c \in Client :
       /\ request[c].state = "locked"
       /\ request[c].mode = "optimistic"
       /\ Len(events') > Len(events)
       /\ events'[Len(events')].by = c
       => order = request[c].seen]_vars

\* A stage that is recorded is never generated again, by no retry, requeue or
\* repeated delivery (markStageCompleted, startOrResume).
StageNotRepeated ==
  [][\A s \in Stage : s \in saga.stages => generated'[s] = generated[s]]_vars

\* A completed saga has recorded both stages, each of them generated.
CompletedMeansDone ==
  saga.status = "completed" =>
    saga.stages = Stage /\ \A s \in Stage : generated[s] > 0

\* Once the event is settled, the compensation of earlier attempts has been taken
\* back: an order that is failed was failed by a client.  The exception is an event
\* acknowledged at a key that no handler has completed (handleEvent): the
\* reservation was left behind, or the row was claimed again or reset under the
\* running handler, and the compensation stays in force or comes later.
CompensationUndone ==
  /\ outbox = "processed"
  /\ order.status = "failed"
  /\ events[Len(events)].by = Saga
  => key # "processed" /\ loose # {}

\* Inside the try block the saga never stands failed, although the handler
\* looks at its status only once, at the start (startOrResume); nor once the key
\* is processed.
NotFailedInside ==
  pc \in Body \cup {"returned"} \/ key = "processed" => saga.status # "failed"

\* The owner of the row lock knows the order as it is.
LockHeld ==
  /\ lock # NoOne => view[lock] = order
  /\ \A c \in Client : request[c].state = "locked" => lock = c
  /\ pc \in {"reopen", "failing"} => lock = Saga

\* The row a client saw is the current one or an older version.
SeenIsPast ==
  \A c \in Client :
    request[c].mode = "optimistic" /\ request[c].state \in {"asked", "locked"}
      => /\ request[c].seen.version <= order.version
         /\ request[c].seen.version = order.version => request[c].seen = order

\* What is recorded was generated, and the handler is where its snapshot of
\* the recorded stages brought it.
StagesFollow ==
  /\ \A s \in saga.stages : generated[s] > 0
  /\ pc = "avatar" => "avatar" \notin saga.stages
  /\ pc = "qr" => "qr" \notin saga.stages
  /\ pc = "markAvatar" => generated["avatar"] > 0
  /\ pc = "markQr" => generated["qr"] > 0
  /\ pc \in {"refresh", "qr", "markQr", "complete"} => "avatar" \in saga.stages
  /\ pc = "complete" => "qr" \in saga.stages

\* While the saga is not failed, a failed order was failed by a client.
SagaFailureMarked ==
  saga.status # "failed" /\ order.status = "failed"
    => events[Len(events)].by # Saga

AttemptsLeft == outbox # "dead" => attempts < MaxAttempts

\* The key is where the handler and its worker brought it.
KeyFollows ==
  /\ pc \in Inside \cup {"returned"} => key = "processing"
  /\ pc = "threw" => ~Free
  /\ pc = "closed" => key = "processed"

\* One worker has the token of a leased row: one that executes or one that comes.
TokenHeld ==
  /\ Held => outbox = "leased"
  /\ visitors["current"] <= 1
  /\ mine => pc # "idle" /\ ~nack /\ visitors["current"] = 0
  /\ nack => visitors["current"] = 0

\* While nothing came apart, a reservation has its handler, the handler its event,
\* and a processed event its processed key.
LooseExplains ==
  loose = {} => /\ key = "processing" => mine /\ pc \in Live
                /\ outbox = "processed" => key = "processed"

\* What every step keeps, whatever clients and handler do.
IInv ==
  /\ TypeOK
  /\ LockHeld
  /\ EventChain
  /\ SeenIsPast
  /\ StagesFollow
  /\ SagaFailureMarked
  /\ CompletedMeansDone
  /\ NotFailedInside
  /\ AttemptsLeft
  /\ KeyFollows
  /\ TokenHeld
  /\ LooseExplains

\* Every delivery comes to an end: the event is settled or given up, whatever
\* throws, dies or overruns its lease (claimDueEvents, handleEvent, markFailed); no
\* client keeps the order locked for ever.
EveryDeliveryEnds == outbox \in {"due", "leased"} ~> outbox \in {"processed", "dead"}

\* What the documentation says: an order changes its status only along the
\* transition table, and completed and cancelled orders never do.
OnlyLegalTransitions ==
  [][order'.status # order.status
       => CanTransition(order.status, order'.status)]_vars

-----------------------------------------------------------------------------
(* The delivery, as the contract of the outbox sees it: one event with a    *)
(* key of its own.                                                         *)

StatusOf == CASE outbox = "due"    -> IF attempts = 0 THEN "pending" ELSE "failed"
              [] outbox = "leased" -> "processing"
              [] outbox = "dead"   -> "dead_letter"
              [] OTHER             -> "processed"

Once(condition) == IF condition THEN {"key"} ELSE {}

Running  == Once(pc \in Inside)
Reserved == Once(key # "none")
Closed   == Once(key = "processed")

Contract == INSTANCE OutboxContract WITH
  Event <- {"order.created"}, Key <- {"key"},
  KeyOf <- [e \in {"order.created"} |-> "key"],
  status <- [e \in {"order.created"} |-> StatusOf],
  attempts <- [e \in {"order.created"} |-> attempts],
  running <- Running, reserved <- Reserved, closed <- Closed

\* The delivery that the saga relies on is one the contract of the outbox allows,
\* which Outbox implements (ImplementsContract): one handler at a time, none once the
\* key is closed, MaxAttempts failures until the dead letter, and again on a reset.
\* The order was created with its event: it starts where Publish leaves the contract.
DeliveredByContract ==
  /\ StatusOf = "pending" /\ Running = {} /\ Reserved = {} /\ Closed = {}
  /\ [][Contract!Next]_(Contract!contractVars)
=============================================================================
