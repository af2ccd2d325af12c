--------------------------- MODULE OrderSagaProofs --------------------------
(***************************************************************************)
(* Proofs about OrderSaga for every set of clients, attempt limit and      *)
(* number of faults and requeues.                                          *)
(***************************************************************************)
EXTENDS OrderSaga, TLAPS

\* The invariants of the order row and its history, of the handler, and of the
\* event and its key.
OrderPart ==
  /\ order \in OrderRow
  /\ events \in Seq(Event)
  /\ lock \in Actor \cup {NoOne}
  /\ view \in [Actor -> OrderRow]
  /\ request \in [Client -> Request]
  /\ LockHeld
  /\ EventChain
  /\ SeenIsPast

HandlerPart ==
  /\ saga \in [status : {"none", "running", "failed", "completed"},
               stages : SUBSET Stage]
  /\ pc \in HandlerPC
  /\ faults \in 0 .. Faults
  /\ generated \in [Stage -> Nat]
  /\ StagesFollow
  /\ CompletedMeansDone
  /\ NotFailedInside

DeliveryPart ==
  /\ outbox \in {"due", "leased", "processed", "dead"}
  /\ visitors \in [Visitor -> Nat]
  /\ mine \in BOOLEAN
  /\ nack \in BOOLEAN
  /\ key \in {"none", "processing", "processed", "deleted"}
  /\ attempts \in 0 .. MaxAttempts
  /\ requeued \in 0 .. Requeues
  /\ loose \in SUBSET Mishap
  /\ AttemptsLeft
  /\ KeyFollows
  /\ TokenHeld
  /\ LooseExplains

LEMMA Parts ==
  IInv <=> OrderPart /\ HandlerPart /\ DeliveryPart /\ SagaFailureMarked
BY DEF IInv, TypeOK, OrderPart, HandlerPart, DeliveryPart

\* A change of the order by the owner of its lock appends one event that
\* continues the history, and makes every version seen so far an old one.
LEMMA ChangeExtends ==
  ASSUME OrderPart, NEW a \in Actor, NEW to \in OrderStatus,
         lock = a, Change(a, to)
  PROVE  /\ order' \in OrderRow
         /\ order'.status = to
         /\ order'.version = order.version + 1
         /\ events' \in Seq(Event)
         /\ Len(events') = Len(events) + 1
         /\ events'[Len(events')].by = a
         /\ EventChain'
<1>1. view[a] = order /\ order \in OrderRow /\ events \in Seq(Event)
  BY SagaAssumption DEF OrderPart, LockHeld, Actor, SagaAssumption
<1> DEFINE e == [from |-> order.status, to |-> to,
                 version |-> order.version + 1, by |-> a]
<1>2. e \in Event
  BY <1>1 DEF Event, OrderRow
<1>3. events' = Append(events, e)
  BY <1>1 DEF Change
<1>4. order' = [status |-> to, version |-> order.version + 1]
  BY DEF Change
<1>5. order' \in OrderRow /\ order'.status = to
      /\ order'.version = order.version + 1
  BY <1>1, <1>4 DEF OrderRow
<1> HIDE DEF e
<1>6. /\ events' \in Seq(Event)
      /\ Len(events') = Len(events) + 1
      /\ events'[Len(events) + 1] = e
      /\ \A i \in 1 .. Len(events) : events'[i] = events[i]
  BY <1>1, <1>2, <1>3
<1>7. e.from = order.status /\ e.to = to /\ e.version = order.version + 1
      /\ e.by = a
  BY DEF e
<1>8. Len(events) = order.version /\ Len(events) \in Nat
  BY <1>1 DEF OrderPart, EventChain
<1>9. EventChain'
  <2>1. \A i \in 1 .. Len(events') :
          /\ events'[i].version = i
          /\ events'[i].from = IF i = 1 THEN "pending" ELSE events'[i - 1].to
    <3> SUFFICES ASSUME NEW i \in 1 .. Len(events')
                 PROVE  /\ events'[i].version = i
                        /\ events'[i].from =
                             IF i = 1 THEN "pending" ELSE events'[i - 1].to
      OBVIOUS
    <3>1. CASE i \in 1 .. Len(events)
      <4>1. events'[i] = events[i]
        BY <1>6, <3>1
      <4>2. /\ events[i].version = i
            /\ events[i].from = IF i = 1 THEN "pending" ELSE events[i - 1].to
        BY <3>1 DEF OrderPart, EventChain
      <4>3. i # 1 => events'[i - 1] = events[i - 1]
        BY <1>6, <1>8, <3>1
      <4> QED BY <4>1, <4>2, <4>3
    <3>2. CASE i = Len(events) + 1
      <4>1. events = << >> <=> Len(events) = 0
        BY <1>1
      <4>2. order.status = IF i = 1 THEN "pending" ELSE events[i - 1].to
        BY <1>8, <3>2, <4>1 DEF OrderPart, EventChain
      <4> QED BY <1>6, <1>7, <1>8, <3>2, <4>2
    <3> QED BY <1>6, <1>8, <3>1, <3>2
  <2>2. events' # << >>
    BY <1>6, <1>8
  <2> QED BY <1>5, <1>6, <1>7, <1>8, <2>1, <2>2 DEF EventChain
<1> QED BY <1>5, <1>6, <1>7, <1>9

\* The commit of a transaction that changed the order.
LEMMA CommitsChange ==
  ASSUME OrderPart, NEW a \in Actor, NEW to \in OrderStatus,
         lock = a, Change(a, to), Unlock(a),
         request' \in [Client -> Request],
         \A c \in Client : \/ request'[c] = request[c] /\ c # a
                           \/ request'[c] = Answered,
         pc' \notin {"reopen", "failing"}
  PROVE  OrderPart'
<1>1. /\ order' \in OrderRow /\ order'.version = order.version + 1
      /\ events' \in Seq(Event) /\ EventChain'
  BY ChangeExtends
<1>2. lock' = NoOne /\ view' \in [Actor -> OrderRow]
  BY DEF Unlock, OrderPart, OrderRow, NewOrder, OrderStatus
<1>3. Answered.state = "answered"
  BY DEF Answered, NoRequest
<1>4. LockHeld'
  <2>1. \A c \in Client : request'[c].state # "locked"
    BY <1>3 DEF OrderPart, LockHeld
  <2> QED BY <1>2, <2>1 DEF LockHeld
<1>5. SeenIsPast'
  <2> SUFFICES ASSUME NEW c \in Client, request'[c].mode = "optimistic",
                      request'[c].state \in {"asked", "locked"}
               PROVE  /\ request'[c].seen.version <= order'.version
                      /\ request'[c].seen.version # order'.version
    BY DEF SeenIsPast
  <2>1. request'[c] = request[c]
    BY <1>3
  <2>2. request[c].seen.version \in Nat /\ order.version \in Nat
    BY DEF OrderPart, Request, OrderRow
  <2>3. request[c].seen.version <= order.version
    BY <2>1 DEF OrderPart, SeenIsPast
  <2> QED BY <1>1, <2>1, <2>2, <2>3
<1> QED BY <1>1, <1>2, <1>4, <1>5 DEF OrderPart

\* A transaction that ends without a change.
LEMMA CommitsNothing ==
  ASSUME OrderPart, NEW a \in Actor, lock = a, Unlock(a),
         UNCHANGED <<order, events>>,
         request' \in [Client -> Request],
         \A c \in Client : \/ request'[c] = request[c] /\ c # a
                           \/ request'[c] = Answered,
         pc' \notin {"reopen", "failing"}
  PROVE  OrderPart'
<1>1. lock' = NoOne /\ view' \in [Actor -> OrderRow]
  BY DEF Unlock, OrderPart, OrderRow, NewOrder, OrderStatus
<1>2. Answered.state = "answered"
  BY DEF Answered, NoRequest
<1>3. LockHeld'
  <2>1. \A c \in Client : request'[c].state # "locked"
    BY <1>2 DEF OrderPart, LockHeld
  <2> QED BY <1>1, <2>1 DEF LockHeld
<1>4. SeenIsPast'
  <2> SUFFICES ASSUME NEW c \in Client, request'[c].mode = "optimistic",
                      request'[c].state \in {"asked", "locked"}
               PROVE  request'[c] = request[c]
    BY DEF OrderPart, SeenIsPast
  <2> QED BY <1>2
<1>5. EventChain'
  BY DEF OrderPart, EventChain
<1> QED BY <1>1, <1>3, <1>4, <1>5 DEF OrderPart

\* The SELECT ... FOR UPDATE of an actor.
LEMMA Locks ==
  ASSUME OrderPart, NEW a \in Actor, LockOrder(a),
         request' \in [Client -> Request],
         \A c \in Client :
           /\ request'[c].mode = request[c].mode
           /\ request'[c].seen = request[c].seen
           /\ \/ request'[c].state = request[c].state
              \/ /\ request[c].state = "asked"
                 /\ request'[c].state = "locked" /\ c = a,
         pc' \in {"reopen", "failing"} => a = Saga
           \/ pc \in {"reopen", "failing"}
  PROVE  OrderPart'
<1>1. /\ lock' = a /\ lock = NoOne /\ UNCHANGED <<order, events>>
      /\ view' \in [Actor -> OrderRow] /\ view'[a] = order
  BY DEF LockOrder, OrderPart
<1>2. NoOne \notin Client \cup {Saga}
  BY SagaAssumption DEF SagaAssumption
<1>3. LockHeld'
  <2>1. \A c \in Client : request[c].state # "locked"
    BY <1>1, <1>2 DEF OrderPart, LockHeld
  <2>2. pc \notin {"reopen", "failing"}
    BY <1>1, <1>2 DEF OrderPart, LockHeld
  <2> QED BY <1>1, <2>1, <2>2 DEF LockHeld
<1>4. SeenIsPast'
  BY <1>1 DEF OrderPart, SeenIsPast
<1>5. EventChain'
  BY <1>1 DEF OrderPart, EventChain
<1> QED BY <1>1, <1>3, <1>4, <1>5 DEF OrderPart

\* A step of the handler away from the order.
LEMMA OrderLeftAlone ==
  ASSUME OrderPart, UNCHANGED <<order, events, lock, view, request>>,
         pc' \in {"reopen", "failing"} => pc' = pc
  PROVE  OrderPart'
BY DEF OrderPart, LockHeld, SeenIsPast, EventChain

LEMMA InitIInv == Init => IInv
<1> SUFFICES ASSUME Init PROVE IInv
  OBVIOUS
<1>1. NewOrder \in OrderRow /\ NewOrder.version = 0 /\ NewOrder.status = "pending"
  BY DEF NewOrder, OrderRow, OrderStatus
<1>2. NoRequest \in Request /\ NoRequest.state = "new"
  BY <1>1 DEF NoRequest, Request, OrderStatus
<1>3. NoSaga.status = "none" /\ NoSaga.stages = {}
      /\ NoSaga \in [status : {"none", "running", "failed", "completed"},
                     stages : SUBSET Stage]
  BY DEF NoSaga
<1>4. OrderPart
  <2>1. events = << >> /\ Len(events) = 0 /\ events \in Seq(Event)
    BY DEF Init
  <2>2. EventChain
    BY <1>1, <2>1 DEF Init, EventChain
  <2>3. LockHeld /\ SeenIsPast
    BY <1>2 DEF Init, LockHeld, SeenIsPast
  <2> QED BY <1>1, <1>2, <2>1, <2>2, <2>3 DEF Init, OrderPart
<1>5. HandlerPart
  BY <1>3, SagaAssumption
     DEF Init, HandlerPart, HandlerPC, StagesFollow, CompletedMeansDone,
         NotFailedInside, Live, Inside, Body, SagaAssumption
<1>6. SagaFailureMarked
  BY <1>1 DEF Init, SagaFailureMarked
<1>7. DeliveryPart
  <2>1. /\ pc = "idle" /\ outbox = "due" /\ mine = FALSE /\ nack = FALSE
        /\ key = "none" /\ loose = {}
        /\ visitors \in [Visitor -> Nat] /\ visitors["current"] = 0
    BY DEF Init, Waiting, Visitor
  <2>2. KeyFollows /\ TokenHeld /\ LooseExplains
    BY <2>1 DEF KeyFollows, TokenHeld, Held, LooseExplains, Inside, Body
  <2>3. /\ attempts \in 0 .. MaxAttempts /\ requeued \in 0 .. Requeues
        /\ attempts < MaxAttempts
    BY SagaAssumption DEF Init, SagaAssumption
  <2> QED BY <2>1, <2>2, <2>3 DEF DeliveryPart, AttemptsLeft
<1> QED BY <1>4, <1>5, <1>6, <1>7, Parts

-----------------------------------------------------------------------------
(* The order row and its history are kept by every step.                   *)

\* The parts of a request that its checks read.
LEMMA OwnerKnows ==
  ASSUME OrderPart, NEW c \in Client, request[c].state = "locked"
  PROVE  /\ lock = c /\ c \in Actor /\ c # Saga
         /\ view[c] = order
<1>1. lock = c /\ c \in Actor /\ c # Saga /\ c # NoOne
  BY SagaAssumption DEF OrderPart, LockHeld, Actor, SagaAssumption
<1>2. view[c] = order
  BY <1>1 DEF OrderPart, LockHeld
<1> QED BY <1>1, <1>2

\* A client that answers its request.
LEMMA AnswersOne ==
  ASSUME OrderPart, NEW c \in Client, request' = [request EXCEPT ![c] = Answered]
  PROVE  /\ request' \in [Client -> Request]
         /\ \A d \in Client : \/ request'[d] = request[d] /\ d # c
                              \/ request'[d] = Answered
<1>1. Answered \in Request
  BY DEF Answered, NoRequest, Request, NewOrder, OrderRow, OrderStatus
<1> QED BY <1>1 DEF OrderPart

LEMMA ClientKeepsOrder ==
  ASSUME IInv, NEW c \in Client,
         Ask(c) \/ Select(c) \/ UpdateStatus(c) \/ Reject(c)
  PROVE  OrderPart'
<1>0. OrderPart
  BY Parts
<1>1. c \in Actor /\ c # Saga
  BY SagaAssumption DEF Actor, SagaAssumption
<1>2. CASE Ask(c)
  <2>1. PICK mode \in {"optimistic", "pessimistic"} :
          request' = [request EXCEPT ![c] =
            [mode |-> mode, state |-> "asked",
             seen |-> IF mode = "optimistic" THEN order ELSE NewOrder]]
    BY <1>2 DEF Ask
  <2>2. UNCHANGED <<order, events, lock, view, pc>>
    BY <1>2 DEF Ask, orders, handler
  <2>3. NewOrder \in OrderRow
    BY DEF NewOrder, OrderRow, OrderStatus
  <2>4. request' \in [Client -> Request]
    BY <1>0, <2>1, <2>3 DEF OrderPart, Request
  <2>5. /\ request'[c].state = "asked"
        /\ request'[c].mode = "optimistic" => request'[c].seen = order
        /\ \A d \in Client : d # c => request'[d] = request[d]
    BY <1>0, <2>1 DEF OrderPart
  <2>6. LockHeld'
    BY <1>0, <2>2, <2>5 DEF OrderPart, LockHeld
  <2>7. SeenIsPast'
    <3> SUFFICES ASSUME NEW d \in Client, request'[d].mode = "optimistic",
                        request'[d].state \in {"asked", "locked"}
                 PROVE  /\ request'[d].seen.version <= order.version
                        /\ request'[d].seen.version = order.version
                             => request'[d].seen = order
      BY <2>2 DEF SeenIsPast
    <3>1. CASE d = c
      BY <1>0, <2>5, <3>1 DEF OrderPart, OrderRow
    <3>2. CASE d # c
      BY <1>0, <2>5, <3>2 DEF OrderPart, SeenIsPast
    <3> QED BY <3>1, <3>2
  <2>8. EventChain'
    BY <1>0, <2>2 DEF OrderPart, EventChain
  <2> QED BY <1>0, <2>2, <2>4, <2>6, <2>7, <2>8 DEF OrderPart
<1>3. CASE Select(c)
  <2>1. /\ request[c].state = "asked" /\ LockOrder(c) /\ pc' = pc
        /\ request' = [request EXCEPT ![c].state = "locked"]
    BY <1>3 DEF Select, handler
  <2>2. request' \in [Client -> Request]
    BY <1>0, <2>1 DEF OrderPart, Request
  <2>3. \A d \in Client :
          /\ request'[d].mode = request[d].mode
          /\ request'[d].seen = request[d].seen
          /\ \/ request'[d].state = request[d].state
             \/ /\ request[d].state = "asked"
                /\ request'[d].state = "locked" /\ d = c
    <3> SUFFICES ASSUME NEW d \in Client
                 PROVE  /\ request'[d].mode = request[d].mode
                        /\ request'[d].seen = request[d].seen
                        /\ \/ request'[d].state = request[d].state
                           \/ /\ request[d].state = "asked"
                              /\ request'[d].state = "locked" /\ d = c
      OBVIOUS
    <3>1. request[d] \in Request /\ request \in [Client -> Request]
      BY <1>0 DEF OrderPart
    <3>2. CASE d = c
      BY <2>1, <3>1, <3>2 DEF Request
    <3>3. CASE d # c
      BY <2>1, <3>1, <3>3
    <3> QED BY <3>2, <3>3
  <2> QED BY <1>0, <1>1, <2>1, <2>2, <2>3, Locks
<1>4. CASE UpdateStatus(c)
  <2>0. PICK to \in OrderStatus : Change(c, to)
    BY <1>4 DEF UpdateStatus
  <2>1. /\ Unlock(c) /\ pc' = pc
        /\ request[c].state = "locked"
        /\ request' = [request EXCEPT ![c] = Answered]
    BY <1>4 DEF UpdateStatus, handler
  <2>2. lock = c
    BY <1>0, <2>1, OwnerKnows
  <2>3. pc' \notin {"reopen", "failing"}
    BY <1>0, <1>1, <2>1, <2>2 DEF OrderPart, LockHeld
  <2> QED BY <1>0, <1>1, <2>0, <2>1, <2>2, <2>3, AnswersOne, CommitsChange
<1>5. CASE Reject(c)
  <2>1. /\ Unlock(c) /\ pc' = pc /\ UNCHANGED <<order, events>>
        /\ request[c].state = "locked"
        /\ request' = [request EXCEPT ![c] = Answered]
    BY <1>5 DEF Reject, handler
  <2>2. lock = c
    BY <1>0, <2>1, OwnerKnows
  <2>3. pc' \notin {"reopen", "failing"}
    BY <1>0, <1>1, <2>1, <2>2 DEF OrderPart, LockHeld
  <2> QED BY <1>0, <1>1, <2>1, <2>2, <2>3, AnswersOne, CommitsNothing
<1> QED BY <1>2, <1>3, <1>4, <1>5

\* The end of a transaction of the saga, with its change or without.
LEMMA SagaCommits ==
  ASSUME OrderPart, lock = Saga, Unlock(Saga), request' = request,
         pc' \notin {"reopen", "failing"},
         \/ UNCHANGED <<order, events>>
         \/ \E to \in OrderStatus : Change(Saga, to)
  PROVE  OrderPart'
<1>1. /\ Saga \in Actor /\ request' \in [Client -> Request]
      /\ \A c \in Client : request'[c] = request[c] /\ c # Saga
  BY SagaAssumption DEF Actor, SagaAssumption, OrderPart
<1>2. CASE UNCHANGED <<order, events>>
  BY <1>1, <1>2, CommitsNothing
<1>3. ASSUME NEW to \in OrderStatus, Change(Saga, to) PROVE OrderPart'
  BY <1>1, <1>3, CommitsChange
<1> QED BY <1>2, <1>3

\* What the two transactions of the saga do to the order.
LEMMA SagaChanges ==
  /\ ReopenOrder \/ FailOrder =>
       \/ UNCHANGED <<order, events>>
       \/ \E to \in OrderStatus : Change(Saga, to)
  /\ ReopenOrder => saga' = [saga EXCEPT !.status = "running"]
  /\ FailOrder => saga' = [saga EXCEPT !.status = "failed"]
BY DEF ReopenOrder, FailOrder, OrderStatus

\* The delivery leaves the order and the saga alone, and moves the handler only to
\* its start or past its end.
LEMMA DeliveryLeaves ==
  ASSUME Delivery
  PROVE  /\ UNCHANGED <<saga, order, events, lock, view, request, generated>>
         /\ \/ pc' = pc
            \/ pc' \in {"start", "threw", "closed", "idle"}
<1>1. ASSUME Claim \/ Overrun \/ Reset
      PROVE  UNCHANGED <<saga, orders, clients, generated>> /\ pc' = pc
  BY <1>1 DEF Claim, Overrun, TakeRow, Reset
<1>2. ASSUME Finish \/ DeliveryThrows
      PROVE  /\ UNCHANGED <<saga, orders, clients, generated>>
             /\ pc' = pc \/ pc' \in {"threw", "closed", "idle"}
  BY <1>2 DEF Finish, Close, Settle, Release, LeaveHandler, Nack, DeliveryThrows
<1>3. ASSUME NEW w \in Visitor, Visit(w) \/ VisitThrows(w)
      PROVE  /\ UNCHANGED <<saga, orders, clients, generated>>
             /\ pc' = pc \/ pc' = "start"
  BY <1>3 DEF Visit, Reserve, AcknowledgeUnrun, VisitThrows
<1> QED BY <1>1, <1>2, <1>3 DEF Delivery, orders, clients

LEMMA HandlerKeepsOrder ==
  ASSUME IInv, Handle \/ Throws \/ Abandon \/ Delivery
  PROVE  OrderPart'
<1>0. OrderPart
  BY Parts
<1>1. Saga \in Actor /\ (pc \in {"reopen", "failing"} => lock = Saga)
  BY <1>0 DEF Actor, OrderPart, LockHeld
<1>2. ASSUME Resume \/ Compensate PROVE OrderPart'
  <2>1. LockOrder(Saga) /\ request' = request
    BY <1>2 DEF Resume, Compensate, clients
  <2>2. /\ request' \in [Client -> Request]
        /\ \A c \in Client : /\ request'[c].mode = request[c].mode
                            /\ request'[c].seen = request[c].seen
                            /\ request'[c].state = request[c].state
    BY <1>0, <2>1 DEF OrderPart
  <2> QED BY <1>0, <1>1, <2>1, <2>2, Locks
<1>3. ASSUME Reopen \/ Fail PROVE OrderPart'
  <2>1. /\ pc \in {"reopen", "failing"}
        /\ ReopenOrder \/ FailOrder
        /\ Unlock(Saga) /\ request' = request
        /\ pc' \notin {"reopen", "failing"}
    BY <1>3 DEF Reopen, Fail, clients, AfterStart
  <2> QED BY <1>0, <1>1, <2>1, SagaChanges, SagaCommits
<1>4. CASE Throws
  <2>1. CASE UNCHANGED orders /\ pc' \in {"threw", "compensate"}
    BY <1>0, <1>4, <2>1, OrderLeftAlone DEF Throws, orders, clients
  <2>2. CASE /\ pc \in {"reopen", "failing"} /\ Unlock(Saga) /\ pc' = "threw"
             /\ ReopenOrder \/ FailOrder \/ UNCHANGED <<saga, order, events>>
    <3>1. request' = request
      BY <1>4 DEF Throws, clients
    <3> QED BY <1>0, <1>1, <2>2, <3>1, SagaChanges, SagaCommits
  <2> QED BY <1>4, <2>1, <2>2 DEF Throws
<1>5. CASE Abandon
  <2>1. pc' = "idle" /\ request' = request /\ UNCHANGED <<order, events>>
    BY <1>5 DEF Abandon, clients
  <2>2. CASE lock = Saga
    <3>1. Unlock(Saga)
      BY <1>5, <2>2 DEF Abandon
    <3> QED BY <1>0, <2>1, <2>2, <3>1, SagaCommits
  <2>3. CASE lock # Saga
    <3>1. UNCHANGED <<lock, view>>
      BY <1>5, <2>3 DEF Abandon
    <3> QED BY <1>0, <2>1, <3>1, OrderLeftAlone
  <2> QED BY <2>2, <2>3
<1>6. ASSUME \/ Start \/ Refresh \/ Complete
             \/ \E s \in Stage : Generate(s) \/ StageFails(s) \/ MarkStage(s)
      PROVE  OrderPart'
  <2>1. UNCHANGED <<order, events, lock, view, request>>
    BY <1>6 DEF Start, Refresh, Complete, Generate, StageFails, MarkStage, orders,
                clients
  <2>2. pc' \notin {"reopen", "failing"}
    BY <1>6 DEF Start, Refresh, Complete, Generate, StageFails, MarkStage,
                AfterStart, AfterRefresh, Stage
  <2> QED BY <1>0, <2>1, <2>2, OrderLeftAlone
<1>7. CASE Delivery
  BY <1>0, <1>7, DeliveryLeaves, OrderLeftAlone
<1> QED BY <1>2, <1>3, <1>4, <1>5, <1>6, <1>7 DEF Handle

-----------------------------------------------------------------------------
(* The saga and its handler.                                               *)

\* Who fails an order that is not failed: every step keeps it that a failed
\* order beside a saga that did not fail was failed by a client.
LEMMA FailureStaysMarked ==
  ASSUME IInv, Next
  PROVE  SagaFailureMarked'
<1>0. OrderPart /\ HandlerPart /\ SagaFailureMarked
  BY Parts
<1>1. ASSUME UNCHANGED <<order, events>>,
             saga'.status # "failed" => saga.status # "failed"
      PROVE  SagaFailureMarked'
  BY <1>0, <1>1 DEF SagaFailureMarked
<1>2. ASSUME saga'.status = "failed" PROVE SagaFailureMarked'
  BY <1>2 DEF SagaFailureMarked
<1>3. ASSUME UNCHANGED <<order, events, saga>> PROVE SagaFailureMarked'
  BY <1>1, <1>3
<1>4. saga.stages \in SUBSET Stage
      /\ saga.status \in {"none", "running", "failed", "completed"}
      /\ \A st \in {"none", "running", "failed", "completed"} :
           [saga EXCEPT !.status = st].status = st
  BY <1>0 DEF HandlerPart
<1>5. Saga \in Actor /\ (pc \in {"reopen", "failing"} => lock = Saga)
  BY <1>0 DEF Actor, OrderPart, LockHeld
<1>6. ASSUME pc = "reopen", ReopenOrder PROVE SagaFailureMarked'
  <2>1. view[Saga] = order
    BY <1>0, <1>5, <1>6, SagaAssumption DEF OrderPart, LockHeld, SagaAssumption
  <2>2. CASE order.status = "failed"
    <3>1. order'.status = "pending"
      BY <1>6, <2>1, <2>2 DEF ReopenOrder, Change
    <3> QED BY <3>1 DEF SagaFailureMarked
  <2>3. CASE order.status # "failed"
    <3>1. order' = order
      BY <1>6, <2>1, <2>3 DEF ReopenOrder
    <3> QED BY <2>3, <3>1 DEF SagaFailureMarked
  <2> QED BY <2>2, <2>3
<1>7. ASSUME FailOrder PROVE SagaFailureMarked'
  BY <1>2, <1>4, <1>7, SagaChanges
<1>8. CASE Handle
  <2>1. CASE Start
    BY <1>1, <1>4, <2>1 DEF Start, orders
  <2>2. CASE Reopen
    BY <1>6, <2>2 DEF Reopen
  <2>3. CASE Fail
    BY <1>7, <2>3 DEF Fail
  <2>4. CASE Resume \/ Compensate
    BY <1>3, <2>4 DEF Resume, Compensate, LockOrder
  <2>5. CASE Refresh \/ \E s \in Stage : Generate(s) \/ StageFails(s)
    BY <1>3, <2>5 DEF Refresh, Generate, StageFails, orders
  <2>6. CASE Complete
    <3>1. saga.status # "failed"
      BY <1>0, <2>6 DEF HandlerPart, NotFailedInside, Body, Complete
    <3> QED BY <1>1, <2>6, <3>1 DEF Complete, orders
  <2>7. ASSUME NEW s \in Stage, MarkStage(s) PROVE SagaFailureMarked'
    <3>1. saga'.status = saga.status
      BY <1>0, <2>7 DEF MarkStage, StoreStage, HandlerPart
    <3> QED BY <1>1, <2>7, <3>1 DEF MarkStage, orders
  <2> QED BY <1>8, <2>1, <2>2, <2>3, <2>4, <2>5, <2>6, <2>7 DEF Handle
<1>9. CASE Throws
  <2>1. CASE /\ UNCHANGED orders
             /\ pc = "start" /\ saga.status # "failed"
    BY <1>1, <2>1 DEF orders
  <2>2. CASE pc = "reopen" /\ (ReopenOrder \/ UNCHANGED <<saga, order, events>>)
    BY <1>3, <1>6, <2>2
  <2>3. CASE FailOrder \/ UNCHANGED <<saga, order, events>>
    BY <1>3, <1>7, <2>3
  <2>4. CASE pc \in {"markAvatar", "refresh", "markQr", "complete"}
             /\ UNCHANGED orders
    <3>1. saga.status # "failed"
      BY <1>0, <2>4 DEF HandlerPart, NotFailedInside, Body
    <3> QED BY <1>1, <2>4, <3>1 DEF orders
  <2> QED BY <1>9, <2>1, <2>2, <2>3, <2>4 DEF Throws
<1>10. CASE Delivery \/ Abandon
  BY <1>3, <1>10, DeliveryLeaves DEF Abandon
<1>11. ASSUME NEW c \in Client,
              Ask(c) \/ Select(c) \/ UpdateStatus(c) \/ Reject(c)
       PROVE  SagaFailureMarked'
  <2>1. CASE Ask(c) \/ Select(c) \/ Reject(c)
    BY <1>3, <2>1 DEF Ask, Select, Reject, LockOrder, orders, handler
  <2>2. CASE UpdateStatus(c)
    <3>1. PICK to \in OrderStatus : Change(c, to)
      BY <2>2 DEF UpdateStatus
    <3>2. c \in Actor /\ c # Saga /\ lock = c
      BY <1>0, <2>2, OwnerKnows DEF UpdateStatus
    <3>3. events'[Len(events')].by = c
      BY <1>0, <3>1, <3>2, ChangeExtends
    <3> QED BY <3>2, <3>3 DEF SagaFailureMarked
  <2> QED BY <1>11, <2>1, <2>2
<1> QED BY <1>8, <1>9, <1>10, <1>11 DEF Next

\* A statement or an outage that the handler survives or not: the counters
\* stay in their bounds.
LEMMA FaultCounts ==
  ASSUME HandlerPart, Fault
  PROVE  faults' \in 0 .. Faults
BY SagaAssumption DEF HandlerPart, Fault, SagaAssumption

\* The stage list grows, the counters of the stages grow, and the handler
\* stands where its list brought it.
LEMMA HandlerStep ==
  ASSUME IInv, Handle
  PROVE  HandlerPart'
<1>0. /\ HandlerPart
      /\ Inside = Body \cup {"start", "reopen", "compensate", "failing"}
      /\ pc \in Inside => key # "processed"
      /\ UNCHANGED key
  BY Parts DEF DeliveryPart, KeyFollows, Inside, Handle, Start, Resume, Reopen,
               Refresh, Complete, Compensate, Fail, Generate, StageFails,
               MarkStage, rows
<1>1. /\ saga \in [status : {"none", "running", "failed", "completed"},
                   stages : SUBSET Stage]
      /\ Stage = {"avatar", "qr"}
      /\ pc \in HandlerPC
      /\ generated \in [Stage -> Nat]
  BY <1>0 DEF HandlerPart, Stage
<1>2. ASSUME UNCHANGED <<saga, faults, generated>>,
             pc' \in {"reopen", "failing", "compensate", "threw"},
             pc \in Inside
      PROVE  HandlerPart'
  BY <1>0, <1>2 DEF HandlerPart, HandlerPC, StagesFollow, CompletedMeansDone,
                    NotFailedInside, Live, Inside, Body
<1>3. ASSUME UNCHANGED <<faults, generated>>,
             pc \in {"start", "reopen"},
             saga'.status \in {"none", "running", "completed"},
             saga'.stages = saga.stages,
             saga'.status = "completed" => saga.status = "completed",
             saga' \in [status : {"none", "running", "failed", "completed"},
                        stages : SUBSET Stage],
             pc' = AfterStart(saga.stages)
      PROVE  HandlerPart'
  BY <1>0, <1>3 DEF HandlerPart, HandlerPC, StagesFollow, CompletedMeansDone,
                    NotFailedInside, Live, Inside, Body, AfterStart
<1>4. CASE Start
  <2>1. /\ saga'.status \in {"none", "running", "completed"}
        /\ saga'.stages = saga.stages
        /\ saga'.status = "completed" => saga.status = "completed"
        /\ saga' \in [status : {"none", "running", "failed", "completed"},
                      stages : SUBSET Stage]
    BY <1>1, <1>4 DEF Start
  <2> QED BY <1>3, <1>4, <2>1 DEF Start
<1>5. CASE Reopen
  <2>1. /\ saga'.status = "running" /\ saga'.stages = saga.stages
        /\ saga' \in [status : {"none", "running", "failed", "completed"},
                      stages : SUBSET Stage]
    BY <1>1, <1>5, SagaChanges DEF Reopen
  <2> QED BY <1>3, <1>5, <2>1 DEF Reopen
<1>6. CASE Resume \/ Compensate \/ \E s \in Stage : StageFails(s)
  BY <1>1, <1>2, <1>6 DEF Resume, Compensate, StageFails, clients, orders, Inside, Body,
                              Stage
<1>7. CASE Fail
  <2>1. /\ saga'.status = "failed" /\ saga'.stages = saga.stages
        /\ saga' \in [status : {"none", "running", "failed", "completed"},
                      stages : SUBSET Stage]
    BY <1>1, <1>7, SagaChanges DEF Fail
  <2> QED BY <1>0, <1>7, <2>1
          DEF Fail, HandlerPart, HandlerPC, StagesFollow, CompletedMeansDone,
              NotFailedInside, Live, Inside, Body
<1>8. CASE Refresh
  BY <1>0, <1>8
     DEF Refresh, HandlerPart, HandlerPC, StagesFollow, CompletedMeansDone,
         NotFailedInside, Live, Inside, Body, AfterRefresh, orders
<1>9. CASE Complete
  <2>1. /\ saga'.status = "completed" /\ saga'.stages = saga.stages
        /\ saga' \in [status : {"none", "running", "failed", "completed"},
                      stages : SUBSET Stage]
    BY <1>1, <1>9 DEF Complete, CompleteSaga
  <2>2. saga.stages = Stage
    BY <1>0, <1>1, <1>9 DEF HandlerPart, StagesFollow, Complete
  <2> QED BY <1>0, <1>9, <2>1, <2>2
          DEF Complete, HandlerPart, HandlerPC, StagesFollow,
              CompletedMeansDone, NotFailedInside, Live, Inside, Body
<1>10. ASSUME NEW s \in Stage, Generate(s) PROVE HandlerPart'
  <2>1. /\ generated' \in [Stage -> Nat] /\ generated'[s] > 0
        /\ \A r \in Stage : generated[r] > 0 => generated'[r] > 0
    <3>1. generated' = [r \in Stage |-> IF r = s THEN generated[s] + 1
                                                ELSE generated[r]]
      BY <1>1, <1>10, Zenon DEF Generate
    <3>2. \A r \in Stage : generated[r] \in Nat /\ generated[r] + 1 \in Nat
      BY <1>1
    <3>3. generated' \in [Stage -> Nat]
      BY <3>1, <3>2
    <3> QED BY <3>1, <3>2, <3>3
  <2> QED BY <1>0, <1>10, <2>1
          DEF Generate, HandlerPart, HandlerPC, StagesFollow, Stage,
              CompletedMeansDone, NotFailedInside, Live, Inside, Body
<1>11. ASSUME NEW s \in Stage, MarkStage(s) PROVE HandlerPart'
  <2>1. /\ saga'.status = saga.status /\ saga'.stages = saga.stages \cup {s}
        /\ saga' \in [status : {"none", "running", "failed", "completed"},
                      stages : SUBSET Stage]
    BY <1>1, <1>11 DEF MarkStage, StoreStage
  <2>2. generated[s] > 0
    BY <1>0, <1>1, <1>11 DEF MarkStage, HandlerPart, StagesFollow
  <2> QED BY <1>0, <1>1, <1>11, <2>1, <2>2
          DEF MarkStage, HandlerPart, HandlerPC, StagesFollow, 
              CompletedMeansDone, NotFailedInside, Live, Inside, Body
<1> QED BY <1>4, <1>5, <1>6, <1>7, <1>8, <1>9, <1>10, <1>11 DEF Handle

\* The faults of the handler.
LEMMA ThrowsStep ==
  ASSUME IInv, Throws
  PROVE  HandlerPart'
<1>0. HandlerPart
  BY Parts
<1>1. faults' \in 0 .. Faults
      /\ UNCHANGED <<key, generated>>
      /\ pc' \in {"threw", "compensate"}
      /\ pc \in Inside
  BY <1>0, FaultCounts DEF Throws, rows, Inside, Body
<1>key. key' # "processed"
  BY <1>1, Parts DEF DeliveryPart, KeyFollows, Inside, Body
<1>2. /\ saga \in [status : {"none", "running", "failed", "completed"},
                   stages : SUBSET Stage]
      /\ Stage = {"avatar", "qr"}
  BY <1>0 DEF HandlerPart, Stage
<1>3. ASSUME saga' \in [status : {"none", "running", "failed", "completed"},
                        stages : SUBSET Stage],
             \A s \in saga'.stages : generated[s] > 0,
             saga'.status = "completed" => saga'.stages = Stage
      PROVE  HandlerPart'
  BY <1>0, <1>key, <1>1, <1>3
     DEF HandlerPart, HandlerPC, StagesFollow, CompletedMeansDone,
         NotFailedInside, Live, Inside, Body
<1>4. /\ \A s \in saga.stages : generated[s] > 0
      /\ saga.status = "completed" => saga.stages = Stage
      /\ pc = "markAvatar" => generated["avatar"] > 0
      /\ pc = "markQr" => generated["qr"] > 0
      /\ pc = "complete" => saga.stages = Stage
  BY <1>0, <1>2 DEF HandlerPart, StagesFollow, CompletedMeansDone
<1>5. CASE saga' = saga
  BY <1>2, <1>3, <1>4, <1>5
<1>6. CASE \E st \in {"running", "failed"} : saga' = [saga EXCEPT !.status = st]
  <2>1. /\ saga'.stages = saga.stages /\ saga'.status # "completed"
        /\ saga' \in [status : {"none", "running", "failed", "completed"},
                      stages : SUBSET Stage]
    BY <1>2, <1>6
  <2> QED BY <1>3, <1>4, <2>1
<1>7. CASE pc = "complete" /\ CompleteSaga
  <2>1. /\ saga'.stages = saga.stages
        /\ saga' \in [status : {"none", "running", "failed", "completed"},
                      stages : SUBSET Stage]
    BY <1>2, <1>7 DEF CompleteSaga
  <2> QED BY <1>3, <1>4, <1>7, <2>1
<1>8. ASSUME NEW s \in Stage, StoreStage(s), generated[s] > 0
      PROVE  HandlerPart'
  <2>1. /\ saga'.stages = saga.stages \cup {s} /\ saga'.status = saga.status
        /\ saga' \in [status : {"none", "running", "failed", "completed"},
                      stages : SUBSET Stage]
    BY <1>2, <1>8 DEF StoreStage
  <2> QED BY <1>3, <1>4, <1>8, <2>1
<1>9. \/ saga' = saga
      \/ \E st \in {"running", "failed"} : saga' = [saga EXCEPT !.status = st]
      \/ pc = "complete" /\ CompleteSaga
      \/ pc = "markAvatar" /\ StoreStage("avatar")
      \/ pc = "markQr" /\ StoreStage("qr")
  BY SagaChanges DEF Throws
<1>10. "avatar" \in Stage /\ "qr" \in Stage
  BY <1>2
<1> QED BY <1>4, <1>5, <1>6, <1>7, <1>8, <1>9, <1>10

\* The crash and the delivery, as far as saga and handler go.
LEMMA DeliveryStep ==
  ASSUME IInv, Abandon \/ Delivery
  PROVE  HandlerPart'
<1>0. HandlerPart /\ DeliveryPart
  BY Parts
<1>1. UNCHANGED <<saga, generated>>
  BY DeliveryLeaves DEF Abandon
<1>2. pc' = pc \/ pc' \in {"start", "threw", "closed", "idle"}
  BY DeliveryLeaves DEF Abandon
<1>3. faults' = faults \/ Fault
  BY DEF Abandon, Delivery, Claim, Overrun, Finish, Close, Settle, Release, Nack,
         DeliveryThrows, Reset, Visit, Reserve, AcknowledgeUnrun, VisitThrows
<1>4. faults' \in 0 .. Faults
  BY <1>0, <1>3, FaultCounts DEF HandlerPart
<1>5. key' = "processed" => key = "processed" \/ pc = "returned"
  BY DEF Abandon, Delivery, Claim, Overrun, TakeRow, Finish, Close, Settle,
         Release, LeaveHandler, Nack, DeliveryThrows, Reset, Visit, Reserve,
         AcknowledgeUnrun, VisitThrows
<1>6. NotFailedInside'
  BY <1>0, <1>1, <1>2, <1>5 DEF HandlerPart, NotFailedInside, Body
<1>7. StagesFollow' /\ CompletedMeansDone'
  BY <1>0, <1>1, <1>2 DEF HandlerPart, StagesFollow, CompletedMeansDone
<1> QED BY <1>0, <1>1, <1>2, <1>4, <1>6, <1>7 DEF HandlerPart, HandlerPC, Live, Inside

-----------------------------------------------------------------------------
(* The event and its key.                                                  *)

\* The handler executes under its reservation and touches neither.
LEMMA HandlerKeepsDelivery ==
  ASSUME IInv, Handle \/ Throws
  PROVE  DeliveryPart'
<1>0. DeliveryPart
  BY Parts
<1>1. UNCHANGED rows /\ pc \in Inside /\ pc' \in Live
  <2>1. CASE Handle
    BY <2>1 DEF Handle, Start, Resume, Reopen, Refresh, Complete, Compensate, Fail,
                Generate, StageFails, MarkStage, AfterStart, AfterRefresh, Stage,
                Live, Inside, Body
  <2>2. CASE Throws
    BY <2>2 DEF Throws, Live, Inside, Body
  <2> QED BY <2>1, <2>2
<1>2. key = "processing"
  BY <1>0, <1>1 DEF DeliveryPart, KeyFollows
<1>3. KeyFollows' /\ TokenHeld' /\ LooseExplains'
  BY <1>0, <1>1, <1>2
     DEF DeliveryPart, rows, KeyFollows, TokenHeld, Held, LooseExplains, Free, Live,
         Inside, Body
<1> QED BY <1>0, <1>1, <1>3 DEF DeliveryPart, AttemptsLeft, rows

\* A failure is counted for a leased row only, and takes it out of the lease.
LEMMA Counted ==
  ASSUME DeliveryPart, FailDelivery, outbox = "leased"
  PROVE  /\ attempts' \in 0 .. MaxAttempts
         /\ outbox' \in {"due", "dead"}
         /\ outbox' # "dead" => attempts' < MaxAttempts
BY SagaAssumption DEF DeliveryPart, AttemptsLeft, FailDelivery, SagaAssumption

\* What is left to show of a step of the delivery.
LEMMA DeliveryKept ==
  ASSUME DeliveryPart, requeued' \in 0 .. Requeues,
         outbox' \in {"due", "leased", "processed", "dead"},
         visitors' \in [Visitor -> Nat], mine' \in BOOLEAN, nack' \in BOOLEAN,
         key' \in {"none", "processing", "processed", "deleted"},
         attempts' \in 0 .. MaxAttempts, loose' \in SUBSET Mishap,
         outbox' # "dead" => attempts' < MaxAttempts,
         KeyFollows', TokenHeld', LooseExplains'
  PROVE  DeliveryPart'
BY DEF DeliveryPart, AttemptsLeft

\* The row changes its token.
LEMMA TokenKept ==
  ASSUME DeliveryPart, NEW claims \in {0, 1},
         TokenLost("overrun", claims) \/ TokenLost("reset", claims)
  PROVE  /\ mine' = FALSE /\ nack' = FALSE
         /\ visitors' \in [Visitor -> Nat] /\ visitors'["current"] = claims
         /\ loose' \in SUBSET Mishap
         /\ loose' = {} => loose = {} /\ key # "processing"
<1>1. LooseExplains /\ loose \in SUBSET Mishap
  BY DEF DeliveryPart
<1>2. visitors["current"] \in Nat /\ visitors["late"] \in Nat
  BY DEF DeliveryPart, Visitor
<1>3. visitors' = Waiting(claims, visitors["current"] + visitors["late"])
  BY DEF TokenLost
<1>4. visitors' \in [Visitor -> Nat] /\ visitors'["current"] = claims
  BY <1>2, <1>3 DEF Waiting, Visitor
<1> QED BY <1>1, <1>4 DEF TokenLost, LooseExplains, Mishap

LEMMA RowsKept ==
  ASSUME IInv, Claim \/ Overrun \/ Reset
  PROVE  DeliveryPart'
<1>0. DeliveryPart
  BY Parts
<1>1. PICK claims \in {0, 1} :
        /\ UNCHANGED <<pc, key>>
        /\ TokenLost("overrun", claims) \/ TokenLost("reset", claims)
        /\ \/ outbox \in {"due", "leased"} /\ outbox' = "leased"
              /\ UNCHANGED <<attempts, requeued>>
           \/ outbox' = "due" /\ attempts' = 0 /\ requeued' = requeued + 1
              /\ requeued < Requeues /\ claims = 0
  BY DEF Claim, Overrun, TakeRow, Reset
<1>2. /\ mine' = FALSE /\ nack' = FALSE
      /\ visitors' \in [Visitor -> Nat] /\ visitors'["current"] = claims
      /\ loose' \in SUBSET Mishap
      /\ loose' = {} => loose = {} /\ key # "processing"
  BY <1>0, <1>1, TokenKept
<1>3. /\ attempts' \in 0 .. MaxAttempts /\ attempts' < MaxAttempts
      /\ requeued' \in 0 .. Requeues
  BY <1>0, <1>1, SagaAssumption DEF DeliveryPart, AttemptsLeft, SagaAssumption
<1>4. KeyFollows'
  BY <1>0, <1>1 DEF DeliveryPart, KeyFollows, Free
<1>5. TokenHeld'
  BY <1>1, <1>2 DEF TokenHeld, Held
<1>6. LooseExplains'
  BY <1>0, <1>1, <1>2 DEF DeliveryPart, LooseExplains
<1> QED BY <1>0, <1>1, <1>2, <1>3, <1>4, <1>5, <1>6, DeliveryKept DEF DeliveryPart

LEMMA VisitKeeps ==
  ASSUME IInv, NEW w \in Visitor, Visit(w) \/ VisitThrows(w)
  PROVE  DeliveryPart'
<1>0. DeliveryPart /\ Arrive(w) /\ UNCHANGED requeued /\ requeued \in 0 .. Requeues
  BY Parts DEF Visit, Reserve, AcknowledgeUnrun, VisitThrows, DeliveryPart
<1>1. /\ w = "current" => outbox = "leased" /\ mine = FALSE /\ nack = FALSE
      /\ outbox # "dead" => attempts < MaxAttempts
      /\ attempts \in 0 .. MaxAttempts
      /\ w = "current" \/ w = "late"
      /\ mine \in BOOLEAN /\ nack \in BOOLEAN /\ visitors["current"] \in {0, 1}
  BY <1>0 DEF DeliveryPart, TokenHeld, Held, AttemptsLeft, Arrive, Visitor
<1>2. /\ visitors \in [Visitor -> Nat] /\ visitors[w] \in Nat
      /\ "current" \in Visitor
  BY <1>0 DEF DeliveryPart, Visitor
<1>3. /\ visitors' \in [Visitor -> Nat]
      /\ visitors'["current"] = IF w = "current" THEN 0 ELSE visitors["current"]
  BY <1>0, <1>1, <1>2 DEF Arrive
\* The key is taken, and with it the handler starts.
<1>4. CASE Reserve(w)
  <2>1. /\ key' = "processing" /\ pc' = "start" /\ mine' = (w = "current")
        /\ UNCHANGED <<outbox, attempts, nack>> /\ Free /\ mine = FALSE
        /\ loose' = IF w = "late" THEN loose \cup {"overrun"} ELSE loose
    <3>1. mine => pc # "idle" /\ pc \notin Live \cup {"closed"}
      BY <1>0, <1>4 DEF Reserve, DeliveryPart, TokenHeld, KeyFollows, Free, Live
    <3>2. pc \in Live \cup {"idle", "closed"}
      BY Parts DEF HandlerPart, HandlerPC
    <3> QED BY <1>1, <1>4, <3>1, <3>2 DEF Reserve
  <2>2. loose' \in SUBSET Mishap /\ mine' \in BOOLEAN
    BY <1>0, <2>1 DEF DeliveryPart, Mishap
  <2>3. KeyFollows' /\ TokenHeld'
    BY <1>0, <1>1, <1>3, <2>1 DEF DeliveryPart, KeyFollows, TokenHeld, Held, Free, Inside
  <2>4. LooseExplains'
    BY <1>0, <1>1, <2>1 DEF DeliveryPart, LooseExplains, Live, Inside, Free
  <2> QED BY <1>0, <1>1, <1>3, <2>1, <2>2, <2>3, <2>4, DeliveryKept DEF DeliveryPart
\* The event is acknowledged at a key that is there.
<1>5. CASE AcknowledgeUnrun(w)
  <2>1. /\ UNCHANGED <<pc, key, mine, nack, attempts, loose>> /\ ~Free
        /\ outbox' = IF w = "current" THEN "processed" ELSE outbox
    BY <1>5 DEF AcknowledgeUnrun
  <2>2. KeyFollows' /\ TokenHeld'
    BY <1>0, <1>1, <1>3, <2>1 DEF DeliveryPart, KeyFollows, TokenHeld, Held, Free
  <2>3. LooseExplains'
    <3>1. key \in {"processing", "processed"}
      BY <1>0, <2>1 DEF DeliveryPart, Free
    <3> QED BY <1>0, <1>1, <2>1, <3>1 DEF DeliveryPart, LooseExplains
  <2> QED BY <1>0, <1>1, <1>3, <2>1, <2>2, <2>3, DeliveryKept DEF DeliveryPart
\* A statement throws: the failure will be counted, or its worker is gone.
<1>6. CASE VisitThrows(w)
  <2>1. /\ nack' = nack \/ (nack' = TRUE /\ w = "current")
        /\ UNCHANGED <<pc, mine, outbox, attempts>>
        /\ \/ UNCHANGED <<key, loose>>
           \/ Free /\ key' = "processing" /\ loose' = loose \cup {"left"}
    BY <1>1, <1>6 DEF VisitThrows
  <2>2. /\ loose' \in SUBSET Mishap /\ nack' \in BOOLEAN
        /\ key' \in {"none", "processing", "processed", "deleted"}
    BY <1>0, <1>1, <2>1 DEF DeliveryPart, Mishap
  <2>3. KeyFollows'
    BY <1>0, <2>1 DEF DeliveryPart, KeyFollows, Free
  <2>4. TokenHeld'
    BY <1>0, <1>1, <1>3, <2>1 DEF DeliveryPart, TokenHeld, Held
  <2>5. LooseExplains'
    BY <1>0, <2>1 DEF DeliveryPart, LooseExplains, Free
  <2> QED BY <1>0, <1>1, <1>3, <2>1, <2>2, <2>3, <2>4, <2>5, DeliveryKept DEF DeliveryPart
<1> QED BY <1>4, <1>5, <1>6 DEF Visit

\* A reservation that was left behind explains itself.
LEMMA LeftExplains ==
  ASSUME DeliveryPart, LeaveBehind
  PROVE  /\ loose' \in SUBSET Mishap
         /\ loose' = {} => loose = {} /\ key # "processing"
BY DEF DeliveryPart, LeaveBehind, Mishap

\* Whoever leaves the handler takes its token along.
LEMMA LeaveKeeps ==
  ASSUME DeliveryPart, UNCHANGED <<outbox, visitors, attempts, requeued>>,
         pc' = "idle", mine' = FALSE, nack' \in {nack, nack \/ mine},
         key' \in {"none", "processing", "processed", "deleted"},
         key' = "processed" <=> key = "processed",
         loose' \in SUBSET Mishap, loose' = {} => loose = {} /\ key' # "processing"
  PROVE  DeliveryPart'
<1>1. /\ KeyFollows /\ TokenHeld /\ LooseExplains /\ mine \in BOOLEAN
      /\ nack \in BOOLEAN /\ visitors \in [Visitor -> Nat]
  BY DEF DeliveryPart
<1>2. nack' \in BOOLEAN /\ (nack' => nack \/ mine)
  BY <1>1
<1>3. KeyFollows'
  BY DEF KeyFollows, Inside, Body
<1>4. TokenHeld'
  BY <1>1, <1>2 DEF TokenHeld, Held
<1>5. LooseExplains'
  BY <1>1 DEF LooseExplains
<1> QED BY <1>1, <1>2, <1>3, <1>4, <1>5, DeliveryKept DEF DeliveryPart, AttemptsLeft

LEMMA FinishKeeps ==
  ASSUME IInv, Abandon \/ Finish \/ DeliveryThrows
  PROVE  DeliveryPart'
<1>0. /\ DeliveryPart /\ KeyFollows /\ TokenHeld /\ LooseExplains
      /\ outbox \in {"due", "leased", "processed", "dead"}
      /\ mine \in BOOLEAN /\ nack \in BOOLEAN /\ visitors \in [Visitor -> Nat]
      /\ key \in {"none", "processing", "processed", "deleted"}
      /\ attempts \in 0 .. MaxAttempts /\ loose \in SUBSET Mishap
      /\ outbox # "dead" => attempts < MaxAttempts
  BY Parts DEF DeliveryPart, AttemptsLeft
<1>1. UNCHANGED <<visitors, requeued>> /\ requeued' \in 0 .. Requeues
  BY <1>0 DEF Abandon, Finish, Close, Settle, Release, Nack, DeliveryThrows,
              DeliveryPart
<1>2. CASE Abandon
  <2>1. loose' \in SUBSET Mishap /\ (loose' = {} => loose = {} /\ key # "processing")
    BY <1>0, <1>2, LeftExplains DEF Abandon
  <2> QED BY <1>0, <1>2, <2>1, LeaveKeeps DEF Abandon
<1>3. CASE Close
  <2>1. /\ key' = "processed" /\ pc = "returned" /\ pc' = "closed"
        /\ UNCHANGED <<outbox, mine, nack, attempts, loose>>
    BY <1>3 DEF Close
  <2>2. KeyFollows' /\ TokenHeld' /\ LooseExplains'
    BY <1>0, <1>1, <2>1 DEF KeyFollows, TokenHeld, Held, LooseExplains, Inside, Body
  <2> QED BY <1>0, <1>1, <2>1, <2>2, DeliveryKept
<1>4. CASE Settle
  <2>1. /\ pc = "closed" /\ pc' = "idle" /\ mine' = FALSE
        /\ outbox' = IF mine THEN "processed" ELSE outbox
        /\ UNCHANGED <<nack, key, attempts, loose>>
    BY <1>4 DEF Settle
  <2>2. key = "processed" /\ (mine => outbox = "leased")
    BY <1>0, <2>1 DEF KeyFollows, TokenHeld, Held
  <2>3. KeyFollows' /\ LooseExplains'
    BY <1>0, <1>1, <2>1, <2>2 DEF KeyFollows, LooseExplains, Inside, Body
  <2>4. TokenHeld'
    BY <1>0, <1>1, <2>1, <2>2 DEF TokenHeld, Held
  <2> QED BY <1>0, <1>1, <2>1, <2>2, <2>3, <2>4, DeliveryKept
<1>5. CASE Release
  <2>1. /\ pc = "threw" /\ LeaveHandler
        /\ key' = IF key = "processing" THEN "deleted" ELSE key
        /\ UNCHANGED <<outbox, attempts, loose>>
    BY <1>5 DEF Release
  <2> QED BY <1>0, <1>1, <2>1, LeaveKeeps DEF LeaveHandler
<1>6. CASE Nack
  <2>1. nack /\ nack' = FALSE /\ FailDelivery /\ UNCHANGED <<pc, mine, key, loose>>
    BY <1>6 DEF Nack
  <2>2. /\ attempts' \in 0 .. MaxAttempts /\ outbox' \in {"due", "dead"}
        /\ outbox' # "dead" => attempts' < MaxAttempts
        /\ outbox = "leased" /\ visitors["current"] = 0 /\ mine = FALSE
    BY <1>0, <2>1, Counted DEF TokenHeld, Held
  <2>3. KeyFollows' /\ TokenHeld' /\ LooseExplains'
    BY <1>0, <1>1, <2>1, <2>2
       DEF KeyFollows, TokenHeld, Held, LooseExplains, Free, Live, Inside, Body
  <2> QED BY <1>0, <1>1, <2>1, <2>2, <2>3, DeliveryKept
<1>7. CASE DeliveryThrows
  <2>0. UNCHANGED <<outbox, attempts>>
    BY <1>7 DEF DeliveryThrows
  <2>1. ASSUME pc = "returned", key' \in {key, "processed"}, pc' = "threw",
               UNCHANGED <<mine, nack, loose>>
        PROVE  DeliveryPart'
    <3>1. key = "processing"
      BY <1>0, <2>1 DEF KeyFollows
    <3>2. KeyFollows' /\ TokenHeld' /\ LooseExplains'
      BY <1>0, <1>1, <2>0, <2>1, <3>1
         DEF KeyFollows, TokenHeld, Held, LooseExplains, Free, Live, Inside, Body
    <3> QED BY <1>0, <1>1, <2>0, <2>1, <3>1, <3>2, DeliveryKept
  <2>2. ASSUME pc = "threw", LeaveBehind, LeaveHandler, UNCHANGED key
        PROVE  DeliveryPart'
    <3>1. /\ loose' \in SUBSET Mishap
          /\ loose' = {} => loose = {} /\ key # "processing"
      BY <1>0, <2>2, LeftExplains
    <3> QED BY <1>0, <1>1, <2>0, <2>2, <3>1, LeaveKeeps DEF LeaveHandler
  <2>3. ASSUME pc = "closed", LeaveHandler, UNCHANGED <<key, loose>>
        PROVE  DeliveryPart'
    <3>1. key # "processing"
      BY <1>0, <2>3 DEF KeyFollows
    <3> QED BY <1>0, <1>1, <2>0, <2>3, <3>1, LeaveKeeps DEF LeaveHandler
  <2>4. ASSUME nack, nack' = FALSE, UNCHANGED <<pc, mine, key, loose>>
        PROVE  DeliveryPart'
    <3>1. KeyFollows' /\ TokenHeld' /\ LooseExplains'
      BY <1>0, <1>1, <2>0, <2>4
         DEF KeyFollows, TokenHeld, Held, LooseExplains, Free, Live, Inside, Body
    <3> QED BY <1>0, <1>1, <2>0, <2>4, <3>1, DeliveryKept
  <2> QED BY <1>7, <2>1, <2>2, <2>3, <2>4 DEF DeliveryThrows
<1> QED BY <1>2, <1>3, <1>4, <1>5, <1>6, <1>7 DEF Finish

LEMMA DeliveryKeepsDelivery ==
  ASSUME IInv, Abandon \/ Delivery
  PROVE  DeliveryPart'
BY RowsKept, VisitKeeps, FinishKeeps DEF Delivery

-----------------------------------------------------------------------------
(* The theorems.                                                           *)

LEMMA HandlerUnmoved ==
  ASSUME IInv, UNCHANGED <<saga, pc, generated, faults, rows>>
  PROVE  HandlerPart' /\ DeliveryPart'
<1>1. HandlerPart /\ DeliveryPart
  BY Parts
<1>2. HandlerPart'
  BY <1>1 DEF rows, HandlerPart, StagesFollow, CompletedMeansDone, NotFailedInside
<1>3. DeliveryPart'
  BY <1>1 DEF rows, DeliveryPart, AttemptsLeft, KeyFollows, TokenHeld, Held,
              LooseExplains, Free
<1> QED BY <1>2, <1>3

LEMMA NextKeepsIInv == IInv /\ [Next]_vars => IInv'
<1> SUFFICES ASSUME IInv, [Next]_vars PROVE IInv'
  OBVIOUS
<1>1. CASE Next
  <2>1. CASE Handle \/ Throws \/ Abandon \/ Delivery
    <3>1. OrderPart'
      BY <2>1, HandlerKeepsOrder
    <3>2. HandlerPart'
      BY <2>1, HandlerStep, ThrowsStep, DeliveryStep
    <3>3. DeliveryPart'
      BY <2>1, HandlerKeepsDelivery, DeliveryKeepsDelivery
    <3> QED BY <1>1, <3>1, <3>2, <3>3, FailureStaysMarked
            DEF IInv, TypeOK, OrderPart, HandlerPart, DeliveryPart
  <2>2. ASSUME NEW c \in Client,
               Ask(c) \/ Select(c) \/ UpdateStatus(c) \/ Reject(c)
        PROVE  IInv'
    <3>1. OrderPart'
      BY <2>2, ClientKeepsOrder
    <3>2. UNCHANGED handler
      BY <2>2 DEF Ask, Select, UpdateStatus, Reject
    <3>3. HandlerPart' /\ DeliveryPart'
      BY <3>2, HandlerUnmoved DEF handler
    <3> QED BY <1>1, <3>1, <3>3, FailureStaysMarked
            DEF IInv, TypeOK, OrderPart, HandlerPart, DeliveryPart
  <2> QED BY <1>1, <2>1, <2>2 DEF Next
<1>2. CASE UNCHANGED vars
  <2>1. OrderPart'
    BY <1>2, Parts, OrderLeftAlone DEF vars
  <2>2. HandlerPart' /\ DeliveryPart'
    BY <1>2, HandlerUnmoved DEF vars, rows
  <2>3. SagaFailureMarked'
    BY <1>2, Parts DEF vars, SagaFailureMarked
  <2> QED BY <2>1, <2>2, <2>3
          DEF IInv, TypeOK, OrderPart, HandlerPart, DeliveryPart
<1> QED BY <1>1, <1>2

\* Whatever clients, failures, crashes and requeues do, the lock, the history,
\* the stages and the attempts stay consistent (orders and orchestration).
THEOREM InvariantHolds == Spec => []IInv
BY InitIInv, NextKeepsIInv, PTL DEF Spec

\* Type correctness.
THEOREM TypeCorrect == Spec => []TypeOK
<1>1. IInv => TypeOK
  BY DEF IInv
<1> QED BY <1>1, InvariantHolds, PTL

\* The events of an order tell its whole history, however many clients and
\* runs of the saga change it (updateStatus, compensate, startOrResume).
THEOREM HistoryComplete == Spec => []EventChain
<1>1. IInv => EventChain
  BY DEF IInv
<1> QED BY <1>1, InvariantHolds, PTL

\* A saga that is completed has both its stages recorded and generated.
THEOREM CompletionSound == Spec => []CompletedMeansDone
<1>1. IInv => CompletedMeansDone
  BY DEF IInv
<1> QED BY <1>1, InvariantHolds, PTL

\* The handler never generates or completes on behalf of a failed saga.
THEOREM NeverFailedInside == Spec => []NotFailedInside
<1>1. IInv => NotFailedInside
  BY DEF IInv
<1> QED BY <1>1, InvariantHolds, PTL

\* When the event is settled, no compensation of the saga is in force, unless the
\* event was acknowledged at a key that no handler completed, for a cause on record.
THEOREM CompensationsUndone == Spec => []CompensationUndone
<1>1. ASSUME IInv, outbox = "processed", order.status = "failed",
             events[Len(events)].by = Saga
      PROVE  key # "processed" /\ loose # {}
  <2>1. saga.status = "failed"
    BY <1>1 DEF IInv, SagaFailureMarked
  <2>2. key # "processed"
    BY <1>1, <2>1 DEF IInv, NotFailedInside
  <2> QED BY <1>1, <2>2 DEF IInv, LooseExplains
<1>2. IInv => CompensationUndone
  BY <1>1 DEF CompensationUndone
<1> QED BY <1>2, InvariantHolds, PTL

\* Who appended an event in a step: nobody, the saga, or the client whose
\* update was accepted.
LEMMA WhoAppends ==
  ASSUME IInv, Next, events' # events
  PROVE  \/ events'[Len(events')].by = Saga
         \/ \E c \in Client : UpdateStatus(c)
<1>0. OrderPart
  BY Parts
<1>1. Saga \in Actor /\ (pc \in {"reopen", "failing"} => lock = Saga)
  BY <1>0 DEF Actor, OrderPart, LockHeld
<1>2. ASSUME ReopenOrder \/ FailOrder, pc \in {"reopen", "failing"}
      PROVE  events'[Len(events')].by = Saga
  BY <1>0, <1>1, <1>2, SagaChanges, ChangeExtends
<1>3. CASE Handle
  <2>1. Reopen \/ Fail
    BY <1>3 DEF Handle, Start, Resume, Refresh, Complete, Compensate, Generate,
                StageFails, MarkStage, LockOrder, orders
  <2> QED BY <1>2, <2>1 DEF Reopen, Fail
<1>4. CASE Throws
  <2>1. (ReopenOrder \/ FailOrder) /\ pc \in {"reopen", "failing"}
    BY <1>4 DEF Throws, orders
  <2> QED BY <1>2, <2>1
<1>5. CASE Delivery \/ Abandon
  BY <1>5, DeliveryLeaves DEF Abandon
<1>6. ASSUME NEW c \in Client,
             Ask(c) \/ Select(c) \/ UpdateStatus(c) \/ Reject(c)
      PROVE  UpdateStatus(c)
  BY <1>6 DEF Ask, Select, Reject, LockOrder, orders
<1> QED BY <1>3, <1>4, <1>5, <1>6 DEF Next

\* An accepted optimistic update acts on the row its client read: the version
\* check and the row lock leave no room for a change in between.
THEOREM NoUpdateLost == Spec => NoLostUpdate
<1>1. ASSUME IInv, Next, NEW c \in Client, request[c].state = "locked",
             request[c].mode = "optimistic", Len(events') > Len(events),
             events'[Len(events')].by = c
      PROVE  order = request[c].seen
  <2>0. OrderPart
    BY <1>1, Parts
  <2>1. lock = c /\ view[c] = order /\ c # Saga
    BY <1>1, <2>0, OwnerKnows
  <2>2. Len(events) \in Nat
    BY <2>0 DEF OrderPart
  <2>3. events' # events
    BY <1>1, <2>2
  <2>4. PICK d \in Client : UpdateStatus(d)
    BY <1>1, <2>1, <2>3, WhoAppends
  <2>5. request[d].state = "locked" /\ \E to \in OrderStatus : Acceptable(d, to)
    BY <2>4 DEF UpdateStatus
  <2>6. d = c
    BY <2>0, <2>1, <2>5, OwnerKnows
  <2>7. request[c].seen.version = order.version
    BY <1>1, <2>1, <2>5, <2>6 DEF Acceptable
  <2> QED BY <1>1, <2>0, <2>7 DEF OrderPart, SeenIsPast
<1>2. IInv /\ [Next]_vars =>
        [\A c \in Client :
           /\ request[c].state = "locked"
           /\ request[c].mode = "optimistic"
           /\ Len(events') > Len(events)
           /\ events'[Len(events')].by = c
           => order = request[c].seen]_vars
  BY <1>1
<1> QED BY <1>2, InvariantHolds, PTL DEF Spec, NoLostUpdate

\* A recorded stage is generated once, in all runs of the handler.
THEOREM NoStageRepeated == Spec => StageNotRepeated
<1>1. ASSUME IInv, Next, NEW s \in Stage, s \in saga.stages
      PROVE  generated'[s] = generated[s]
  <2>1. generated \in [Stage -> Nat] /\ StagesFollow /\ Stage = {"avatar", "qr"}
    BY <1>1, Parts DEF HandlerPart, Stage
  <2>2. CASE generated' = generated
    BY <2>2
  <2>3. ASSUME NEW r \in Stage, Generate(r) PROVE generated'[s] = generated[s]
    <3>1. r # s
      BY <1>1, <2>1, <2>3 DEF StagesFollow, Generate
    <3> QED BY <2>1, <2>3, <3>1 DEF Generate
  <2>4. generated' = generated \/ \E r \in Stage : Generate(r)
    BY <1>1, DeliveryLeaves
       DEF Next, Handle, Start, Resume, Reopen, Refresh, Complete, Compensate, Fail,
           StageFails, MarkStage, Throws, Abandon, Ask, Select, UpdateStatus,
           Reject, handler
  <2> QED BY <2>2, <2>3, <2>4
<1>2. IInv /\ [Next]_vars =>
        [\A s \in Stage : s \in saga.stages
           => generated'[s] = generated[s]]_vars
  BY <1>1
<1> QED BY <1>2, InvariantHolds, PTL DEF Spec, StageNotRepeated

-----------------------------------------------------------------------------
(* The delivery and the contract of the outbox.                            *)

\* What the mapping makes of the rows and of where the handler is.
LEMMA Mapped ==
  /\ StatusOf = IF outbox = "due" THEN (IF attempts = 0 THEN "pending" ELSE "failed")
                ELSE IF outbox = "leased" THEN "processing"
                ELSE IF outbox = "dead" THEN "dead_letter" ELSE "processed"
  /\ Running = IF pc \in Inside THEN {"key"} ELSE {}
  /\ Reserved = IF key # "none" THEN {"key"} ELSE {}
  /\ Closed = IF key = "processed" THEN {"key"} ELSE {}
BY DEF StatusOf, Running, Reserved, Closed, Once

LEMMA MappedNext ==
  /\ StatusOf' = IF outbox' = "due"
                   THEN (IF attempts' = 0 THEN "pending" ELSE "failed")
                 ELSE IF outbox' = "leased" THEN "processing"
                 ELSE IF outbox' = "dead" THEN "dead_letter" ELSE "processed"
  /\ Running' = IF pc' \in Inside THEN {"key"} ELSE {}
  /\ Reserved' = IF key' # "none" THEN {"key"} ELSE {}
  /\ Closed' = IF key' = "processed" THEN {"key"} ELSE {}
BY DEF StatusOf, Running, Reserved, Closed, Once, Inside, Body

\* The handler and the key stay as they are for the contract.
KeyUnmoved ==
  /\ pc' \in Inside <=> pc \in Inside
  /\ key' = "none" <=> key = "none"
  /\ key' = "processed" <=> key = "processed"

\* No row changes for the contract, and the handler goes on or ends.
LEMMA AsEnd ==
  ASSUME UNCHANGED <<outbox, attempts>>, pc' \in Inside => pc \in Inside,
         key' = "none" <=> key = "none", key' = "processed" <=> key = "processed"
  PROVE  [Contract!Next]_(Contract!contractVars)
<1>1. StatusOf' = StatusOf /\ Reserved' = Reserved /\ Closed' = Closed
  BY Mapped, MappedNext
<1>2. CASE pc \in Inside /\ pc' \notin Inside
  <2>1. Contract!End("key")
    BY <1>1, <1>2, Mapped, MappedNext DEF Contract!End
  <2> QED BY <2>1 DEF Contract!Next
<1>3. CASE pc \in Inside <=> pc' \in Inside
  <2>1. Running' = Running
    BY <1>3, Mapped, MappedNext
  <2> QED BY <1>1, <2>1 DEF Contract!contractVars
<1> QED BY <1>2, <1>3

LEMMA AsClaim ==
  ASSUME outbox \in {"due", "leased"}, outbox' = "leased", UNCHANGED attempts,
         KeyUnmoved
  PROVE  Contract!Next
<1>1. Running' = Running /\ Reserved' = Reserved /\ Closed' = Closed
  BY Mapped, MappedNext DEF KeyUnmoved
<1>2. StatusOf \in Contract!Open /\ StatusOf' = "processing"
  BY Mapped, MappedNext DEF Contract!Open
<1>3. Contract!Claim({"order.created"})
  BY <1>1, <1>2 DEF Contract!Claim
<1> QED BY <1>3 DEF Contract!Next

LEMMA AsBegin ==
  ASSUME UNCHANGED <<outbox, attempts>>, Free, key' = "processing", pc \notin Inside
  PROVE  Contract!Next
<1>1. StatusOf' = StatusOf /\ Closed' = Closed /\ Running = {} /\ Closed = {}
  BY Mapped, MappedNext DEF Free
<1>2. Reserved' = Reserved \cup {"key"} /\ Running' \in {Running, Running \cup {"key"}}
  BY <1>1, Mapped, MappedNext
<1>3. Contract!Begin("key")
  BY <1>1, <1>2 DEF Contract!Begin
<1> QED BY <1>3 DEF Contract!Next

LEMMA AsClose ==
  ASSUME UNCHANGED <<outbox, attempts>>, key = "processing", key' = "processed",
         pc \notin Inside, pc' \notin Inside
  PROVE  Contract!Next
<1>1. StatusOf' = StatusOf /\ Running' = Running /\ Reserved' = Reserved
      /\ Running = {} /\ Reserved = {"key"} /\ Closed' = Closed \cup {"key"}
  BY Mapped, MappedNext
<1>2. Contract!Close("key")
  BY <1>1 DEF Contract!Close
<1> QED BY <1>2 DEF Contract!Next

LEMMA AsAcknowledge ==
  ASSUME outbox = "leased", outbox' = "processed", UNCHANGED attempts,
         key # "none", KeyUnmoved
  PROVE  Contract!Next
<1>1. Running' = Running /\ Reserved' = Reserved /\ Closed' = Closed
      /\ Reserved = {"key"}
  BY Mapped, MappedNext DEF KeyUnmoved
<1>2. StatusOf = "processing" /\ StatusOf' = "processed"
  BY Mapped, MappedNext
<1>3. [[e \in {"order.created"} |-> StatusOf] EXCEPT !["order.created"] = "processed"]
        = [e \in {"order.created"} |-> StatusOf']
  BY <1>2
<1>4. Contract!Acknowledge("order.created")
  BY <1>1, <1>2, <1>3 DEF Contract!Acknowledge
<1> QED BY <1>4 DEF Contract!Next

LEMMA AsFail ==
  ASSUME outbox = "leased", FailDelivery, attempts \in Nat, attempts < MaxAttempts,
         KeyUnmoved
  PROVE  Contract!Next
<1> DEFINE E == {"order.created"}
           e == "order.created"
<1>1. /\ attempts' = attempts + 1 /\ attempts' # 0
      /\ outbox' = IF attempts' = MaxAttempts THEN "dead" ELSE "due"
  BY SagaAssumption DEF FailDelivery, SagaAssumption
<1>2. /\ StatusOf = "processing"
      /\ StatusOf' = IF attempts' = MaxAttempts THEN "dead_letter" ELSE "failed"
  BY <1>1, Mapped, MappedNext
<1>3. Running' = Running /\ Reserved' = Reserved /\ Closed' = Closed
  BY Mapped, MappedNext DEF KeyUnmoved
<1>4. [[x \in E |-> attempts] EXCEPT ![e] = @ + 1] = [x \in E |-> attempts']
  BY <1>1
<1>5. [[x \in E |-> StatusOf] EXCEPT ![e] = StatusOf'] = [x \in E |-> StatusOf']
  OBVIOUS
<1>6. Contract!Fail(e)
  BY <1>1, <1>2, <1>3, <1>4, <1>5 DEF Contract!Fail
<1> QED BY <1>6 DEF Contract!Next

LEMMA AsReopen ==
  ASSUME outbox' = "due", attempts' = 0, KeyUnmoved
  PROVE  Contract!Next
<1>1. StatusOf # "absent" /\ StatusOf' = "pending"
  BY Mapped, MappedNext
<1>2. Running' = Running /\ Reserved' = Reserved /\ Closed' = Closed
  BY Mapped, MappedNext DEF KeyUnmoved
<1>3. /\ [[x \in {"order.created"} |-> StatusOf] EXCEPT !["order.created"] = "pending"]
           = [x \in {"order.created"} |-> StatusOf']
      /\ [[x \in {"order.created"} |-> attempts] EXCEPT !["order.created"] = 0]
           = [x \in {"order.created"} |-> attempts']
  BY <1>1
<1>4. Contract!Reopen("order.created")
  BY <1>1, <1>2, <1>3 DEF Contract!Reopen
<1> QED BY <1>4 DEF Contract!Next

\* Each step of the delivery is a step of the contract, or none.
LEMMA DeliveryByContract ==
  ASSUME IInv, Delivery
  PROVE  [Contract!Next]_(Contract!contractVars)
<1>0. /\ KeyFollows /\ TokenHeld
      /\ attempts \in Nat /\ (outbox # "dead" => attempts < MaxAttempts)
      /\ key \in {"none", "processing", "processed", "deleted"} /\ mine \in BOOLEAN
  BY SagaAssumption DEF IInv, TypeOK, AttemptsLeft, SagaAssumption
<1>1. CASE Claim \/ Overrun
  <2>1. /\ outbox \in {"due", "leased"} /\ outbox' = "leased" /\ UNCHANGED attempts
        /\ UNCHANGED <<pc, key>>
    BY <1>1 DEF Claim, Overrun, TakeRow
  <2> QED BY <2>1, AsClaim DEF KeyUnmoved
<1>2. CASE Reset
  BY <1>2, AsReopen DEF Reset, KeyUnmoved
<1>3. ASSUME Free PROVE pc \notin Inside
  BY <1>0, <1>3 DEF KeyFollows, Free
<1>4. ASSUME NEW w \in Visitor, Reserve(w) PROVE Contract!Next
  BY <1>3, <1>4, AsBegin DEF Reserve
<1>5. ASSUME NEW w \in Visitor, AcknowledgeUnrun(w)
      PROVE  [Contract!Next]_(Contract!contractVars)
  <2>1. UNCHANGED <<pc, key, attempts>> /\ KeyUnmoved /\ key # "none"
    BY <1>5 DEF AcknowledgeUnrun, KeyUnmoved, Free
  <2>2. CASE w = "current"
    <3>1. outbox = "leased" /\ outbox' = "processed"
      BY <1>0, <1>5, <2>2 DEF AcknowledgeUnrun, Arrive, TokenHeld, Held
    <3> QED BY <2>1, <3>1, AsAcknowledge
  <2>3. CASE w # "current"
    <3>1. UNCHANGED outbox
      BY <1>5, <2>3 DEF AcknowledgeUnrun
    <3> QED BY <2>1, <3>1, AsEnd
  <2> QED BY <2>2, <2>3
<1>6. ASSUME NEW w \in Visitor, VisitThrows(w)
      PROVE  [Contract!Next]_(Contract!contractVars)
  <2>1. UNCHANGED <<outbox, attempts, pc>>
    BY <1>6 DEF VisitThrows
  <2>2. CASE UNCHANGED key
    BY <2>1, <2>2, AsEnd
  <2>3. CASE Free /\ key' = "processing"
    BY <1>3, <2>1, <2>3, AsBegin
  <2> QED BY <1>6, <2>2, <2>3 DEF VisitThrows
<1>7. CASE Close
  <2>1. pc = "returned" /\ key = "processing"
    BY <1>0, <1>7 DEF Close, KeyFollows
  <2> QED BY <1>7, <2>1, AsClose DEF Close, Inside, Body
<1>8. CASE Settle
  <2>1. pc = "closed" /\ pc' = "idle" /\ UNCHANGED <<key, attempts>> /\ key # "none"
    BY <1>0, <1>8 DEF Settle, KeyFollows
  <2>2. KeyUnmoved
    BY <2>1 DEF KeyUnmoved, Inside, Body
  <2>3. CASE mine
    <3>1. outbox = "leased" /\ outbox' = "processed"
      BY <1>0, <1>8, <2>3 DEF Settle, TokenHeld, Held
    <3> QED BY <2>1, <2>2, <3>1, AsAcknowledge
  <2>4. CASE ~mine
    <3>1. UNCHANGED outbox
      BY <1>8, <2>4 DEF Settle
    <3> QED BY <2>1, <2>2, <3>1, AsEnd DEF KeyUnmoved
  <2> QED BY <2>3, <2>4
<1>9. CASE Release
  <2>1. /\ pc = "threw" /\ pc' = "idle" /\ UNCHANGED <<outbox, attempts>>
        /\ key' = IF key = "processing" THEN "deleted" ELSE key
    BY <1>9 DEF Release, LeaveHandler
  <2> QED BY <2>1, AsEnd DEF Inside, Body
<1>10. CASE Nack
  <2>1. /\ UNCHANGED <<pc, key>> /\ FailDelivery /\ outbox = "leased"
        /\ attempts < MaxAttempts
    BY <1>0, <1>10 DEF Nack, TokenHeld, Held
  <2> QED BY <1>0, <2>1, AsFail DEF KeyUnmoved
<1>11. CASE DeliveryThrows
  <2>1. /\ UNCHANGED <<outbox, attempts>>
        /\ pc' \notin Inside \/ UNCHANGED <<pc, key>>
    BY <1>11 DEF DeliveryThrows, LeaveHandler, Inside, Body
  <2>2. CASE UNCHANGED key
    BY <2>1, <2>2, AsEnd
  <2>3. CASE ~UNCHANGED key
    <3>1. pc = "returned" /\ key' = "processed" /\ pc' \notin Inside
      BY <1>11, <2>3 DEF DeliveryThrows, Inside, Body
    <3>2. key = "processing" /\ pc \notin Inside
      BY <1>0, <3>1 DEF KeyFollows, Inside, Body
    <3> QED BY <2>1, <3>1, <3>2, AsClose
  <2> QED BY <2>2, <2>3
<1> QED
  BY <1>1, <1>2, <1>4, <1>5, <1>6, <1>7, <1>8, <1>9, <1>10, <1>11
     DEF Delivery, Finish, Visit

\* The handler and the clients end or leave what the contract sees alone.
LEMMA HandlerByContract ==
  ASSUME Handle \/ Throws \/ Abandon
         \/ \E c \in Client : Ask(c) \/ Select(c) \/ UpdateStatus(c) \/ Reject(c)
  PROVE  [Contract!Next]_(Contract!contractVars)
<1>1. UNCHANGED <<outbox, attempts, key>> /\ (pc' \in Inside => pc \in Inside)
  <2>1. CASE Handle
    BY <2>1 DEF Handle, Start, Resume, Reopen, Refresh, Complete, Compensate, Fail,
                Generate, StageFails, MarkStage, Stage, rows, Inside, Body
  <2>2. CASE Throws \/ Abandon
    BY <2>2 DEF Throws, Abandon, rows, Inside, Body
  <2>3. ASSUME NEW c \in Client,
               Ask(c) \/ Select(c) \/ UpdateStatus(c) \/ Reject(c)
        PROVE  UNCHANGED <<outbox, attempts, key, pc>>
    BY <2>3 DEF Ask, Select, UpdateStatus, Reject, handler, rows
  <2> QED BY <2>1, <2>2, <2>3
<1> QED BY <1>1, AsEnd

(* The delivery that the saga relies on is one the contract of the outbox  *)
(* allows.  Outbox implements the same contract (ContractHolds of          *)
(* OutboxContractProofs): one handler at a time and none once the key is   *)
(* closed, MaxAttempts failures until the dead letter.                     *)
THEOREM DeliveryAllowed == Spec => DeliveredByContract
<1> DEFINE Started == StatusOf = "pending" /\ Running = {} /\ Reserved = {} /\ Closed = {}
<1>1. Init => Started
  BY Mapped DEF Init, Inside, Body
<1>2. IInv /\ [Next]_vars => [Contract!Next]_(Contract!contractVars)
  <2>1. ASSUME IInv, Next PROVE [Contract!Next]_(Contract!contractVars)
    BY <2>1, DeliveryByContract, HandlerByContract DEF Next
  <2>2. ASSUME UNCHANGED vars PROVE [Contract!Next]_(Contract!contractVars)
    <3>1. UNCHANGED <<outbox, attempts, key, pc>>
      BY <2>2 DEF vars
    <3> QED BY <3>1, AsEnd
  <2> QED BY <2>1, <2>2
<1> QED
  BY <1>1, <1>2, InvariantHolds, PTL DEF Spec, DeliveredByContract
=============================================================================
