--------------------------- MODULE OrderCreation ----------------------------
(***************************************************************************)
(* POST /orders: requests, some of them repeats of one another under one   *)
(* Idempotency-Key, that create an order and its order.created event in a  *)
(* transaction on idempotency_keys, orders and outbox_events.              *)
(*                                                                         *)
(* The transactions run side by side; what one has written is seen by the  *)
(* others when it commits, and the lock on the row of the key is what they *)
(* wait for.                                                               *)
(***************************************************************************)
EXTENDS Integers, FiniteSets

CONSTANTS
  Request,   \* requests that arrive, a client's repeats included
  Key,       \* idempotency keys
  NoKey,     \* the header is absent
  Body,      \* request bodies, up to their hash
  KeyFor,    \* KeyFor[r]: the normalized key of request r, or NoKey
  BodyOf,    \* BodyOf[r]: the hash of its body
  MaxTries,  \* transactionMaxAttempts
  Faults     \* bound: statements that fail, other than deadlock victims

ASSUME CreationAssumption ==
  /\ NoKey \notin Key
  /\ KeyFor \in [Request -> Key \cup {NoKey}]
  /\ BodyOf \in [Request -> Body]
  /\ MaxTries \in Nat \ {0}
  /\ Faults \in Nat

NoOrder == 0

VARIABLES
  keys,     \* keys[k]: the committed row of k in idempotency_keys
  orders,   \* committed orders: their id and the request that made them
  events,   \* ids of orders whose order.created event is committed
  nextId,   \* AUTO_INCREMENT of orders
  pc,       \* pc[r]: the await request r is at
  locks,    \* locks[k]: how the transactions that are open hold the row of k
  draft,    \* draft[r]: id of the order that r inserted and not committed
  tries,    \* tries[r]: transactions r has begun
  answer,   \* answer[r]: what the client was told
  faults    \* faults so far

db   == <<keys, orders, events>>
vars == <<keys, orders, events, nextId, pc, locks, draft, tries, answer, faults>>

PC == {"check", "begin", "duplicate", "insert", "complete", "commit", "done"}

\* Statements of the transaction that has written or locked something.
InTransaction == {"duplicate", "insert", "complete", "commit"}

KeyRow == [status : {"absent", "processing", "completed"},
           body : Body \cup {NoKey}, order : Nat]
NoRow  == [status |-> "absent", body |-> NoKey, order |-> NoOrder]

\* What the client is told: an order of the given id, or an error.
Answer == [kind : {"none", "order", "not found", "conflict", "in progress",
                   "error"}, order : Nat]
Told(kind) == [kind |-> kind, order |-> NoOrder]
Created(id) == [kind |-> "order", order |-> id]

TypeOK ==
  /\ keys \in [Key -> KeyRow]
  /\ orders \subseteq [id : 1 .. nextId, by : Request]
  /\ events \subseteq 1 .. nextId
  /\ nextId \in Nat
  /\ pc \in [Request -> PC]
  /\ locks \in [Key -> [shared : SUBSET Request, exclusive : SUBSET Request]]
  /\ draft \in [Request -> Nat]
  /\ tries \in [Request -> 0 .. MaxTries]
  /\ answer \in [Request -> Answer]
  /\ faults \in 0 .. Faults

Init ==
  /\ keys = [k \in Key |-> NoRow]
  /\ orders = {}
  /\ events = {}
  /\ nextId = 0
  /\ pc = [r \in Request |-> "check"]
  /\ locks = [k \in Key |-> [shared |-> {}, exclusive |-> {}]]
  /\ draft = [r \in Request |-> NoOrder]
  /\ tries = [r \in Request |-> 0]
  /\ answer = [r \in Request |-> Told("none")]
  /\ faults = 0

-----------------------------------------------------------------------------
(* Transactions.                                                           *)

Goto(r, to) == pc' = [pc EXCEPT ![r] = to]

ShareLock(r, k)     == locks' = [locks EXCEPT ![k].shared = @ \cup {r}]
ExclusiveLock(r, k) == locks' = [locks EXCEPT ![k].exclusive = @ \cup {r}]

\* The transaction of r ends: its locks are gone.
Release(r) ==
  locks' = [k \in Key |-> [shared    |-> locks[k].shared \ {r},
                           exclusive |-> locks[k].exclusive \ {r}]]

Reply(r, a) ==
  /\ answer' = [answer EXCEPT ![r] = a]
  /\ Goto(r, "done")

\* Injected bug: the connection returns to the pool with its transaction open.
RollbackForgotten(r) ==
  /\ draft' = [draft EXCEPT ![r] = NoOrder]
  /\ UNCHANGED <<db, locks>>

Rollback(r) ==
  /\ Release(r)
  /\ draft' = [draft EXCEPT ![r] = NoOrder]
  /\ UNCHANGED db

\* usersService.findById and mapsService.findById, before the transaction.
CheckPasses(r) ==
  /\ pc[r] = "check"
  /\ Goto(r, "begin")
  /\ UNCHANGED <<db, nextId, locks, draft, tries, answer, faults>>

CheckFails(r) ==
  /\ pc[r] = "check"
  /\ Reply(r, Told("not found"))
  /\ UNCHANGED <<db, nextId, locks, draft, tries, faults>>

\* Injected bug: INSERT IGNORE that does not wait for an uncommitted row.
ReserveAtOnce(r, k) ==
  IF keys[k].status = "absent"
    THEN ExclusiveLock(r, k) /\ Goto(r, "insert")
    ELSE ShareLock(r, k) /\ Goto(r, "duplicate")

\* INSERT IGNORE INTO idempotency_keys: waits while another transaction has
\* the row locked, then inserts it or, when it is there, locks it to read.
ReserveKey(r, k) ==
  /\ locks[k].exclusive = {}
  /\ ReserveAtOnce(r, k)

\* createWithOutboxAttempt begins.
Begin(r) ==
  /\ pc[r] = "begin"
  /\ tries' = [tries EXCEPT ![r] = @ + 1]
  /\ IF KeyFor[r] = NoKey
       THEN Goto(r, "insert") /\ UNCHANGED locks
       ELSE ReserveKey(r, KeyFor[r])
  /\ UNCHANGED <<db, nextId, draft, answer, faults>>

\* Injected bug: the hash of the body is not compared.
StoredAnyBody(r, row) ==
  IF row.status # "completed" THEN Told("in progress") ELSE Created(row.order)

\* What resolveIdempotencyKey makes of the row it finds.
Stored(r, row) ==
  CASE row.body # BodyOf[r] -> Told("conflict")
    [] row.body = BodyOf[r] /\ row.status # "completed" -> Told("in progress")
    [] OTHER -> Created(row.order)

\* findIdempotencyKeyForUpdate: the read lock becomes an exclusive one when no
\* other transaction holds the row; the transaction then ends at once.
ReadKey(r) ==
  LET k == KeyFor[r] IN
  /\ pc[r] = "duplicate"
  /\ locks[k].shared = {r} /\ locks[k].exclusive = {}
  /\ Reply(r, Stored(r, keys[k]))
  /\ Release(r)
  /\ UNCHANGED <<db, nextId, draft, tries, faults>>

\* Injected bug: the event is written through the pool, not the connection.
AppendAtOnce(id) ==
  /\ events' = events \cup {id}
  /\ UNCHANGED <<keys, orders>>

\* appendDomainEvent writes on the connection of the transaction.
AppendEvent(id) == UNCHANGED db

\* insertOrderAndOutbox.
InsertOrder(r) ==
  /\ pc[r] = "insert"
  /\ nextId' = nextId + 1
  /\ draft' = [draft EXCEPT ![r] = nextId']
  /\ AppendEvent(nextId')
  /\ Goto(r, IF KeyFor[r] = NoKey THEN "commit" ELSE "complete")
  /\ UNCHANGED <<locks, tries, answer, faults>>

\* completeIdempotencyKey, still inside the transaction.
CompleteKey(r) ==
  /\ pc[r] = "complete"
  /\ Goto(r, "commit")
  /\ UNCHANGED <<db, nextId, locks, draft, tries, answer, faults>>

\* The row of the key as the transaction leaves it.
CompletedRow(r) ==
  [status |-> "completed", body |-> BodyOf[r], order |-> draft[r]]

\* All that r wrote becomes visible.
Publish(r) ==
  /\ orders' = orders \cup {[id |-> draft[r], by |-> r]}
  /\ events' = events \cup {draft[r]}
  /\ keys' = IF KeyFor[r] = NoKey THEN keys
             ELSE [keys EXCEPT ![KeyFor[r]] = CompletedRow(r)]

Commit(r) ==
  /\ pc[r] = "commit"
  /\ Publish(r)
  /\ Reply(r, Created(draft[r]))
  /\ Release(r)
  /\ draft' = [draft EXCEPT ![r] = NoOrder]
  /\ UNCHANGED <<nextId, tries, faults>>

-----------------------------------------------------------------------------
(* Failures.                                                               *)

\* createWithOutbox after ER_LOCK_DEADLOCK.
RetryOrGiveUp(r) ==
  IF tries[r] = MaxTries THEN Reply(r, Told("error"))
                         ELSE Goto(r, "begin") /\ UNCHANGED answer

\* Two transactions hold the read lock on the row and want the exclusive one:
\* the server rolls one back.
DeadlockVictim(r) ==
  /\ pc[r] = "duplicate"
  /\ \E q \in locks[KeyFor[r]].shared : q # r
  /\ Rollback(r)
  /\ RetryOrGiveUp(r)
  /\ UNCHANGED <<nextId, tries, faults>>

\* A deadlock on rows of other tables.
ForeignDeadlock(r) ==
  /\ pc[r] \in InTransaction \ {"commit"}
  /\ faults < Faults
  /\ faults' = faults + 1
  /\ Rollback(r)
  /\ RetryOrGiveUp(r)
  /\ UNCHANGED <<nextId, tries>>

\* Any other error, a crash of the instance included: the transaction is
\* rolled back, or its COMMIT took effect and only the answer was lost.
Fails(r) ==
  /\ pc[r] \in InTransaction \cup {"begin"}
  /\ faults < Faults
  /\ faults' = faults + 1
  /\ \/ UNCHANGED db
     \/ pc[r] = "commit" /\ Publish(r)
  /\ Release(r)
  /\ draft' = [draft EXCEPT ![r] = NoOrder]
  /\ Reply(r, Told("error"))
  /\ UNCHANGED <<nextId, tries>>

Step(r) ==
  \/ CheckPasses(r) \/ CheckFails(r) \/ Begin(r) \/ ReadKey(r)
  \/ InsertOrder(r) \/ CompleteKey(r) \/ Commit(r) \/ DeadlockVictim(r)

Next == \E r \in Request : Step(r) \/ ForeignDeadlock(r) \/ Fails(r)

Spec == Init /\ [][Next]_vars

\* Every statement ends, and the server breaks every deadlock.
FairSpec == Spec /\ \A r \in Request : WF_vars(Step(r))

-----------------------------------------------------------------------------
(* Properties.                                                             *)

\* The requests that carry one key create at most one order, whatever repeats
\* race with each other, deadlock, fail, or fail after their COMMIT took
\* effect (resolveIdempotencyKey).
OneOrderPerKey ==
  \A o, p \in orders :
    KeyFor[o.by] = KeyFor[p.by] /\ KeyFor[o.by] # NoKey => o = p

\* Orders and order.created events exist together (insertOrderAndOutbox).
EventPerOrder == {o.id : o \in orders} = events

\* A client that is given an order is given one that exists, and made by a
\* request with its own key and body: a replay never shows another's order.
OwnOrderAnswered ==
  \A r \in Request :
    answer[r].kind = "order" =>
      \E o \in orders :
        /\ o.id = answer[r].order
        /\ BodyOf[o.by] = BodyOf[r]
        /\ IF KeyFor[r] = NoKey THEN o.by = r ELSE KeyFor[o.by] = KeyFor[r]

\* A request is refused as a conflict only when its key stands for an order
\* with another body, and never as being in progress: a row in processing is
\* visible to its own transaction alone.
RefusalsJustified ==
  \A r \in Request :
    /\ answer[r].kind # "in progress"
    /\ answer[r].kind = "conflict" =>
         \E o \in orders : KeyFor[o.by] = KeyFor[r] /\ BodyOf[o.by] # BodyOf[r]

\* What a client is told about its key is true (resolveIdempotencyKey).
AnswersJustified == OwnOrderAnswered /\ RefusalsJustified

-----------------------------------------------------------------------------
(* The inductive invariant.                                                *)

\* Between its first INSERT and its end a transaction writes.
Writing == {"insert", "complete", "commit"}

\* The lock on the row of a key is held by the transaction that inserts the
\* row, and by no second one; a read lock by those that found the row.
LocksFollow ==
  /\ \A k \in Key : \A q, r \in locks[k].exclusive : q = r
  /\ \A r \in Request : \A k \in Key :
       /\ r \in locks[k].exclusive <=> pc[r] \in Writing /\ KeyFor[r] = k
       /\ r \in locks[k].shared <=> pc[r] = "duplicate" /\ KeyFor[r] = k
  /\ \A r \in Request :
       /\ pc[r] = "duplicate" =>
            KeyFor[r] # NoKey /\ keys[KeyFor[r]].status = "completed"
       /\ pc[r] \in Writing /\ KeyFor[r] # NoKey =>
            keys[KeyFor[r]].status = "absent"
       /\ pc[r] = "complete" => KeyFor[r] # NoKey

\* An order that is inserted and not committed has an id of its own.
DraftsFresh ==
  \A r \in Request :
    pc[r] \in {"complete", "commit"} =>
      /\ draft[r] \in 1 .. nextId
      /\ draft[r] \notin events
      /\ \A q \in Request \ {r} :
           pc[q] \in {"complete", "commit"} => draft[q] # draft[r]

\* A committed key names the order of its key and body; without it there is
\* no order of the key.
KeysNameOrders ==
  \A k \in Key :
    /\ keys[k].status \in {"absent", "completed"}
    /\ keys[k].status = "absent" => \A o \in orders : KeyFor[o.by] # k
    /\ keys[k].status = "completed" =>
         \E o \in orders : /\ o.id = keys[k].order
                           /\ KeyFor[o.by] = k /\ BodyOf[o.by] = keys[k].body

TriesLeft == \A r \in Request : pc[r] \in {"check", "begin"} => tries[r] < MaxTries

\* What every step keeps: orders and events exist together, and the locks
\* keep keys, orders and answers consistent.
IInv ==
  /\ TypeOK
  /\ LocksFollow
  /\ DraftsFresh
  /\ KeysNameOrders
  /\ TriesLeft
  /\ EventPerOrder
  /\ OneOrderPerKey
  /\ AnswersJustified

-----------------------------------------------------------------------------
\* Every request is answered: lock waits and deadlock retries end.
AllAnswered == \A r \in Request : <>(pc[r] = "done")
=============================================================================
