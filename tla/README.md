# nest-outbox: formal model

A TLA+ model of the backend in `src/backend` (NestJS, MySQL, optional Redis and
S3, no message broker), the TLC configurations that check it on small instances,
and TLAPS proofs. Paths below are relative to `src/backend/src` unless they start
with `docs/` or `database/`.

## 1. The system

Several identical backend instances share one MySQL database. An API request
writes its rows and the domain event about them in one transaction; a publisher
inside every instance polls `outbox_events`, runs the handler of each event in
the same process and records the outcome. Nothing but the database connects the
instances: every protocol is a sequence of SQL statements, and other instances
may act between any two of them. Redis holds copies of answers and the counters
of the rate limit, and the system goes on without it.

| Component | State it keeps | Operations | Hard behaviour | What makes it correct | Module |
| --- | --- | --- | --- | --- | --- |
| Outbox transport (`outbox/`) | `outbox_events` (status, attempts, next retry, lease token and expiry), `processed_events` | append, claim, reserve/close/release a handler key, mark processed/failed/dead letter, manual retry and requeue | two publishers, leases that run out under a slow worker, crashes, statements that throw with or without effect | one handler per key at a time; only the holder of the lease settles; exact attempts; no silent loss; every event is settled | `Outbox` |
| Order creation (`orders/commands`, `orders/repositories`) | `idempotency_keys`, `orders`, `outbox_events` | POST /orders | repeats of one request racing, InnoDB lock waits and deadlocks, lost answers | one order per key; order and event together; true answers | `OrderCreation` |
| Order status (`orders/`) | `orders.status`, `orders.version` | optimistic and pessimistic PATCH | clients beside each other and beside the saga | no lost update, gapless event history, legal transitions | `OrderSaga` |
| Order saga (`orders/sagas`, `outbox/handlers`) | `order_sagas` | start/resume, avatar, QR code, complete, compensate | redelivery at any point, failing compensation, client changes meanwhile | recorded stages not repeated; compensation taken back, save in named cases | `OrderSaga` |
| Inbox (`inbox/`) | `inbox_events` | receive, claim, handle, settle | repeated deliveries, crashes without a lease | one worker per event, bounded calls | `Inbox` |
| Circuit breaker (`resilience/`) | per service: state, failures, openedAt, probe lock (memory) | execute, executeWithRetry | answers of calls begun in an earlier state | probe lock never lost or doubled; recovery | `CircuitBreaker` |
| Refresh tokens, users, audit (`auth/`, `users/`, `audit/`) | `users`, `refresh_tokens`, `audit_log` | register, login, refresh, logout, role change, soft delete, restore | rotation races, reuse detection, account changes in the middle of a refresh | at most one live token per family; a role that was in force; no session for a deleted account | `Sessions` |
| Maps, routes and their cache (`maps/`, `routes/`, `redis/`) | `maps`, Redis keys `map:` and `routes:` | read through, search, create, update, delete, restore | fill racing with invalidation, Redis failing, stale reads around an UPDATE | every stale entry has one of the known causes; ownership changes are audited | `MapCache` |
| Media (`media/`) | `media_assets`, files or S3 objects, events | find or create | asset, object and event are three writes | a row has its content; one event per asset | `Media` |
| Rate limit (`auth/guards`) | Redis counter, local window of each instance | canActivate | loss of Redis inside a window | bounded admissions, justified refusals | `RateLimit` |
| Migration runner (`database/migration-runner`) | `schema_migrations`, advisory lock, the schema | migrate, dry run, reset | crash between DDL and its record, old images beside new ones | each migration recorded once and whole | `Migrations` |
| Seed (`seed/`) | the tables it fills | db:seed | other inserts and runs beside it, breaking off | references go to its own rows | `Seed` |
| Transactions lab (`transactions-lab/`) | its table, what a pooled connection keeps | three scenarios | leaked transactions and levels, metadata locks, pool exhaustion | true reports; the known ways to get stuck are the only ones | `TransactionsLab` |
| Paged reads (`users/`, `orders/`, `reports/`, `maps/`) | none; cursor or offset of the client | activity, report page, lists | rows of one millisecond, writers between pages | a walk by cursor neither repeats nor skips | `Pages` |
| Shutdown, health (`main.ts`, `health/`, workers) | flags, timers | start, tick, signal, destroy hooks, readiness | batches that outlast the wait, probes beside the hooks | no tick after its hook; ready means open | `Shutdown` |
| Domain events and mapper, metrics, logging, OpenAPI, security headers, performance queries, deployment | none | | | | not modelled |

How they interact. Order creation, status changes and the saga append rows that
the outbox claims (shared table, same transaction). The publisher calls the
saga's handler, the saga calls media, media calls the storage through the
circuit breaker (direct calls, errors travel back as exceptions). The handler
key in `processed_events` is what makes the handler of the saga a single
process. The inbox has its own table and workers. Sessions, map reads and the
rate limit meet the rest only in that a request passes them first. The
migrations run before an instance starts; shutdown stops the ticks of publisher
and inbox.

## 2. Modules

`OutboxContract` is the abstract specification that `Outbox` implements.
`OrderSaga` composes the API clients with the saga on one order row and with the
delivery of one event: its row, the workers that claimed it, and its handler key.
The same contract allows that delivery. Each other module has one component and
its environment.

| Module | Models | Correspondence |
| --- | --- | --- |
| `Outbox` | `outbox/repositories`, `outbox/services`, `outbox/workers` | one action per SQL statement of `processDueBatch`/`processEvent`; `pc[w]` is the await the publisher is at; a claim is two actions because its `SELECT ... FOR UPDATE SKIP LOCKED` holds row locks until COMMIT; timestamps are kept as their comparison with the clock, and passing them is an action |
| `OutboxContract` | what the transport promises | publish, claim, begin/end/close a handler, acknowledge, fail, reopen; no workers, leases or SQL; instantiated by `Outbox` and by `OrderSaga`, each with its mapping |
| `OutboxInv`, `OutboxProofs`, `OutboxContractProofs` | the inductive invariants of `Outbox`, the proofs of its safety, the proof that it implements `OutboxContract` | the contract's variables are the functions `StatusOf`, `AttemptsOf`, `Running`, `Closed` of the state, and `reserved` |
| `OrderSaga` | `order-saga.repository.ts`, `order-process-manager.ts`, `updateStatus*`, `order-state-machine.ts`; of the transport `claimDueEvents`, `handleEvent` and what follows them | a transaction that reads the order is two actions (lock and read; write and commit); `view[a]` is what transaction `a` read; `outbox` is the event's row, `key` its row in `processed_events`, `visitors` are workers between claim and reservation, `mine` and `nack` say whose lease token the row has; `loose` records how a handler came apart from its key or its event |
| `OrderSagaProofs`, `OrderCreationProofs`, `InboxProofs` | the proofs about the module of that name | |
| `OrderCreation` | `createWithOutbox` and below | `keys`, `orders`, `events` are committed data; `draft` and `locks` belong to open transactions; InnoDB's shared lock after a duplicate INSERT and the upgrade by `FOR UPDATE` are modelled, so the deadlock of two repeats happens |
| `Inbox` | `inbox/` | like `Outbox`, without lease; a throw outside the try block of the loop is an unhandled rejection (`void this.processDueBatch()`), which ends the process |
| `CircuitBreaker`, `CircuitProofs` | `circuit-breaker.ts`, the proofs | an action is what runs between two awaits: admission, and answer with `finally` |
| `Sessions` | `auth/`, the account operations of `users/` | `rotateRefreshToken` is a transaction that locks the token's row and the account's row; everything else is statements that commit one by one; each answered token may be presented again at any time |
| `MapCache` | `maps.repository.ts`, `routes/`, `redis.service.ts` | every Redis command and every SQL statement is an action; a record is its version; `trail` is the part of the audit log about the owner |
| `Media` | `media.service.ts`, its storage and repository | the steps of a generation in the three storage modes; the S3 PUT with its retries under one object key |
| `RateLimit` | `rate-limit.guard.ts` | the EVAL and the local window; time in ticks, relative to now; `recent`, the set of requests of the last ticks, is kept for the property alone |
| `Migrations` | `run-migrations.ts`, `reset-database.ts` and the SQL files | a step per statement; three kinds of migration stand for the thirteen files |
| `Seed` | `seed-database.ts` | one action per INSERT and one per answer; ids are positions in the table, and a refused INSERT uses up its ids |
| `TransactionsLab` | `transactions-lab.repository.ts` | `session[c]` is what MySQL keeps for connection `c` between two users of it; row, gap and metadata locks |
| `Pages` | the paged queries and query objects | each page is one SELECT over a changing table; the extra row, the cursor and the offset as in the code |
| `Shutdown` | `main.ts`, the module hooks, `health/` | hooks, ticks, signals and probes between their awaits; the order in which Nest destroys modules is left open |
| `ServicesProofs` | proofs about `Sessions`, `MapCache`, `Media`, `RateLimit` and `MCServices` | a section for each |
| `DatabaseProofs` | proofs about `Migrations`, `TransactionsLab`, `Shutdown`, `Seed`, `Pages` and `MCDatabase` | a section for each |
| `MCServices` | `Sessions`, `MapCache`, `Media`, `RateLimit` | see below |
| `MCDatabase` | `Migrations`, `Seed`, `TransactionsLab`, `Pages`, `Shutdown` | see below |
| other `MC*` | values for TLC | |

`MCServices` and `MCDatabase` put components that share no variable into one
run. The variable `moving` names the one that moves, chosen in the initial state,
so each goes through exactly the behaviours it has alone, from all its initial
states; the others stay in one of theirs. `ServicesInv` and `DatabaseInv` are the
inductive invariants of the module that moves. That a run of the composition is a
run of each of its modules is proved (`ServicesAreTheirParts`,
`DatabaseIsItsParts`).

Each module ends with its properties, and after them, under a heading of its
own, the invariant that its proof needs: `IInv` (of `Outbox`, in `OutboxInv`),
or the name of the module with `Inv`. Its first conjunct is the type invariant.
TLC checks every one of them on the instance of the module's run before it is
used in a proof.

Definitions marked "Injected bug" are wrong variants of a definition. No
specification uses them; each is a plausible mistake in the code that the
property aimed at it detects when it replaces the correct one.

Abstractions. Event keys, orders and bodies are names. A lease token is a number
drawn from a counter instead of a UUID. `fencing_token` and `lease_owner` are
written and never read, so only `lease_token`, the effective fence, is
modelled; the same holds for `current_stage` and `last_error`. Retry delays are
reduced to "not yet due, then due". Metrics, logs and texts are left out; audit
entries are modelled where their content depends on a race (role and ownership).
One account, one map and one asset stand for all, because no statement ties two
of them together.

## 3. Runs

| Run | Question | Instance | Distinct states |
| --- | --- | --- | --- |
| `OutboxTakeover` | Do leases, reservations and the manual reset stay consistent when a lease runs out under a live worker, a process crashes and an admin resets a row? Are all steps allowed by the contract? | 2 workers, 2 events of one key, 2 attempts, one crash, overrun and reset | 1.3 million |
| `OutboxFaults` | How often can a completed handler be repeated when statements throw, and is anything dropped while nothing went wrong? | batches of 2, 2 attempts, 2 faults, 1 overrun, 1 graceful stop | 3.0 million |
| `OutboxLiveness` | Is every event settled? | 2 keys, one without handler, 1 crash, 1 fault, fairness | 238 399 |
| `OutboxAtLeastOnce` (violated) | docs/outbox.md:8, "at least once" | 1 crash | |
| `OrderSagaDelivery` | Do saga and clients on one order keep its history, is a compensation taken back, and does every delivery end? | 2 clients, 1 attempt, 1 manual reset, 1 fault (a throw, a crash or a lease overrun), fairness | 596 389 |
| `OrderSagaLegality` (violated) | docs/domain-events-saga.md:54, a completed order never changes | 2 clients, 2 attempts | |
| `OrderCreationRaces` | Is a key used for one order only, and is every request answered truthfully? | two repeats, one reuse with another body, one without key; 2 faults; 3 tries; fairness | 110 646 |
| `InboxWorkers` | Who may handle an event, how often, and what becomes of abandoned rows? | 2 workers, 2 events, batches of 2, 2 attempts, 1 crash, 1 fault, fairness | 14 040 |
| `CircuitRecovery` | Is the probe lock sound, and does the circuit recover? | 3 callers, threshold 2, 5 failures, fairness | 6 282 |
| `Services` | Sessions: one live token per family, true roles, no session for a deleted account? Cache: is every stale entry accounted for, every change of the owner audited? Media: do object, row and event part only by failures? Rate limit: how many requests pass? | 4 requests, 1 expiry, 1 fault; 3 calls, 2 route keys, 1 mishap; 3 generations, 2 attempts of a PUT, 3 failures; 2 instances, limit 2, window of 3 ticks, 2 outages | 982 748 |
| `Database` | Migrations: recorded once and whole, over a known history only? Seed: its own rows only? Lab: true and stuck only in known ways? Pages: exact? Shutdown: orderly? | 2 runners, 1 crash; 2 seeds of 3 rows in batches of 2, 1 other insert per table; 2 requests on 4 connections, 1 failure; 3 orders in 2 milliseconds, pages of 1; shutdown of 3 ticks, outbox wait of 2, both signals, 1 probe | 1 347 999 |
| `MigrationsReset` (violated) | docs/seed.md:69-71, db:reset drops the application's tables and runs the migrations | 1 runner | |

What the violated runs show.

- `OutboxAtLeastOnce`: a process that dies inside a handler leaves its key in
  `processing`. The next claim finds the key, takes it for handled and
  acknowledges the event although no handler run ever completed. Delivery is at
  most once in that case, and nothing resets the key.
- `OrderSagaLegality`: `compensate` fails an order of any status but failed and
  cancelled, also one that a client completed while the stage ran.
- `MigrationsReset`: the reset drops the tables of a list kept by hand.
  `refresh_tokens` is not on it, `schema_migrations` is, and migration 011 then
  meets its own table and fails.

What the passing runs show beside their properties, where a document says
otherwise or a reader may not expect it.

- Outbox: an event that a crash leaves in `processing` does come back.
  docs/outbox.md:231-232 says that it is not returned automatically and needs a
  lease recovery job; the code's claim takes rows whose lease ran out
  (`outbox/repositories/outbox.repository.ts:493-498`), and `EventuallySettled`
  of `OutboxLiveness` holds with a crash at any place. What comes back is the row
  and not the handler: see `OutboxAtLeastOnce`.
- Order saga: an event may be settled with the saga's compensation in force, or
  before it arrives. A worker that finds the handler key acknowledges the event,
  whether the handler completed, still runs or is gone
  (`outbox/services/outbox.service.ts:73-75`). `CompensationUndone` says that this
  happens only at a key that no handler has completed, for three reasons: the
  reservation was left behind, the row was claimed again because the lease ran out
  under the running handler, or the row was reset by hand under it. TLC reaches
  each of the three.

- Circuit breaker: `onSuccess` and `onFailure` look at the state of the circuit
  and not at who calls, so the late success of a call from before the outage
  closes a half-open circuit while the probe is unanswered
  (docs/circuit-breaker-timeout.md:18 knows "probe success" only). `ProbeLock`
  holds all the same.
- `putS3Object` throws a plain `Error`, so a refused upload (4xx) is retried and
  counted as an outage (docs/circuit-breaker-timeout.md:139 says otherwise).
- A search or map answer can be stale until its TTL: a fill that read before a
  write stores after the write's DEL. docs/redis-cache-rate-limit.md:14 rules
  this out; `StaleExplained` names all its causes. Creating a map drops no
  `routes:` key, so that an answer from before it stays; restoring one drops
  none either, but route queries do not look at `deleted_at`.
- The plain lists are ordered by `created_at` alone: rows of one millisecond may
  change places between two pages. `OffsetExact` excludes that case.
- Two admins who change one role at the same time may both record the same
  previous role in the audit log; each of them was in force (`RoleWasInForce`).
- A rejected inbox batch is an unhandled rejection also during shutdown, and the
  inbox worker waits as long as the whole shutdown may last, so the process may
  leave at the timeout with the pool still open. A second signal of the same
  kind finds no listener and kills at once. These are the surprises and timeouts
  of `ExitExplained`.
- A run of `db:seed` that breaks off leaves rows that no later run completes: its
  first e-mail is taken.
- `UnitOfWork.run` awaits `rollback()` in its catch block, so an error of the
  rollback does hide the original one (`database/unit-of-work.ts:21` says it does
  not). It is used by the transaction boundary example alone and is not modelled.

Bounds. Two workers suffice for every race over a row, because each statement
touches the row of one claim and a third worker can only repeat what the second
did; the proofs do not depend on it. Two events make batches, duplicates and
the order of the claim possible. Two attempts distinguish the first failure, a
retry and the last; in `OrderSagaDelivery` the manual reset takes the place of the
retry, which looks the same from the saga. `Budget`, `Faults`, `Crashes`,
`Requeues`, `Failures`, `Mishaps`, `Outages`, `Expiries` and `LabFaults` bound
mishaps that are unlimited in reality; each run allows at least one of each kind
it is about at every possible place. In `CircuitRecovery` five failures open the
circuit, fail a probe and leave late failures for any state. Four requests are a
login, a rotation, a repeat of its token and a change of the account; three
calls on a map are a reader and two writers, or two readers beside a writer. A
rate limit of 2 in 3 ticks lets two windows adjoin, which is where the most
requests pass. Four connections are two for each of two lab requests, so the
third that a refill takes can be missing. The pool may be configured down to one
connection (`database/config/database-env.schema.ts:15`); below three a single
request of the lab waits for itself, and `StuckOnlyTogether` excepts that. Three orders with pages of one make a
middle page with something before and after it; two milliseconds give them both
a tie, at either end, and a strict order, and a third would only separate rows
that are separate already. Three
rows in batches of two make a full and a short batch.

Deadlock is checked in `CircuitRecovery` and `Services`, where a step is always
possible; in `Services` the end of all map calls repeats itself. The other
models may end: all events settled, all requests answered, the process gone.

Fairness. Timers tick, SQL statements return or throw (the driver reports a lost
connection), time passes, and the deployment restarts dead instances: weak
fairness of each worker's own steps and of the clock. Nothing is assumed about
clients, admins, crashes and faults. In `OrderSaga` and `OrderCreation` the
server breaks deadlocks and releases locks. `OrderSaga` has weak fairness of the
handler's statements (`Handle`), of those that follow it (`Finish`), of the claim of
a row that nobody holds (`Claim`), of the worker with the current token on its way
to the key (`Visit("current")`) and of clients that hold the order's lock. In `CircuitBreaker` requests keep
coming, operations obey their abort signal (fetch does), and a provider that is
up does not refuse every call: strong fairness of `Succeed`. The inbox claims
without a lease, so a crash or a failed statement may leave rows in `processing` for
good: `EventuallySettled` promises every other event, and `AbandonedFew`, a part of
`IInv`, bounds those by one batch for each crash or failed statement. The modules of `Services` and `Database` state no liveness: their requests
are short, and where a request may wait for ever (the lab) `StuckTogether` says
for whom, as an invariant: `Ready(q)` names what a request waits for, TLC checks
that it is exactly `ENABLED LabStep(q)`, and `StuckOnlyTogether` speaks of `Ready`.

## 4. Proofs

Every theorem holds for all values of the constants that satisfy the named
assumption of its module (`OutboxAssumption`, `SagaAssumption`, `SeedAssumption`
and so on), and nothing else is assumed. The assumptions say that counts and
limits are natural numbers, positive where the code's configuration is, that
the names of states are not names of processes, and, where a set is counted,
that it is finite. For the safety properties the argument is the same
everywhere: the inductive invariant holds in the initial states (`Init...`), one
lemma per action shows that the action preserves it (`...Step`), a lemma joins
them over the disjuncts of `Next` (`...Steps`), and a theorem of one temporal
step concludes. What follows says for each module what had to be added to the
properties to make them inductive, and why.

### Outbox

`OutboxProofs` proves, for every set of workers, events and keys, every batch
size, attempt limit and budget, from `OutboxAssumption` alone:

- `Typing`, `Invariance`: `TypeOK` and the inductive invariant `IInv`;
- `Exclusion`: no two workers execute the handler of one key (`HandlerExclusive`);
- `BoundedRepetition`: a completed handler is repeated at most once per failed
  statement (`RepeatsNeedFaults`);
- `Accounting`: a row is given up at exactly `MaxAttempts` failures
  (`AttemptsAccounting`);
- `NoTheft`, `Fencing`: a running lease is not taken, and only its holder settles
  a row (`LiveLeaseNotStolen`, `OnlyHolderSettles`).

None of these is inductive alone. `IInv` adds where workers stand and what they
hold (`WorkerShape`), that tokens are drawn once (`TokensUnique`), that the
lease columns are set exactly in `processing` (`LeaseColumns`), that an open
claim owns its rows (`ClaimOwnsRows`), that a worker whose token is still on
the row has a current copy of `attempts` (`SnapshotCurrent`: without it a stale
worker could write any number), that a running handler has its key in the ledger
(`ReservationHeld`), and where a completion may already have happened
(`RepeatsAccounted`). The proof has one lemma per action, each over the parts
the action can disturb.

`OutboxContractProofs` continues with

- `ContractHolds`: every step of publishers, admin, clock and mishaps is a step
  of `OutboxContract` on the mapped variables, or leaves them alone
  (`ImplementsContract`). The contract has no workers: a handler that runs is a
  key in `Running`, and `RunningEnds` (no two workers at one key) is what makes
  the end of one handler the end of that key's;
- `PromisesKept`: what follows from the contract alone (`Promises` of
  `OutboxContract`), and with `ContractHolds` for the publishers: given up at
  exactly `MaxAttempts` failures, acknowledged only with the key reserved, no
  handler for a closed key. `ContractKeepsPromises` uses no step of `Outbox`;
- `NothingDropped`: as long as no mishap but a graceful stop happened, an
  acknowledged event had its handler completed, or another event of its key is
  still there to run it (`NotDroppedWithoutMishap`). The proof has an invariant of
  its own, `SteadyInv`, over the states without a mishap: leases last as long as
  their workers hold them (`LeasesLast`), so a worker that finds its key reserved
  or closed finds the reservation or the success of another worker that is still
  there.

### Order saga

`OrderSagaProofs` proves, for every set of clients, attempt limit and number of
faults and requeues, from `SagaAssumption` alone:

- `InvariantHolds`, `TypeCorrect`: the inductive invariant `IInv` and the types;
- `HistoryComplete`: the `order.status_changed` events tell the history of the
  order without gap (`EventChain`);
- `NoUpdateLost`: an accepted optimistic update acts on the row its client read
  (`NoLostUpdate`);
- `NoStageRepeated`, `CompletionSound`: a recorded stage is never generated
  again, and a completed saga has both (`StageNotRepeated`,
  `CompletedMeansDone`);
- `NeverFailedInside`, `CompensationsUndone`: the handler does not work for a
  failed saga, and an event that is settled leaves no compensation of the saga in
  force, unless it was acknowledged at a key that no handler completed, which takes
  a reservation left behind, a lease overrun or a reset under the running handler
  (`NotFailedInside`, `CompensationUndone`);
- `DeliveryAllowed`: the delivery of `OrderSaga` (claim, reserve or acknowledge
  unrun, close, settle, release, count the failure, overrun, die, reset) is one that
  `OutboxContract` allows, for one event with a key of its own
  (`DeliveredByContract`). Together with `ContractHolds` this makes the contract the
  one statement on which transport and saga agree. The mapping reads the status off
  `outbox` and `attempts`, reserved and closed off `key`, and running off `pc`;
  `AsClaim` to `AsReopen` give each kind of step its step of the contract, and
  `DeliveryByContract` joins them. The opposite, that the saga meets every delivery
  the contract allows, is not claimed.

`EventChain` needs that the owner of the row lock knows the order as it is
(`LockHeld`); `NoLostUpdate` needs that every row a client ever saw is the
current one or has a smaller version (`SeenIsPast`), so that equal versions mean
equal rows; the stages need where the handler stands (`StagesFollow`); and
`CompensationUndone` needs that a failed order beside a saga that is not failed
was failed by a client (`SagaFailureMarked`), that a saga whose key is processed is
not failed, and that, while nothing came apart, a reserved key has its handler, the
handler has the token of the row, and a processed event has a processed key
(`KeyFollows`, `TokenHeld`, `LooseExplains`). Order and handler are two
parts with a preservation lemma each, because clients disturb only the first;
`ChangeExtends` carries the history over one change for clients and saga alike.

### Order creation

`OrderCreationProofs` (`Invariance`) proves for every set of requests and keys

- `IdempotentCreation`: the requests of one key create at most one order
  (`OneOrderPerKey`);
- `TrueAnswers`: every answer is justified by the tables (`AnswersJustified`).

Both rest on the locks of InnoDB. `LocksFollow` says who holds which: the
transaction that inserts the row of a key holds it alone until it ends, and who
found the row holds it shared. `KeysNameOrders` connects the key to its order:
without a committed key there is no order of it. `DraftsFresh` keeps the ids of
open transactions apart, so that the order and its event appear together
(`EventPerOrder`).

### Inbox

`InboxProofs` (`InboxInvariance`) proves for every set of workers and events

- `CallsBounded`: a handler is called at most `MaxAttempts` times, and a message is
  given up only after all of them (`BoundedCalls`);
- `RepeatsPaid`: a completed handler is repeated only after a failed statement
  (`RepeatsNeedFaults`);
- `AbandonedBounded`: the rows in `processing` that no worker will settle are at most
  a batch for each crash and each failed statement (`AbandonedFew`).

There is no lease, so that the argument is about who may still act on a row:
`ClaimsHold` (uncommitted claims do not overlap), `OwnersHold` (an owner's copy of
`attempts` is the current one, and the call it has not made is counted
already), and `CompletionsPaid` (where a handler may run once more, each of its
completions has a failed statement).

### Circuit breaker

`CircuitProofs` proves for every set of callers and every threshold that the
probe lock is held exactly while one call is the probe (`OneProbe`), that a
closed circuit has failures left (`SpareFailures`), and the types
(`CircuitTyping`), from `CircuitInvariance`. The point of the argument is
`LockReleased`: whatever call ends, in whatever state, frees the lock exactly if
it is the one that took it.

### Sessions, maps, media, rate limit

`ServicesProofs` proves for every number of requests

- `SessionsInvariance`, `OneSessionPerLogin`, `RolesInForce`, `DeletedStayOut`
  (`OneLiveToken`, `RoleWasInForce`, `DeletedNotRefreshed`). The row locks of the
  rotation exclude each other (`LocksExclusive`), hence what it read under them is
  true when it writes (`DecisionCurrent`): this is what keeps two rotations
  of one token from both succeeding. `Sound` is `OneLiveToken` without counting:
  two live tokens of a family are one, and a family that is not shut has one;
- `MapCacheInvariance`, `StaleForAReason`, `OwnersAudited` (`StaleExplained`,
  `OwnershipAudited`). For the audit, `Undisturbed` says that a writer nobody
  disturbs has in `before` the version in front of its own write although it read
  it through the cache, and that the log is complete but for the change of a
  writer that is about to record it (`Settled`);
- `MediaInvariance`, `StoredRecordedAnnounced` (`MediaConsistent`): `Staged` ties
  the place of a generation to its object and its row, and the orphans are counted
  by the failures that made them;
- `RateLimitInvariance`, `LimitIsKept` (`LimitKept`): at most `2 * Limit - 1`
  requests pass in any length of a window. `WindowKept` divides the requests that
  are remembered into those of the window that is open, at most `Limit` with the
  one that opened it, and what is left of the window before, which lacks its
  first and so is fewer than `Limit`.

For the composition, `ServicesAreTheirParts` and `ServicesInvariance`
(`ServicesInv`): a step of it is a step of each module or leaves its variables
alone, so the modules' theorems carry over.

### Migrations, lab, shutdown, seed, pages

`DatabaseProofs` proves for every set of runners, requests, connections and
probes, every number of orders and every page limit

- `MigrationsInvariance`, `MigrationsApplyOnce`, `HistoryKnown` (`AppliedOnce`,
  `NoForeignHistory`): whoever is between `GET_LOCK` and `RELEASE_LOCK` is alone
  there (`LockKept`), has counted every recorded version, and what it executed of
  the next one is in the schema (`Progress`); before a crash or a reset the schema
  holds nothing else (`Untorn`), hence SQL cannot fail;
- `LabInvariance`, `RepeatableReads` (`RepeatableStable`): a request has its
  connections for itself (`Holding`), and the reader among them has the level
  that the request set, whatever level an earlier user left behind (`Reading`);
- `NothingLost`, `NoneWaitsAlone` (`LabKept`, `StuckOnlyTogether`), whatever fails:
  the connections are those of the pool and those of the requests, failed ones
  included (`Leaked`), and each is clean unless its own request has a transaction
  open on it (`InTx`, `Clean`) or a failure left one there (`LeftOpen`); leaked and
  left open together are at most as many as the failures (`LostFew`). A branch of
  the deadlock scenario begins on clean connections and holds no lock but its own
  until both cross (`Locking`). So whatever a request waits for, a connection, the
  table or a row, another request has or a failure lost, and one that is alone goes
  on while three connections are left and no transaction was left open. That the
  pool has three at all is not assumed, because the configuration does not say so;
- `ShutdownInvariance`, `ShutdownIsOrderly` (`ShutdownOrderly`): the flags of a
  worker follow its place among the hooks, and it waited no longer than the
  shutdown lasts (`WorkerKept`);
- `SeedInvariance`, `SeedIsExact` (`SeedExact`): the number of rows and of noted ids
  of a run is a function of its place (`Put`, `Noted`), so that a failed run holds
  its rows up to a batch; the ids of a batch are new because those noted before
  are ids of rows that were there (`AnswerHolds`); and the first row of the run
  that inserts anything has the e-mail on which every other run's first INSERT
  fails;
- `PagesInvariance`, `PagesAreExact` (`PagesExact`). What a walk returned is in
  descending order, and the place it goes on from separates what was returned from
  what is owed: of the rows that were visible all the time, those not returned
  lie after the cursor (`CursorWalk`), whatever is inserted, shown and hidden
  meanwhile; and of an undisturbed offset walk what was returned are the newest
  rows, as many as the offset (`OffsetWalk`). The server's order is a set of
  sequences given by a condition on pairs (`Sorted`, `Sortings`), not a recursive
  sort, and what a page takes from one follows from the condition and the
  cardinality of the set;
- `DatabaseIsItsParts`, `DatabaseInvariance` (`DatabaseInv`) for the composition, as
  for the services.

### Only model-checked

- Liveness under fairness (`EventuallySettled` of outbox and inbox,
  `EveryDeliveryEnds`, `AllAnswered`, `Recovers`), beyond the prover.
- The second half of `StuckTogether` of the lab, that `Ready` is what enables a
  step: `ENABLED`. Its first half is `NoneWaitsAlone`.

What a module fixes stays fixed in its theorems: the three kinds of migration
that stand for the thirteen files, the four tables of the seed. Nothing in the
modules is recursive.

## 5. Not modelled

Aggregating reports, health figures and metrics (single read-only statements),
construction of payloads, keys and signatures, validation of DTOs, password
hashing, generation of SVG and QR images, the search for a path in a graph that
was read, OpenAPI, security headers, ownership checks, performance scripts,
deployment files and load tests. They decide nothing about the state above, or
do so within one statement. Updating a user's name is one such statement. A
user or map that disappears between the check and the order is covered only in
so far as the check may answer either way. The order of the shutdown hooks that
docs/health-shutdown.md describes is Nest's, and `Shutdown` allows any. Two writers
of one map at the same time, or a stale copy in the cache, can hide a change of the
owner from the audit log: `OwnershipAudited` speaks of calls one after another. The
transport of `Outbox` and the delivery of `OrderSaga` are two models of one
protocol: the second has one event, no batches, and counts the workers that lost
their lease instead of naming them. Both implement `OutboxContract`.

## 6. Plan

1. A composition of outbox and saga, in which each delivery of `OrderSaga` is made
   by the steps of `Outbox`: the contract bounds both, but whether the saga meets
   every delivery of the transport takes the two in one state.
2. The two hazards without a property: the key without the event's id, and the map
   deleted between check and order.
