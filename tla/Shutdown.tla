------------------------------- MODULE Shutdown -------------------------------
(***************************************************************************)
(* One process from its start to its exit: the hooks Nest calls when       *)
(* modules are initialized and destroyed, the ticks of the two polling     *)
(* workers, the signals main.ts listens to, and readiness probes.          *)
(*                                                                         *)
(* In which order app.close() closes the HTTP server, the workers and the  *)
(* connection pool is Nest's affair: here any order, one part at a time.   *)
(* A batch and a statement last as long as they like.  Timers are punctual *)
(* to a tick.                                                              *)
(***************************************************************************)
EXTENDS Integers, FiniteSets

CONSTANTS
  TotalTimeout,   \* GRACEFUL_SHUTDOWN_TIMEOUT_MS, in ticks
  OutboxTimeout,  \* OUTBOX_SHUTDOWN_TIMEOUT_MS, in ticks
  Probe           \* GET /health/ready requests

ASSUME ShutdownAssumption == {TotalTimeout, OutboxTimeout} \subseteq Nat \ {0}

VARIABLES
  app,        \* the process: phase, listeners, and ticks since the first signal
  worker,     \* worker[w]: its timer, shuttingDown, running; ticks its hook waits
  part,       \* part[x]: is the part x up, closing or closed?
  probe,      \* probe[p]: which checks of checkReadiness p has passed
  surprise    \* history: a failed start, a signal without listener, a rejected batch

shutdownVars == <<app, worker, part, probe, surprise>>

Worker == {"outbox", "inbox"}
Part   == Worker \union {"http", "pool"}
Signal == {"SIGTERM", "SIGINT"}

\* The inbox worker waits as long as the whole shutdown may last.
WaitLimit(w) == IF w = "outbox" THEN OutboxTimeout ELSE TotalTimeout

ShutdownTypeOK ==
  /\ app \in [phase : {"starting", "serving", "closing", "exited"},
              listeners : SUBSET Signal, since : 0 .. TotalTimeout]
  /\ worker \in [Worker -> [timer : BOOLEAN, stopping : BOOLEAN,
                            running : BOOLEAN, waited : 0 .. TotalTimeout]]
  /\ part \in [Part -> {"down", "up", "closing", "closed"}]
  /\ probe \in [Probe -> [pc : {"new", "sql", "storage", "worker", "ok", "failed"},
                          open : BOOLEAN]]
  /\ surprise \in BOOLEAN

ShutdownInit ==
  /\ app = [phase |-> "starting", listeners |-> {}, since |-> 0]
  /\ worker = [w \in Worker |-> [timer |-> FALSE, stopping |-> FALSE,
                                 running |-> FALSE, waited |-> 0]]
  /\ part = [x \in Part |-> "down"]
  /\ probe = [p \in Probe |-> [pc |-> "new", open |-> FALSE]]
  /\ surprise = FALSE

Alive == app.phase # "exited"

-----------------------------------------------------------------------------
(* Start.                                                                   *)

Exited == app' = [app EXCEPT !.phase = "exited"]

\* DatabaseService.onModuleInit: SELECT 1, or the start fails.
InitPool ==
  /\ app.phase = "starting" /\ part["pool"] = "down"
  /\ \/ part' = [part EXCEPT !["pool"] = "up"] /\ UNCHANGED <<app, surprise>>
     \/ Exited /\ surprise' = TRUE /\ UNCHANGED part
  /\ UNCHANGED <<worker, probe>>

\* onModuleInit of a worker: the timer, and a first tick at once.
InitWorker(w) ==
  /\ app.phase = "starting" /\ part[w] = "down"
  /\ part' = [part EXCEPT ![w] = "up"]
  /\ worker' = [worker EXCEPT ![w].timer = TRUE, ![w].running = TRUE]
  /\ UNCHANGED <<app, probe, surprise>>

\* app.listen, and then registerGracefulShutdown.
Listen ==
  /\ app.phase = "starting" /\ \A x \in Part \ {"http"} : part[x] = "up"
  /\ part' = [part EXCEPT !["http"] = "up"]
  /\ app' = [app EXCEPT !.phase = "serving", !.listeners = Signal]
  /\ UNCHANGED <<worker, probe, surprise>>

-----------------------------------------------------------------------------
(* Work.                                                                    *)

StartBatch(w) ==
  /\ Alive /\ worker[w].timer /\ ~worker[w].stopping /\ ~worker[w].running
  /\ worker' = [worker EXCEPT ![w].running = TRUE]
  /\ UNCHANGED <<app, part, probe, surprise>>

\* The finally block of processDueBatch.
BatchEnds(w) ==
  /\ Alive /\ worker[w].running
  /\ worker' = [worker EXCEPT ![w].running = FALSE]
  /\ UNCHANGED <<app, part, probe, surprise>>

\* Only the outbox worker catches: a rejected inbox batch, say on an ended pool,
\* is an unhandled rejection.
InboxRejects ==
  /\ Alive /\ worker["inbox"].running
  /\ Exited /\ surprise' = TRUE
  /\ UNCHANGED <<worker, part, probe>>

IsHealthy == ~worker["outbox"].stopping /\ worker["outbox"].timer

\* The pool takes the SELECT 1 at once, unless end() was called.
Ask(p) ==
  /\ Alive /\ part["http"] = "up" /\ probe[p].pc = "new"
  /\ probe' = [probe EXCEPT ![p] =
       [pc |-> IF part["pool"] = "up" THEN "sql" ELSE "failed", open |-> IsHealthy]]
  /\ UNCHANGED <<app, worker, part, surprise>>

Checked(p, from, passed, to) ==
  /\ Alive /\ probe[p].pc = from
  /\ probe' = [probe EXCEPT ![p].pc = IF passed THEN to ELSE "failed"]
  /\ UNCHANGED <<app, worker, part, surprise>>

\* pool.end() lets a statement that has begun come to its end.
CheckSql(p) ==
  \E reached \in BOOLEAN :
    Checked(p, "sql", reached /\ part["pool"] # "closed", "storage")

CheckStorage(p) == \E there \in BOOLEAN : Checked(p, "storage", there, "worker")

\* Injected bug: the readiness does not ask the worker.
CheckWorkerSkipped(p) == Checked(p, "worker", TRUE, "ok")

\* isHealthy, and then the PING.
CheckWorker(p) ==
  \E ping \in BOOLEAN : Checked(p, "worker", IsHealthy /\ ping, "ok")

-----------------------------------------------------------------------------
(* Shutdown.                                                                *)

\* process.once: the first signal of a kind.  Before the listeners are there,
\* and when the one of this kind is used up, the process ends at once.
Receive(s) ==
  /\ Alive
  /\ IF s \in app.listeners
       THEN /\ app' = [app EXCEPT !.listeners = @ \ {s}, !.phase = "closing"]
            /\ UNCHANGED surprise
       ELSE Exited /\ surprise' = TRUE
  /\ UNCHANGED <<worker, part, probe>>

\* app.close() goes on to the next part.
Close(x) ==
  /\ app.phase = "closing" /\ part[x] = "up"
  /\ \A y \in Part : part[y] # "closing"
  /\ part' = [part EXCEPT ![x] = "closing"]
  /\ worker' = [w \in Worker |->
       IF w = x THEN [worker[w] EXCEPT !.timer = FALSE, !.stopping = TRUE] ELSE worker[w]]
  /\ UNCHANGED <<app, probe, surprise>>

Closed(x) ==
  /\ app.phase = "closing" /\ part[x] = "closing"
  /\ part' = [part EXCEPT ![x] = "closed"]
  /\ UNCHANGED <<app, worker, probe, surprise>>

\* Injected bug: the hook does not await waitUntilIdle.
StoppedWithoutWait(w) == Closed(w)

\* waitUntilIdle, and the loop in InboxWorker.onModuleDestroy.
Stopped(w) ==
  /\ worker[w].running => worker[w].waited = WaitLimit(w)
  /\ Closed(w)

\* pool.end() has closed the connections; the HTTP server has no request left.
PoolEnded  == Closed("pool")
HttpClosed == (\A p \in Probe : probe[p].pc \in {"new", "ok", "failed"}) /\ Closed("http")

\* process.exit(0) after Promise.race([app.close(), timeout]).
Exit ==
  /\ app.phase = "closing"
  /\ app.since = TotalTimeout \/ \A x \in Part : part[x] = "closed"
  /\ Exited
  /\ UNCHANGED <<worker, part, probe, surprise>>

Elapse ==
  /\ app.phase = "closing" /\ app.since < TotalTimeout
  /\ \A w \in Worker : part[w] = "closing" => worker[w].waited < WaitLimit(w)
  /\ app' = [app EXCEPT !.since = @ + 1]
  /\ worker' = [w \in Worker |->
       IF part[w] = "closing" THEN [worker[w] EXCEPT !.waited = @ + 1] ELSE worker[w]]
  /\ UNCHANGED <<part, probe, surprise>>

ShutdownNext ==
  \/ InitPool \/ Listen \/ PoolEnded \/ HttpClosed \/ Exit \/ Elapse
  \/ InboxRejects
  \/ \E w \in Worker : InitWorker(w) \/ StartBatch(w) \/ BatchEnds(w) \/ Stopped(w)
  \/ \E p \in Probe : Ask(p) \/ CheckSql(p) \/ CheckStorage(p) \/ CheckWorker(p)
  \/ \E s \in Signal : Receive(s)
  \/ \E x \in Part : Close(x)

ShutdownSpec == ShutdownInit /\ [][ShutdownNext]_shutdownVars

-----------------------------------------------------------------------------
(* Properties.                                                              *)

\* A process that met none of the surprises leaves only with everything closed
\* or after the whole timeout; and a worker that counts as closed is idle, unless
\* its batch outlasted the wait: no tick follows its hook.
ExitExplained ==
  /\ ~Alive /\ ~surprise =>
       app.since = TotalTimeout \/ \A x \in Part : part[x] = "closed"
  /\ \A w \in Worker : part[w] = "closed" /\ worker[w].running =>
       worker[w].waited = WaitLimit(w)

\* A readiness probe that arrived after the outbox worker was told to stop is not
\* answered ok, however the destruction of the other modules went.
ReadyMeansOpen == \A p \in Probe : probe[p].pc = "ok" => probe[p].open

ShutdownOrderly == ExitExplained /\ ReadyMeansOpen

-----------------------------------------------------------------------------
(* The inductive invariant.  TLC checks it on a small instance,             *)
(* DatabaseProofs proves it for every one.                                  *)

\* A worker's flags are those of its part, it has not waited longer than the
\* shutdown lasts, and it is closed idle or late.
WorkerKept(w) ==
  /\ part[w] = "down" => ~worker[w].running
  /\ worker[w].timer    <=> part[w] = "up"
  /\ worker[w].stopping <=> part[w] \in {"closing", "closed"}
  /\ worker[w].waited <= WaitLimit(w) /\ worker[w].waited <= app.since
  /\ part[w] = "closed" /\ worker[w].running => worker[w].waited = WaitLimit(w)

\* A probe came when all was up, and one that found the worker closing finds it
\* closing ever after.
ProbeKept(p) ==
  probe[p].pc # "new" =>
    /\ part["http"] # "down"
    /\ ~probe[p].open => ~IsHealthy

ShutdownInv ==
  /\ ShutdownTypeOK
  /\ part["http"] # "down" => \A x \in Part : part[x] # "down"
  /\ \A w \in Worker : WorkerKept(w)
  /\ \A p \in Probe : ProbeKept(p) /\ (probe[p].pc = "ok" => probe[p].open)
  /\ ~Alive /\ ~surprise =>
       app.since = TotalTimeout \/ \A x \in Part : part[x] = "closed"
=============================================================================
