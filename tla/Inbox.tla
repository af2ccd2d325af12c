------------------------------- MODULE Inbox --------------------------------
(***************************************************************************)
(* The inbox: events received over HTTP, any number of times, and the      *)
(* InboxWorker of every backend instance that claims due rows, runs the    *)
(* handler of their type and records the outcome.  A claim has no lease:   *)
(* a row in processing belongs to its worker for ever.                     *)
(*                                                                         *)
(* One action per SQL statement.  A statement that throws outside the try  *)
(* of the loop leaves processDueBatch as an unhandled rejection, which     *)
(* ends the process.                                                       *)
(***************************************************************************)
EXTENDS Integers, FiniteSets

CONSTANTS
  Worker,       \* backend instances
  Event,        \* event ids of the senders
  ReceivedAt,   \* ReceivedAt[e]: created_at, the order of the claim
  NoEvent,      \* a worker between two events
  BatchSize,    \* INBOX_BATCH_SIZE
  MaxAttempts,  \* INBOX_MAX_ATTEMPTS
  Crashes,      \* bound: processes that die by themselves
  Faults        \* bound: SQL statements that throw

ASSUME InboxAssumption ==
  /\ IsFiniteSet(Event)
  /\ NoEvent \notin Event
  /\ ReceivedAt \in [Event -> Nat]
  /\ BatchSize \in Nat \ {0}
  /\ MaxAttempts \in Nat \ {0}
  /\ Crashes \in Nat
  /\ Faults \in Nat

VARIABLES
  inbox,     \* inbox[e]: the row of event e
  pc,        \* pc[w]: the await worker w is at
  todo,      \* todo[w]: events of its batch not settled yet
  cur,       \* cur[w]: the event it handles
  seen,      \* seen[w][e]: attempts in the record the claim returned
  crashes,   \* crashes so far
  faults,    \* throws so far
  started,   \* history: how often the handler was called for an event
  completed  \* history: how often it returned

local == <<todo, cur, seen>>
vars  == <<inbox, pc, todo, cur, seen, crashes, faults, started, completed>>

\* The columns; next_retry_at is kept as its comparison with the clock.
Row == [status : {"absent", "received", "processing", "processed", "failed",
                  "dead_letter"},
        attempts : 0 .. MaxAttempts,
        nextRetry : {"null", "future", "past"}]

Absent   == [status |-> "absent", attempts |-> 0, nextRetry |-> "null"]
Received == [Absent EXCEPT !.status = "received"]

PC == {"down", "idle", "claiming", "loop", "handle", "mark", "fail"}

TypeOK ==
  /\ inbox \in [Event -> Row]
  /\ pc \in [Worker -> PC]
  /\ todo \in [Worker -> SUBSET Event]
  /\ cur \in [Worker -> Event \cup {NoEvent}]
  /\ seen \in [Worker -> [Event -> 0 .. MaxAttempts]]
  /\ crashes \in 0 .. Crashes
  /\ faults \in 0 .. Faults
  /\ started \in [Event -> Nat]
  /\ completed \in [Event -> Nat]

Init ==
  /\ inbox = [e \in Event |-> Absent]
  /\ pc = [w \in Worker |-> "idle"]
  /\ todo = [w \in Worker |-> {}]
  /\ cur = [w \in Worker |-> NoEvent]
  /\ seen = [w \in Worker |-> [e \in Event |-> 0]]
  /\ crashes = 0
  /\ faults = 0
  /\ started = [e \in Event |-> 0]
  /\ completed = [e \in Event |-> 0]

-----------------------------------------------------------------------------
(* Receiving.                                                              *)

\* Injected bug: a repeated delivery overwrites the row (REPLACE INTO).
InsertOrReplace(row) == Received

\* INSERT IGNORE INTO inbox_events.
InsertIgnore(row) == IF row.status = "absent" THEN Received ELSE row

\* POST /inbox/events, again and again for one event id.
Receive(e) ==
  /\ inbox' = [inbox EXCEPT ![e] = InsertIgnore(@)]
  /\ UNCHANGED <<pc, local, crashes, faults, started, completed>>

-----------------------------------------------------------------------------
(* The worker.                                                             *)

Goto(w, to) == pc' = [pc EXCEPT ![w] = to]

Forget(w) ==
  /\ todo' = [todo EXCEPT ![w] = {}]
  /\ cur' = [cur EXCEPT ![w] = NoEvent]
  /\ seen' = [seen EXCEPT ![w] = [e \in Event |-> 0]]

Locked == UNION {todo[w] : w \in {v \in Worker : pc[v] = "claiming"}}

\* Injected bug: failed rows are not selected again.
DueOnce(e) == inbox[e].status = "received"

\* The WHERE clause of selectDue.
Due(e) ==
  \/ inbox[e].status = "received"
  \/ inbox[e].status = "failed" /\ inbox[e].nextRetry = "past"

\* Injected bug: SELECT without FOR UPDATE SKIP LOCKED.
ClaimableUnlocked == {e \in Event : Due(e)}

Claimable == {e \in Event : Due(e)} \ Locked

\* ORDER BY created_at LIMIT BatchSize.
Oldest(S) ==
  {B \in SUBSET S :
     /\ IF Cardinality(S) <= BatchSize THEN B = S
                                       ELSE Cardinality(B) = BatchSize
     /\ \A x \in B, y \in S \ B : ReceivedAt[x] <= ReceivedAt[y]}

SelectDue(w) ==
  /\ pc[w] = "idle"
  /\ Claimable # {}
  /\ \E batch \in Oldest(Claimable) :
       /\ todo' = [todo EXCEPT ![w] = batch]
       /\ seen' = [seen EXCEPT ![w] = [e \in Event |->
                     IF e \in batch THEN inbox[e].attempts + 1 ELSE 0]]
  /\ Goto(w, "claiming")
  /\ UNCHANGED <<inbox, cur, crashes, faults, started, completed>>

\* Injected bug: attempts are counted by the failure, not by the claim.
ClaimUncounted(row) == [row EXCEPT !.status = "processing"]

\* The UPDATE of claimDueEvents.
Claimed(row) == [row EXCEPT !.status = "processing", !.attempts = @ + 1]

CommitClaim(w) ==
  /\ pc[w] = "claiming"
  /\ inbox' = [e \in Event |->
                 IF e \in todo[w] THEN Claimed(inbox[e]) ELSE inbox[e]]
  /\ Goto(w, "loop")
  /\ UNCHANGED <<local, crashes, faults, started, completed>>

NextEvent(w) ==
  /\ pc[w] = "loop"
  /\ \E e \in todo[w] :
       /\ \A d \in todo[w] : ReceivedAt[e] <= ReceivedAt[d]
       /\ cur' = [cur EXCEPT ![w] = e]
       /\ started' = [started EXCEPT ![e] = @ + 1]
  /\ Goto(w, "handle")
  /\ UNCHANGED <<inbox, todo, seen, crashes, faults, completed>>

EndTick(w) ==
  /\ pc[w] = "loop"
  /\ todo[w] = {}
  /\ Forget(w)
  /\ Goto(w, "idle")
  /\ UNCHANGED <<inbox, crashes, faults, started, completed>>

HandlerReturns(w) ==
  /\ pc[w] = "handle"
  /\ completed' = [completed EXCEPT ![cur[w]] = @ + 1]
  /\ Goto(w, "mark")
  /\ UNCHANGED <<inbox, local, crashes, faults, started>>

\* It throws, or no handler is registered for the type.
HandlerThrows(w) ==
  /\ pc[w] = "handle"
  /\ Goto(w, "fail")
  /\ UNCHANGED <<inbox, local, crashes, faults, started, completed>>

\* markDeadLetter once the attempts are used up, markFailed before that.
Settled(row, n) ==
  IF n >= MaxAttempts
    THEN [row EXCEPT !.status = "dead_letter", !.nextRetry = "null"]
    ELSE [row EXCEPT !.status = "failed", !.nextRetry = "future"]

Processed(row) == [row EXCEPT !.status = "processed", !.nextRetry = "null"]

MarkProcessed(w) == inbox' = [inbox EXCEPT ![cur[w]] = Processed(@)]

MarkFailure(w) ==
  inbox' = [inbox EXCEPT ![cur[w]] = Settled(@, seen[w][cur[w]])]

BackToLoop(w) ==
  /\ todo' = [todo EXCEPT ![w] = @ \ {cur[w]}]
  /\ cur' = [cur EXCEPT ![w] = NoEvent]
  /\ seen' = [seen EXCEPT ![w][cur[w]] = 0]
  /\ Goto(w, "loop")

Ack(w) ==
  /\ pc[w] = "mark"
  /\ MarkProcessed(w)
  /\ BackToLoop(w)
  /\ UNCHANGED <<crashes, faults, started, completed>>

Nack(w) ==
  /\ pc[w] = "fail"
  /\ MarkFailure(w)
  /\ BackToLoop(w)
  /\ UNCHANGED <<crashes, faults, started, completed>>

Fault == faults < Faults /\ faults' = faults + 1

\* markProcessed throws, with or without effect: the catch of the loop.
AckThrows(w) ==
  /\ pc[w] = "mark"
  /\ Fault
  /\ MarkProcessed(w) \/ UNCHANGED inbox
  /\ Goto(w, "fail")
  /\ UNCHANGED <<local, crashes, started, completed>>

\* The claim or the catch throws: nothing handles the rejection.
WorkerDies(w) ==
  /\ Fault
  /\ \/ /\ pc[w] = "claiming"
        /\ \/ inbox' = [e \in Event |->
                IF e \in todo[w] THEN Claimed(inbox[e]) ELSE inbox[e]]
           \/ UNCHANGED inbox
     \/ /\ pc[w] = "fail"
        /\ MarkFailure(w) \/ UNCHANGED inbox
  /\ Forget(w)
  /\ Goto(w, "down")
  /\ UNCHANGED <<crashes, started, completed>>

Crash(w) ==
  /\ pc[w] # "down"
  /\ crashes < Crashes
  /\ crashes' = crashes + 1
  /\ Forget(w)
  /\ Goto(w, "down")
  /\ UNCHANGED <<inbox, faults, started, completed>>

Restart(w) ==
  /\ pc[w] = "down"
  /\ Goto(w, "idle")
  /\ UNCHANGED <<inbox, local, crashes, faults, started, completed>>

\* next_retry_at passes.
RetryComesDue(e) ==
  /\ inbox[e].nextRetry = "future"
  /\ inbox' = [inbox EXCEPT ![e].nextRetry = "past"]
  /\ UNCHANGED <<pc, local, crashes, faults, started, completed>>

Work(w) ==
  \/ SelectDue(w) \/ CommitClaim(w) \/ NextEvent(w) \/ EndTick(w)
  \/ HandlerReturns(w) \/ HandlerThrows(w) \/ Ack(w) \/ Nack(w) \/ Restart(w)

Next ==
  \/ \E w \in Worker : Work(w) \/ AckThrows(w) \/ WorkerDies(w) \/ Crash(w)
  \/ \E e \in Event : Receive(e) \/ RetryComesDue(e)

Spec == Init /\ [][Next]_vars

\* Timers tick, statements end, instances are restarted, time goes on.
FairSpec ==
  /\ Spec
  /\ \A w \in Worker : WF_vars(Work(w))
  /\ \A e \in Event : WF_vars(RetryComesDue(e))

-----------------------------------------------------------------------------
(* Properties.                                                             *)

\* Workers that answer for event e.
Owners(e) == {w \in Worker : pc[w] # "claiming" /\ e \in todo[w]}

\* At most one worker answers for an event, and only while its row says so:
\* a repeated delivery or a second claim never hands it out again.
ClaimExclusive ==
  \A e \in Event :
    /\ \A v, w \in Owners(e) : v = w
    /\ Owners(e) # {} => inbox[e].status \in {"processing", "processed"}

\* The handler of an event is called at most MaxAttempts times, whatever
\* crashes and faults happen, because the claim counts, not the failure; and
\* an event is given up only when all its attempts are used.
BoundedCalls ==
  \A e \in Event :
    /\ started[e] <= inbox[e].attempts
    /\ inbox[e].status = "dead_letter" => inbox[e].attempts = MaxAttempts

\* A handler that completed is called again only after a failed statement: a
\* sender that repeats its delivery never causes it, however late.
RepeatsNeedFaults == \A e \in Event : completed[e] <= 1 + faults

\* Claimed rows whose worker is gone.
Abandoned == {e \in Event : inbox[e].status = "processing" /\ Owners(e) = {}}

\* A crash, or a statement that throws outside the try block, costs at most the
\* batch of its worker; nothing else leaves a row in processing without a worker
\* (claimDueEvents, processDueBatch).
AbandonedFew == Cardinality(Abandoned) <= BatchSize * (crashes + faults)

-----------------------------------------------------------------------------
(* The inductive invariant.                                                *)

\* What a worker keeps between two statements.
WorkerShape ==
  \A w \in Worker :
    /\ pc[w] \in {"idle", "down"} => todo[w] = {}
    /\ pc[w] \in {"handle", "mark", "fail"} => cur[w] \in todo[w]
    /\ pc[w] \notin {"handle", "mark", "fail"} => cur[w] = NoEvent
    /\ Cardinality(todo[w]) <= BatchSize

\* The rows of a claim that is not committed are due, and locked against
\* every other claim.
ClaimsHold ==
  \A w \in Worker : pc[w] = "claiming" =>
    /\ \A e \in todo[w] : Due(e) /\ seen[w][e] = inbox[e].attempts + 1
    /\ \A v \in Worker \ {w} : pc[v] = "claiming" => todo[v] \cap todo[w] = {}

\* A worker knows how often its events were claimed, and has not called the
\* handler of those it did not come to.
OwnersHold ==
  \A e \in Event : \A w \in Owners(e) :
    /\ seen[w][e] = inbox[e].attempts
    /\ cur[w] # e => started[e] < inbox[e].attempts

\* A row that can be claimed has an attempt left, one that is not there all.
AttemptsLeft ==
  \A e \in Event :
    /\ inbox[e].status \in {"received", "failed"} =>
         inbox[e].attempts < MaxAttempts
    /\ inbox[e].status = "absent" => inbox[e].attempts = 0

\* The handler of e may be called, or repeated, without a further fault.
MayRun(e) ==
  \/ inbox[e].status \in {"absent", "received", "failed"}
  \/ \E w \in Owners(e) : ~(pc[w] = "mark" /\ cur[w] = e)

\* Each completion but the last one has its failed statement.
CompletionsPaid == \A e \in Event : MayRun(e) => completed[e] <= faults

\* What every step keeps: claims exclude each other, and each call of a
\* handler has been counted by the claim before it.
IInv ==
  /\ TypeOK
  /\ WorkerShape
  /\ ClaimsHold
  /\ ClaimExclusive
  /\ OwnersHold
  /\ AttemptsLeft
  /\ BoundedCalls
  /\ CompletionsPaid
  /\ RepeatsNeedFaults
  /\ AbandonedFew

-----------------------------------------------------------------------------
\* Every received event is settled, whatever crashes and fails elsewhere; the only
\* ones that are not are those that AbandonedFew counts (claimDueEvents selects no
\* row in processing).
EventuallySettled ==
  \A e \in Event :
    inbox[e].status = "received"
      ~> inbox[e].status \in {"processed", "dead_letter"} \/ e \in Abandoned
=============================================================================
