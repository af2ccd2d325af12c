----------------------------- MODULE OutboxInv ------------------------------
(***************************************************************************)
(* The inductive invariant of Outbox.  TLC checks it on small instances,   *)
(* OutboxProofs proves it for all.                                         *)
(***************************************************************************)
EXTENDS Outbox

\* Where a worker stands determines what it holds.
WorkerShape ==
  \A w \in Worker :
    /\ pc[w] \in {"idle", "down"} => todo[w] = {}
    /\ pc[w] \in {"idle", "down", "claiming"} <=> token[w] = NoToken
    /\ pc[w] \in Working => cur[w] \in todo[w]

\* Lease tokens are unique: a worker's token is no other worker's, and none
\* has been handed out beyond the counter.
TokensUnique ==
  /\ \A e \in Event : outbox[e].token <= claims
  /\ \A w \in Worker : token[w] <= claims
  /\ \A v, w \in Worker : token[v] = token[w] /\ token[v] # NoToken => v = w

\* The lease columns are set exactly while a row is in processing.
LeaseColumns ==
  \A e \in Event :
    /\ outbox[e].status = "processing" <=> outbox[e].token # NoToken
    /\ outbox[e].status = "processing" <=> outbox[e].lease # "null"

\* A claim transaction owns the rows it selected: they stay due, no other
\* transaction has them, and their attempts are the ones it read.
ClaimOwnsRows ==
  \A w \in Worker :
    pc[w] = "claiming" =>
      /\ \A e \in todo[w] : Due(e) /\ seen[w][e] = outbox[e].attempts
      /\ \A v \in Worker \ {w} :
           pc[v] = "claiming" => todo[v] \cap todo[w] = {}

\* While the worker's token is still on the row, what it read is current.
SnapshotCurrent ==
  \A w \in Worker : \A e \in todo[w] :
    token[w] # NoToken /\ token[w] = outbox[e].token
      => seen[w][e] = outbox[e].attempts

\* A handler that runs has its key in the ledger.
ReservationHeld ==
  \A w \in Worker :
    /\ pc[w] \in Reserving => ledger[CurKey(w)] # "none"
    /\ pc[w] \in {"dispatch", "finish"} => ledger[CurKey(w)] = "processing"

FaultsSpent == Budget["fault"] - budget["fault"]

\* A key whose handler may run again has completed at most once per fault.
RepeatsAccounted ==
  /\ FaultsSpent >= 0
  /\ \A k \in Key :
       /\ completions[k] <= 1 + FaultsSpent
       /\ ledger[k] = "none" => completions[k] <= FaultsSpent
  /\ \A w \in Worker :
       \/ pc[w] = "dispatch"
       \/ pc[w] = "release" /\ ledger[CurKey(w)] = "processing"
       => completions[CurKey(w)] <= FaultsSpent

\* Every key in the ledger was reserved at some time.
LedgerReserved == \A k \in Key : ledger[k] # "none" => k \in reserved

\* A worker that acknowledges an event has seen its key reserved.
AckReserved ==
  \A w \in Worker : pc[w] \in {"lookup", "ack"} => CurKey(w) \in reserved

\* The conjunct of AttemptsAccounting on rows that may still fail.
AttemptsLeft ==
  \A e \in Event :
    outbox[e].status \in {"absent", "pending", "processing", "failed",
                          "processed"}
      => outbox[e].attempts < MaxAttempts

IInv ==
  /\ TypeOK
  /\ WorkerShape
  /\ TokensUnique
  /\ LeaseColumns
  /\ ClaimOwnsRows
  /\ SnapshotCurrent
  /\ ReservationHeld
  /\ HandlerExclusive
  /\ RepeatsAccounted
  /\ LedgerReserved
  /\ AckReserved
  /\ AttemptsAccounting
  /\ AttemptsLeft

-----------------------------------------------------------------------------
(* The invariant of a run without mishap, for NotDroppedWithoutMishap.     *)

\* No crash, lost statement, overrun lease or manual reset so far.
Unhurt == \A h \in Mishap \ {"stop"} : budget[h] = Budget[h]

\* Leases do not run out and nobody takes a row over: the rows in processing
\* are those that live workers hold.
LeasesLast ==
  /\ \A w \in Worker : \A e \in todo[w] :
       token[w] # NoToken => outbox[e].token = token[w]
  /\ \A e \in Event :
       outbox[e].status = "processing" => Held(e) /\ outbox[e].lease = "future"

\* No reservation is orphaned, and a closed one has its completion.
ReservationsLive ==
  /\ \A k \in Key :
       /\ ledger[k] = "processed" => completions[k] > 0
       /\ ledger[k] = "processing" =>
            \E w \in Worker : pc[w] \in Reserving /\ CurKey(w) = k
  /\ \A w \in Worker : pc[w] = "finish" => completions[CurKey(w)] > 0

\* Event e counts on another one of its key: it is acknowledged, or about to
\* be because its key was found reserved.
Relies(w) == pc[w] \in {"lookup", "ack"}
Answered(k) ==
  \/ \E e \in Event : KeyOf[e] = k /\ outbox[e].status = "processed"
  \/ \E w \in Worker : Relies(w) /\ CurKey(w) = k

\* Event d counts on none.
Answers(d) ==
  \/ outbox[d].status \in {"failed", "dead_letter"}
  \/ /\ outbox[d].status = "processing"
     /\ \A w \in Worker : cur[w] = d => ~ Relies(w)

\* Whoever counts on another event of the key finds one that counts on none.
KeysAnswered ==
  \A k \in Key : Answered(k) =>
    completions[k] > 0 \/ \E d \in Event : KeyOf[d] = k /\ Answers(d)

SteadyInv ==
  /\ \A h \in Mishap : budget[h] <= Budget[h]
  /\ Unhurt => LeasesLast /\ ReservationsLive /\ KeysAnswered
=============================================================================
