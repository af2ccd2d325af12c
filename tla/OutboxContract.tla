--------------------------- MODULE OutboxContract ---------------------------
(***************************************************************************)
(* What the outbox promises, without workers, leases or SQL.  An event is  *)
(* published, claimed, and then settled, failed or given up; a handler     *)
(* runs for one event of its key at a time and never again once its key is *)
(* closed; an event is settled only after its key has been reserved.       *)
(***************************************************************************)
EXTENDS Integers

CONSTANTS Event, Key, KeyOf, MaxAttempts

VARIABLES
  status,     \* status[e] of the event's life cycle
  attempts,   \* attempts[e]: failures since it was published or reopened
  running,    \* keys whose handler is executing
  reserved,   \* keys whose handler was ever reserved
  closed      \* keys whose handler is known to have completed

contractVars == <<status, attempts, running, reserved, closed>>

\* An event somebody may still claim.
Open == {"pending", "processing", "failed"}

Init ==
  /\ status = [e \in Event |-> "absent"]
  /\ attempts = [e \in Event |-> 0]
  /\ running = {}
  /\ reserved = {}
  /\ closed = {}

Publish(e) ==
  /\ status[e] = "absent"
  /\ status' = [status EXCEPT ![e] = "pending"]
  /\ UNCHANGED <<attempts, running, reserved, closed>>

\* A set of open events is claimed at once.
Claim(S) ==
  /\ \A e \in S : status[e] \in Open
  /\ status' = [e \in Event |-> IF e \in S THEN "processing" ELSE status[e]]
  /\ UNCHANGED <<attempts, running, reserved, closed>>

\* The key is reserved; its handler may start with that very step, or never.
Begin(k) ==
  /\ k \notin running \cup closed
  /\ reserved' = reserved \cup {k}
  /\ running' \in {running, running \cup {k}}
  /\ UNCHANGED <<status, attempts, closed>>

\* The handler ends: it returned, threw, or died with its process.
End(k) ==
  /\ k \in running
  /\ running' = running \ {k}
  /\ UNCHANGED <<status, attempts, reserved, closed>>

\* A completed handler is remembered.  Its key stays closed.
Close(k) ==
  /\ k \in reserved \ running
  /\ closed' = closed \cup {k}
  /\ UNCHANGED <<status, attempts, running, reserved>>

Acknowledge(e) ==
  /\ status[e] = "processing"
  /\ KeyOf[e] \in reserved
  /\ status' = [status EXCEPT ![e] = "processed"]
  /\ UNCHANGED <<attempts, running, reserved, closed>>

\* The last attempt gives the event up.
Fail(e) ==
  /\ status[e] = "processing"
  /\ attempts[e] < MaxAttempts
  /\ attempts' = [attempts EXCEPT ![e] = @ + 1]
  /\ status' = [status EXCEPT ![e] = IF attempts'[e] = MaxAttempts
                                     THEN "dead_letter" ELSE "failed"]
  /\ UNCHANGED <<running, reserved, closed>>

\* An admin starts the event over.
Reopen(e) ==
  /\ status[e] # "absent"
  /\ status' = [status EXCEPT ![e] = "pending"]
  /\ attempts' = [attempts EXCEPT ![e] = 0]
  /\ UNCHANGED <<running, reserved, closed>>

Next ==
  \/ \E e \in Event : Publish(e) \/ Acknowledge(e) \/ Fail(e) \/ Reopen(e)
  \/ \E S \in SUBSET Event : Claim(S)
  \/ \E k \in Key : Begin(k) \/ End(k) \/ Close(k)

Spec == Init /\ [][Next]_contractVars

-----------------------------------------------------------------------------
(* What follows for whoever implements it.                                 *)

\* An event is given up at exactly MaxAttempts failures and only then, one that was
\* acknowledged had its key reserved, and no handler runs for a closed key.
Promises ==
  /\ \A e \in Event :
       /\ attempts[e] \in 0 .. MaxAttempts
       /\ status[e] = "dead_letter" <=> attempts[e] = MaxAttempts
       /\ status[e] = "processed" => KeyOf[e] \in reserved
  /\ running \cup closed \subseteq reserved
  /\ running \cap closed = {}
=============================================================================
