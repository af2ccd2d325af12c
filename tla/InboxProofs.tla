---------------------------- MODULE InboxProofs -----------------------------
(***************************************************************************)
(* Proofs about Inbox for every set of workers and events, batch size,     *)
(* attempt limit and number of crashes and faults.                         *)
(***************************************************************************)
EXTENDS Inbox, FiniteSetTheorems, TLAPS

\* What the statements make of a row.
LEMMA RowFacts ==
  ASSUME NEW row \in Row
  PROVE  /\ Absent \in Row /\ Absent.status = "absent" /\ Absent.attempts = 0
         /\ InsertIgnore(row) \in Row
         /\ InsertIgnore(row).attempts = IF row.status = "absent" THEN 0
                                                           ELSE row.attempts
         /\ InsertIgnore(row).status = IF row.status = "absent" THEN "received"
                                                         ELSE row.status
         /\ row.status # "absent" => InsertIgnore(row) = row
         /\ row.attempts \in 0 .. MaxAttempts /\ MaxAttempts \in Nat \ {0}
<1>1. Absent \in Row /\ Absent.status = "absent" /\ Absent.attempts = 0
  BY InboxAssumption DEF Absent, Row
<1>2. /\ Received \in Row /\ Received.status = "received"
      /\ Received.attempts = 0
  BY InboxAssumption DEF Absent, Received, Row
<1> QED
  BY <1>1, <1>2, InboxAssumption DEF InsertIgnore, Row

LEMMA ClaimedFacts ==
  ASSUME NEW row \in Row, row.attempts < MaxAttempts
  PROVE  /\ Claimed(row) \in Row
         /\ Claimed(row).status = "processing"
         /\ Claimed(row).attempts = row.attempts + 1
<1> DEFINE mid == [row EXCEPT !.status = "processing"]
<1>1. /\ mid \in Row /\ mid.status = "processing"
      /\ mid.attempts = row.attempts
  BY DEF Row
<1>2. Claimed(row) = [mid EXCEPT !.attempts = row.attempts + 1]
  BY DEF Claimed
<1>3. row.attempts + 1 \in 0 .. MaxAttempts
  BY InboxAssumption DEF Row
<1> HIDE DEF mid
<1> QED
  BY <1>1, <1>2, <1>3 DEF Row

LEMMA ProcessedFacts ==
  ASSUME NEW row \in Row
  PROVE  /\ Processed(row) \in Row
         /\ Processed(row).attempts = row.attempts
         /\ Processed(row).status = "processed"
<1> DEFINE mid == [row EXCEPT !.status = "processed"]
<1>1. /\ mid \in Row /\ mid.status = "processed"
      /\ mid.attempts = row.attempts
  BY DEF Row
<1>2. Processed(row) = [mid EXCEPT !.nextRetry = "null"]
  BY DEF Processed
<1> HIDE DEF mid
<1> QED
  BY <1>1, <1>2 DEF Row

LEMMA SettledFacts ==
  ASSUME NEW row \in Row
  PROVE  /\ Settled(row, row.attempts) \in Row
         /\ Settled(row, row.attempts).attempts = row.attempts
         /\ Settled(row, row.attempts).status =
              IF row.attempts = MaxAttempts THEN "dead_letter" ELSE "failed"
<1>1. /\ row.attempts \in 0 .. MaxAttempts
      /\ row.attempts >= MaxAttempts <=> row.attempts = MaxAttempts
  BY InboxAssumption DEF Row
<1> DEFINE Mid(status) == [row EXCEPT !.status = status]
<1>2. \A status \in {"dead_letter", "failed"} :
        /\ Mid(status) \in Row /\ Mid(status).status = status
        /\ Mid(status).attempts = row.attempts
  BY DEF Row
<1>3. Settled(row, row.attempts) =
        IF row.attempts = MaxAttempts
          THEN [Mid("dead_letter") EXCEPT !.nextRetry = "null"]
          ELSE [Mid("failed") EXCEPT !.nextRetry = "future"]
  BY <1>1 DEF Settled
<1> HIDE DEF Mid
<1> QED
  BY <1>2, <1>3 DEF Row

\* A claim takes rows that are due and not locked.
LEMMA BatchFacts ==
  ASSUME NEW batch \in Oldest(Claimable)
  PROVE  /\ batch \subseteq Event
         /\ \A e \in batch : Due(e)
         /\ \A v \in Worker : pc[v] = "claiming" => todo[v] \cap batch = {}
         /\ Cardinality(batch) <= BatchSize
<1>1. IsFiniteSet(Claimable)
  BY InboxAssumption, FS_Subset DEF Claimable
<1>2. Cardinality(batch) <= BatchSize
  BY <1>1, FS_CardinalityType, InboxAssumption DEF Oldest
<1> QED
  BY <1>2 DEF Oldest, Claimable, Locked

\* What counting the abandoned rows needs.
LEMMA Counts ==
  ASSUME TypeOK
  PROVE  /\ \A S \in SUBSET Event : IsFiniteSet(S) /\ Cardinality(S) \in Nat
         /\ Abandoned \subseteq Event /\ Abandoned' \subseteq Event
         /\ crashes \in Nat /\ faults \in Nat /\ BatchSize \in Nat
<1>1. \A S \in SUBSET Event : IsFiniteSet(S) /\ Cardinality(S) \in Nat
  BY InboxAssumption, FS_Subset, FS_CardinalityType
<1> QED
  BY <1>1, InboxAssumption DEF TypeOK, Abandoned

\* A step that abandons no row keeps AbandonedFew.
LEMMA FewKept ==
  ASSUME TypeOK, AbandonedFew, Abandoned' \subseteq Abandoned,
         crashes' = crashes, faults' \in {faults, faults + 1}
  PROVE  AbandonedFew'
<1>1. Cardinality(Abandoned') <= Cardinality(Abandoned)
  BY Counts, FS_Subset
<1>2. /\ Cardinality(Abandoned) \in Nat /\ Cardinality(Abandoned') \in Nat
      /\ BatchSize * (crashes + faults) \in Nat
      /\ BatchSize * (crashes + faults + 1) = BatchSize * (crashes + faults) + BatchSize
  BY Counts
<1>3. \/ BatchSize * (crashes' + faults') = BatchSize * (crashes + faults)
      \/ BatchSize * (crashes' + faults') = BatchSize * (crashes + faults) + BatchSize
  <2>1. CASE faults' = faults
    BY <2>1
  <2>2. CASE faults' = faults + 1
    <3>1. crashes' + faults' = crashes + faults + 1
      BY <2>2, Counts
    <3> QED
      BY <1>2, <3>1
  <2> QED
    BY <2>1, <2>2
<1> HIDE DEF Abandoned
<1>4. Cardinality(Abandoned) <= BatchSize * (crashes + faults)
  BY DEF AbandonedFew
<1>5. Cardinality(Abandoned') <= BatchSize * (crashes' + faults')
  BY <1>1, <1>2, <1>3, <1>4, Counts
<1> QED
  BY <1>5 DEF AbandonedFew

\* A crash or a throw abandons at most the batch of its worker.
LEMMA FewLost ==
  ASSUME TypeOK, AbandonedFew, NEW w \in Worker,
         Cardinality(todo[w]) <= BatchSize,
         Abandoned' \subseteq Abandoned \cup todo[w],
         crashes' + faults' = crashes + faults + 1
  PROVE  AbandonedFew'
<1> DEFINE both == Abandoned \cup todo[w]
<1>0. todo[w] \subseteq Event
  BY DEF TypeOK
<1>1. Cardinality(Abandoned') <= Cardinality(both)
  BY <1>0, Counts, FS_Subset
<1>2. Cardinality(both) =
        Cardinality(Abandoned) + Cardinality(todo[w])
          - Cardinality(Abandoned \cap todo[w])
  BY <1>0, Counts, FS_Union
<1>3. /\ Cardinality(Abandoned) \in Nat /\ Cardinality(Abandoned') \in Nat
      /\ Cardinality(todo[w]) \in Nat /\ Cardinality(both) \in Nat
      /\ Cardinality(Abandoned \cap todo[w]) \in Nat
      /\ BatchSize * (crashes + faults) \in Nat
      /\ BatchSize * (crashes' + faults') = BatchSize * (crashes + faults) + BatchSize
  <2>1. Abandoned \cap todo[w] \in SUBSET Event /\ both \in SUBSET Event
    BY <1>0, Counts
  <2>2. BatchSize * (crashes + faults + 1) = BatchSize * (crashes + faults) + BatchSize
    BY Counts
  <2>3. BatchSize * (crashes + faults) \in Nat
    BY Counts
  <2> QED
    BY <1>0, <2>1, <2>2, <2>3, Counts
<1>4. Cardinality(Abandoned) <= BatchSize * (crashes + faults)
  BY DEF AbandonedFew
<1> HIDE DEF both
<1>5. Cardinality(Abandoned') <= BatchSize * (crashes' + faults')
  BY <1>1, <1>2, <1>3, <1>4, Counts
<1> QED
  BY <1>5 DEF AbandonedFew

-----------------------------------------------------------------------------
(* Steps on rows alone.                                                    *)

LEMMA ReceiveStep ==
  ASSUME IInv, NEW e \in Event, Receive(e)
  PROVE  IInv'
<1> USE DEF IInv
<1>1. /\ TypeOK
      /\ UNCHANGED <<pc, todo, cur, seen, crashes, faults, started, completed>>
  BY DEF Receive, local
<1>2. /\ inbox' \in [Event -> Row]
      /\ \A d \in Event : inbox'[d] = IF d = e THEN InsertIgnore(inbox[d])
                                               ELSE inbox[d]
  BY RowFacts DEF Receive, TypeOK
<1>3. \A d \in Event :
        \/ inbox'[d] = inbox[d]
        \/ /\ inbox[d].status = "absent"
           /\ inbox'[d].attempts = 0 /\ inbox'[d].status = "received"
  <2> SUFFICES ASSUME NEW d \in Event
               PROVE  \/ inbox'[d] = inbox[d]
                      \/ /\ inbox[d].status = "absent"
                         /\ inbox'[d].attempts = 0
                         /\ inbox'[d].status = "received"
    OBVIOUS
  <2>1. inbox[d] \in Row
    BY DEF TypeOK
  <2> QED
    BY <1>2, <2>1, RowFacts
<1>4. \A d \in Event : inbox[d].attempts \in Nat /\ started[d] \in Nat
  BY DEF TypeOK, Row
<1>5. TypeOK'
  BY <1>1, <1>2 DEF TypeOK
<1>6. WorkerShape' /\ RepeatsNeedFaults'
  BY <1>1 DEF WorkerShape, RepeatsNeedFaults
<1>7. ClaimsHold'
  BY <1>1, <1>3 DEF ClaimsHold, Due, TypeOK
<1>8. ClaimExclusive' /\ OwnersHold'
  BY <1>1, <1>3 DEF ClaimExclusive, OwnersHold, Owners
<1>9. AttemptsLeft' /\ BoundedCalls'
  BY <1>1, <1>3, <1>4, InboxAssumption DEF AttemptsLeft, BoundedCalls
<1>10. CompletionsPaid'
  BY <1>1, <1>3 DEF CompletionsPaid, MayRun, Owners
<1>11. AbandonedFew'
  <2>1. Abandoned' \subseteq Abandoned
    BY <1>1, <1>3 DEF Abandoned, Owners
  <2> QED
    BY <1>1, <2>1, FewKept
<1> QED
  BY <1>5, <1>6, <1>7, <1>8, <1>9, <1>10, <1>11

LEMMA RetryStep ==
  ASSUME IInv, NEW e \in Event, RetryComesDue(e)
  PROVE  IInv'
<1> USE DEF IInv
<1>1. UNCHANGED <<pc, todo, cur, seen, crashes, faults, started, completed>>
  BY DEF RetryComesDue, local
<1> DEFINE row == [inbox[e] EXCEPT !.nextRetry = "past"]
<1>2. inbox[e] \in Row /\ inbox[e].nextRetry = "future"
  BY DEF RetryComesDue, TypeOK
<1>3. /\ row \in Row /\ row.status = inbox[e].status
      /\ row.attempts = inbox[e].attempts /\ row.nextRetry = "past"
  BY <1>2 DEF Row
<1>4. inbox' = [inbox EXCEPT ![e] = row]
  BY DEF RetryComesDue
<1> HIDE DEF row
<1>5. inbox' \in [Event -> Row]
  BY <1>3, <1>4 DEF TypeOK
<1>6. \A d \in Event :
        /\ inbox'[d].status = inbox[d].status
        /\ inbox'[d].attempts = inbox[d].attempts
        /\ inbox[d].nextRetry = "past" => inbox'[d].nextRetry = "past"
  BY <1>3, <1>4 DEF TypeOK
<1>7. TypeOK'
  BY <1>1, <1>5 DEF TypeOK
<1>8. ClaimsHold'
  BY <1>1, <1>6 DEF ClaimsHold, Due, TypeOK
<1>9. /\ WorkerShape' /\ ClaimExclusive' /\ OwnersHold' /\ AttemptsLeft'
      /\ BoundedCalls' /\ CompletionsPaid' /\ RepeatsNeedFaults'
  BY <1>1, <1>6 DEF WorkerShape, ClaimExclusive, OwnersHold, AttemptsLeft,
     BoundedCalls, CompletionsPaid, RepeatsNeedFaults, MayRun, Owners
<1>10. AbandonedFew'
  <2>1. Abandoned' \subseteq Abandoned
    BY <1>1, <1>6 DEF Abandoned, Owners
  <2> QED
    BY <1>1, <2>1, FewKept
<1> QED
  BY <1>7, <1>8, <1>9, <1>10

-----------------------------------------------------------------------------
(* Claims.                                                                 *)

LEMMA SelectStep ==
  ASSUME IInv, NEW w \in Worker, SelectDue(w)
  PROVE  IInv'
<1> USE DEF IInv
<1>1. PICK batch \in Oldest(Claimable) :
        /\ todo' = [todo EXCEPT ![w] = batch]
        /\ seen' = [seen EXCEPT ![w] = [e \in Event |->
                      IF e \in batch THEN inbox[e].attempts + 1 ELSE 0]]
  BY DEF SelectDue
<1>2. /\ pc[w] = "idle" /\ todo[w] = {} /\ cur[w] = NoEvent
      /\ pc' = [pc EXCEPT ![w] = "claiming"]
      /\ UNCHANGED <<inbox, cur, crashes, faults, started, completed>>
  BY DEF SelectDue, Goto, WorkerShape
<1>3. /\ batch \subseteq Event /\ \A e \in batch : Due(e)
      /\ \A v \in Worker : pc[v] = "claiming" => todo[v] \cap batch = {}
  BY BatchFacts
<1>4. \A e \in batch : inbox[e].attempts + 1 \in 0 .. MaxAttempts
  BY <1>3, InboxAssumption DEF Due, AttemptsLeft, TypeOK, Row
<1>5. \A v \in Worker :
        /\ pc'[v] = IF v = w THEN "claiming" ELSE pc[v]
        /\ todo'[v] = IF v = w THEN batch ELSE todo[v]
        /\ v # w => seen'[v] = seen[v]
        /\ v = w => \A e \in batch : seen'[v][e] = inbox[e].attempts + 1
  BY <1>1, <1>2, <1>3 DEF TypeOK
<1>6. TypeOK'
  <2>1. 0 \in 0 .. MaxAttempts
    BY InboxAssumption
  <2>2. [e \in Event |-> IF e \in batch THEN inbox[e].attempts + 1 ELSE 0]
          \in [Event -> 0 .. MaxAttempts]
    BY <1>4, <2>1
  <2>3. seen' \in [Worker -> [Event -> 0 .. MaxAttempts]]
    BY <1>1, <2>2 DEF TypeOK
  <2>4. todo' \in [Worker -> SUBSET Event] /\ pc' \in [Worker -> PC]
    BY <1>1, <1>2, <1>3 DEF TypeOK, PC
  <2> QED
    BY <1>2, <2>3, <2>4 DEF TypeOK
<1>7. \A e \in Event : Owners(e)' = Owners(e)
  BY <1>2, <1>5 DEF Owners
<1>8. WorkerShape'
  <2>1. Cardinality(batch) <= BatchSize
    BY BatchFacts
  <2> QED
    BY <1>2, <1>5, <2>1 DEF WorkerShape
<1>9. ClaimsHold'
  BY <1>2, <1>3, <1>5 DEF ClaimsHold, Due
<1>10. ClaimExclusive'
  BY <1>2, <1>7 DEF ClaimExclusive
<1>11. OwnersHold'
  <2>1. \A e \in Event : \A v \in Owners(e) : v # w /\ seen'[v] = seen[v]
    BY <1>2, <1>5 DEF Owners
  <2> QED
    BY <1>2, <1>7, <2>1 DEF OwnersHold
<1>12. AttemptsLeft' /\ BoundedCalls' /\ RepeatsNeedFaults'
  BY <1>2 DEF AttemptsLeft, BoundedCalls, RepeatsNeedFaults
<1>13. CompletionsPaid'
  BY <1>2, <1>5, <1>7 DEF CompletionsPaid, MayRun, Owners
<1>14. AbandonedFew'
  <2>1. Abandoned' \subseteq Abandoned
    BY <1>2, <1>7 DEF Abandoned
  <2> QED
    BY <1>2, <2>1, FewKept
<1> QED
  BY <1>6, <1>8, <1>9, <1>10, <1>11, <1>12, <1>13, <1>14

\* What the UPDATE of a claim does to the rows it locked, and that nobody
\* answers for them yet.
LEMMA ClaimEffect ==
  ASSUME IInv, NEW w \in Worker, pc[w] = "claiming",
         inbox' = [e \in Event |->
                     IF e \in todo[w] THEN Claimed(inbox[e]) ELSE inbox[e]]
  PROVE  /\ inbox' \in [Event -> Row]
         /\ \A e \in Event \ todo[w] : inbox'[e] = inbox[e]
         /\ \A e \in todo[w] :
              /\ e \in Event /\ Due(e) /\ Owners(e) = {}
              /\ inbox'[e].status = "processing"
              /\ inbox'[e].attempts = inbox[e].attempts + 1
              /\ inbox'[e].attempts = seen[w][e]
              /\ inbox[e].attempts \in Nat
<1> USE DEF IInv
<1>1. /\ todo[w] \subseteq Event
      /\ \A e \in todo[w] : Due(e) /\ seen[w][e] = inbox[e].attempts + 1
  BY DEF ClaimsHold, TypeOK
<1>2. \A e \in todo[w] : Owners(e) = {}
  BY <1>1 DEF ClaimExclusive, Due
<1>3. \A e \in todo[w] :
        inbox[e] \in Row /\ inbox[e].attempts < MaxAttempts
  BY <1>1 DEF AttemptsLeft, Due, TypeOK
<1>4. \A e \in todo[w] :
        /\ Claimed(inbox[e]) \in Row
        /\ Claimed(inbox[e]).status = "processing"
        /\ Claimed(inbox[e]).attempts = inbox[e].attempts + 1
        /\ inbox[e].attempts \in Nat
  BY <1>3, ClaimedFacts DEF Row
<1>5. inbox' \in [Event -> Row]
  BY <1>4 DEF TypeOK
<1> QED
  BY <1>1, <1>2, <1>4, <1>5

LEMMA CommitStep ==
  ASSUME IInv, NEW w \in Worker, CommitClaim(w)
  PROVE  IInv'
<1> USE DEF IInv
<1>1. /\ pc[w] = "claiming" /\ cur[w] = NoEvent
      /\ pc' = [pc EXCEPT ![w] = "loop"]
      /\ UNCHANGED <<todo, cur, seen, crashes, faults, started, completed>>
  BY DEF CommitClaim, Goto, local, WorkerShape
<1>2. /\ inbox' \in [Event -> Row]
      /\ \A e \in Event \ todo[w] : inbox'[e] = inbox[e]
      /\ \A e \in todo[w] :
           /\ e \in Event /\ Due(e) /\ Owners(e) = {}
           /\ inbox'[e].status = "processing"
           /\ inbox'[e].attempts = inbox[e].attempts + 1
           /\ inbox'[e].attempts = seen[w][e]
           /\ inbox[e].attempts \in Nat
  BY <1>1, ClaimEffect DEF CommitClaim
<1>3. \A v \in Worker : pc'[v] = IF v = w THEN "loop" ELSE pc[v]
  BY <1>1 DEF TypeOK
<1>4. TypeOK'
  BY <1>1, <1>2 DEF TypeOK, PC
<1>5. \A e \in Event : Owners(e)' = IF e \in todo[w] THEN {w} ELSE Owners(e)
  BY <1>1, <1>2, <1>3 DEF Owners
<1>6. WorkerShape' /\ RepeatsNeedFaults'
  BY <1>1, <1>3 DEF WorkerShape, RepeatsNeedFaults
<1>7. ClaimsHold'
  <2> SUFFICES ASSUME NEW v \in Worker, pc'[v] = "claiming"
               PROVE  /\ \A e \in todo'[v] :
                           Due(e)' /\ seen'[v][e] = inbox'[e].attempts + 1
                      /\ \A u \in Worker \ {v} :
                           pc'[u] = "claiming" => todo'[u] \cap todo'[v] = {}
    BY DEF ClaimsHold
  <2>1. v # w /\ pc[v] = "claiming"
    BY <1>3
  <2>2. todo[v] \cap todo[w] = {} /\ todo[v] \subseteq Event
    BY <1>1, <2>1 DEF ClaimsHold, TypeOK
  <2>3. \A e \in todo[v] : inbox'[e] = inbox[e]
    BY <1>2, <2>2
  <2> QED
    BY <1>1, <1>3, <2>1, <2>3 DEF ClaimsHold, Due
<1>8. ClaimExclusive'
  BY <1>2, <1>5 DEF ClaimExclusive
<1>9. OwnersHold'
  <2> SUFFICES ASSUME NEW e \in Event, NEW v \in Owners(e)'
               PROVE  /\ seen'[v][e] = inbox'[e].attempts
                      /\ cur'[v] # e => started'[e] < inbox'[e].attempts
    BY DEF OwnersHold
  <2>1. CASE e \in todo[w]
    <3>1. v = w /\ started[e] <= inbox[e].attempts /\ started[e] \in Nat
      BY <1>5, <2>1 DEF BoundedCalls, TypeOK
    <3> QED
      BY <1>1, <1>2, <2>1, <3>1
  <2>2. CASE e \notin todo[w]
    BY <1>1, <1>2, <1>5, <2>2 DEF OwnersHold
  <2> QED
    BY <2>1, <2>2
<1>10. AttemptsLeft'
  BY <1>2 DEF AttemptsLeft
<1>11. BoundedCalls'
  <2> SUFFICES ASSUME NEW e \in Event
               PROVE  /\ started'[e] <= inbox'[e].attempts
                      /\ inbox'[e].status = "dead_letter" =>
                           inbox'[e].attempts = MaxAttempts
    BY DEF BoundedCalls
  <2>1. started[e] <= inbox[e].attempts /\ started[e] \in Nat
    BY DEF BoundedCalls, TypeOK
  <2> QED
    BY <1>1, <1>2, <2>1 DEF BoundedCalls
<1>12. CompletionsPaid'
  <2>1. \A e \in Event : MayRun(e)' => MayRun(e)
    BY <1>1, <1>2, <1>3, <1>5 DEF MayRun, Due, Owners
  <2> QED
    BY <1>1, <2>1 DEF CompletionsPaid
<1>13. AbandonedFew'
  <2>1. Abandoned' \subseteq Abandoned
    BY <1>2, <1>5 DEF Abandoned
  <2> QED
    BY <1>1, <2>1, FewKept
<1> QED
  BY <1>4, <1>6, <1>7, <1>8, <1>9, <1>10, <1>11, <1>12, <1>13

-----------------------------------------------------------------------------
(* Handlers and settlements.                                               *)

LEMMA NextEventStep ==
  ASSUME IInv, NEW w \in Worker, NextEvent(w)
  PROVE  IInv'
<1> USE DEF IInv
<1>1. PICK e \in todo[w] : /\ cur' = [cur EXCEPT ![w] = e]
                           /\ started' = [started EXCEPT ![e] = @ + 1]
  BY DEF NextEvent
<1>2. /\ pc[w] = "loop" /\ cur[w] = NoEvent
      /\ pc' = [pc EXCEPT ![w] = "handle"]
      /\ UNCHANGED <<inbox, todo, seen, crashes, faults, completed>>
  BY DEF NextEvent, Goto, WorkerShape
<1>3. e \in Event /\ e # NoEvent /\ w \in Owners(e)
  BY <1>2, InboxAssumption DEF Owners, TypeOK
<1>4. /\ \A v \in Worker : /\ pc'[v] = IF v = w THEN "handle" ELSE pc[v]
                           /\ cur'[v] = IF v = w THEN e ELSE cur[v]
      /\ \A d \in Event : started'[d] = IF d = e THEN started[d] + 1
                                                 ELSE started[d]
  BY <1>1, <1>2, <1>3 DEF TypeOK
<1>5. /\ started[e] < inbox[e].attempts
      /\ \A v \in Owners(e) : v = w
      /\ started[e] \in Nat /\ inbox[e].attempts \in Nat
  BY <1>2, <1>3 DEF OwnersHold, ClaimExclusive, TypeOK, Row
<1>6. TypeOK'
  BY <1>1, <1>2, <1>3 DEF TypeOK, PC
<1>7. \A d \in Event : Owners(d)' = Owners(d)
  BY <1>2, <1>4 DEF Owners
<1>8. WorkerShape' /\ RepeatsNeedFaults' /\ AttemptsLeft'
  BY <1>2, <1>4 DEF WorkerShape, RepeatsNeedFaults, AttemptsLeft
<1>9. ClaimsHold' /\ ClaimExclusive'
  BY <1>2, <1>4, <1>7 DEF ClaimsHold, ClaimExclusive, Due
<1>10. OwnersHold'
  <2> SUFFICES ASSUME NEW d \in Event, NEW v \in Owners(d)
               PROVE  /\ seen[v][d] = inbox[d].attempts
                      /\ cur'[v] # d => started'[d] < inbox[d].attempts
    BY <1>2, <1>7 DEF OwnersHold
  <2>1. v \in Worker /\ v \in Owners(d)
    BY DEF Owners
  <2>2. CASE d = e
    BY <1>4, <1>5, <2>1, <2>2 DEF OwnersHold
  <2>3. CASE d # e
    <3>1. v = w => cur[v] # d
      BY <1>2, InboxAssumption
    <3> QED
      BY <1>4, <2>1, <2>3, <3>1 DEF OwnersHold
  <2> QED
    BY <2>2, <2>3
<1>11. BoundedCalls'
  BY <1>2, <1>4, <1>5 DEF BoundedCalls
<1>12. CompletionsPaid'
  BY <1>2, <1>4, <1>7 DEF CompletionsPaid, MayRun, Owners
<1>13. AbandonedFew'
  <2>1. Abandoned' \subseteq Abandoned
    BY <1>2, <1>7 DEF Abandoned
  <2> QED
    BY <1>2, <2>1, FewKept
<1> QED
  BY <1>6, <1>8, <1>9, <1>10, <1>11, <1>12, <1>13

LEMMA HandlerStep ==
  ASSUME IInv, NEW w \in Worker, HandlerReturns(w) \/ HandlerThrows(w)
  PROVE  IInv'
<1> USE DEF IInv
<1> DEFINE e == cur[w]
<1>1. PICK to \in {"mark", "fail"} : pc' = [pc EXCEPT ![w] = to]
  BY DEF HandlerReturns, HandlerThrows, Goto
<1>2. /\ pc[w] = "handle" /\ e \in todo[w]
      /\ UNCHANGED <<inbox, todo, cur, seen, crashes, faults, started>>
  BY DEF HandlerReturns, HandlerThrows, local, WorkerShape
<1>3. e \in Event /\ w \in Owners(e) /\ MayRun(e)
  BY <1>2 DEF Owners, MayRun, TypeOK
<1>4. \A v \in Worker : pc'[v] = IF v = w THEN to ELSE pc[v]
  BY <1>1 DEF TypeOK
<1>5. /\ completed' \in [Event -> Nat]
      /\ \A d \in Event \ {e} : completed'[d] = completed[d]
      /\ \/ completed' = completed
         \/ completed'[e] = completed[e] + 1 /\ to = "mark"
  <2>1. CASE HandlerThrows(w)
    BY <2>1 DEF HandlerThrows, TypeOK
  <2>2. CASE HandlerReturns(w)
    <3>1. completed' = [completed EXCEPT ![e] = @ + 1]
      BY <2>2 DEF HandlerReturns
    <3>2. to = "mark"
      BY <1>1, <2>2 DEF HandlerReturns, Goto, TypeOK
    <3> QED
      BY <1>3, <3>1, <3>2 DEF TypeOK
  <2> QED
    BY <2>1, <2>2
<1>6. TypeOK'
  BY <1>1, <1>2, <1>5 DEF TypeOK, PC
<1>7. \A d \in Event : Owners(d)' = Owners(d)
  BY <1>2, <1>4 DEF Owners
<1>8. WorkerShape' /\ AttemptsLeft' /\ BoundedCalls'
  BY <1>2, <1>4 DEF WorkerShape, AttemptsLeft, BoundedCalls
<1>9. ClaimsHold' /\ ClaimExclusive' /\ OwnersHold'
  BY <1>2, <1>4, <1>7 DEF ClaimsHold, ClaimExclusive, OwnersHold, Due
<1>10. completed[e] <= faults /\ completed[e] \in Nat /\ faults \in Nat
  BY <1>3 DEF CompletionsPaid, TypeOK
<1>11. RepeatsNeedFaults'
  BY <1>2, <1>5, <1>10 DEF RepeatsNeedFaults
<1>12. CompletionsPaid'
  <2> SUFFICES ASSUME NEW d \in Event, MayRun(d)'
               PROVE  completed'[d] <= faults
    BY <1>2 DEF CompletionsPaid
  <2>1. CASE d # e
    <3>1. MayRun(d)
      BY <1>2, <1>4, <1>7, <2>1 DEF MayRun, Owners
    <3> QED
      BY <1>5, <2>1, <3>1 DEF CompletionsPaid
  <2>2. CASE d = e
    <3>1. inbox[e].status \in {"processing", "processed"}
          /\ \A v \in Owners(e) : v = w
      BY <1>3 DEF ClaimExclusive
    <3>2. to # "mark"
      BY <1>2, <1>4, <1>7, <2>2, <3>1 DEF MayRun, Owners
    <3> QED
      BY <1>5, <1>10, <2>2, <3>2
  <2> QED
    BY <2>1, <2>2
<1>13. AbandonedFew'
  <2>1. Abandoned' \subseteq Abandoned
    BY <1>2, <1>7 DEF Abandoned
  <2> QED
    BY <1>2, <2>1, FewKept
<1> QED
  BY <1>6, <1>8, <1>9, <1>11, <1>12, <1>13

LEMMA AckThrowsStep ==
  ASSUME IInv, NEW w \in Worker, AckThrows(w)
  PROVE  IInv'
<1> USE DEF IInv
<1> DEFINE e == cur[w]
<1>1. /\ pc[w] = "mark" /\ e \in todo[w]
      /\ pc' = [pc EXCEPT ![w] = "fail"]
      /\ faults' = faults + 1 /\ faults' \in 0 .. Faults /\ faults \in Nat
      /\ UNCHANGED <<todo, cur, seen, crashes, started, completed>>
  BY InboxAssumption
     DEF AckThrows, Fault, Goto, local, WorkerShape, TypeOK
<1>2. e \in Event /\ w \in Owners(e) /\ inbox[e] \in Row
  BY <1>1 DEF Owners, TypeOK
<1>3. /\ inbox' \in [Event -> Row]
      /\ \A d \in Event : /\ inbox'[d].attempts = inbox[d].attempts
                          /\ \/ inbox'[d] = inbox[d]
                             \/ d = e /\ inbox'[d].status = "processed"
  BY <1>2, ProcessedFacts DEF AckThrows, MarkProcessed, TypeOK
<1>4. \A v \in Worker : pc'[v] = IF v = w THEN "fail" ELSE pc[v]
  BY <1>1 DEF TypeOK
<1>5. TypeOK'
  BY <1>1, <1>3 DEF TypeOK, PC
<1>6. \A d \in Event : Owners(d)' = Owners(d)
  BY <1>1, <1>4 DEF Owners
<1>7. WorkerShape' /\ AttemptsLeft' /\ BoundedCalls'
  BY <1>1, <1>3, <1>4 DEF WorkerShape, AttemptsLeft, BoundedCalls
<1>8. ClaimExclusive' /\ OwnersHold'
  BY <1>1, <1>3, <1>6 DEF ClaimExclusive, OwnersHold
<1>9. ClaimsHold'
  <2>1. \A v \in Worker : pc[v] = "claiming" => e \notin todo[v]
    BY <1>2 DEF ClaimsHold, ClaimExclusive, Due
  <2>2. \A v \in Worker : pc[v] = "claiming" =>
          \A d \in todo[v] : d \in Event /\ inbox'[d] = inbox[d]
    BY <1>3, <2>1 DEF TypeOK
  <2> QED
    BY <1>1, <1>4, <2>2 DEF ClaimsHold, Due
<1>10. \A d \in Event : completed[d] \in Nat
  BY DEF TypeOK
<1>11. RepeatsNeedFaults'
  BY <1>1, <1>10 DEF RepeatsNeedFaults
<1>12. CompletionsPaid'
  <2>1. \A d \in Event : completed[d] <= faults'
    BY <1>1, <1>10 DEF RepeatsNeedFaults
  <2> QED
    BY <1>1, <2>1 DEF CompletionsPaid
<1>13. AbandonedFew'
  <2>1. Abandoned' \subseteq Abandoned
    BY <1>3, <1>6 DEF Abandoned
  <2> QED
    BY <1>1, <2>1, FewKept
<1> QED
  BY <1>5, <1>7, <1>8, <1>9, <1>11, <1>12, <1>13

LEMMA SettleStep ==
  ASSUME IInv, NEW w \in Worker, Ack(w) \/ Nack(w)
  PROVE  IInv'
<1> USE DEF IInv
<1>0. PICK e \in todo[w] : e = cur[w]
  BY DEF Ack, Nack, WorkerShape
<1>1. /\ pc[w] \in {"mark", "fail"} /\ e = cur[w] /\ BackToLoop(w)
      /\ Nack(w) => pc[w] = "fail"
      /\ UNCHANGED <<crashes, faults, started, completed>>
  BY <1>0 DEF Ack, Nack
<1>2. e \in Event /\ w \in Owners(e) /\ inbox[e] \in Row /\ todo[w] \subseteq Event
  BY <1>0, <1>1 DEF Owners, TypeOK
<1>3. /\ seen[w][e] = inbox[e].attempts
      /\ \A v \in Owners(e) : v = w
      /\ inbox[e].status \in {"processing", "processed"}
  BY <1>2 DEF OwnersHold, ClaimExclusive
<1>4. /\ inbox' \in [Event -> Row]
      /\ \A d \in Event : inbox'[d].attempts = inbox[d].attempts
      /\ \A d \in Event \ {e} : inbox'[d] = inbox[d]
      /\ \/ inbox'[e].status = "processed"
         \/ /\ Nack(w)
            /\ inbox'[e].status = IF inbox[e].attempts = MaxAttempts
                                    THEN "dead_letter" ELSE "failed"
  <2>1. CASE Ack(w)
    BY <1>2, <1>1, <2>1, ProcessedFacts DEF Ack, MarkProcessed, TypeOK
  <2>2. CASE Nack(w)
    BY <1>2, <1>3, <1>1, <2>2, SettledFacts DEF Nack, MarkFailure, TypeOK
  <2> QED
    BY <2>1, <2>2
<1>5. [seen[w] EXCEPT ![e] = 0] \in [Event -> 0 .. MaxAttempts]
  <2>1. seen[w] \in [Event -> 0 .. MaxAttempts] /\ 0 \in 0 .. MaxAttempts
    BY InboxAssumption DEF TypeOK
  <2> QED
    BY <2>1
<1>6. /\ \A v \in Worker :
           /\ pc'[v] = IF v = w THEN "loop" ELSE pc[v]
           /\ todo'[v] = IF v = w THEN todo[v] \ {e} ELSE todo[v]
           /\ cur'[v] = IF v = w THEN NoEvent ELSE cur[v]
           /\ \A d \in Event \ {e} : seen'[v][d] = seen[v][d]
           /\ v # w => seen'[v] = seen[v]
      /\ seen' \in [Worker -> [Event -> 0 .. MaxAttempts]]
      /\ todo' \in [Worker -> SUBSET Event]
      /\ cur' \in [Worker -> Event \cup {NoEvent}]
      /\ pc' \in [Worker -> PC]
  <2>1. seen' = [seen EXCEPT ![w] = [seen[w] EXCEPT ![e] = 0]]
    BY <1>1 DEF BackToLoop
  <2>2. /\ seen' \in [Worker -> [Event -> 0 .. MaxAttempts]]
        /\ \A v \in Worker : /\ \A d \in Event \ {e} : seen'[v][d] = seen[v][d]
                             /\ v # w => seen'[v] = seen[v]
    BY <1>5, <2>1 DEF TypeOK
  <2> QED
    BY <1>1, <1>2, <2>2 DEF BackToLoop, Goto, TypeOK, PC
<1>7. TypeOK'
  BY <1>1, <1>4, <1>6 DEF TypeOK
<1>8. /\ Owners(e)' = {}
      /\ \A d \in Event \ {e} : Owners(d)' = Owners(d)
  <2>1. pc[w] # "claiming" /\ pc'[w] # "claiming"
    BY <1>1, <1>6
  <2>2. \A v \in Worker \ {w} : pc'[v] = pc[v] /\ todo'[v] = todo[v]
    BY <1>6
  <2>3. todo'[w] = todo[w] \ {e}
    BY <1>6
  <2>4. \A d \in Event : \A v \in Worker :
          v \in Owners(d)' <=> v \in Owners(d) /\ (v = w => d # e)
    BY <2>1, <2>2, <2>3 DEF Owners
  <2>5. \A d \in Event : Owners(d) \subseteq Worker /\ Owners(d)' \subseteq Worker
    BY DEF Owners
  <2> QED
    <3>1. Owners(e)' = {}
      BY <1>2, <1>3, <2>4, <2>5
    <3>2. ASSUME NEW d \in Event \ {e} PROVE Owners(d)' = Owners(d)
      BY <2>4, <2>5
    <3> QED
      BY <3>1, <3>2
<1>9. WorkerShape' /\ RepeatsNeedFaults'
  <2>1. Cardinality(todo[w] \ {e}) <= BatchSize
    <3>1. /\ Cardinality(todo[w] \ {e}) <= Cardinality(todo[w])
          /\ Cardinality(todo[w]) <= BatchSize
      BY <1>2, Counts, FS_Subset DEF WorkerShape
    <3> QED
      BY <1>2, <3>1, Counts
  <2> QED
    BY <1>1, <1>6, <2>1 DEF WorkerShape, RepeatsNeedFaults
<1>10. ClaimsHold'
  <2>1. \A v \in Worker : pc[v] = "claiming" => v # w /\ e \notin todo[v]
    BY <1>1, <1>3 DEF ClaimsHold, Due
  <2>2. \A v \in Worker : pc[v] = "claiming" =>
          \A d \in todo[v] : d \in Event /\ inbox'[d] = inbox[d]
    BY <1>4, <2>1 DEF TypeOK
  <2> QED
    <3>1. \A v \in Worker : pc'[v] = "claiming" =>
            v # w /\ pc[v] = "claiming" /\ todo'[v] = todo[v] /\ seen'[v] = seen[v]
      BY <1>6
    <3> QED
      BY <2>1, <2>2, <3>1 DEF ClaimsHold, Due
<1>11. ClaimExclusive'
  BY <1>4, <1>8 DEF ClaimExclusive
<1>12. OwnersHold'
  <2> SUFFICES ASSUME NEW d \in Event, NEW v \in Owners(d)'
               PROVE  /\ seen'[v][d] = inbox'[d].attempts
                      /\ cur'[v] # d => started'[d] < inbox'[d].attempts
    BY DEF OwnersHold
  <2>1. d # e /\ v \in Owners(d) /\ v \in Worker
    BY <1>8 DEF Owners
  <2>2. v = w => cur[v] # d
    BY <1>1, <2>1
  <2>3. cur'[v] # d => cur[v] # d
    BY <1>6, <2>1, <2>2
  <2> QED
    BY <1>1, <1>4, <1>6, <2>1, <2>3 DEF OwnersHold
<1>13. AttemptsLeft' /\ BoundedCalls'
  <2>1. inbox[e].attempts \in 0 .. MaxAttempts
    BY <1>2 DEF Row
  <2> QED
    BY <1>1, <1>4, <2>1, InboxAssumption DEF AttemptsLeft, BoundedCalls
<1>14. CompletionsPaid'
  <2> SUFFICES ASSUME NEW d \in Event, MayRun(d)'
               PROVE  completed[d] <= faults
    BY <1>1 DEF CompletionsPaid
  <2>1. CASE d # e
    <3>1. MayRun(d)
      <4>1. inbox'[d] = inbox[d] /\ Owners(d)' = Owners(d)
        BY <1>4, <1>8, <2>1
      <4>2. \A v \in Owners(d) : v = w => ~(pc[v] = "mark" /\ cur[v] = d)
        BY <1>1, <2>1
      <4>3. \A v \in Owners(d) : v # w => pc'[v] = pc[v] /\ cur'[v] = cur[v]
        BY <1>6 DEF Owners
      <4> QED
        BY <4>1, <4>2, <4>3 DEF MayRun
    <3> QED
      BY <3>1 DEF CompletionsPaid
  <2>2. CASE d = e
    <3>1. Nack(w)
      BY <1>4, <1>8, <2>2 DEF MayRun
    <3>2. MayRun(e)
      BY <1>1, <1>2, <3>1 DEF MayRun
    <3> QED
      BY <1>2, <2>2, <3>2 DEF CompletionsPaid
  <2> QED
    BY <2>1, <2>2
<1>15. AbandonedFew'
  <2>1. inbox'[e].status # "processing"
    BY <1>4
  <2>2. Abandoned' \subseteq Abandoned
    BY <1>4, <1>8, <2>1 DEF Abandoned
  <2> QED
    BY <1>1, <2>2, FewKept
<1> QED
  BY <1>7, <1>9, <1>10, <1>11, <1>12, <1>13, <1>14, <1>15

-----------------------------------------------------------------------------
(* The end of a tick or of a process.                                      *)

\* Worker w keeps nothing, and the rows it answered for are as they were, or
\* as the statement left them that ended its process.
LEMMA QuitStep ==
  ASSUME IInv, NEW w \in Worker,
         EndTick(w) \/ WorkerDies(w) \/ Crash(w) \/ Restart(w)
  PROVE  IInv'
<1> USE DEF IInv
<1>1. /\ \E to \in {"idle", "down"} : pc' = [pc EXCEPT ![w] = to]
      /\ crashes' \in 0 .. Crashes /\ faults' \in 0 .. Faults
      /\ faults \in Nat /\ faults' \in Nat /\ faults <= faults'
      /\ UNCHANGED <<started, completed>>
  BY InboxAssumption
     DEF EndTick, WorkerDies, Crash, Restart, Fault, Goto, TypeOK
<1>2. /\ \A v \in Worker : /\ todo'[v] = IF v = w THEN {} ELSE todo[v]
                           /\ cur'[v] = IF v = w THEN NoEvent ELSE cur[v]
                           /\ v # w => seen'[v] = seen[v]
      /\ todo' \in [Worker -> SUBSET Event]
      /\ cur' \in [Worker -> Event \cup {NoEvent}]
      /\ seen' \in [Worker -> [Event -> 0 .. MaxAttempts]]
  <2>1. CASE Forget(w)
    <3>1. [e \in Event |-> 0] \in [Event -> 0 .. MaxAttempts]
      BY InboxAssumption
    <3> QED
      BY <2>1, <3>1 DEF Forget, TypeOK
  <2>2. CASE Restart(w)
    BY <2>2 DEF Restart, local, TypeOK, WorkerShape
  <2> QED
    BY <2>1, <2>2 DEF EndTick, WorkerDies, Crash
<1>3. \A v \in Worker : IF v = w THEN pc'[v] \in {"idle", "down"}
                                 ELSE pc'[v] = pc[v]
  BY <1>1 DEF TypeOK
<1>4. /\ inbox' \in [Event -> Row]
      /\ \A e \in Event :
           \/ inbox'[e] = inbox[e]
           \/ /\ Due(e) /\ Owners(e) = {} /\ e \in todo[w]
              /\ \A v \in Worker \ {w} : pc[v] = "claiming" => e \notin todo[v]
              /\ inbox'[e].status = "processing"
              /\ inbox'[e].attempts = inbox[e].attempts + 1
           \/ /\ Owners(e) = {w} /\ MayRun(e)
              /\ inbox[e].status \in {"processing", "processed"}
              /\ inbox'[e].attempts = inbox[e].attempts
              /\ inbox'[e].status = IF inbox[e].attempts = MaxAttempts
                                      THEN "dead_letter" ELSE "failed"
  <2>1. CASE UNCHANGED inbox
    BY <2>1 DEF TypeOK
  <2>2. CASE /\ pc[w] = "claiming"
             /\ inbox' = [e \in Event |->
                  IF e \in todo[w] THEN Claimed(inbox[e]) ELSE inbox[e]]
    <3>1. \A v \in Worker \ {w} : pc[v] = "claiming" => todo[v] \cap todo[w] = {}
      BY <2>2 DEF ClaimsHold
    <3> QED
      BY <2>2, <3>1, ClaimEffect
  <2>3. CASE pc[w] = "fail" /\ MarkFailure(w)
    <3> DEFINE e == cur[w]
    <3>1. e \in todo[w] /\ e \in Event /\ w \in Owners(e) /\ inbox[e] \in Row
      BY <2>3 DEF WorkerShape, Owners, TypeOK
    <3>2. /\ seen[w][e] = inbox[e].attempts /\ Owners(e) = {w} /\ MayRun(e)
          /\ inbox[e].status \in {"processing", "processed"}
      BY <2>3, <3>1 DEF OwnersHold, ClaimExclusive, MayRun
    <3>3. inbox' = [inbox EXCEPT ![e] = Settled(inbox[e], inbox[e].attempts)]
      BY <2>3, <3>2 DEF MarkFailure
    <3> QED
      BY <3>1, <3>2, <3>3, SettledFacts DEF TypeOK
  <2> QED
    BY <2>1, <2>2, <2>3 DEF EndTick, WorkerDies, Crash, Restart
<1>5. TypeOK'
  BY <1>1, <1>2, <1>4 DEF TypeOK, PC
<1>6. \A e \in Event : Owners(e)' = Owners(e) \ {w}
  BY <1>2, <1>3 DEF Owners
<1>7. WorkerShape'
  <2>1. Cardinality({}) <= BatchSize
    BY FS_EmptySet, InboxAssumption
  <2> QED
    BY <1>2, <1>3, <2>1 DEF WorkerShape
<1>8. ClaimsHold'
  <2>1. \A v \in Worker \ {w} : pc[v] = "claiming" =>
          \A e \in todo[v] : e \in Event /\ inbox'[e] = inbox[e]
    <3> SUFFICES ASSUME NEW v \in Worker \ {w}, pc[v] = "claiming",
                        NEW e \in todo[v]
                 PROVE  e \in Event /\ inbox'[e] = inbox[e]
      OBVIOUS
    <3>1. e \in Event /\ inbox[e].status \in {"received", "failed"}
      BY DEF ClaimsHold, Due, TypeOK
    <3> QED
      BY <1>4, <3>1
  <2> QED
    <3>1. \A v \in Worker : pc'[v] = "claiming" =>
            v # w /\ pc[v] = "claiming" /\ todo'[v] = todo[v] /\ seen'[v] = seen[v]
      BY <1>2, <1>3
    <3> QED
      BY <2>1, <3>1 DEF ClaimsHold, Due
<1>9. ClaimExclusive'
  BY <1>4, <1>6 DEF ClaimExclusive
<1>10. OwnersHold'
  <2> SUFFICES ASSUME NEW e \in Event, NEW v \in Owners(e)'
               PROVE  /\ seen'[v][e] = inbox'[e].attempts
                      /\ cur'[v] # e => started'[e] < inbox'[e].attempts
    BY DEF OwnersHold
  <2>1. v # w /\ v \in Owners(e) /\ v \in Worker
    BY <1>6 DEF Owners
  <2>2. inbox'[e] = inbox[e]
    BY <1>4, <2>1
  <2> QED
    BY <1>1, <1>2, <2>1, <2>2 DEF OwnersHold
<1>11. \A e \in Event : /\ inbox[e].attempts \in 0 .. MaxAttempts
                        /\ started[e] \in Nat /\ completed[e] \in Nat
  BY DEF TypeOK, Row
<1>12. AttemptsLeft'
  BY <1>4, <1>11, InboxAssumption DEF AttemptsLeft, Due
<1>13. BoundedCalls'
  <2> SUFFICES ASSUME NEW e \in Event
               PROVE  /\ started[e] <= inbox'[e].attempts
                      /\ inbox'[e].status = "dead_letter" =>
                           inbox'[e].attempts = MaxAttempts
    BY <1>1 DEF BoundedCalls
  <2>1. started[e] <= inbox[e].attempts
    BY DEF BoundedCalls
  <2> QED
    BY <1>4, <1>11, <2>1, InboxAssumption DEF BoundedCalls
<1>14. RepeatsNeedFaults'
  BY <1>1, <1>11 DEF RepeatsNeedFaults
<1>15. CompletionsPaid'
  <2>1. \A e \in Event : MayRun(e)' => MayRun(e)
    <3> SUFFICES ASSUME NEW e \in Event, MayRun(e)' PROVE MayRun(e)
      OBVIOUS
    <3>1. CASE inbox'[e] = inbox[e]
      BY <1>2, <1>3, <1>6, <3>1 DEF MayRun, Owners
    <3>2. CASE inbox'[e] # inbox[e]
      BY <1>4, <1>6, <3>2 DEF MayRun
    <3> QED
      BY <3>1, <3>2
  <2> QED
    BY <1>1, <1>11, <2>1 DEF CompletionsPaid
<1>16. AbandonedFew'
  <2>1. \A e \in Event : w \in Owners(e) => e \in todo[w]
    BY DEF Owners
  <2>2. Abandoned' \subseteq Abandoned \cup todo[w]
    BY <1>4, <1>6, <2>1 DEF Abandoned
  <2>3. CASE EndTick(w) \/ Restart(w)
    <3>1. todo[w] = {} /\ UNCHANGED <<crashes, faults>>
      BY <2>3 DEF EndTick, Restart, WorkerShape
    <3> QED
      BY <2>2, <3>1, FewKept
  <2>4. CASE WorkerDies(w) \/ Crash(w)
    <3>1. crashes' + faults' = crashes + faults + 1
      BY <2>4, Counts DEF WorkerDies, Crash, Fault
    <3>2. Cardinality(todo[w]) <= BatchSize
      BY DEF WorkerShape
    <3> QED
      BY <2>2, <3>1, <3>2, FewLost
  <2> QED
    BY <2>3, <2>4
<1> QED
  BY <1>5, <1>7, <1>8, <1>9, <1>10, <1>12, <1>13, <1>14, <1>15, <1>16

-----------------------------------------------------------------------------
(* Theorems.                                                               *)

LEMMA InitInv == Init => IInv
<1> SUFFICES ASSUME Init PROVE IInv
  OBVIOUS
<1> USE InboxAssumption
<1>1. Absent \in Row /\ Absent.status = "absent" /\ Absent.attempts = 0
  BY DEF Absent, Row
<1>2. TypeOK
  BY <1>1 DEF Init, TypeOK, PC
<1>3. \A e \in Event : Owners(e) = {}
  BY DEF Init, Owners
<1>4. WorkerShape /\ ClaimsHold
  BY FS_EmptySet DEF Init, WorkerShape, ClaimsHold
<1>5. ClaimExclusive /\ OwnersHold
  BY <1>3 DEF ClaimExclusive, OwnersHold
<1>6. AttemptsLeft /\ BoundedCalls /\ CompletionsPaid /\ RepeatsNeedFaults
  BY <1>1 DEF Init, AttemptsLeft, BoundedCalls, CompletionsPaid, RepeatsNeedFaults
<1>7. AbandonedFew
  <2>1. Abandoned = {}
    BY <1>1 DEF Init, Abandoned
  <2> QED
    BY <2>1, FS_EmptySet DEF Init, AbandonedFew
<1> QED
  BY <1>2, <1>4, <1>5, <1>6, <1>7 DEF IInv

LEMMA NextInv == IInv /\ [Next]_vars => IInv'
<1> SUFFICES ASSUME IInv, [Next]_vars PROVE IInv'
  OBVIOUS
<1>1. CASE UNCHANGED vars
  <2>1. /\ UNCHANGED <<inbox, pc, todo, cur, seen, crashes, faults>>
        /\ UNCHANGED <<started, completed>>
    BY <1>1 DEF vars
  <2>2. TypeOK'
    BY <2>1 DEF IInv, TypeOK
  <2>3. /\ WorkerShape' /\ ClaimsHold' /\ ClaimExclusive' /\ OwnersHold'
        /\ AttemptsLeft' /\ BoundedCalls' /\ CompletionsPaid'
        /\ RepeatsNeedFaults'
    BY <2>1 DEF IInv, WorkerShape, ClaimsHold, ClaimExclusive, OwnersHold,
                AttemptsLeft, BoundedCalls, CompletionsPaid,
                RepeatsNeedFaults, MayRun, Owners, Due
  <2>4. AbandonedFew'
    BY <2>1 DEF IInv, AbandonedFew, Abandoned, Owners
  <2> QED
    BY <2>2, <2>3, <2>4 DEF IInv
<1>2. CASE Next
  BY <1>2, ReceiveStep, RetryStep, SelectStep, CommitStep, NextEventStep,
     HandlerStep, AckThrowsStep, SettleStep, QuitStep DEF Next, Work
<1> QED
  BY <1>1, <1>2

\* However deliveries repeat, workers crash and statements fail, at most one
\* worker answers for an event, it knows how often the event was claimed, and
\* every call of a handler was counted by a claim (InboxRepository).
THEOREM InboxInvariance == Spec => []IInv
BY InitInv, NextInv, PTL DEF Spec

\* The handler of an event is called at most as often as the event is claimed,
\* MaxAttempts times, and an event is given up only after all of them
\* (claimDueEvents, markDeadLetter).
THEOREM CallsBounded == Spec => []BoundedCalls
<1>1. IInv => BoundedCalls
  BY DEF IInv
<1> QED
  BY <1>1, InboxInvariance, PTL

\* A completed handler is repeated only after a failed statement: repeated
\* deliveries never cause it (saveReceived, processDueBatch).
THEOREM RepeatsPaid == Spec => []RepeatsNeedFaults
<1>1. IInv => RepeatsNeedFaults
  BY DEF IInv
<1> QED
  BY <1>1, InboxInvariance, PTL

\* A crash, or a statement that throws outside the try block, leaves at most the
\* batch of one worker in processing without anyone to settle it
\* (claimDueEvents, processDueBatch).
THEOREM AbandonedBounded == Spec => []AbandonedFew
<1>1. IInv => AbandonedFew
  BY DEF IInv
<1> QED
  BY <1>1, InboxInvariance, PTL
=============================================================================
