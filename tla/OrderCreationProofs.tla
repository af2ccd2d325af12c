------------------------ MODULE OrderCreationProofs -------------------------
(***************************************************************************)
(* Proofs about OrderCreation for every set of requests, keys and bodies,  *)
(* every number of tries and of faults.                                    *)
(***************************************************************************)
EXTENDS OrderCreation, TLAPS

\* What the end of a transaction does to the locks.
LEMMA ReleaseFacts ==
  ASSUME TypeOK, NEW r \in Request, Release(r)
  PROVE  /\ locks' \in [Key -> [shared : SUBSET Request,
                                exclusive : SUBSET Request]]
         /\ \A k \in Key : /\ locks'[k].shared = locks[k].shared \ {r}
                           /\ locks'[k].exclusive = locks[k].exclusive \ {r}
BY DEF TypeOK, Release

\* A key that a request carries is a key.
LEMMA KeyOfRequest ==
  ASSUME NEW r \in Request
  PROVE  /\ KeyFor[r] \in Key \cup {NoKey}
         /\ BodyOf[r] \in Body
         /\ NoKey \notin Key
BY CreationAssumption

LEMMA AnswerFacts ==
  /\ \A kind \in {"none", "not found", "conflict", "in progress", "error"} :
       Told(kind) \in Answer /\ Told(kind).kind = kind
  /\ \A id \in Nat : /\ Created(id) \in Answer /\ Created(id).kind = "order"
                     /\ Created(id).order = id
BY DEF Told, Created, Answer, NoOrder

LEMMA RowFacts ==
  ASSUME TypeOK, NEW r \in Request
  PROVE  /\ CompletedRow(r) \in KeyRow
         /\ CompletedRow(r).status = "completed"
         /\ CompletedRow(r).body = BodyOf[r]
         /\ CompletedRow(r).order = draft[r]
BY KeyOfRequest DEF TypeOK, CompletedRow, KeyRow

\* What the two locks do to the table of locks.
LockTable == [Key -> [shared : SUBSET Request, exclusive : SUBSET Request]]

LEMMA ShareFacts ==
  ASSUME TypeOK, NEW r \in Request, NEW k \in Key, ShareLock(r, k)
  PROVE  /\ locks' \in LockTable
         /\ \A j \in Key :
              /\ locks'[j].shared = IF j = k THEN locks[j].shared \cup {r}
                                             ELSE locks[j].shared
              /\ locks'[j].exclusive = locks[j].exclusive
<1>1. locks \in LockTable
  BY DEF TypeOK, LockTable
<1> DEFINE row == [locks[k] EXCEPT !.shared = @ \cup {r}]
<1>2. locks' = [locks EXCEPT ![k] = row]
  BY <1>1 DEF ShareLock, LockTable
<1>3. /\ row \in [shared : SUBSET Request, exclusive : SUBSET Request]
      /\ row.shared = locks[k].shared \cup {r}
      /\ row.exclusive = locks[k].exclusive
  BY <1>1 DEF LockTable
<1> QED
  BY <1>1, <1>2, <1>3 DEF LockTable

LEMMA ExclusiveFacts ==
  ASSUME TypeOK, NEW r \in Request, NEW k \in Key, ExclusiveLock(r, k)
  PROVE  /\ locks' \in LockTable
         /\ \A j \in Key :
              /\ locks'[j].exclusive = IF j = k THEN locks[j].exclusive \cup {r}
                                                ELSE locks[j].exclusive
              /\ locks'[j].shared = locks[j].shared
<1>1. locks \in LockTable
  BY DEF TypeOK, LockTable
<1> DEFINE row == [locks[k] EXCEPT !.exclusive = @ \cup {r}]
<1>2. locks' = [locks EXCEPT ![k] = row]
  BY <1>1 DEF ExclusiveLock, LockTable
<1>3. /\ row \in [shared : SUBSET Request, exclusive : SUBSET Request]
      /\ row.exclusive = locks[k].exclusive \cup {r}
      /\ row.shared = locks[k].shared
  BY <1>1 DEF LockTable
<1> QED
  BY <1>1, <1>2, <1>3 DEF LockTable

\* A transaction that ends without a COMMIT: an error for the client, or
\* another try.
GivesUp(r) ==
  /\ Release(r)
  /\ draft' = [draft EXCEPT ![r] = NoOrder]
  /\ UNCHANGED <<keys, orders, events, nextId, tries>>
  /\ faults' \in 0 .. Faults
  /\ pc[r] \in {"begin", "duplicate", "insert", "complete", "commit"}
  /\ \/ answer' = [answer EXCEPT ![r] = Told("error")]
        /\ pc' = [pc EXCEPT ![r] = "done"]
     \/ pc[r] # "begin" /\ tries[r] # MaxTries
        /\ pc' = [pc EXCEPT ![r] = "begin"] /\ UNCHANGED answer

\* A transaction whose COMMIT took effect, and what its client is told.
Commits(r) ==
  /\ pc[r] = "commit"
  /\ Publish(r)
  /\ Release(r)
  /\ draft' = [draft EXCEPT ![r] = NoOrder]
  /\ UNCHANGED <<nextId, tries>>
  /\ faults' \in 0 .. Faults
  /\ \E a \in {Told("error"), Created(draft[r])} :
       answer' = [answer EXCEPT ![r] = a]
  /\ pc' = [pc EXCEPT ![r] = "done"]

\* How transactions end: one COMMIT, or nothing.
LEMMA Endings ==
  ASSUME TypeOK, NEW r \in Request
  PROVE  /\ Commit(r) => Commits(r)
         /\ DeadlockVictim(r) => GivesUp(r)
         /\ ForeignDeadlock(r) => GivesUp(r)
         /\ Fails(r) => GivesUp(r) \/ Commits(r)
<1>1. faults < Faults => faults + 1 \in 0 .. Faults
  BY CreationAssumption DEF TypeOK
<1>2. RetryOrGiveUp(r) =>
        \/ /\ answer' = [answer EXCEPT ![r] = Told("error")]
           /\ pc' = [pc EXCEPT ![r] = "done"]
        \/ /\ tries[r] # MaxTries
           /\ pc' = [pc EXCEPT ![r] = "begin"] /\ UNCHANGED answer
  BY DEF RetryOrGiveUp, Reply, Goto
<1>3. Commit(r) => Commits(r)
  BY DEF Commit, Commits, Reply, Goto, TypeOK
<1>4. DeadlockVictim(r) => GivesUp(r)
  BY <1>2 DEF DeadlockVictim, GivesUp, Rollback, db, TypeOK
<1>5. ForeignDeadlock(r) => GivesUp(r)
  BY <1>1, <1>2 DEF ForeignDeadlock, GivesUp, Rollback, db, InTransaction
<1>6. Fails(r) => GivesUp(r) \/ Commits(r)
  BY <1>1 DEF Fails, GivesUp, Commits, Reply, Goto, db, InTransaction
<1> QED
  BY <1>3, <1>4, <1>5, <1>6

LEMMA TypeStep == IInv /\ [Next]_vars => TypeOK'
<1> SUFFICES ASSUME IInv, [Next]_vars PROVE TypeOK'
  OBVIOUS
<1> USE DEF IInv
<1>1. ASSUME NEW r \in Request, CheckPasses(r) PROVE TypeOK'
  BY <1>1 DEF CheckPasses, Goto, TypeOK, PC, db
<1>2. ASSUME NEW r \in Request, CheckFails(r) PROVE TypeOK'
  BY <1>2, AnswerFacts DEF CheckFails, Reply, Goto, TypeOK, PC, db
<1>3. ASSUME NEW r \in Request, Begin(r) PROVE TypeOK'
  <2>1. tries' \in [Request -> 0 .. MaxTries]
    BY <1>3, CreationAssumption DEF Begin, TypeOK, TriesLeft
  <2>2. pc' \in [Request -> PC] /\ UNCHANGED <<db, nextId, draft, answer, faults>>
    BY <1>3 DEF Begin, ReserveKey, ReserveAtOnce, Goto, TypeOK, PC
  <2>3. locks' \in [Key -> [shared : SUBSET Request, exclusive : SUBSET Request]]
    <3>1. CASE KeyFor[r] = NoKey
      BY <1>3, <3>1 DEF Begin, TypeOK
    <3>2. CASE KeyFor[r] # NoKey
      BY <1>3, <3>2, KeyOfRequest, ShareFacts, ExclusiveFacts
         DEF Begin, ReserveKey, ReserveAtOnce, LockTable
    <3> QED
      BY <3>1, <3>2
  <2> QED
    BY <2>1, <2>2, <2>3 DEF TypeOK, db
<1>4. ASSUME NEW r \in Request, ReadKey(r) PROVE TypeOK'
  <2>1. KeyFor[r] \in Key
    BY <1>4, KeyOfRequest DEF ReadKey, LocksFollow
  <2>2. Stored(r, keys[KeyFor[r]]) \in Answer
    BY <2>1, AnswerFacts DEF Stored, TypeOK, KeyRow
  <2> QED
    BY <1>4, <2>2, ReleaseFacts DEF ReadKey, Reply, Goto, TypeOK, PC, db
<1>5. ASSUME NEW r \in Request, InsertOrder(r) PROVE TypeOK'
  BY <1>5 DEF InsertOrder, AppendEvent, Goto, TypeOK, PC, db
<1>6. ASSUME NEW r \in Request, CompleteKey(r) PROVE TypeOK'
  BY <1>6 DEF CompleteKey, Goto, TypeOK, PC, db
<1>7. ASSUME NEW r \in Request, Commits(r) PROVE TypeOK'
  <2>1. draft[r] \in 1 .. nextId
    BY <1>7 DEF Commits, DraftsFresh
  <2>2. orders' \subseteq [id : 1 .. nextId, by : Request]
    BY <1>7, <2>1 DEF Commits, Publish, TypeOK
  <2>3. events' \subseteq 1 .. nextId
    BY <1>7, <2>1 DEF Commits, Publish, TypeOK
  <2>4. keys' \in [Key -> KeyRow]
    BY <1>7, RowFacts, KeyOfRequest DEF Commits, Publish, TypeOK
  <2>5. answer' \in [Request -> Answer]
    <3>1. Told("error") \in Answer /\ Created(draft[r]) \in Answer
      BY AnswerFacts DEF TypeOK
    <3> QED
      BY <1>7, <3>1 DEF Commits, TypeOK
  <2>6. pc' \in [Request -> PC] /\ draft' \in [Request -> Nat]
    BY <1>7 DEF Commits, TypeOK, PC, NoOrder
  <2> QED
    BY <1>7, <2>2, <2>3, <2>4, <2>5, <2>6, ReleaseFacts DEF Commits, TypeOK
<1>8. ASSUME NEW r \in Request, GivesUp(r) PROVE TypeOK'
  <2>1. answer' \in [Request -> Answer]
    BY <1>8, AnswerFacts DEF GivesUp, TypeOK
  <2>2. pc' \in [Request -> PC] /\ draft' \in [Request -> Nat]
    BY <1>8 DEF GivesUp, TypeOK, PC, NoOrder
  <2> QED
    BY <1>8, <2>1, <2>2, ReleaseFacts DEF GivesUp, TypeOK
<1>9. CASE UNCHANGED vars
  BY <1>9 DEF vars, TypeOK, db
<1> QED
  BY <1>1, <1>2, <1>3, <1>4, <1>5, <1>6, <1>7, <1>8, <1>9, Endings
     DEF Next, Step

-----------------------------------------------------------------------------
(* Locks.                                                                  *)

LEMMA LocksStep == IInv /\ [Next]_vars => LocksFollow'
<1> SUFFICES ASSUME IInv, [Next]_vars PROVE LocksFollow'
  OBVIOUS
<1> USE DEF IInv
<1>1. pc \in [Request -> PC] /\ TypeOK
  BY DEF TypeOK
<1>2. ASSUME NEW r \in Request,
             CheckPasses(r) \/ CheckFails(r) \/ InsertOrder(r) \/ CompleteKey(r)
      PROVE  LocksFollow'
  <2>1. /\ UNCHANGED <<keys, locks>>
        /\ \E to \in PC :
             /\ pc' = [pc EXCEPT ![r] = to]
             /\ pc[r] \in Writing <=> to \in Writing
             /\ pc[r] # "duplicate" /\ to # "duplicate"
             /\ to = "complete" => KeyFor[r] # NoKey
    BY <1>2 DEF CheckPasses, CheckFails, InsertOrder, CompleteKey, Reply, Goto,
                AppendEvent, db, Writing, PC
  <2> QED
    BY <1>1, <2>1 DEF LocksFollow
<1>3. ASSUME NEW r \in Request, Begin(r) PROVE LocksFollow'
  <2>1. CASE KeyFor[r] = NoKey
    BY <1>1, <1>3, <2>1, KeyOfRequest
       DEF Begin, Goto, db, LocksFollow, Writing
  <2>2. CASE KeyFor[r] # NoKey /\ keys[KeyFor[r]].status = "absent"
    <3> DEFINE k == KeyFor[r]
    <3>1. k \in Key /\ locks[k].exclusive = {}
      BY <1>3, <2>2, KeyOfRequest DEF Begin, ReserveKey
    <3>2. ExclusiveLock(r, k) /\ pc' = [pc EXCEPT ![r] = "insert"] /\ UNCHANGED db
      BY <1>3, <2>2 DEF Begin, ReserveKey, ReserveAtOnce, Goto
    <3>3. \A j \in Key :
            /\ locks'[j].exclusive = IF j = k THEN {r} ELSE locks[j].exclusive
            /\ locks'[j].shared = locks[j].shared
      <4>1. \A j \in Key :
              /\ locks'[j].exclusive = IF j = k THEN locks[j].exclusive \cup {r}
                                                ELSE locks[j].exclusive
              /\ locks'[j].shared = locks[j].shared
        BY <1>1, <3>1, <3>2, ExclusiveFacts
      <4>2. {} \cup {r} = {r}
        OBVIOUS
      <4> QED
        BY <3>1, <4>1, <4>2
    <3>4. pc[r] = "begin"
      BY <1>3 DEF Begin
    <3> QED
      BY <1>1, <2>2, <3>1, <3>2, <3>3, <3>4 DEF LocksFollow, db, Writing
  <2>3. CASE KeyFor[r] # NoKey /\ keys[KeyFor[r]].status # "absent"
    <3> DEFINE k == KeyFor[r]
    <3>1. k \in Key
      BY <2>3, KeyOfRequest
    <3>2. ShareLock(r, k) /\ pc' = [pc EXCEPT ![r] = "duplicate"] /\ UNCHANGED db
      BY <1>3, <2>3 DEF Begin, ReserveKey, ReserveAtOnce, Goto
    <3>3. \A j \in Key :
            /\ locks'[j].shared = IF j = k THEN locks[j].shared \cup {r}
                                           ELSE locks[j].shared
            /\ locks'[j].exclusive = locks[j].exclusive
      BY <1>1, <3>1, <3>2, ShareFacts
    <3>4. pc[r] = "begin" /\ keys[k].status = "completed"
      BY <1>3, <2>3, <3>1 DEF Begin, KeysNameOrders
    <3> QED
      <4>1. /\ \A q \in Request : pc'[q] = IF q = r THEN "duplicate" ELSE pc[q]
            /\ UNCHANGED keys
        BY <1>1, <3>2 DEF db
      <4> HIDE DEF k
      <4>2. \A j \in Key : \A q, p \in locks'[j].exclusive : q = p
        <5> SUFFICES ASSUME NEW j \in Key
                     PROVE  \A q, p \in locks'[j].exclusive : q = p
          OBVIOUS
        <5>1. locks'[j].exclusive = locks[j].exclusive
          BY <3>3
        <5>2. \A q, p \in locks[j].exclusive : q = p
          BY DEF LocksFollow
        <5> QED
          BY <5>1, <5>2
      <4>3. \A q \in Request : \A j \in Key :
              /\ q \in locks'[j].exclusive <=> pc'[q] \in Writing /\ KeyFor[q] = j
              /\ q \in locks'[j].shared <=> pc'[q] = "duplicate" /\ KeyFor[q] = j
        <5> SUFFICES ASSUME NEW q \in Request, NEW j \in Key
                     PROVE  /\ q \in locks'[j].exclusive
                                 <=> pc'[q] \in Writing /\ KeyFor[q] = j
                            /\ q \in locks'[j].shared
                                 <=> pc'[q] = "duplicate" /\ KeyFor[q] = j
          OBVIOUS
        <5>1. locks'[j].exclusive = locks[j].exclusive
          BY <3>3
        <5>2. q \in locks'[j].shared
                <=> q \in locks[j].shared \/ (q = r /\ j = k)
          BY <3>3
        <5>3. /\ q \in locks[j].exclusive <=> pc[q] \in Writing /\ KeyFor[q] = j
              /\ q \in locks[j].shared <=> pc[q] = "duplicate" /\ KeyFor[q] = j
          BY DEF LocksFollow
        <5>4. k = KeyFor[r]
          BY DEF k
        <5> QED
          BY <3>4, <4>1, <5>1, <5>2, <5>3, <5>4 DEF Writing
      <4>4. \A q \in Request :
              /\ pc'[q] = "duplicate" =>
                   KeyFor[q] # NoKey /\ keys'[KeyFor[q]].status = "completed"
              /\ pc'[q] \in Writing /\ KeyFor[q] # NoKey =>
                   keys'[KeyFor[q]].status = "absent"
              /\ pc'[q] = "complete" => KeyFor[q] # NoKey
        BY <2>3, <3>4, <4>1 DEF LocksFollow, Writing, k
      <4> QED
        BY <4>2, <4>3, <4>4 DEF LocksFollow
  <2> QED
    BY <2>1, <2>2, <2>3
<1>4. ASSUME NEW r \in Request, Release(r), UNCHANGED keys,
             NEW to \in {"begin", "done"}, pc' = [pc EXCEPT ![r] = to]
      PROVE  LocksFollow'
  BY <1>1, <1>4, ReleaseFacts DEF LocksFollow, Writing
<1>5. ASSUME NEW r \in Request, ReadKey(r) \/ GivesUp(r) PROVE LocksFollow'
  BY <1>4, <1>5 DEF ReadKey, GivesUp, Reply, Goto, db
<1>6. ASSUME NEW r \in Request, Commits(r) PROVE LocksFollow'
  <2>1. \A q \in Request \ {r} :
          pc[q] \in Writing \cup {"duplicate"} /\ KeyFor[r] # NoKey
            => KeyFor[q] # KeyFor[r]
    <3> SUFFICES ASSUME NEW q \in Request, q # r, KeyFor[r] # NoKey,
                        pc[q] \in Writing \cup {"duplicate"}, KeyFor[q] = KeyFor[r]
                 PROVE  FALSE
      OBVIOUS
    <3>1. KeyFor[r] \in Key /\ pc[r] \in Writing
      BY <1>6, KeyOfRequest DEF Commits, Writing
    <3>2. keys[KeyFor[r]].status = "absent" /\ r \in locks[KeyFor[r]].exclusive
      BY <3>1 DEF LocksFollow
    <3> QED
      BY <3>1, <3>2 DEF LocksFollow
  <2>2. \A q \in Request \ {r} :
          pc[q] \in Writing \cup {"duplicate"} /\ KeyFor[q] # NoKey
            => keys'[KeyFor[q]] = keys[KeyFor[q]]
    BY <1>1, <1>6, <2>1, KeyOfRequest DEF Commits, Publish, TypeOK
  <2>3. /\ \A q \in Request \ {r} : pc'[q] = pc[q]
        /\ pc'[r] = "done"
    BY <1>1, <1>6 DEF Commits
  <2>4. \A k \in Key : /\ locks'[k].shared = locks[k].shared \ {r}
                       /\ locks'[k].exclusive = locks[k].exclusive \ {r}
    BY <1>6, ReleaseFacts DEF Commits
  <2> QED
    BY <2>2, <2>3, <2>4 DEF LocksFollow, Writing
<1>7. CASE UNCHANGED vars
  BY <1>7 DEF vars, db, LocksFollow
<1> QED
  BY <1>2, <1>3, <1>5, <1>6, <1>7, Endings DEF Next, Step

LEMMA TriesStep == IInv /\ [Next]_vars => TriesLeft'
<1> SUFFICES ASSUME IInv, [Next]_vars PROVE TriesLeft'
  OBVIOUS
<1> USE DEF IInv
<1>1. TypeOK /\ pc \in [Request -> PC] /\ tries \in [Request -> 0 .. MaxTries]
  BY DEF TypeOK
<1>2. ASSUME NEW r \in Request,
             \/ CheckPasses(r) \/ CheckFails(r) \/ ReadKey(r)
             \/ InsertOrder(r) \/ CompleteKey(r)
      PROVE  TriesLeft'
  <2>1. /\ UNCHANGED tries
        /\ \E to \in PC : /\ pc' = [pc EXCEPT ![r] = to]
                          /\ to = "begin" => pc[r] = "check"
    BY <1>2 DEF CheckPasses, CheckFails, ReadKey, InsertOrder, CompleteKey,
                Reply, Goto, PC
  <2> QED
    <3>1. PICK to \in PC : /\ pc' = [pc EXCEPT ![r] = to]
                           /\ to = "begin" => pc[r] = "check"
      BY <2>1
    <3>2. \A q \in Request : pc'[q] = IF q = r THEN to ELSE pc[q]
      BY <1>1, <3>1
    <3>3. to # "check"
      BY <1>2, <1>1, <3>2 DEF CheckPasses, CheckFails, ReadKey, InsertOrder,
                              CompleteKey, Reply, Goto
    <3> QED
      BY <2>1, <3>1, <3>2, <3>3 DEF TriesLeft
<1>3. ASSUME NEW r \in Request, Begin(r) PROVE TriesLeft'
  <2>1. \E to \in {"insert", "duplicate"} : pc' = [pc EXCEPT ![r] = to]
    BY <1>3 DEF Begin, ReserveKey, ReserveAtOnce, Goto
  <2>2. tries' = [tries EXCEPT ![r] = tries[r] + 1]
    BY <1>3 DEF Begin
  <2> QED
    BY <1>1, <2>1, <2>2 DEF TriesLeft
<1>4. ASSUME NEW r \in Request, GivesUp(r) \/ Commits(r) PROVE TriesLeft'
  BY <1>1, <1>4, CreationAssumption DEF GivesUp, Commits, TriesLeft
<1>5. CASE UNCHANGED vars
  BY <1>5 DEF vars, TriesLeft
<1> QED
  BY <1>2, <1>3, <1>4, <1>5, Endings DEF Next, Step

-----------------------------------------------------------------------------
(* Tables and answers.                                                     *)

\* The steps that are not a COMMIT leave the tables alone.
LEMMA TablesKept ==
  ASSUME TypeOK, NEW r \in Request, Step(r) \/ ForeignDeadlock(r) \/ Fails(r)
  PROVE  UNCHANGED <<keys, orders, events>> \/ Commits(r)
BY Endings DEF Step, CheckPasses, CheckFails, Begin, ReadKey, InsertOrder,
               AppendEvent, CompleteKey, GivesUp, db

\* What a COMMIT does to the tables.
LEMMA CommitFacts ==
  ASSUME IInv, NEW r \in Request, Commits(r)
  PROVE  /\ orders' = orders \cup {[id |-> draft[r], by |-> r]}
         /\ events' = events \cup {draft[r]}
         /\ KeyFor[r] = NoKey => keys' = keys
         /\ KeyFor[r] # NoKey =>
              /\ \A o \in orders : KeyFor[o.by] # KeyFor[r]
              /\ \A k \in Key : keys'[k] = IF k = KeyFor[r] THEN CompletedRow(r)
                                                            ELSE keys[k]
<1>1. KeyFor[r] # NoKey => keys[KeyFor[r]].status = "absent"
  BY DEF Commits, IInv, LocksFollow, Writing
<1>2. KeyFor[r] # NoKey => \A o \in orders : KeyFor[o.by] # KeyFor[r]
  BY <1>1, KeyOfRequest DEF IInv, KeysNameOrders
<1> QED
  BY <1>2, KeyOfRequest DEF Commits, Publish, IInv, TypeOK

LEMMA TablesStep ==
  IInv /\ [Next]_vars => (EventPerOrder /\ OneOrderPerKey /\ KeysNameOrders)'
<1> SUFFICES ASSUME IInv, [Next]_vars
             PROVE  (EventPerOrder /\ OneOrderPerKey /\ KeysNameOrders)'
  OBVIOUS
<1> USE DEF IInv
<1>1. CASE UNCHANGED <<keys, orders, events>>
  BY <1>1 DEF EventPerOrder, OneOrderPerKey, KeysNameOrders
<1>2. ASSUME NEW r \in Request, Commits(r)
      PROVE  (EventPerOrder /\ OneOrderPerKey /\ KeysNameOrders)'
  <2> DEFINE o == [id |-> draft[r], by |-> r]
  <2>1. /\ orders' = orders \cup {o}
        /\ o.id = draft[r] /\ o.by = r
    BY <1>2, CommitFacts
  <2> HIDE DEF o
  <2>2. EventPerOrder'
    BY <1>2, <2>1, CommitFacts DEF EventPerOrder
  <2>3. OneOrderPerKey'
    BY <1>2, <2>1, CommitFacts DEF OneOrderPerKey
  <2>4. KeysNameOrders'
    <3> SUFFICES ASSUME NEW k \in Key
                 PROVE  (/\ keys[k].status \in {"absent", "completed"}
                         /\ keys[k].status = "absent" =>
                              \A p \in orders : KeyFor[p.by] # k
                         /\ keys[k].status = "completed" =>
                              \E p \in orders :
                                /\ p.id = keys[k].order
                                /\ KeyFor[p.by] = k /\ BodyOf[p.by] = keys[k].body)'
      BY DEF KeysNameOrders
    <3>1. CASE k = KeyFor[r]
      BY <1>2, <2>1, <3>1, CommitFacts, RowFacts, KeyOfRequest DEF KeysNameOrders
    <3>2. CASE k # KeyFor[r]
      <4>1. keys'[k] = keys[k]
        BY <1>2, <3>2, CommitFacts
      <4> QED
        BY <2>1, <3>2, <4>1 DEF KeysNameOrders
    <3> QED
      BY <3>1, <3>2
  <2> QED
    BY <2>2, <2>3, <2>4
<1>3. CASE UNCHANGED vars
  BY <1>1, <1>3 DEF vars, db
<1> QED
  BY <1>1, <1>2, <1>3, TablesKept DEF Next

LEMMA DraftsStep == IInv /\ [Next]_vars => DraftsFresh'
<1> SUFFICES ASSUME IInv, [Next]_vars PROVE DraftsFresh'
  OBVIOUS
<1> USE DEF IInv
<1>1. /\ TypeOK /\ pc \in [Request -> PC] /\ nextId \in Nat
      /\ draft \in [Request -> Nat] /\ events \subseteq 1 .. nextId
  BY DEF TypeOK
<1>2. ASSUME NEW r \in Request,
             \/ CheckPasses(r) \/ CheckFails(r) \/ Begin(r)
             \/ ReadKey(r) \/ CompleteKey(r)
      PROVE  DraftsFresh'
  <2>1. /\ UNCHANGED <<events, nextId, draft>>
        /\ \E to \in PC : /\ pc' = [pc EXCEPT ![r] = to]
                          /\ to \in {"complete", "commit"} => pc[r] = "complete"
    BY <1>2 DEF CheckPasses, CheckFails, Begin, ReserveKey, ReserveAtOnce,
                ReadKey, CompleteKey, Reply, Goto, db, PC
  <2> QED
    BY <1>1, <2>1 DEF DraftsFresh
<1>3. ASSUME NEW r \in Request, InsertOrder(r) PROVE DraftsFresh'
  <2>1. /\ UNCHANGED events
        /\ nextId' = nextId + 1
        /\ draft' = [draft EXCEPT ![r] = nextId + 1]
        /\ \E to \in PC : pc' = [pc EXCEPT ![r] = to]
    BY <1>3 DEF InsertOrder, AppendEvent, Goto, db, PC
  <2> QED
    BY <1>1, <2>1 DEF DraftsFresh
<1>4. ASSUME NEW r \in Request, GivesUp(r) PROVE DraftsFresh'
  BY <1>1, <1>4 DEF GivesUp, DraftsFresh
<1>5. ASSUME NEW r \in Request, Commits(r) PROVE DraftsFresh'
  <2>1. /\ events' = events \cup {draft[r]} /\ pc[r] = "commit"
        /\ \A q \in Request \ {r} : pc'[q] = pc[q] /\ draft'[q] = draft[q]
        /\ pc'[r] = "done" /\ UNCHANGED nextId
    BY <1>1, <1>5, CommitFacts DEF Commits
  <2> QED
    BY <2>1 DEF DraftsFresh
<1>6. CASE UNCHANGED vars
  BY <1>6 DEF vars, db, DraftsFresh
<1> QED
  BY <1>2, <1>3, <1>4, <1>5, <1>6, Endings DEF Next, Step

LEMMA AnswersStep == IInv /\ [Next]_vars => AnswersJustified'
<1> SUFFICES ASSUME IInv, [Next]_vars PROVE AnswersJustified'
  OBVIOUS
<1> USE DEF IInv
<1> DEFINE True(r, a, rows) ==
      /\ a.kind = "order" =>
           \E o \in rows :
             /\ o.id = a.order
             /\ BodyOf[o.by] = BodyOf[r]
             /\ IF KeyFor[r] = NoKey THEN o.by = r ELSE KeyFor[o.by] = KeyFor[r]
      /\ a.kind # "in progress"
      /\ a.kind = "conflict" =>
           \E o \in rows : KeyFor[o.by] = KeyFor[r] /\ BodyOf[o.by] # BodyOf[r]
<1>1. AnswersJustified <=> \A r \in Request : True(r, answer[r], orders)
  BY DEF AnswersJustified, OwnOrderAnswered, RefusalsJustified
<1>2. AnswersJustified' <=> \A r \in Request : True(r, answer'[r], orders')
  BY DEF AnswersJustified, OwnOrderAnswered, RefusalsJustified
<1>3. answer \in [Request -> Answer] /\ TypeOK
  BY DEF TypeOK
<1>4. orders \subseteq orders'
  BY TablesKept, CommitFacts DEF Next, vars, db
<1>5. ASSUME NEW r \in Request, NEW a, answer' = [answer EXCEPT ![r] = a],
             True(r, a, orders')
      PROVE  AnswersJustified'
  <2>1. \A q \in Request \ {r} : answer'[q] = answer[q] /\ answer'[r] = a
    BY <1>3, <1>5
  <2>2. \A q \in Request : True(q, answer[q], orders')
    BY <1>1, <1>4
  <2>3. \A q \in Request : True(q, answer'[q], orders')
    <3> HIDE DEF True
    <3> QED
      BY <1>3, <1>5, <2>1, <2>2
  <2> HIDE DEF True
  <2> QED
    BY <1>2, <2>3
<1>6. CASE UNCHANGED answer
  <2>1. \A q \in Request : True(q, answer[q], orders')
    BY <1>1, <1>4
  <2> HIDE DEF True
  <2> QED
    BY <1>2, <1>6, <2>1
<1>7. ASSUME NEW r \in Request, NEW kind \in {"not found", "error"},
             answer' = [answer EXCEPT ![r] = Told(kind)]
      PROVE  AnswersJustified'
  <2>1. True(r, Told(kind), orders')
    BY AnswerFacts
  <2> QED
    BY <1>5, <1>7, <2>1
<1>8. ASSUME NEW r \in Request, ReadKey(r) PROVE AnswersJustified'
  <2> DEFINE k == KeyFor[r]
  <2>1. k \in Key /\ keys[k].status = "completed" /\ k # NoKey
    BY <1>8, KeyOfRequest DEF ReadKey, LocksFollow
  <2>2. PICK o \in orders : /\ o.id = keys[k].order
                            /\ KeyFor[o.by] = k /\ BodyOf[o.by] = keys[k].body
    BY <2>1 DEF KeysNameOrders
  <2>3. keys[k].order \in Nat
    BY <2>1 DEF TypeOK, KeyRow
  <2>4. True(r, Stored(r, keys[k]), orders)
    BY <2>1, <2>2, <2>3, AnswerFacts DEF Stored
  <2>5. True(r, Stored(r, keys[k]), orders')
    BY <1>4, <2>4
  <2> QED
    BY <1>5, <1>8, <2>5 DEF ReadKey, Reply
<1>9. ASSUME NEW r \in Request, Commits(r) PROVE AnswersJustified'
  <2>1. PICK a \in {Told("error"), Created(draft[r])} :
          answer' = [answer EXCEPT ![r] = a]
    BY <1>9 DEF Commits
  <2>2. [id |-> draft[r], by |-> r] \in orders'
    BY <1>9, CommitFacts
  <2>3. draft[r] \in Nat
    BY DEF TypeOK
  <2>4. True(r, Created(draft[r]), orders')
    BY <2>2, <2>3, AnswerFacts
  <2> QED
    BY <1>5, <1>7, <2>1, <2>4
<1> QED
  BY <1>6, <1>7, <1>8, <1>9, Endings
     DEF Next, Step, CheckPasses, CheckFails, Begin, InsertOrder, CompleteKey,
         GivesUp, Reply, vars

-----------------------------------------------------------------------------
(* Theorems.                                                               *)

LEMMA InitInv == Init => IInv
<1> SUFFICES ASSUME Init PROVE IInv
  OBVIOUS
<1> USE CreationAssumption
<1>1. TypeOK
  <2>1. NoRow \in KeyRow /\ Told("none") \in Answer
    BY AnswerFacts DEF NoRow, KeyRow, NoOrder
  <2> QED
    BY <2>1 DEF Init, TypeOK, PC, NoOrder
<1>2. LocksFollow /\ DraftsFresh /\ TriesLeft
  BY DEF Init, LocksFollow, DraftsFresh, TriesLeft, Writing
<1>3. KeysNameOrders /\ EventPerOrder /\ OneOrderPerKey
  BY DEF Init, KeysNameOrders, EventPerOrder, OneOrderPerKey, NoRow
<1>4. AnswersJustified
  BY AnswerFacts DEF Init, AnswersJustified, OwnOrderAnswered, RefusalsJustified
<1> QED
  BY <1>1, <1>2, <1>3, <1>4 DEF IInv

\* Whatever requests and keys there are, and however the transactions wait,
\* deadlock, retry and fail, orders and their order.created events exist
\* together and the row of a key stands for the one order made under it.
THEOREM Invariance == Spec => []IInv
<1>1. IInv /\ [Next]_vars => IInv'
  BY TypeStep, LocksStep, DraftsStep, TriesStep, TablesStep, AnswersStep DEF IInv
<1> QED
  BY <1>1, InitInv, PTL DEF Spec

\* The requests that carry one key create at most one order
\* (resolveIdempotencyKey, createWithOutboxAttempt).
THEOREM IdempotentCreation == Spec => []OneOrderPerKey
<1>1. IInv => OneOrderPerKey
  BY DEF IInv
<1> QED
  BY <1>1, Invariance, PTL

\* What a client is told is true: an order of its own key and body, a conflict
\* only with an order of another body, and never "in progress".
THEOREM TrueAnswers == Spec => []AnswersJustified
<1>1. IInv => AnswersJustified
  BY DEF IInv
<1> QED
  BY <1>1, Invariance, PTL
=============================================================================
