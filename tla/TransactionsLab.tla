--------------------------- MODULE TransactionsLab ---------------------------
(***************************************************************************)
(* The three POST /transactions-lab/... scenarios on connections of the    *)
(* application's own pool and on one shared table.  A request takes two    *)
(* connections, and a third while it refills the table.  What a connection *)
(* keeps when it returns to the pool, an open transaction or an isolation  *)
(* level, the next request that takes it starts with: START TRANSACTION    *)
(* and DDL commit what is open, ROLLBACK undoes it.                        *)
(*                                                                         *)
(* Of InnoDB the model has row and gap locks, snapshots, and the metadata  *)
(* lock: an open transaction that used the table holds it, TRUNCATE waits  *)
(* for all of them, and whoever comes after a waiting TRUNCATE waits too.  *)
(***************************************************************************)
EXTENDS Integers, Sequences, FiniteSets, SequencesExt

CONSTANTS
  LabRequest,  \* HTTP requests
  Conn,        \* the pool: MYSQL_CONNECTION_LIMIT connections
  LabFaults    \* bound: statements and getConnection calls that fail

ASSUME LabAssumption == IsFiniteSet(Conn) /\ LabFaults \in Nat

VARIABLES
  lab,      \* lab[q]: the request's scenario, level, place, connections, results
  pool,     \* the free connections
  session,  \* session[c]: what MySQL keeps for connection c
  amounts,  \* transaction_lab_items: amounts[id], committed
  labFails  \* bound: failures so far

labVars == <<lab, pool, session, amounts, labFails>>

Scenario == {"repeat", "phantom", "deadlock"}
Level    == {"RC", "RR"}
Gap      == 0  \* locked by an UPDATE of a row that is not there
NoUse    == [used |-> FALSE, snap |-> << >>, locks |-> {}]

LabTypeOK ==
  /\ lab \in [LabRequest ->
       [scenario : Scenario, level : Level, first : Nat,
        pc : {"takeA", "takeB", "takeP", "truncate", "fill", "begin", "first",
              "write", "second", "lockA", "lockB", "cross", "answered",
              "failed"},
        conn : UNION {[1 .. n -> Conn] : n \in 0 .. 3},
        results : SUBSET [level : Level, anomaly : BOOLEAN],
        branch : [{1, 2} -> {"open", "committed", "rolled_back"}]]]
  /\ pool \subseteq Conn
  /\ session \in [Conn -> [level : Level,
                          tx : [used : BOOLEAN, snap : Seq(Nat),
                                locks : SUBSET (0 .. 2)]]]
  /\ amounts \in Seq(Nat)

LabInit ==
  /\ \E scenario \in [LabRequest -> Scenario] :
       lab = [q \in LabRequest |->
                [scenario |-> scenario[q], level |-> "RC", first |-> 0,
                 pc |-> "takeA", conn |-> << >>, results |-> {},
                 branch |-> [x \in {1, 2} |-> "open"]]]
  /\ pool = Conn
  /\ session = [c \in Conn |-> [level |-> "RR", tx |-> NoUse]]
  /\ amounts = << >> /\ labFails = 0

-----------------------------------------------------------------------------
(* What a statement of connection c waits for.                              *)

Shared(c) == \/ session[c].tx.used
             \/ \A q \in LabRequest : lab[q].pc # "truncate"

RowFree(c, id) == \A d \in Conn \ {c} : id \notin session[d].tx.locks

\* An UPDATE of row id locks the row, or the gap where it would be.
LockOf(id) == IF id \in DOMAIN amounts THEN id ELSE Gap

Locked(tx, id) == [tx EXCEPT !.used = TRUE, !.locks = @ \union {id}]

\* The amounts after c committed its amount + 1 updates.
Added(c) == [i \in DOMAIN amounts |->
               amounts[i] + IF i \in session[c].tx.locks THEN 1 ELSE 0]

Place(q, from, to) == lab[q].pc = from /\ lab' = [lab EXCEPT ![q].pc = to]

-----------------------------------------------------------------------------
(* getConnection and prepareTable.                                          *)

Take(q) ==
  /\ lab[q].pc \in {"takeA", "takeB", "takeP"}
  /\ \E c \in pool :
       /\ pool' = pool \ {c}
       /\ lab' = [lab EXCEPT
            ![q].conn = Append(@, c),
            ![q].pc = CASE @ = "takeA" -> "takeB" [] @ = "takeB" -> "takeP"
                        [] @ = "takeP" -> "truncate"]
  /\ UNCHANGED <<session, amounts, labFails>>

\* CREATE TABLE IF NOT EXISTS and TRUNCATE.
Truncate(q) ==
  LET p == lab[q].conn[3] IN
  /\ Place(q, "truncate", "fill")
  /\ \A c \in Conn \ {p} : ~session[c].tx.used
  /\ session' = [session EXCEPT ![p].tx = NoUse]
  /\ amounts' = << >>
  /\ UNCHANGED <<pool, labFails>>

\* Injected bug: the connection of prepareTable is not released.
FillUnreleased(q) ==
  /\ lab[q].pc = "fill" /\ Shared(lab[q].conn[3])
  /\ RowFree(lab[q].conn[3], Gap)
  /\ amounts' = amounts \o IF lab[q].scenario = "deadlock" THEN <<10, 20>> ELSE <<100>>
  /\ lab' = [lab EXCEPT ![q].pc = "begin", ![q].conn = SubSeq(@, 1, 2)]
  /\ UNCHANGED <<pool, session, labFails>>

\* INSERT, and the release of the third connection.
Fill(q) ==
  LET p == lab[q].conn[3] IN
  /\ lab[q].pc = "fill" /\ Shared(p) /\ RowFree(p, Gap)
  /\ amounts' = amounts \o IF lab[q].scenario = "deadlock" THEN <<10, 20>> ELSE <<100>>
  /\ lab' = [lab EXCEPT ![q].pc = "begin", ![q].conn = SubSeq(@, 1, 2)]
  /\ pool' = pool \union {p}
  /\ UNCHANGED <<session, labFails>>

\* Injected bug: the isolation level is set only when it is not the default.
BeginDefault(q) ==
  LET a == lab[q].conn[1]  b == lab[q].conn[2]  RC == lab[q].level = "RC" IN
  /\ lab[q].scenario # "deadlock" /\ Place(q, "begin", "first")
  /\ session' = [session EXCEPT ![a].level = IF RC THEN "RC" ELSE @,
                                ![b].level = IF RC THEN "RC" ELSE @,
                                ![a].tx = NoUse]
  /\ amounts' = Added(a)
  /\ UNCHANGED <<pool, labFails>>

\* SET SESSION ... ISOLATION LEVEL on both connections, and START TRANSACTION
\* on the reader.
Begin(q) ==
  LET a == lab[q].conn[1]  b == lab[q].conn[2] IN
  /\ lab[q].scenario # "deadlock" /\ Place(q, "begin", "first")
  /\ session' = [session EXCEPT ![a] = [level |-> lab[q].level, tx |-> NoUse],
                                ![b].level = lab[q].level]
  /\ amounts' = Added(a)
  /\ UNCHANGED <<pool, labFails>>

-----------------------------------------------------------------------------
(* runNonRepeatableRead, runPhantomRead.                                    *)

\* What the request's SELECT answers on this state of the table.
Answer(q, table) ==
  IF lab[q].scenario = "repeat"
    THEN IF table = << >> THEN 0 ELSE table[1]
    ELSE Cardinality({i \in DOMAIN table : table[i] >= 100})

\* The first read, which fixes the snapshot, and the writer's START TRANSACTION.
FirstRead(q) ==
  LET a == lab[q].conn[1]  b == lab[q].conn[2] IN
  /\ lab[q].pc = "first" /\ Shared(a)
  /\ lab' = [lab EXCEPT ![q].pc = "write", ![q].first = Answer(q, amounts)]
  /\ session' = [session EXCEPT
                   ![a].tx = [NoUse EXCEPT !.used = TRUE, !.snap = amounts],
                   ![b].tx = NoUse]
  /\ amounts' = Added(b)
  /\ UNCHANGED <<pool, labFails>>

\* The writer's statement and its commit.
WriteLab(q) ==
  LET b == lab[q].conn[2] IN
  /\ Place(q, "write", "second") /\ Shared(b)
  /\ IF lab[q].scenario = "repeat"
       THEN /\ RowFree(b, LockOf(1))
            /\ amounts' = [i \in DOMAIN amounts |-> IF i = 1 THEN 200 ELSE amounts[i]]
       ELSE /\ RowFree(b, Gap)
            /\ amounts' = Append(amounts, 150)
  /\ UNCHANGED <<pool, session, labFails>>

\* The second read, the commit, the releases: the next level, or the answer.
SecondRead(q) ==
  LET a == lab[q].conn[1]
      seen == Answer(q, IF session[a].level = "RC" THEN amounts
                                                   ELSE session[a].tx.snap) IN
  /\ lab[q].pc = "second"
  /\ lab' = [lab EXCEPT
       ![q].results = @ \union {[level |-> lab[q].level,
                                 anomaly |-> lab[q].first # seen]},
       ![q].pc = IF lab[q].level = "RC" THEN "takeA" ELSE "answered",
       ![q].level = "RR", ![q].first = 0, ![q].conn = << >>]
  /\ session' = [session EXCEPT ![a].tx = NoUse]
  /\ pool' = pool \union ToSet(lab[q].conn)
  /\ UNCHANGED <<amounts, labFails>>

-----------------------------------------------------------------------------
(* simulateDeadlock.                                                        *)

BeginBoth(q) ==
  LET a == lab[q].conn[1]  b == lab[q].conn[2] IN
  /\ lab[q].scenario = "deadlock" /\ Place(q, "begin", "lockA")
  /\ session' = [c \in Conn |-> IF c \in {a, b} THEN [level |-> "RR", tx |-> NoUse]
                                                ELSE session[c]]
  /\ amounts' = [i \in DOMAIN amounts |->
                   Added(a)[i] + Added(b)[i] - amounts[i]]
  /\ UNCHANGED <<pool, labFails>>

\* Connection x updates row x.
LockOwn(q, x) ==
  LET c == lab[q].conn[x] IN
  /\ IF x = 1 THEN Place(q, "lockA", "lockB") ELSE Place(q, "lockB", "cross")
  /\ Shared(c)
  /\ LockOf(x) # Gap => RowFree(c, x)
  /\ session' = [session EXCEPT ![c].tx = Locked(@, LockOf(x))]
  /\ UNCHANGED <<pool, amounts, labFails>>

\* The rest of the two branches runs concurrently: tryCommitDeadlockBranch.
Settle(q, x, outcome) ==
  /\ lab[q].pc = "cross" /\ lab[q].branch[x] = "open"
  /\ lab' = [lab EXCEPT ![q].branch[x] = outcome]
  /\ session' = [session EXCEPT ![lab[q].conn[x]].tx = NoUse]
  /\ UNCHANGED pool

CommitBranch(q, x) ==
  LET c == lab[q].conn[x]  other == 3 - x IN
  /\ Settle(q, x, "committed")
  /\ LockOf(other) # Gap => RowFree(c, other)
  /\ amounts' = [i \in DOMAIN amounts |->
                   Added(c)[i] + IF i = other THEN 1 ELSE 0]
  /\ UNCHANGED labFails

\* Both branches wait for the other's row: InnoDB rolls one of them back.
RollBackVictim(q, x) ==
  /\ Settle(q, x, "rolled_back")
  /\ \A y \in {1, 2} : /\ lab[q].branch[y] = "open"
                       /\ y \in session[lab[q].conn[y]].tx.locks
  /\ UNCHANGED <<amounts, labFails>>

AnswerDeadlock(q) ==
  /\ Place(q, "cross", "answered")
  /\ \A x \in {1, 2} : lab[q].branch[x] # "open"
  /\ pool' = pool \union ToSet(lab[q].conn)
  /\ UNCHANGED <<session, amounts, labFails>>

-----------------------------------------------------------------------------
(* Failures.                                                                *)

FailsLab == labFails < LabFaults /\ labFails' = labFails + 1

\* The catch blocks of the two read scenarios; simulateDeadlock has none.
CleanUp(q) ==
  session' = IF lab[q].scenario = "deadlock" THEN session
             ELSE [c \in Conn |->
                     IF c \in ToSet(SubSeq(lab[q].conn, 1, 2))
                       THEN [session[c] EXCEPT !.tx = NoUse] ELSE session[c]]

\* A statement fails, such as a lock wait that times out, and the session goes
\* on; or the third getConnection does.  The finally blocks release.
Abort(q) ==
  /\ FailsLab
  /\ lab[q].pc \notin {"takeA", "takeB", "cross", "answered", "failed"}
  /\ CleanUp(q)
  /\ lab' = [lab EXCEPT ![q].pc = "failed", ![q].conn = << >>]
  /\ pool' = pool \union ToSet(lab[q].conn)
  /\ UNCHANGED amounts

\* In a branch the failure is an answer.
AbortBranch(q, x) ==
  /\ FailsLab /\ Settle(q, x, "rolled_back") /\ UNCHANGED amounts

\* The first two getConnection calls are outside of the try.
TakeFails(q) ==
  /\ FailsLab
  /\ lab[q].pc \in {"takeA", "takeB"}
  /\ lab' = [lab EXCEPT ![q].pc = "failed"]
  /\ UNCHANGED <<pool, session, amounts>>

LabStep(q) ==
  \/ Take(q) \/ Truncate(q) \/ Fill(q) \/ Begin(q)
  \/ FirstRead(q) \/ WriteLab(q) \/ SecondRead(q)
  \/ BeginBoth(q) \/ AnswerDeadlock(q)
  \/ \E x \in {1, 2} : LockOwn(q, x) \/ CommitBranch(q, x) \/ RollBackVictim(q, x)

LabNext ==
  \E q \in LabRequest :
    \/ LabStep(q) \/ Abort(q) \/ TakeFails(q)
    \/ \E x \in {1, 2} : AbortBranch(q, x)

LabSpec == LabInit /\ [][LabNext]_labVars

-----------------------------------------------------------------------------
(* Properties.                                                              *)

\* The REPEATABLE READ half of an answer never reports an anomaly, whatever other
\* requests do to the table and whichever level the connection had before.
RepeatableStable ==
  \A q \in LabRequest : [level |-> "RR", anomaly |-> TRUE] \notin lab[q].results

\* What the next statement of a request waits for: the guards of its steps.
Ready(q) ==
  LET pc == lab[q].pc  conn == lab[q].conn  Open(x) == lab[q].branch[x] = "open" IN
  \/ pc \in {"takeA", "takeB", "takeP"} /\ pool # {}
  \/ pc = "truncate" /\ \A c \in Conn \ {conn[3]} : ~session[c].tx.used
  \/ pc = "fill" /\ Shared(conn[3]) /\ RowFree(conn[3], Gap)
  \/ pc \in {"begin", "second"}
  \/ pc = "first" /\ Shared(conn[1])
  \/ /\ pc = "write" /\ Shared(conn[2])
     /\ RowFree(conn[2], IF lab[q].scenario = "repeat" THEN LockOf(1) ELSE Gap)
  \/ \E x \in {1, 2} : /\ pc = (IF x = 1 THEN "lockA" ELSE "lockB")
                       /\ Shared(conn[x]) /\ (LockOf(x) # Gap => RowFree(conn[x], x))
  \/ pc = "cross" /\
       \/ \A x \in {1, 2} : ~Open(x)
       \/ \E x \in {1, 2} : Open(x) /\ (LockOf(3 - x) # Gap => RowFree(conn[x], 3 - x))
       \/ \A x \in {1, 2} : Open(x) /\ x \in session[conn[x]].tx.locks

\* The connections of q: an answered request has released its own.
Held(q) == IF lab[q].pc = "answered" THEN {} ELSE ToSet(lab[q].conn)

\* The connections of q on which a transaction is open: the reader's from its first
\* read on, and those of the branches.
InTx(q) ==
  LET pc == lab[q].pc  conn == lab[q].conn IN
  CASE pc \in {"write", "second"} -> {conn[1]}
    [] pc = "lockB" -> {conn[1]}
    [] pc = "cross" -> {conn[x] : x \in {y \in {1, 2} : lab[q].branch[y] = "open"}}
    [] OTHER -> {}

\* A connection that no transaction is open on is clean.
Clean(c) == ~session[c].tx.used /\ session[c].tx.locks = {}

\* Connections that failed requests never released, and those with a transaction open
\* that is no request's any more.
Leaked   == UNION {Held(q) : q \in {r \in LabRequest : lab[r].pc = "failed"}}
LeftOpen == {c \in Conn : ~Clean(c) /\ \A q \in LabRequest : c \notin InTx(q)}

\* Each costs a failure of its own (getConnection outside of the try,
\* simulateDeadlock without a rollback).
LostFew == Cardinality(Leaked) + Cardinality(LeftOpen) <= labFails

\* A request stops for ever only with another one that waits as well, for connections
\* or for the TRUNCATE between them, or because failures left fewer than the three
\* connections it needs or a transaction open, and they did so at most once each.
StuckOnlyTogether ==
  LET begun == {q \in LabRequest : /\ lab[q].pc \notin {"answered", "failed"}
                                   /\ lab[q].conn # << >>} IN
  /\ \/ begun = {} \/ \E q \in begun : Ready(q)
     \/ \E q, r \in begun : q # r
     \/ Cardinality(Conn \ Leaked) < 3 \/ LeftOpen # {}
  /\ LostFew

\* And a request waits for nothing else.
StuckTogether ==
  /\ StuckOnlyTogether
  /\ \A q \in LabRequest : Ready(q) <=> ENABLED LabStep(q)

-----------------------------------------------------------------------------
(* The inductive invariant.  TLC checks it on a small instance,             *)
(* DatabaseProofs proves it for every one.                                  *)

\* How many q has, and that it has them for itself.
Holding(q) ==
  LET n == Len(lab[q].conn)  pc == lab[q].pc IN
  /\ pc = "takeA" => n = 0
  /\ pc = "takeB" => n = 1
  /\ pc \in {"truncate", "fill"} => n = 3
  /\ pc \in {"takeP", "begin", "first", "write", "second", "lockA", "lockB", "cross"}
       => n = 2
  /\ pc # "answered" => IsInjective(lab[q].conn)
  /\ Held(q) \intersect pool = {}
  /\ \A r \in LabRequest \ {q} : Held(q) \intersect Held(r) = {}

\* The reader has the level that the request set, and its first answer is what its
\* snapshot answers.
Reading(q) ==
  LET reader == session[lab[q].conn[1]] IN
  /\ lab[q].pc \in {"first", "write", "second"} => reader.level = lab[q].level
  /\ lab[q].pc \in {"write", "second"} => lab[q].first = Answer(q, reader.tx.snap)

LabInv ==
  /\ LabTypeOK
  /\ \A q \in LabRequest : Holding(q) /\ Reading(q)
  /\ RepeatableStable

\* A reader locks no row, and a branch, which began on a clean connection, only its
\* own until both cross.
Locking(q) ==
  LET pc == lab[q].pc  Locks(x) == session[lab[q].conn[x]].tx.locks IN
  /\ pc \notin {"cross", "answered"} => \A x \in {1, 2} : lab[q].branch[x] = "open"
  /\ pc \in {"write", "second"} => Locks(1) = {}
  /\ pc = "lockA" => Clean(lab[q].conn[1])
  /\ pc \in {"lockA", "lockB"} => Clean(lab[q].conn[2])
  /\ pc = "lockB" => Locks(1) \subseteq {Gap, 1}
  /\ pc = "cross" => \A x \in {1, 2} :
       lab[q].branch[x] = "open" => Locks(x) \subseteq {Gap, x}

\* What is lost, a failure lost.
LabKept ==
  /\ Conn = pool \union UNION {Held(q) : q \in LabRequest}
  /\ \A q \in LabRequest : Locking(q)
  /\ LostFew
=============================================================================
