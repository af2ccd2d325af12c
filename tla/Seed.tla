-------------------------------- MODULE Seed --------------------------------
(***************************************************************************)
(* db:seed fills four tables one after the other with INSERTs of a batch   *)
(* of rows, each committed by itself, and takes the ids of the rows from   *)
(* the insertId of the answer: the rows of the later tables refer to them. *)
(* Several people may run it, it may be broken off anywhere, and the API   *)
(* may insert rows meanwhile.                                              *)
(***************************************************************************)
EXTENDS Integers, Sequences, FiniteSets, SequencesExt

CONSTANTS
  SeedRun,    \* processes that run db:seed
  Wanted,     \* SEED_USERS_COUNT and the other three, taken to be alike
  BatchSize,  \* SEED_BATCH_SIZE
  ApiRows     \* bound: rows per table that others insert

ASSUME SeedAssumption ==
  /\ {"api", "nobody"} \intersect SeedRun = {}
  /\ {Wanted, BatchSize} \subseteq Nat \ {0} /\ ApiRows \in Nat

VARIABLES
  stored,  \* stored[t][id]: who inserted the row, and which of its rows it is
  seed     \* seed[r]: table and offset, the insertId answered, the ids noted

seedVars == <<stored, seed>>

\* users, maps, orders, outbox_events; of the last no ids are noted.
Tables == 1 .. 4
Noting == 1 .. 3

Others == "api"
Nobody == "nobody"  \* an id that a refused INSERT used up

SeedTypeOK ==
  /\ stored \in [Tables -> Seq([by : SeedRun \union {Others, Nobody},
                               number : 0 .. Wanted])]
  /\ seed \in [SeedRun -> [pc : {"insert", "note", "ended", "failed"}, table : Tables,
                            offset : 0 .. Wanted - 1, insertId : Nat,
                            ids : [Noting -> Seq(Nat)]]]

SeedInit ==
  /\ stored = [t \in Tables |-> << >>]
  /\ seed = [r \in SeedRun |-> [pc |-> "insert", table |-> 1, offset |-> 0,
                                insertId |-> 0, ids |-> [t \in Noting |-> << >>]]]

Size(r) == IF Wanted - seed[r].offset < BatchSize
             THEN Wanted - seed[r].offset
             ELSE BatchSize

\* AUTO_INCREMENT gives the rows of one INSERT ids that follow each other.
AddRows(r, by) ==
  stored' = [stored EXCEPT ![seed[r].table] =
               @ \o [i \in 1 .. Size(r) |-> [by |-> by, number |-> seed[r].offset + i]]]

\* An e-mail names the row's number, and UNIQUE (email) admits it once.
EmailTaken(r) ==
  /\ seed[r].table = 1
  /\ \E id \in DOMAIN stored[1] :
       /\ stored[1][id].by \in SeedRun
       /\ stored[1][id].number \in seed[r].offset + 1 .. seed[r].offset + Size(r)

\* Injected bug: insertId is taken for the id of the last row.
LastInsertId(r) == Len(stored[seed[r].table]) + Size(r)

\* The insertId that the server answers is the id of the first row.
InsertId(r) == Len(stored[seed[r].table]) + 1

\* pool.execute of a batch.
InsertBatch(r) ==
  /\ seed[r].pc = "insert" /\ ~EmailTaken(r)
  /\ AddRows(r, r)
  /\ seed' = [seed EXCEPT ![r].pc = "note", ![r].insertId = InsertId(r)]

InsertRefused(r) ==
  /\ seed[r].pc = "insert" /\ EmailTaken(r)
  /\ AddRows(r, Nobody)
  /\ seed' = [seed EXCEPT ![r].pc = "failed"]

\* The next batch, the next table, or the end.
Proceeded(s) ==
  CASE s.offset + BatchSize < Wanted ->
         [s EXCEPT !.pc = "insert", !.offset = @ + BatchSize]
    [] s.offset + BatchSize >= Wanted /\ s.table < 4 ->
         [s EXCEPT !.pc = "insert", !.offset = 0, !.table = @ + 1]
    [] OTHER -> [s EXCEPT !.pc = "ended"]

\* ids.push(insertId + index).
Pushed(r) ==
  IF seed[r].table \in Noting
    THEN LET noted == [i \in 1 .. Size(r) |-> seed[r].insertId + i - 1] IN
         [seed[r] EXCEPT !.ids[seed[r].table] = @ \o noted]
    ELSE seed[r]

NoteIds(r) ==
  /\ seed[r].pc = "note"
  /\ seed' = [seed EXCEPT ![r] = Proceeded(Pushed(r))]
  /\ UNCHANGED stored

\* A statement throws with or without effect, or the process dies: exit(1).
BreakOff(r) ==
  /\ seed[r].pc \in {"insert", "note"}
  /\ seed' = [seed EXCEPT ![r].pc = "failed"]
  /\ UNCHANGED stored

\* A user registers, a map or an order is created.
ApiInserts(t) ==
  /\ Cardinality({id \in DOMAIN stored[t] : stored[t][id].by = Others}) < ApiRows
  /\ stored' = [stored EXCEPT ![t] = Append(@, [by |-> Others, number |-> 0])]
  /\ UNCHANGED seed

SeedNext ==
  \/ \E r \in SeedRun : InsertBatch(r) \/ InsertRefused(r) \/ NoteIds(r) \/ BreakOff(r)
  \/ \E t \in Tables : ApiInserts(t)

SeedSpec == SeedInit /\ [][SeedNext]_seedVars

-----------------------------------------------------------------------------
(* Properties.                                                              *)

RowsOf(r, t) == {id \in DOMAIN stored[t] : stored[t][id].by = r}

\* The runs that have inserted anything.
Filling == {r \in SeedRun : seed[r].insertId # 0}

\* A run refers only to rows that it inserted itself, beside whatever others
\* insert, and never to one twice; at most one batch of it is not noted.  A run
\* that ends well has the rows it was asked for and no more, a table is begun
\* when the one before is full, and of all runs at most one inserts anything.
SeedExact ==
  /\ Cardinality(Filling) <= 1
  /\ \A r \in Filling :
       /\ \A t \in Noting :
            /\ IsInjective(seed[r].ids[t])
            /\ ToSet(seed[r].ids[t]) \subseteq RowsOf(r, t)
            /\ Cardinality(RowsOf(r, t)) <= Len(seed[r].ids[t]) + BatchSize
            /\ RowsOf(r, t + 1) # {} => Len(seed[r].ids[t]) = Wanted
       /\ seed[r].pc = "ended" =>
            \A t \in Tables : Cardinality(RowsOf(r, t)) = Wanted

-----------------------------------------------------------------------------
(* The inductive invariant.  TLC checks it on a small instance,             *)
(* DatabaseProofs proves it for every one.                                  *)

\* Rows of table t that run r has inserted, as its place tells.
Put(r, t) ==
  CASE t < seed[r].table -> {Wanted}
    [] t > seed[r].table -> {0}
    [] OTHER -> CASE seed[r].pc = "insert" -> {seed[r].offset}
                  [] seed[r].pc = "note"   -> {seed[r].offset + Size(r)}
                  [] seed[r].pc = "failed" -> {seed[r].offset, seed[r].offset + Size(r)}
                  [] seed[r].pc = "ended"  -> {Wanted}

\* The ids of table t that it has noted: all, none, or those before its offset.
Noted(r, t) ==
  CASE t < seed[r].table -> Wanted
    [] t > seed[r].table -> 0
    [] OTHER             -> seed[r].offset

\* The rows of an INSERT that was answered are there; their ids are new.
AnswerHolds(r) ==
  LET t == seed[r].table  first == seed[r].insertId IN
  /\ first .. first + Size(r) - 1 \subseteq RowsOf(r, t)
  /\ t \in Noting => \A id \in ToSet(seed[r].ids[t]) : id < first

Accounted(r) ==
  /\ seed[r].pc = "ended" => seed[r].table = 4
  /\ seed[r].pc = "note" => AnswerHolds(r)
  /\ \A t \in Tables : Cardinality(RowsOf(r, t)) \in Put(r, t)
  /\ \A t \in Noting : /\ Len(seed[r].ids[t]) = Noted(r, t)
                       /\ IsInjective(seed[r].ids[t])
                       /\ ToSet(seed[r].ids[t]) \subseteq RowsOf(r, t)

\* The run that inserts anything keeps the others out with its first e-mail.
SeedInv ==
  /\ SeedTypeOK
  /\ \A r \in SeedRun \ Filling : /\ seed[r].pc \in {"insert", "failed"}
                                 /\ seed[r].table = 1 /\ seed[r].offset = 0
  /\ \A r \in Filling : [by |-> r, number |-> 1] \in ToSet(stored[1])
  /\ \A r, q \in Filling : r = q
  /\ \A r \in SeedRun : Accounted(r)
=============================================================================
