--------------------------- MODULE DatabaseProofs ---------------------------
(***************************************************************************)
(* Proofs about Migrations, TransactionsLab, Shutdown, Seed and Pages for  *)
(* every set of processes and requests and every bound.  The five share no *)
(* variable; each has a section, and the last section composes them as     *)
(* MCDatabase does.                                                        *)
(***************************************************************************)
EXTENDS MCDatabase, SequenceTheorems, FiniteSetTheorems, TLAPS

-----------------------------------------------------------------------------
(* Migrations: what the thirteen files stand for.                          *)

LEMMA SqlIs ==
  /\ Version = {1, 2, 3} /\ Repeatable = {"users"}
  /\ \A v \in Version : Len(Sql[v]) \in {1, 2} /\ DOMAIN Sql[v] = 1 .. Len(Sql[v])
  /\ \A v, w \in Version : \A i \in DOMAIN Sql[v], j \in DOMAIN Sql[w] :
       Sql[v][i] = Sql[w][j] => v = w /\ i = j
  /\ \A v \in Version : \A i \in DOMAIN Sql[v] : Sql[v][i] = "users" <=> v = 1
<1>1. Version = {1, 2, 3} /\ Repeatable = {"users"}
  BY DEF Version, Sql, Repeatable
<1>2. /\ Sql[1] = <<"users">> /\ Sql[2] = <<"index", "column">>
      /\ Sql[3] = <<"refresh_tokens">>
  BY DEF Sql
<1>3. /\ Len(Sql[1]) = 1 /\ DOMAIN Sql[1] = {1} /\ Sql[1][1] = "users"
      /\ Len(Sql[2]) = 2 /\ DOMAIN Sql[2] = {1, 2}
      /\ Sql[2][1] = "index" /\ Sql[2][2] = "column"
      /\ Len(Sql[3]) = 1 /\ DOMAIN Sql[3] = {1} /\ Sql[3][1] = "refresh_tokens"
  BY <1>2
<1> QED
  BY <1>1, <1>3

LEMMA StatementsOf ==
  ASSUME NEW v \in Version
  PROVE  Len(Sql[v]) \in Nat /\ 0 < Len(Sql[v]) /\ Len(Sql[v]) <= 2
<1>1. \A n \in {1, 2} : n \in Nat /\ 0 < n /\ n <= 2
  OBVIOUS
<1>2. Len(Sql[v]) \in {1, 2}
  BY SqlIs
<1> QED
  BY <1>1, <1>2

Command   == {"migrate", "dry-run", "reset"}
RunPc     == {"start", "dropTables", "dropLedger", "lock", "ensure", "backfill",
              "applied", "apply", "record", "finish", "throw", "done", "failed"}
Versions  == SUBSET Version
Statement == 0 .. 3
RunFields == [command : Command, image : Image, done : Versions,
              next : Statement, pc : RunPc]
RunRow    == {row \in RunFields :
                row.pc \in {"dropTables", "dropLedger"} => row.command = "reset"}
AllObjects == UNION {{Sql[v][i] : i \in DOMAIN Sql[v]} : v \in Version}
Sums      == {"null", "original", "edited"}

LEMMA MigrationsTypes ==
  ASSUME MigrationsInv
  PROVE  /\ schema \subseteq AllObjects /\ DOMAIN ledger \subseteq Version
         /\ \A v \in DOMAIN ledger : ledger[v] \in Sums
         /\ hasTable \in BOOLEAN /\ hasSums \in BOOLEAN
         /\ lock \in {{}} \cup {{r} : r \in Runner}
         /\ run \in [Runner -> RunRow]
         /\ \A r \in Runner : /\ run[r] \in RunRow /\ Files(r) \subseteq Version
                              /\ \A v : Checksum(r, v) \in {"edited", "original"}
                              /\ run[r].next \in 0 .. 3
<1>1. /\ schema \subseteq AllObjects /\ DOMAIN ledger \subseteq Version
      /\ \A v \in DOMAIN ledger : ledger[v] \in Sums
      /\ hasTable \in BOOLEAN /\ hasSums \in BOOLEAN
      /\ lock \in {{}} \cup {{r} : r \in Runner}
      /\ run \in [Runner -> RunFields]
  BY DEF MigrationsInv, MigrationsTypeOK, RunFields, Versions, Statement, RunPc, Command, AllObjects, Sums
<1>3. run \in [Runner -> RunRow]
  BY <1>1 DEF MigrationsInv, MigrationsTypeOK, RunRow
<1>2. ASSUME NEW r \in Runner
      PROVE  /\ run[r] \in RunRow /\ Files(r) \subseteq Version
             /\ \A v : Checksum(r, v) \in {"edited", "original"}
             /\ run[r].next \in 0 .. 3
  <2>1. run[r] \in RunRow /\ run[r].image.last \in Version /\ run[r].next \in 0 .. 3
    BY <1>3 DEF RunRow, RunFields, Statement, Image
  <2> QED
    BY <2>1, SqlIs DEF Files, Checksum
<1> QED
  BY <1>1, <1>2, <1>3

\* The pending migration is the first of those that are left.
LEMMA PendingIs ==
  ASSUME MigrationsInv, NEW r \in Runner, Remaining(r) # {}
  PROVE  /\ Pending(r) \in Remaining(r) /\ Pending(r) \in Version
         /\ \A w \in Remaining(r) : Pending(r) <= w
<1>1. Remaining(r) \subseteq {1, 2, 3}
  BY MigrationsTypes, SqlIs DEF Remaining
<1>2. \E v \in Remaining(r) : \A w \in Remaining(r) : v <= w
  <2>1. CASE 1 \in Remaining(r)
    BY <1>1, <2>1
  <2>2. CASE 1 \notin Remaining(r) /\ 2 \in Remaining(r)
    BY <1>1, <2>2
  <2>3. CASE 1 \notin Remaining(r) /\ 2 \notin Remaining(r)
    BY <1>1, <2>3
  <2> QED
    BY <2>1, <2>2, <2>3
<1>3. Pending(r) \in Remaining(r) /\ \A w \in Remaining(r) : Pending(r) <= w
  BY <1>2 DEF Pending
<1> QED
  BY <1>1, <1>3, SqlIs

\* The parts that follow from the others.
LEMMA MigrationsTogether ==
  ASSUME schema' \subseteq AllObjects, DOMAIN ledger' \subseteq Version,
         \A v \in DOMAIN ledger' : ledger'[v] \in Sums,
         hasTable' \in BOOLEAN, hasSums' \in BOOLEAN,
         lock' \in {{}} \cup {{r} : r \in Runner},
         run' \in [Runner -> RunRow],
         LockKept', \A r \in Applying' : Progress(r)',
         Standing' => \A v \in DOMAIN ledger' : Objects(v) \subseteq schema',
         torn' \/ Untorn', replayed' = {}, NoForeignHistory',
         torn' \/ \A r \in Runner : run'[r].pc = "throw" =>
           \E v \in DOMAIN ledger' : v \notin Files(r)' \/ ledger'[v] # Checksum(r, v)'
  PROVE  MigrationsInv'
<1>1. MigrationsTypeOK'
  BY DEF MigrationsTypeOK, RunRow, RunFields, Versions, Statement, RunPc, Command, AllObjects, Sums
<1>2. AppliedOnce'
  BY DEF AppliedOnce, Standing, Objects
<1> QED
  BY <1>1, <1>2 DEF MigrationsInv, Objects

\* A runner of which a step leaves the image, and what it has done, has the same
\* before it.
LEMMA ImageKept ==
  ASSUME NEW r, run'[r].image = run[r].image, run'[r].command = run[r].command
  PROVE  /\ Files(r)' = Files(r) /\ (DryRun(r)' <=> DryRun(r))
         /\ \A v : Checksum(r, v)' = Checksum(r, v)
         /\ run'[r].done = run[r].done => /\ Remaining(r)' = Remaining(r)
                                          /\ Pending(r)' = Pending(r)
BY DEF Files, DryRun, Checksum, Remaining, Pending

LEMMA RunnerKept ==
  ASSUME NEW r, run'[r] = run[r]
  PROVE  /\ Files(r)' = Files(r) /\ (DryRun(r)' <=> DryRun(r))
         /\ \A v : Checksum(r, v)' = Checksum(r, v)
         /\ Remaining(r)' = Remaining(r) /\ Pending(r)' = Pending(r)
         /\ Executed(r)' = Executed(r)
BY DEF Files, DryRun, Checksum, Remaining, Pending, Executed

\* The one who applies is alone.
LEMMA AloneInside ==
  ASSUME MigrationsInv, NEW r \in Inside, NEW q \in Inside
  PROVE  q = r
BY DEF MigrationsInv, LockKept

LEMMA ApplyingInside ==
  /\ Applying \subseteq Inside /\ Inside \subseteq Runner
  /\ Applying' \subseteq Inside'
BY DEF Applying, Inside

\* A runner goes to a place where it executes nothing, and leaves the database as
\* it is.
LEMMA MoveStep ==
  ASSUME MigrationsInv, NEW r \in Runner,
         run' \in [Runner -> RunRow], \A q \in Runner \ {r} : run'[q] = run[q],
         run'[r].command = run[r].command, run'[r].image = run[r].image,
         run'[r].pc \notin {"apply", "record"},
         UNCHANGED <<database, replayed>>,
         lock' \in {{}} \cup {{q} : q \in Runner},
         \A q \in Inside \ {r} : lock' = {q},
         r \in Inside' =>
           /\ lock' = {r}
           /\ run'[r].pc \in {"ensure", "backfill"} => ~DryRun(r)
           /\ run'[r].pc = "applied" /\ ~DryRun(r) => Legacy = {},
         torn => torn', torn /\ Resetting => Resetting',
         \/ torn'
         \/ /\ run[r].command = "reset" => run'[r].pc \in {"start", "dropTables"}
            /\ r \in Inside' => run'[r].pc = "ensure" \/ DryRun(r) \/ hasSums
            /\ r \in Applying => Remaining(r) = {}
            /\ run'[r].pc = "throw" =>
                 \E v \in DOMAIN ledger : v \notin Files(r) \/ ledger[v] # Checksum(r, v)
  PROVE  MigrationsInv'
<1>1. /\ schema' = schema /\ ledger' = ledger /\ hasTable' = hasTable
      /\ hasSums' = hasSums /\ replayed' = replayed
  BY DEF database
<1>2. ASSUME NEW q \in Runner
      PROVE  /\ Files(q)' = Files(q) /\ (DryRun(q)' <=> DryRun(q))
             /\ \A v : Checksum(q, v)' = Checksum(q, v)
             /\ q # r => /\ Remaining(q)' = Remaining(q) /\ Pending(q)' = Pending(q)
                         /\ Executed(q)' = Executed(q)
  BY ImageKept, RunnerKept
<1>3. Legacy' = Legacy
  BY <1>1 DEF Legacy
<1>4. LockKept'
  <2> SUFFICES ASSUME NEW q \in Inside'
               PROVE  /\ lock' = {q}
                      /\ run'[q].pc \in {"ensure", "backfill", "apply", "record"}
                           => ~DryRun(q)'
                      /\ run'[q].pc = "applied" /\ ~DryRun(q)' => Legacy' = {}
    BY DEF LockKept
  <2>1. CASE q = r
    BY <1>2, <1>3, <2>1 DEF Inside
  <2>2. CASE q # r
    <3>1. q \in Inside /\ q \in Runner /\ run'[q] = run[q]
      BY <2>2 DEF Inside
    <3> QED
      BY <1>2, <1>3, <2>2, <3>1 DEF MigrationsInv, LockKept
  <2> QED
    BY <2>1, <2>2
<1>5. Applying' = Applying \ {r}
  BY DEF Applying
<1>6. Standing' => Standing
  BY DEF Standing
<1>7. ASSUME NEW q \in Applying' PROVE Progress(q)'
  <2>1. q \in Runner /\ q # r /\ run'[q] = run[q] /\ Progress(q)
    BY <1>5 DEF MigrationsInv, Applying
  <2> QED
    BY <1>1, <1>2, <1>6, <2>1 DEF Progress
<1>8. Standing' => \A v \in DOMAIN ledger' : Objects(v) \subseteq schema'
  BY <1>1, <1>6 DEF MigrationsInv
<1>9. ASSUME ~torn' PROVE Untorn'
  <2>1. ~torn /\ Untorn
    BY <1>9 DEF MigrationsInv
  <2>2. \A q \in Runner : run'[q].command = "reset" => run'[q].pc \in {"start", "dropTables"}
    BY <1>9, <2>1 DEF Untorn
  <2>3. \A q \in Inside' : run'[q].pc = "ensure" \/ DryRun(q)' \/ hasSums'
    BY <1>1, <1>2, <1>9, <2>1 DEF Untorn, Inside
  <2>4. \A q \in Applying' : run'[q].done = DOMAIN ledger'
    BY <1>1, <1>5, <2>1 DEF Untorn, Applying
  <2>5. ASSUME NEW object \in schema'
        PROVE  \/ \E v \in DOMAIN ledger' : object \in Objects(v)
               \/ \E q \in Applying' : object \in Executed(q)'
    <3>1. ASSUME NEW q \in Applying, object \in Executed(q) PROVE q # r
      <4>1. CASE q = r
        <5>1. run[r].next = 0
          BY <1>9, <3>1, <4>1 DEF MigrationsInv, Progress
        <5>2. Executed(r) = {}
          BY <5>1 DEF Executed
        <5> QED
          BY <3>1, <4>1, <5>2
      <4> QED
        BY <4>1
    <3>2. \A q \in Applying : q # r => q \in Applying' /\ Executed(q)' = Executed(q)
      BY <1>2, <1>5 DEF Applying
    <3> QED
      BY <1>1, <2>1, <3>1, <3>2 DEF Untorn
  <2> QED
    BY <2>2, <2>3, <2>4, <2>5 DEF Untorn, Objects
<1>10. NoForeignHistory'
  <2> SUFFICES ASSUME NEW q \in Runner, run'[q].pc \in {"apply", "record"},
                      NEW v \in DOMAIN ledger'
               PROVE  v \in Files(q)' /\ ledger'[v] = Checksum(q, v)'
    BY DEF NoForeignHistory
  <2>1. q # r /\ run'[q] = run[q]
    OBVIOUS
  <2> QED
    BY <1>1, <1>2, <2>1 DEF MigrationsInv, NoForeignHistory
<1>11. torn' \/ \A q \in Runner : run'[q].pc = "throw" =>
         \E v \in DOMAIN ledger' : v \notin Files(q)' \/ ledger'[v] # Checksum(q, v)'
  <2> SUFFICES ASSUME ~torn', NEW q \in Runner, run'[q].pc = "throw"
               PROVE  \E v \in DOMAIN ledger :
                        v \notin Files(q) \/ ledger[v] # Checksum(q, v)
    BY <1>1, <1>2
  <2>1. CASE q = r
    BY <2>1
  <2>2. CASE q # r
    BY <2>2 DEF MigrationsInv, AppliedOnce
  <2> QED
    BY <2>1, <2>2
<1>12. replayed' = {}
  BY <1>1 DEF MigrationsInv, AppliedOnce
<1> QED
  BY <1>1, <1>4, <1>7, <1>8, <1>9, <1>10, <1>11, <1>12, MigrationsTypes,
     MigrationsTogether

\* The row of a runner that goes to a place.
LEMMA ProceedFacts ==
  ASSUME MigrationsInv, NEW r \in Runner, NEW pc \in RunPc, Proceed(r, pc),
         pc \in {"dropTables", "dropLedger"} => run[r].command = "reset"
  PROVE  /\ run' \in [Runner -> RunRow] /\ \A q \in Runner \ {r} : run'[q] = run[q]
         /\ run'[r].command = run[r].command /\ run'[r].image = run[r].image
         /\ run'[r].done = run[r].done /\ run'[r].next = run[r].next
         /\ run'[r].pc = pc
BY MigrationsTypes DEF Proceed, RunRow, RunFields

\* The places of the resets tell whether one is resetting.
LEMMA ResettingKept ==
  ASSUME NEW r \in Runner, run' \in [Runner -> RunRow],
         \A q \in Runner \ {r} : run'[q] = run[q],
         run'[r].command = run[r].command, torn => torn',
         \/ run[r].pc \notin {"start", "dropTables", "dropLedger"}
         \/ run[r].command # "reset"
         \/ run'[r].pc \in {"dropTables", "dropLedger"}
         \/ torn' /\ run'[r].pc = "start"
  PROVE  torn /\ Resetting => Resetting'
<1> SUFFICES ASSUME torn, Resetting PROVE Resetting'
  OBVIOUS
<1>1. PICK q \in Runner : /\ run[q].command = "reset"
                          /\ run[q].pc \in {"dropTables", "dropLedger", "start"}
  BY DEF Resetting
<1>2. CASE q = r
  BY <1>1, <1>2 DEF Resetting
<1>3. CASE q # r
  BY <1>1, <1>3 DEF Resetting
<1> QED
  BY <1>2, <1>3

LEMMA LaunchStep ==
  ASSUME MigrationsInv, NEW r \in Runner, Launch(r)
  PROVE  MigrationsInv'
<1> DEFINE pc == IF run[r].command = "reset" THEN "dropTables" ELSE "lock"
<1>1. /\ run[r].pc = "start" /\ Proceed(r, pc) /\ UNCHANGED <<database, lock>>
      /\ torn' = torn /\ replayed' = replayed /\ pc \in RunPc
      /\ run[r].command = "reset" => pc = "dropTables"
      /\ pc \in {"dropTables", "dropLedger"} => run[r].command = "reset"
  BY DEF Launch, InPlace, Past, RunPc
<1>2. pc \notin {"ensure", "backfill", "applied", "apply", "record", "finish", "throw"}
  OBVIOUS
<1> HIDE DEF pc
<1>3. /\ run' \in [Runner -> RunRow] /\ \A q \in Runner \ {r} : run'[q] = run[q]
      /\ run'[r].command = run[r].command /\ run'[r].image = run[r].image
      /\ run'[r].pc = pc
  BY <1>1, ProceedFacts
<1>4. r \notin Inside /\ r \notin Inside' /\ r \notin Applying
  BY <1>1, <1>2, <1>3 DEF Inside, Applying
<1>5. torn /\ Resetting => Resetting'
  BY <1>1, <1>3, ResettingKept
<1>6. \A q \in Inside \ {r} : lock' = {q}
  BY <1>1 DEF MigrationsInv, LockKept
<1> QED
  BY <1>1, <1>2, <1>3, <1>4, <1>5, <1>6, MigrationsTypes, MoveStep

LEMMA AcquireStep ==
  ASSUME MigrationsInv, NEW r \in Runner, Acquire(r)
  PROVE  MigrationsInv'
<1> DEFINE pc == IF DryRun(r) THEN "applied" ELSE "ensure"
<1>1. /\ run[r].pc = "lock" /\ Proceed(r, pc) /\ UNCHANGED database
      /\ lock = {} /\ lock' = {r}
      /\ torn' = torn /\ replayed' = replayed /\ pc \in RunPc
      /\ pc \in {"applied", "ensure"} /\ (pc = "ensure" => ~DryRun(r))
      /\ (pc = "applied" => DryRun(r))
  BY DEF Acquire, InPlace, Past, RunPc
<1> HIDE DEF pc
<1>2. /\ run' \in [Runner -> RunRow] /\ \A q \in Runner \ {r} : run'[q] = run[q]
      /\ run'[r].command = run[r].command /\ run'[r].image = run[r].image
      /\ run'[r].pc = pc
  BY <1>1, ProceedFacts
<1>3. Inside = {}
  BY <1>1 DEF MigrationsInv, LockKept
<1>4. torn /\ Resetting => Resetting'
  BY <1>1, <1>2, ResettingKept
<1>5. r \notin Applying /\ (run[r].command = "reset" => torn)
  BY <1>1 DEF Applying, MigrationsInv, Untorn
<1> QED
  BY <1>1, <1>2, <1>3, <1>4, <1>5, MoveStep

LEMMA TimeOutStep ==
  ASSUME MigrationsInv, NEW r \in Runner, TimeOut(r)
  PROVE  MigrationsInv'
<1>1. /\ run[r].pc = "lock" /\ Proceed(r, "failed") /\ UNCHANGED <<database, lock>>
      /\ torn' = torn /\ replayed' = replayed /\ "failed" \in RunPc
  BY DEF TimeOut, InPlace, Past, RunPc
<1>2. /\ run' \in [Runner -> RunRow] /\ \A q \in Runner \ {r} : run'[q] = run[q]
      /\ run'[r].command = run[r].command /\ run'[r].image = run[r].image
      /\ run'[r].pc = "failed"
  BY <1>1, ProceedFacts
<1>3. r \notin Inside' /\ r \notin Applying /\ (run[r].command = "reset" => torn)
  BY <1>1, <1>2 DEF Inside, Applying, MigrationsInv, Untorn
<1>4. torn /\ Resetting => Resetting'
  BY <1>1, <1>2, ResettingKept
<1>5. \A q \in Inside \ {r} : lock' = {q}
  BY <1>1 DEF MigrationsInv, LockKept
<1> QED
  BY <1>1, <1>2, <1>3, <1>4, <1>5, MigrationsTypes, MoveStep

\* The place a holder of the lock leaves for good: nobody else is inside.
LEMMA Released ==
  ASSUME MigrationsInv, NEW r \in Runner, lock' = lock \ {r}
  PROVE  /\ lock' \in {{}} \cup {{q} : q \in Runner}
         /\ \A q \in Inside \ {r} : lock' = {q}
<1>1. \A q \in Inside \ {r} : lock = {q}
  BY DEF MigrationsInv, LockKept
<1> QED
  BY <1>1, MigrationsTypes

LEMMA ReleaseStep ==
  ASSUME MigrationsInv, NEW r \in Runner, Release(r)
  PROVE  MigrationsInv'
<1> PICK pc \in {"done", "failed"} : Proceed(r, pc)
  BY DEF Release
<1>1. /\ \/ run[r].pc = "apply" /\ Remaining(r) = {}
         \/ run[r].pc \in {"finish", "throw"}
      /\ lock' = lock \ {r} /\ UNCHANGED database
      /\ torn' = torn /\ replayed' = replayed /\ pc \in RunPc
  BY DEF Release, InPlace, Past, RunPc
<1>2. /\ run' \in [Runner -> RunRow] /\ \A q \in Runner \ {r} : run'[q] = run[q]
      /\ run'[r].command = run[r].command /\ run'[r].image = run[r].image
      /\ run'[r].pc = pc
  BY <1>1, ProceedFacts
<1>3. r \notin Inside' /\ (r \in Applying => Remaining(r) = {})
      /\ (run[r].command = "reset" => torn)
  BY <1>1, <1>2 DEF Inside, Applying, MigrationsInv, Untorn
<1>4. torn /\ Resetting => Resetting'
  BY <1>1, <1>2, ResettingKept
<1> QED
  BY <1>1, <1>2, <1>3, <1>4, Released, MoveStep

LEMMA CrashStep ==
  ASSUME MigrationsInv, NEW r \in Runner, Crash(r)
  PROVE  MigrationsInv'
<1>1. /\ run[r].pc \notin {"start", "done", "failed"} /\ Proceed(r, "start")
      /\ lock' = lock \ {r} /\ torn' = TRUE /\ UNCHANGED <<database, replayed>>
      /\ "start" \in RunPc
  BY DEF Crash, RunPc
<1>2. /\ run' \in [Runner -> RunRow] /\ \A q \in Runner \ {r} : run'[q] = run[q]
      /\ run'[r].command = run[r].command /\ run'[r].image = run[r].image
      /\ run'[r].pc = "start"
  BY <1>1, ProceedFacts
<1>3. r \notin Inside'
  BY <1>2 DEF Inside
<1>4. torn /\ Resetting => Resetting'
  BY <1>1, <1>2, ResettingKept
<1> QED
  BY <1>1, <1>2, <1>3, <1>4, Released, MoveStep


\* A step of the runner that is alone under the lock: the rest of the invariant
\* speaks of nobody else.
LEMMA HolderStep ==
  ASSUME MigrationsInv, NEW r \in Inside,
         run' \in [Runner -> RunRow], \A q \in Runner \ {r} : run'[q] = run[q],
         run'[r].command = run[r].command, run'[r].image = run[r].image,
         r \in Inside', UNCHANGED <<lock, torn, replayed>>,
         schema' \subseteq AllObjects, DOMAIN ledger' \subseteq Version,
         \A v \in DOMAIN ledger' : ledger'[v] \in Sums,
         hasTable' \in BOOLEAN, hasSums' \in BOOLEAN,
         run'[r].pc \in {"ensure", "backfill", "apply", "record"} => ~DryRun(r),
         run'[r].pc = "applied" /\ ~DryRun(r) => Legacy' = {},
         r \in Applying' => Progress(r)',
         Standing => \A v \in DOMAIN ledger' : Objects(v) \subseteq schema',
         \/ torn
         \/ /\ run'[r].pc = "ensure" \/ DryRun(r) \/ hasSums'
            /\ r \in Applying' => run'[r].done = DOMAIN ledger'
            /\ \A object \in schema' : \/ \E v \in DOMAIN ledger' : object \in Objects(v)
                                       \/ r \in Applying' /\ object \in Executed(r)'
            /\ run'[r].pc = "throw" =>
                 \E v \in DOMAIN ledger' : v \notin Files(r) \/ ledger'[v] # Checksum(r, v),
         r \in Applying' =>
           \A v \in DOMAIN ledger' : v \in Files(r) /\ ledger'[v] = Checksum(r, v)
  PROVE  MigrationsInv'
<1>1. /\ r \in Runner /\ lock = {r} /\ Inside = {r} /\ Inside' = {r}
      /\ Applying' \subseteq {r}
  BY AloneInside DEF Inside, Applying, MigrationsInv, LockKept
<1>2. /\ Files(r)' = Files(r) /\ (DryRun(r)' <=> DryRun(r))
      /\ \A v : Checksum(r, v)' = Checksum(r, v)
  BY ImageKept
<1>3. LockKept'
  BY <1>1, <1>2 DEF LockKept
<1>4. Standing' <=> Standing
  BY <1>1 DEF Standing, Resetting, Inside
<1>5. ASSUME ~torn' PROVE Untorn'
  <2>1. ~torn /\ Untorn
    BY <1>5 DEF MigrationsInv
  <2>2. run[r].command # "reset"
    BY <2>1 DEF Untorn, Inside
  <2>3. \A q \in Runner : run'[q].command = "reset" => run'[q].pc \in {"start", "dropTables"}
    BY <2>1, <2>2 DEF Untorn
  <2>4. \A q \in Inside' : run'[q].pc = "ensure" \/ DryRun(q)' \/ hasSums'
    BY <1>1, <1>2, <2>1
  <2>5. \A q \in Applying' : run'[q].done = DOMAIN ledger'
    BY <1>1, <2>1
  <2>6. \A object \in schema' : \/ \E v \in DOMAIN ledger' : object \in Objects(v)
                                \/ \E q \in Applying' : object \in Executed(q)'
    BY <2>1
  <2> QED
    BY <2>3, <2>4, <2>5, <2>6 DEF Untorn, Objects
<1>6. NoForeignHistory'
  BY <1>1, <1>2 DEF NoForeignHistory, Applying
<1>7. torn' \/ \A q \in Runner : run'[q].pc = "throw" =>
        \E v \in DOMAIN ledger' : v \notin Files(q)' \/ ledger'[v] # Checksum(q, v)'
  <2> SUFFICES ASSUME ~torn, NEW q \in Runner, run'[q].pc = "throw"
               PROVE  \E v \in DOMAIN ledger' :
                        v \notin Files(q)' \/ ledger'[v] # Checksum(q, v)'
    OBVIOUS
  <2>1. q = r
    BY <1>1 DEF Inside
  <2> QED
    BY <1>2, <2>1
<1>8. replayed' = {} /\ lock' \in {{}} \cup {{q} : q \in Runner}
  BY <1>1 DEF MigrationsInv, AppliedOnce
<1>9. \A q \in Applying' : Progress(q)'
  BY <1>1
<1> QED
  BY <1>3, <1>4, <1>5, <1>6, <1>7, <1>8, <1>9, MigrationsTogether

\* What is there before a step of a runner that executes nothing.
LEMMA NothingExecuted ==
  ASSUME MigrationsInv, NEW r \in Inside, r \notin Applying, ~torn
  PROVE  /\ \A object \in schema : \E v \in DOMAIN ledger : object \in Objects(v)
         /\ run[r].pc = "ensure" \/ DryRun(r) \/ hasSums
<1>1. Applying = {}
  BY AloneInside, ApplyingInside
<1> QED
  BY <1>1 DEF MigrationsInv, Untorn

LEMMA DropTablesStep ==
  ASSUME MigrationsInv, NEW r \in Runner, DropTables(r)
  PROVE  MigrationsInv'
<1>1. /\ run[r].pc = "dropTables" /\ Proceed(r, "dropLedger") /\ torn' = TRUE
      /\ schema' = schema \ ResetTables
      /\ UNCHANGED <<ledger, hasTable, hasSums, lock, replayed>>
      /\ "dropLedger" \in RunPc
  BY DEF DropTables, InPlace, RunPc
<1>2. run[r].command = "reset"
  BY <1>1 DEF MigrationsInv, MigrationsTypeOK
<1>3. /\ run' \in [Runner -> RunRow] /\ \A q \in Runner \ {r} : run'[q] = run[q]
      /\ run'[r].command = "reset" /\ run'[r].image = run[r].image
      /\ run'[r].pc = "dropLedger"
  BY <1>1, <1>2, ProceedFacts
<1>4. /\ ~Standing' /\ r \notin Inside /\ r \notin Inside'
      /\ Inside' = Inside /\ Applying' = Applying
  BY <1>1, <1>3 DEF Standing, Resetting, Inside, Applying
<1>5. ASSUME NEW q \in Runner
      PROVE  /\ Files(q)' = Files(q) /\ (DryRun(q)' <=> DryRun(q))
             /\ \A v : Checksum(q, v)' = Checksum(q, v)
             /\ q # r => Remaining(q)' = Remaining(q) /\ Pending(q)' = Pending(q)
  BY <1>2, <1>3, ImageKept, RunnerKept
<1>6. LockKept' /\ NoForeignHistory'
  <2>1. Legacy' = Legacy
    BY <1>1 DEF Legacy
  <2>2. LockKept'
    <3> SUFFICES ASSUME NEW q \in Inside
                 PROVE  /\ lock' = {q}
                        /\ run'[q].pc \in {"ensure", "backfill", "apply", "record"}
                             => ~DryRun(q)'
                        /\ run'[q].pc = "applied" /\ ~DryRun(q)' => Legacy' = {}
      BY <1>4 DEF LockKept
    <3>1. q \in Runner /\ run'[q] = run[q]
      BY <1>3, <1>4 DEF Inside
    <3> QED
      BY <1>1, <1>5, <2>1, <3>1 DEF MigrationsInv, LockKept
  <2>3. NoForeignHistory'
    BY <1>1, <1>3, <1>5 DEF MigrationsInv, NoForeignHistory
  <2> QED
    BY <2>2, <2>3
<1>7. ASSUME NEW q \in Applying' PROVE Progress(q)'
  <2>1. q \in Runner /\ q # r /\ run'[q] = run[q] /\ Progress(q)
    BY <1>3, <1>4, ApplyingInside DEF MigrationsInv
  <2> QED
    BY <1>1, <1>4, <1>5, <2>1 DEF Progress
<1>8. schema' \subseteq AllObjects /\ replayed' = {}
  BY <1>1, MigrationsTypes DEF MigrationsInv, AppliedOnce
<1> QED
  BY <1>1, <1>3, <1>4, <1>6, <1>7, <1>8, MigrationsTypes, MigrationsTogether

LEMMA DropLedgerStep ==
  ASSUME MigrationsInv, NEW r \in Runner, DropLedger(r)
  PROVE  MigrationsInv'
<1>1. /\ run[r].pc = "dropLedger" /\ Proceed(r, "lock")
      /\ ledger' = << >> /\ hasTable' = FALSE /\ hasSums' = FALSE
      /\ UNCHANGED <<schema, lock, torn, replayed>> /\ "lock" \in RunPc
  BY DEF DropLedger, InPlace, Past, RunPc
<1>2. run[r].command = "reset" /\ torn
  BY <1>1 DEF MigrationsInv, MigrationsTypeOK, Untorn
<1>3. DOMAIN ledger' = {}
  BY <1>1
<1>4. /\ run' \in [Runner -> RunRow] /\ \A q \in Runner \ {r} : run'[q] = run[q]
      /\ run'[r].image = run[r].image /\ run'[r].command = run[r].command
      /\ run'[r].pc = "lock"
  BY <1>1, ProceedFacts
<1>5. /\ r \notin Inside /\ r \notin Inside' /\ Inside' = Inside
      /\ Applying' = Applying
  BY <1>1, <1>4 DEF Inside, Applying
<1>6. ASSUME NEW q \in Runner
      PROVE  /\ (DryRun(q)' <=> DryRun(q))
             /\ q # r => /\ Files(q)' = Files(q) /\ Remaining(q)' = Remaining(q)
                         /\ Pending(q)' = Pending(q)
  BY <1>4, ImageKept, RunnerKept
<1>7. LockKept'
  <2>1. Legacy' = {}
    BY <1>3 DEF Legacy
  <2> SUFFICES ASSUME NEW q \in Inside
               PROVE  /\ lock' = {q}
                      /\ run'[q].pc \in {"ensure", "backfill", "apply", "record"}
                           => ~DryRun(q)'
    BY <1>5, <2>1 DEF LockKept
  <2>2. q \in Runner /\ run'[q] = run[q]
    BY <1>4, <1>5 DEF Inside
  <2> QED
    BY <1>1, <1>6, <2>2 DEF MigrationsInv, LockKept
<1>8. ASSUME NEW q \in Applying' PROVE Progress(q)'
  <2>1. q \in Runner /\ q # r /\ run'[q] = run[q] /\ Progress(q)
    BY <1>4, <1>5, ApplyingInside DEF MigrationsInv
  <2> QED
    BY <1>1, <1>3, <1>6, <2>1 DEF Progress
<1>9. NoForeignHistory' /\ replayed' = {} /\ torn'
  BY <1>1, <1>2, <1>3 DEF NoForeignHistory, MigrationsInv, AppliedOnce
<1> QED
  BY <1>1, <1>3, <1>4, <1>7, <1>8, <1>9, MigrationsTypes, MigrationsTogether

LEMMA EnsureStep ==
  ASSUME MigrationsInv, NEW r \in Runner, Ensure(r)
  PROVE  MigrationsInv'
<1>1. /\ run[r].pc = "ensure" /\ Proceed(r, "backfill")
      /\ hasTable' = TRUE /\ hasSums' = TRUE
      /\ UNCHANGED <<schema, ledger, lock, torn, replayed>> /\ "backfill" \in RunPc
  BY DEF Ensure, InPlace, Past, RunPc
<1>2. /\ run' \in [Runner -> RunRow] /\ \A q \in Runner \ {r} : run'[q] = run[q]
      /\ run'[r].command = run[r].command /\ run'[r].image = run[r].image
      /\ run'[r].pc = "backfill"
  BY <1>1, ProceedFacts
<1>3. r \in Inside /\ r \in Inside' /\ r \notin Applying /\ r \notin Applying'
  BY <1>1, <1>2 DEF Inside, Applying
<1>4. ~DryRun(r) /\ (Standing => \A v \in DOMAIN ledger : Objects(v) \subseteq schema)
  BY <1>1, <1>3 DEF MigrationsInv, LockKept
<1>5. ~torn => \A object \in schema : \E v \in DOMAIN ledger : object \in Objects(v)
  BY <1>3, NothingExecuted
<1> QED
  BY <1>1, <1>2, <1>3, <1>4, <1>5, MigrationsTypes, HolderStep

LEMMA BackfillStep ==
  ASSUME MigrationsInv, NEW r \in Runner, Backfill(r)
  PROVE  MigrationsInv'
<1>1. /\ run[r].pc = "backfill" /\ hasSums
      /\ UNCHANGED <<schema, hasTable, hasSums, lock, torn, replayed>>
      /\ "applied" \in RunPc /\ "throw" \in RunPc
  BY DEF Backfill, InPlace, Past, RunPc
<1>2. r \in Inside /\ r \notin Applying
  BY <1>1 DEF Inside, Applying
<1>3. ~DryRun(r) /\ (Standing => \A v \in DOMAIN ledger : Objects(v) \subseteq schema)
  BY <1>1, <1>2 DEF MigrationsInv, LockKept
<1>4. ~torn => \A object \in schema : \E v \in DOMAIN ledger : object \in Objects(v)
  BY <1>2, NothingExecuted
<1>5. CASE Legacy = {} /\ Proceed(r, "applied") /\ UNCHANGED ledger
  <2>1. /\ run' \in [Runner -> RunRow] /\ \A q \in Runner \ {r} : run'[q] = run[q]
        /\ run'[r].command = run[r].command /\ run'[r].image = run[r].image
        /\ run'[r].pc = "applied"
    BY <1>1, <1>5, ProceedFacts
  <2>2. r \in Inside' /\ r \notin Applying' /\ Legacy' = {}
    BY <1>2, <1>5, <2>1 DEF Inside, Applying, Legacy
  <2> QED
    BY <1>1, <1>2, <1>3, <1>4, <1>5, <2>1, <2>2, MigrationsTypes, HolderStep
<1>6. CASE \E v \in Legacy : v \notin Files(r) /\ Proceed(r, "throw") /\ UNCHANGED ledger
  <2>1. /\ run' \in [Runner -> RunRow] /\ \A q \in Runner \ {r} : run'[q] = run[q]
        /\ run'[r].command = run[r].command /\ run'[r].image = run[r].image
        /\ run'[r].pc = "throw"
    BY <1>1, <1>6, ProceedFacts
  <2>2. r \in Inside' /\ r \notin Applying'
    BY <1>2, <2>1 DEF Inside, Applying
  <2>3. \E v \in DOMAIN ledger : v \notin Files(r)
    BY <1>6 DEF Legacy
  <2> QED
    BY <1>1, <1>2, <1>3, <1>4, <1>6, <2>1, <2>2, <2>3, MigrationsTypes, HolderStep
<1>7. CASE \E v \in Legacy : /\ ledger' = [ledger EXCEPT ![v] = Checksum(r, v)]
                             /\ UNCHANGED run
  <2>1. PICK v \in Legacy : ledger' = [ledger EXCEPT ![v] = Checksum(r, v)]
    BY <1>7
  <2>2. /\ DOMAIN ledger' = DOMAIN ledger
        /\ \A w \in DOMAIN ledger' : ledger'[w] \in Sums
    BY <2>1, MigrationsTypes DEF Legacy, Sums
  <2>3. r \in Inside' /\ r \notin Applying' /\ r \in Runner
    BY <1>2, <1>7 DEF Inside, Applying
  <2> QED
    BY <1>1, <1>2, <1>3, <1>4, <1>7, <2>2, <2>3, MigrationsTypes, HolderStep
<1> QED
  BY <1>5, <1>6, <1>7 DEF Backfill

LEMMA LedgerGoneStep ==
  ASSUME MigrationsInv, NEW r \in Runner, LedgerGone(r)
  PROVE  MigrationsInv'
<1>1. /\ run[r].pc = "backfill" /\ ~hasSums /\ Proceed(r, "throw")
      /\ UNCHANGED <<database, lock>> /\ torn' = torn /\ replayed' = replayed
      /\ "throw" \in RunPc
  BY DEF LedgerGone, InPlace, Past, RunPc
<1>2. /\ run' \in [Runner -> RunRow] /\ \A q \in Runner \ {r} : run'[q] = run[q]
      /\ run'[r].command = run[r].command /\ run'[r].image = run[r].image
      /\ run'[r].pc = "throw"
  BY <1>1, ProceedFacts
<1>3. r \in Inside /\ r \in Inside' /\ r \notin Applying /\ r \notin Applying'
  BY <1>1, <1>2 DEF Inside, Applying
<1>4. torn
  BY <1>1, <1>3 DEF MigrationsInv, LockKept, Untorn
<1>5. Standing => \A v \in DOMAIN ledger : Objects(v) \subseteq schema
  BY DEF MigrationsInv
<1> QED
  BY <1>1, <1>2, <1>3, <1>4, <1>5, MigrationsTypes, HolderStep DEF database

\* A runner that has executed nothing of the migration it is at.
LEMMA AtItsFirst ==
  ASSUME NEW r, Remaining(r)' \subseteq Version, run'[r].next = 0,
         run'[r].pc = "apply", DOMAIN ledger' \subseteq run'[r].done,
         run'[r].done \subseteq Files(r)'
  PROVE  Progress(r)' /\ Executed(r)' = {}
<1>1. Executed(r)' = {}
  BY DEF Executed
<1>2. ASSUME Remaining(r)' # {} PROVE 0 < Len(Sql[Pending(r)'])
  <2>1. \E v \in Remaining(r)' : \A w \in Remaining(r)' : v <= w
    <3>1. CASE 1 \in Remaining(r)'
      BY <3>1, SqlIs
    <3>2. CASE 1 \notin Remaining(r)' /\ 2 \in Remaining(r)'
      BY <3>2, SqlIs
    <3>3. CASE 1 \notin Remaining(r)' /\ 2 \notin Remaining(r)'
      BY <1>2, <3>3, SqlIs
    <3> QED
      BY <3>1, <3>2, <3>3
  <2>2. Pending(r)' \in Version
    BY <2>1 DEF Pending
  <2> QED
    BY <2>2, StatementsOf
<1> QED
  BY <1>1, <1>2 DEF Progress

LEMMA ReadAppliedStep ==
  ASSUME MigrationsInv, NEW r \in Runner, ReadApplied(r)
  PROVE  MigrationsInv'
<1> DEFINE pc == IF ~Fits(r) THEN "throw" ELSE IF DryRun(r) THEN "finish" ELSE "apply"
           row == [run[r] EXCEPT !.pc = pc, !.done = DOMAIN ledger, !.next = 0]
<1>1. /\ run[r].pc = "applied" /\ run' = [run EXCEPT ![r] = row]
      /\ UNCHANGED <<database, lock>> /\ torn' = torn /\ replayed' = replayed
      /\ pc \in {"throw", "finish", "apply"}
      /\ pc = "throw" => ~Fits(r)
      /\ pc = "apply" => Fits(r) /\ ~DryRun(r)
  BY DEF ReadApplied, InPlace, Past
<1> HIDE DEF pc
<1>2. /\ row \in RunRow /\ row.command = run[r].command /\ row.image = run[r].image
      /\ row.pc = pc /\ row.done = DOMAIN ledger /\ row.next = 0
  <2>1. run[r] \in RunFields /\ DOMAIN ledger \subseteq Version /\ pc \in RunPc
    BY <1>1, MigrationsTypes DEF RunRow, RunPc
  <2>2. DOMAIN ledger \in Versions /\ 0 \in Statement
    BY <2>1 DEF Versions, Statement
  <2>3. /\ row \in RunFields /\ row.command = run[r].command
        /\ row.image = run[r].image
        /\ row.pc = pc /\ row.done = DOMAIN ledger /\ row.next = 0
    BY <2>1, <2>2 DEF RunFields
  <2> QED
    BY <1>1, <2>3 DEF RunRow
<1> HIDE DEF row
<1>3. /\ run' \in [Runner -> RunRow] /\ \A q \in Runner \ {r} : run'[q] = run[q]
      /\ run'[r].command = run[r].command /\ run'[r].image = run[r].image
      /\ run'[r].pc = pc /\ run'[r].done = DOMAIN ledger /\ run'[r].next = 0
  BY <1>1, <1>2, MigrationsTypes
<1>4. r \in Inside /\ r \in Inside' /\ r \notin Applying
  BY <1>1, <1>3 DEF Inside, Applying
<1>5. /\ schema' = schema /\ ledger' = ledger /\ hasTable' = hasTable
      /\ hasSums' = hasSums /\ lock' = lock
  BY <1>1 DEF database
<1>6. Files(r)' = Files(r) /\ Files(r) \subseteq Version
  BY <1>3, ImageKept, MigrationsTypes
<1>7. pc = "apply" =>
        \A v \in DOMAIN ledger : v \in Files(r) /\ ledger[v] = Checksum(r, v)
  <2>1. pc = "apply" => Legacy = {}
    BY <1>1, <1>4 DEF MigrationsInv, LockKept
  <2> QED
    BY <1>1, <2>1 DEF Fits, Legacy
<1>8. ASSUME pc = "apply" PROVE Progress(r)'
  <2>1. Remaining(r)' \subseteq Version
    BY <1>6 DEF Remaining
  <2>2. DOMAIN ledger' \subseteq run'[r].done /\ run'[r].done \subseteq Files(r)'
    BY <1>3, <1>5, <1>6, <1>7, <1>8
  <2> QED
    BY <1>3, <1>8, <2>1, <2>2, AtItsFirst
<1>9. r \in Applying' <=> pc = "apply"
  BY <1>1, <1>3 DEF Applying
<1>10. ASSUME ~torn
       PROVE  /\ DryRun(r) \/ hasSums
              /\ \A object \in schema : \E v \in DOMAIN ledger : object \in Objects(v)
  BY <1>1, <1>4, <1>10, NothingExecuted
<1>11. pc = "throw" => \E v \in DOMAIN ledger : v \notin Files(r) \/ ledger[v] # Checksum(r, v)
  BY <1>1 DEF Fits
<1>12. Standing => \A v \in DOMAIN ledger : Objects(v) \subseteq schema
  BY DEF MigrationsInv
<1> QED
  BY <1>1, <1>3, <1>4, <1>5, <1>7, <1>8, <1>9, <1>10, <1>11, <1>12, MigrationsTypes,
     HolderStep

\* Before the first crash or reset the next statement finds what it needs, and
\* not what it makes.
LEMMA NotRefused ==
  ASSUME MigrationsInv, NEW r \in Applying, run[r].pc = "apply", Remaining(r) # {},
         ~torn
  PROVE  ~Refused(Sql[Pending(r)][run[r].next + 1])
<1> DEFINE v == Pending(r)  n == run[r].next
<1>1. /\ r \in Runner /\ run[r].done = DOMAIN ledger /\ Progress(r) /\ Standing
      /\ \A w \in DOMAIN ledger : Objects(w) \subseteq schema
      /\ \A q \in Applying : q = r
  BY AloneInside, ApplyingInside DEF MigrationsInv, Untorn, Standing, Applying
<1>2. /\ v \in Remaining(r) /\ v \in Version /\ \A w \in Remaining(r) : v <= w
  BY <1>1, PendingIs
<1>3. n < Len(Sql[v]) /\ n \in 0 .. 3 /\ n + 1 \in DOMAIN Sql[v] /\ n + 1 \in Nat
  BY <1>1, <1>2, MigrationsTypes, SqlIs DEF Progress
<1>4. ASSUME Sql[v][n + 1] \in schema PROVE FALSE
  <2>1. CASE \E w \in DOMAIN ledger : Sql[v][n + 1] \in Objects(w)
    <3>1. PICK w \in DOMAIN ledger : Sql[v][n + 1] \in Objects(w)
      BY <2>1
    <3>2. w \in Version /\ w \notin Remaining(r)
      BY <1>1, MigrationsTypes DEF Remaining
    <3>3. v = w
      BY <1>2, <1>3, <3>1, <3>2, SqlIs DEF Objects
    <3> QED
      BY <1>2, <3>2, <3>3
  <2>2. CASE Sql[v][n + 1] \in Executed(r)
    <3>1. PICK i \in 1 .. n : Sql[v][n + 1] = Sql[v][i]
      BY <2>2 DEF Executed
    <3>2. i \in DOMAIN Sql[v] /\ i # n + 1
      BY <1>2, <1>3, SqlIs
    <3> QED
      BY <1>2, <1>3, <3>1, <3>2, SqlIs
  <2> QED
    BY <1>1, <1>4, <2>1, <2>2 DEF MigrationsInv, Untorn
<1>5. ASSUME Sql[v][n + 1] # "users" PROVE "users" \in schema
  <2>1. 1 \in Version /\ 1 \in DOMAIN Sql[1] /\ Sql[1][1] = "users"
    BY DEF Version, Sql
  <2>2. v # 1
    BY <1>2, <1>3, <1>5, SqlIs
  <2>3. v \in 1 .. run[r].image.last /\ run[r].image.last \in {1, 2, 3}
    BY <1>1, <1>2, MigrationsTypes, SqlIs
       DEF Remaining, Files, RunRow, RunFields, Image
  <2>4. 1 \in Files(r)
    BY <2>3 DEF Files
  <2>5. 1 \notin Remaining(r)
    BY <1>2, <2>2, SqlIs
  <2>6. "users" \in Objects(1) /\ 1 \in DOMAIN ledger
    BY <1>1, <2>1, <2>4, <2>5 DEF Remaining, Objects
  <2> QED
    BY <1>1, <2>6
<1> QED
  BY <1>4, <1>5 DEF Refused

LEMMA ExecuteStep ==
  ASSUME MigrationsInv, NEW r \in Runner, Execute(r)
  PROVE  MigrationsInv'
<1> DEFINE v == Pending(r)  n == run[r].next  object == Sql[Pending(r)][run[r].next + 1]
<1>1. /\ run[r].pc = "apply" /\ Remaining(r) # {} /\ r \in Applying /\ r \in Inside
      /\ UNCHANGED <<ledger, hasTable, hasSums, lock, torn>>
  BY DEF Execute, InPlace, Applying, Inside
<1>2. Progress(r) /\ ~DryRun(r)
      /\ \A w \in DOMAIN ledger : w \in Files(r) /\ ledger[w] = Checksum(r, w)
  BY <1>1 DEF MigrationsInv, LockKept, NoForeignHistory
<1>3. v \in Remaining(r) /\ v \in Version
  BY <1>1, PendingIs
<1>4. n < Len(Sql[v]) /\ n \in Nat /\ n + 1 \in DOMAIN Sql[v] /\ n + 1 \in 0 .. 3
  <2>1. n < Len(Sql[v])
    BY <1>1, <1>2 DEF Progress
  <2>2. n \in 0 .. 3 /\ Len(Sql[v]) \in Nat /\ Len(Sql[v]) <= 2
    BY <1>3, MigrationsTypes, StatementsOf
  <2>3. DOMAIN Sql[v] = 1 .. Len(Sql[v])
    BY <1>3, SqlIs
  <2> HIDE DEF v, n
  <2> QED
    BY <2>1, <2>2, <2>3
<1>5. replayed' = replayed
  <2>1. v \notin DOMAIN ledger
    BY <1>2, <1>3 DEF Progress, Remaining
  <2> QED
    BY <2>1 DEF Execute
<1>6. Standing => \A w \in DOMAIN ledger : Objects(w) \subseteq schema
  BY DEF MigrationsInv
<1>7. CASE Refused(object) /\ Proceed(r, "throw") /\ UNCHANGED schema
  <2>1. /\ run' \in [Runner -> RunRow] /\ \A q \in Runner \ {r} : run'[q] = run[q]
        /\ run'[r].command = run[r].command /\ run'[r].image = run[r].image
        /\ run'[r].pc = "throw"
    BY <1>7, ProceedFacts DEF RunPc
  <2>2. r \in Inside' /\ r \notin Applying'
    BY <2>1 DEF Inside, Applying
  <2>3. torn
    BY <1>1, <1>7, NotRefused
  <2> QED
    BY <1>1, <1>5, <1>6, <1>7, <2>1, <2>2, <2>3, MigrationsTypes, HolderStep
<1>8. CASE /\ schema' = schema \cup {object}
           /\ run' = [run EXCEPT ![r].next = @ + 1,
                ![r].pc = IF run[r].next + 1 = Len(Sql[Pending(r)]) THEN "record" ELSE @]
  <2> DEFINE pc == IF n + 1 = Len(Sql[v]) THEN "record" ELSE "apply"
             row == [run[r] EXCEPT !.next = n + 1, !.pc = pc]
  <2>1. run' = [run EXCEPT ![r] = row]
    BY <1>1, <1>8
  <2>2. /\ pc \in {"apply", "record"}
        /\ pc = "record" => n + 1 = Len(Sql[v])
        /\ pc = "apply" => n + 1 < Len(Sql[v])
    BY <1>3, <1>4, SqlIs
  <2> HIDE DEF pc, v, n
  <2>3. /\ row \in RunRow /\ row.command = run[r].command /\ row.image = run[r].image
        /\ row.done = run[r].done /\ row.next = n + 1 /\ row.pc = pc
    <3>1. run[r] \in RunFields /\ pc \in RunPc
      BY <2>2, MigrationsTypes DEF RunRow, RunPc
    <3>2. row \in RunFields /\ row.pc = pc
      BY <1>4, <3>1 DEF RunFields, Statement
    <3> QED
      BY <2>2, <3>1, <3>2 DEF RunRow, RunFields
  <2> HIDE DEF row
  <2>4. /\ run' \in [Runner -> RunRow] /\ \A q \in Runner \ {r} : run'[q] = run[q]
        /\ run'[r].command = run[r].command /\ run'[r].image = run[r].image
        /\ run'[r].done = run[r].done /\ run'[r].next = n + 1 /\ run'[r].pc = pc
    BY <2>1, <2>3, MigrationsTypes
  <2>5. r \in Inside' /\ r \in Applying'
    BY <2>2, <2>4 DEF Inside, Applying
  <2>6. /\ Remaining(r)' = Remaining(r) /\ Pending(r)' = v /\ Files(r)' = Files(r)
    BY <2>4, ImageKept DEF v
  <2>7. Executed(r)' = Executed(r) \cup {object}
    <3>1. 1 .. (n + 1) = (1 .. n) \cup {n + 1}
      BY <1>4
    <3>2. Executed(r)' = {Sql[v][i] : i \in 1 .. (n + 1)}
      BY <2>4, <2>6 DEF Executed
    <3>3. Executed(r) = {Sql[v][i] : i \in 1 .. n} /\ object = Sql[v][n + 1]
      BY DEF Executed, v, n
    <3> HIDE DEF object
    <3> QED
      BY <3>1, <3>2, <3>3
  <2>8. Progress(r)'
    <3>1. DOMAIN ledger' \subseteq run'[r].done /\ run'[r].done \subseteq Files(r)'
      BY <1>1, <1>2, <2>4, <2>6 DEF Progress
    <3>2. run'[r].pc = "apply" => run'[r].next < Len(Sql[Pending(r)'])
      BY <2>2, <2>4, <2>6
    <3>3. run'[r].pc # "apply" => run'[r].next = Len(Sql[Pending(r)'])
      BY <2>2, <2>4, <2>6
    <3>4. Standing' => Standing
      BY <1>1, <2>4 DEF Standing, Resetting
    <3>5. hasSums' /\ Standing' => Executed(r)' \subseteq schema'
      BY <1>1, <1>2, <1>8, <2>7, <3>4 DEF Progress
    <3> QED
      BY <1>1, <2>6, <3>1, <3>2, <3>3, <3>5 DEF Progress
  <2>9. schema' \subseteq AllObjects
    BY <1>3, <1>4, <1>8, MigrationsTypes DEF AllObjects, v, n
  <2>10. ASSUME ~torn
         PROVE  /\ hasSums' /\ run'[r].done = DOMAIN ledger'
                /\ \A thing \in schema' : \/ \E w \in DOMAIN ledger' : thing \in Objects(w)
                                          \/ thing \in Executed(r)'
    <3>1. /\ hasSums /\ run[r].done = DOMAIN ledger
          /\ \A thing \in schema : \/ \E w \in DOMAIN ledger : thing \in Objects(w)
                                   \/ \E q \in Applying : thing \in Executed(q)
      BY <1>1, <1>2, <2>10 DEF MigrationsInv, Untorn
    <3>2. ASSUME NEW q \in Applying PROVE q = r
      BY <1>1, <3>2, AloneInside, ApplyingInside
    <3> QED
      BY <1>1, <1>8, <2>4, <2>7, <3>1, <3>2
  <2>11. Standing => \A w \in DOMAIN ledger' : Objects(w) \subseteq schema'
    BY <1>1, <1>6, <1>8
  <2> QED
    BY <1>1, <1>2, <1>5, <2>2, <2>4, <2>5, <2>8, <2>9, <2>10, <2>11, MigrationsTypes,
       HolderStep
<1> QED
  BY <1>7, <1>8 DEF Execute

LEMMA RecordStep ==
  ASSUME MigrationsInv, NEW r \in Runner, Record(r)
  PROVE  MigrationsInv'
<1> DEFINE v == Pending(r)
<1>1. /\ run[r].pc = "record" /\ r \in Applying /\ r \in Inside
      /\ UNCHANGED <<schema, hasTable, hasSums, lock, torn, replayed>>
  BY DEF Record, InPlace, Past, Applying, Inside
<1>2. Progress(r) /\ ~DryRun(r)
      /\ \A w \in DOMAIN ledger : w \in Files(r) /\ ledger[w] = Checksum(r, w)
  BY <1>1 DEF MigrationsInv, LockKept, NoForeignHistory
<1>3. Remaining(r) # {} /\ run[r].next = Len(Sql[v])
  BY <1>1, <1>2 DEF Progress
<1>4. /\ v \in Remaining(r) /\ v \in Version /\ v \notin DOMAIN ledger
      /\ v \in Files(r)
  BY <1>2, <1>3, PendingIs DEF Progress, Remaining
<1>5. Standing => \A w \in DOMAIN ledger : Objects(w) \subseteq schema
  BY DEF MigrationsInv
<1>6. \A q \in Applying : q = r
  BY <1>1, AloneInside, ApplyingInside
<1>7. Executed(r) = Objects(v)
  <2>1. DOMAIN Sql[v] = 1 .. Len(Sql[v])
    BY <1>4, SqlIs
  <2> QED
    BY <1>3, <2>1 DEF Executed, Objects
<1>8. ASSUME ~torn
      PROVE  /\ hasSums /\ run[r].done = DOMAIN ledger
             /\ \A object \in schema : \E w \in DOMAIN ledger \cup {v} : object \in Objects(w)
  <2>1. /\ hasSums /\ run[r].done = DOMAIN ledger
        /\ \A object \in schema : \/ \E w \in DOMAIN ledger : object \in Objects(w)
                                  \/ \E q \in Applying : object \in Executed(q)
    BY <1>1, <1>2, <1>8 DEF MigrationsInv, Untorn
  <2> HIDE DEF v
  <2>2. ASSUME NEW object \in schema
        PROVE  \E w \in DOMAIN ledger \cup {v} : object \in Objects(w)
    BY <1>6, <1>7, <2>1
  <2> QED
    BY <2>1, <2>2
<1>9. CASE ~hasSums /\ Proceed(r, "throw") /\ UNCHANGED ledger
  <2>1. /\ run' \in [Runner -> RunRow] /\ \A q \in Runner \ {r} : run'[q] = run[q]
        /\ run'[r].command = run[r].command /\ run'[r].image = run[r].image
        /\ run'[r].pc = "throw"
    BY <1>9, ProceedFacts DEF RunPc
  <2>2. r \in Inside' /\ r \notin Applying'
    BY <2>1 DEF Inside, Applying
  <2> QED
    BY <1>1, <1>5, <1>8, <1>9, <2>1, <2>2, MigrationsTypes, HolderStep
<1>10. CASE /\ hasSums
            /\ ledger' = [w \in DOMAIN ledger \cup {v} |->
                            IF w = v THEN Checksum(r, v) ELSE ledger[w]]
            /\ run' = [run EXCEPT ![r].done = @ \cup {v}, ![r].next = 0,
                                  ![r].pc = "apply"]
  <2> DEFINE row == [run[r] EXCEPT !.done = @ \cup {v}, !.next = 0, !.pc = "apply"]
  <2>1. run' = [run EXCEPT ![r] = row]
    BY <1>10
  <2>2. /\ DOMAIN ledger' = DOMAIN ledger \cup {v} /\ ledger'[v] = Checksum(r, v)
        /\ \A w \in DOMAIN ledger : ledger'[w] = ledger[w]
    BY <1>4, <1>10
  <2> HIDE DEF v
  <2>3. /\ row \in RunRow /\ row.command = run[r].command /\ row.image = run[r].image
        /\ row.done = run[r].done \cup {v} /\ row.next = 0 /\ row.pc = "apply"
    <3>1. run[r] \in RunFields
      BY MigrationsTypes DEF RunRow
    <3>2. run[r].done \cup {v} \in Versions /\ 0 \in Statement /\ "apply" \in RunPc
      BY <1>4, <3>1 DEF RunFields, Versions, Statement, RunPc
    <3>3. /\ row \in RunFields /\ row.command = run[r].command
          /\ row.image = run[r].image
          /\ row.done = run[r].done \cup {v} /\ row.next = 0 /\ row.pc = "apply"
      BY <3>1, <3>2 DEF RunFields
    <3> QED
      BY <3>3 DEF RunRow
  <2> HIDE DEF row
  <2>4. /\ run' \in [Runner -> RunRow] /\ \A q \in Runner \ {r} : run'[q] = run[q]
        /\ run'[r].command = run[r].command /\ run'[r].image = run[r].image
        /\ run'[r].done = run[r].done \cup {v} /\ run'[r].next = 0
        /\ run'[r].pc = "apply"
    BY <2>1, <2>3, MigrationsTypes
  <2>5. r \in Inside' /\ r \in Applying'
    BY <2>4 DEF Inside, Applying
  <2>6. Files(r)' = Files(r) /\ Files(r) \subseteq Version
    BY <2>4, ImageKept, MigrationsTypes
  <2>7. Progress(r)'
    <3>1. Remaining(r)' \subseteq Version
      BY <2>6 DEF Remaining
    <3>2. DOMAIN ledger' \subseteq run'[r].done /\ run'[r].done \subseteq Files(r)'
      BY <1>2, <1>4, <2>2, <2>4, <2>6 DEF Progress
    <3> QED
      BY <2>4, <3>1, <3>2, AtItsFirst
  <2>8. ASSUME Standing, NEW w \in DOMAIN ledger' PROVE Objects(w) \subseteq schema'
    <3>1. CASE w = v
      BY <1>1, <1>2, <1>7, <1>10, <2>8, <3>1 DEF Progress
    <3>2. CASE w # v
      BY <1>1, <1>5, <2>2, <2>8, <3>2
    <3> QED
      BY <3>1, <3>2
  <2>9. \A w \in DOMAIN ledger' : w \in Files(r) /\ ledger'[w] = Checksum(r, w)
    BY <1>2, <1>4, <2>2
  <2>10. \A w \in DOMAIN ledger' : w \in Version /\ ledger'[w] \in Sums
    BY <1>4, <2>2, MigrationsTypes DEF Sums
  <2>11. ASSUME ~torn
         PROVE  /\ hasSums' /\ run'[r].done = DOMAIN ledger'
                /\ \A object \in schema' : \E w \in DOMAIN ledger' : object \in Objects(w)
    BY <1>1, <1>8, <2>2, <2>4, <2>11
  <2> QED
    BY <1>1, <1>2, <2>4, <2>5, <2>7, <2>8, <2>9, <2>10, <2>11, MigrationsTypes,
       HolderStep
<1> QED
  BY <1>4, <1>9, <1>10 DEF Record

LEMMA InitMigrations ==
  ASSUME MigrationsInit
  PROVE  MigrationsInv
<1>1. PICK last \in 0 .. 3 :
        /\ schema = UNION {Objects(v) : v \in 1 .. last}
        /\ ledger = [v \in 1 .. last |-> "null"]
        /\ hasTable = (last > 0)
  BY DEF MigrationsInit, Objects
<1>2. PICK command \in [Runner -> Command], image \in [Runner -> Image] :
        run = [r \in Runner |-> [command |-> command[r], image |-> image[r],
                                 done |-> {}, next |-> 0, pc |-> "start"]]
  BY DEF MigrationsInit, Command
<1>3. \A r \in Runner : run[r].pc = "start"
  BY <1>2
<1>4. Inside = {} /\ Applying = {}
  BY <1>3 DEF Inside, Applying
<1>5. hasSums = FALSE /\ lock = {} /\ replayed = {} /\ torn = FALSE
  BY DEF MigrationsInit
<1>6. 1 .. last \subseteq Version /\ DOMAIN ledger = 1 .. last
      /\ \A v \in DOMAIN ledger : ledger[v] = "null"
  <2>1. 1 .. last \subseteq {1, 2, 3}
    OBVIOUS
  <2> QED
    BY <1>1, <2>1, SqlIs
<1>7. schema \subseteq UNION {Objects(v) : v \in Version}
  BY <1>1, <1>6
<1>8. run \in [Runner -> [command : Command, image : Image, done : SUBSET Version,
                          next : 0 .. 3, pc : RunPc]]
  <2>1. \A r \in Runner : [command |-> command[r], image |-> image[r], done |-> {},
                           next |-> 0, pc |-> "start"] \in RunFields
    BY DEF RunFields, Versions, Statement, RunPc
  <2> QED
    BY <1>2, <2>1 DEF RunFields, Versions, Statement
<1>9. MigrationsTypeOK
  <2>1. hasTable \in BOOLEAN
    BY <1>1
  <2> QED
    BY <1>3, <1>5, <1>6, <1>7, <1>8, <2>1 DEF MigrationsTypeOK, Objects, RunPc, Command
<1>10. \A v \in DOMAIN ledger : Objects(v) \subseteq schema
  BY <1>1, <1>6
<1>11. Untorn
  <2>1. \A object \in schema : \E v \in DOMAIN ledger : object \in Objects(v)
    BY <1>1, <1>6
  <2> QED
    BY <1>3, <1>4, <2>1 DEF Untorn
<1>12. AppliedOnce
  BY <1>3, <1>5, <1>10 DEF AppliedOnce, Objects
<1>13. NoForeignHistory /\ LockKept
  BY <1>3, <1>4 DEF NoForeignHistory, LockKept
<1> QED
  BY <1>4, <1>9, <1>10, <1>11, <1>12, <1>13 DEF MigrationsInv

LEMMA MigrationsSteps ==
  ASSUME MigrationsInv, [MigrationsNext]_migrationVars
  PROVE  MigrationsInv'
<1>1. CASE MigrationsNext
  <2> PICK r \in Runner :
        \/ Launch(r) \/ DropTables(r) \/ DropLedger(r) \/ Acquire(r) \/ TimeOut(r)
        \/ Ensure(r) \/ Backfill(r) \/ ReadApplied(r) \/ Execute(r) \/ Record(r)
        \/ LedgerGone(r) \/ Release(r) \/ Crash(r)
    BY <1>1 DEF MigrationsNext
  <2> QED
    BY LaunchStep, DropTablesStep, DropLedgerStep, AcquireStep, TimeOutStep,
       EnsureStep, BackfillStep, ReadAppliedStep, ExecuteStep, RecordStep,
       LedgerGoneStep, ReleaseStep, CrashStep
<1>2. CASE UNCHANGED migrationVars
  <2>1. /\ schema' = schema /\ ledger' = ledger /\ hasTable' = hasTable
        /\ hasSums' = hasSums /\ lock' = lock /\ run' = run
        /\ replayed' = replayed /\ torn' = torn
    BY <1>2 DEF migrationVars
  <2>2. /\ Inside' = Inside /\ Applying' = Applying /\ Legacy' = Legacy
        /\ \A r : /\ Files(r)' = Files(r) /\ DryRun(r)' = DryRun(r)
                  /\ \A v : Checksum(r, v)' = Checksum(r, v)
                  /\ Remaining(r)' = Remaining(r) /\ Pending(r)' = Pending(r)
                  /\ Executed(r)' = Executed(r)
    BY <2>1 DEF Inside, Applying, Legacy, Files, DryRun, Checksum, Remaining, Pending,
                Executed
  <2>3. (Standing' <=> Standing) /\ (Resetting' <=> Resetting)
    BY <2>1 DEF Standing, Resetting
  <2>4. MigrationsTypeOK' /\ LockKept'
    BY <2>1, <2>2 DEF MigrationsInv, MigrationsTypeOK, LockKept
  <2>5. \A r \in Applying' : Progress(r)'
    BY <2>1, <2>2, <2>3 DEF MigrationsInv, Progress
  <2>6. torn' \/ Untorn'
    BY <2>1, <2>2 DEF MigrationsInv, Untorn
  <2>7. AppliedOnce' /\ NoForeignHistory'
    BY <2>1, <2>2, <2>3 DEF MigrationsInv, AppliedOnce, NoForeignHistory
  <2>8. Standing' => \A v \in DOMAIN ledger' : Objects(v) \subseteq schema'
    BY <2>1, <2>3 DEF MigrationsInv
  <2> QED
    BY <2>4, <2>5, <2>6, <2>7, <2>8 DEF MigrationsInv, Objects
<1> QED
  BY <1>1, <1>2

\* The inductive invariant of the migration runner: who is between GET_LOCK and
\* RELEASE_LOCK is alone there, what it counts as applied covers what is recorded,
\* and before a crash or a reset the schema holds nothing else.
THEOREM MigrationsInvariance == MigrationsSpec => []MigrationsInv
<1>1. MigrationsInit => MigrationsInv
  BY InitMigrations
<1>2. MigrationsInv /\ [MigrationsNext]_migrationVars => MigrationsInv'
  BY MigrationsSteps
<1> QED
  BY <1>1, <1>2, PTL DEF MigrationsSpec

\* However many containers run the migrations together, of whatever images, and
\* die and start again: a recorded migration is in the schema whole and is not
\* executed again, and SQL fails only after a crash or a reset.
THEOREM MigrationsApplyOnce == MigrationsSpec => []AppliedOnce
<1>1. MigrationsInv => AppliedOnce
  BY DEF MigrationsInv
<1> QED
  BY <1>1, MigrationsInvariance, PTL

\* validateAppliedChecksums holds until the lock is released: while a runner
\* executes SQL, each recorded version is a file of its image, unchanged.
THEOREM HistoryKnown == MigrationsSpec => []NoForeignHistory
<1>1. MigrationsInv => NoForeignHistory
  BY DEF MigrationsInv
<1> QED
  BY <1>1, MigrationsInvariance, PTL

-----------------------------------------------------------------------------
(* TransactionsLab.                                                        *)

LabPc   == {"takeA", "takeB", "takeP", "truncate", "fill", "begin", "first",
            "write", "second", "lockA", "lockB", "cross", "answered", "failed"}
Conns   == UNION {[1 .. n -> Conn] : n \in 0 .. 3}
Result  == [level : Level, anomaly : BOOLEAN]
Branch  == {"open", "committed", "rolled_back"}
LabRow  == [scenario : Scenario, level : Level, first : Nat, pc : LabPc,
            conn : Conns, results : SUBSET Result, branch : [{1, 2} -> Branch]]
Usage   == [used : BOOLEAN, snap : Seq(Nat), locks : SUBSET (0 .. 2)]
SessionRow == [level : Level, tx : Usage]
Anomaly == [level |-> "RR", anomaly |-> TRUE]

LEMMA UpToThree == \A n \in Nat : n <= 3 => n \in 0 .. 3
OBVIOUS

LEMMA ConnsAre ==
  /\ \A s \in Conns : /\ Len(s) \in 0 .. 3 /\ DOMAIN s = 1 .. Len(s) /\ s \in Seq(Conn)
                      /\ \A i \in 1 .. Len(s) : s[i] \in Conn
  /\ \A s \in Seq(Conn) : Len(s) <= 3 => s \in Conns
  /\ << >> \in Conns
<1>1. ASSUME NEW s \in Conns
      PROVE  /\ Len(s) \in 0 .. 3 /\ DOMAIN s = 1 .. Len(s) /\ s \in Seq(Conn)
             /\ \A i \in 1 .. Len(s) : s[i] \in Conn
  <2>1. PICK n \in 0 .. 3 : s \in [1 .. n -> Conn]
    BY DEF Conns
  <2> QED
    BY <2>1
<1>2. ASSUME NEW s \in Seq(Conn), Len(s) <= 3 PROVE s \in Conns
  <2>1. s \in [1 .. Len(s) -> Conn]
    BY LenProperties
  <2>2. Len(s) \in 0 .. 3
    <3>1. Len(s) \in Nat
      BY LenProperties
    <3> QED
      BY <1>2, <3>1, UpToThree, Zenon
  <2> QED
    BY <2>1, <2>2 DEF Conns
<1>3. << >> \in Seq(Conn) /\ Len(<< >>) <= 3
  OBVIOUS
<1> QED
  BY <1>1, <1>2, <1>3

LEMMA LabTypes ==
  ASSUME LabInv
  PROVE  /\ lab \in [LabRequest -> LabRow] /\ session \in [Conn -> SessionRow]
         /\ pool \subseteq Conn /\ amounts \in Seq(Nat)
         /\ \A q \in LabRequest :
              /\ lab[q] \in LabRow /\ lab[q].conn \in Conns
              /\ Len(lab[q].conn) \in 0 .. 3 /\ lab[q].conn \in Seq(Conn)
              /\ DOMAIN lab[q].conn = 1 .. Len(lab[q].conn)
              /\ \A i \in 1 .. Len(lab[q].conn) : lab[q].conn[i] \in Conn
         /\ \A c \in Conn : /\ session[c] \in SessionRow /\ session[c].tx \in Usage
<1>1. lab \in [LabRequest -> LabRow] /\ session \in [Conn -> SessionRow]
      /\ pool \subseteq Conn /\ amounts \in Seq(Nat)
  BY DEF LabInv, LabTypeOK, LabRow, LabPc, Conns, Result, Branch, SessionRow, Usage
<1>2. \A q \in LabRequest : lab[q] \in LabRow /\ lab[q].conn \in Conns
  BY <1>1 DEF LabRow
<1>3. \A c \in Conn : session[c] \in SessionRow /\ session[c].tx \in Usage
  BY <1>1 DEF SessionRow
<1> QED
  BY <1>1, <1>2, <1>3, ConnsAre

\* The two connections a request works on are its own, and not the same.
LEMMA TwoConns ==
  ASSUME LabInv, NEW q \in LabRequest,
         lab[q].pc \in {"takeP", "begin", "first", "write", "second", "lockA",
                        "lockB", "cross"}
  PROVE  /\ Len(lab[q].conn) = 2 /\ lab[q].conn[1] # lab[q].conn[2]
         /\ lab[q].conn[1] \in Conn /\ lab[q].conn[2] \in Conn
         /\ Held(q) = {lab[q].conn[1], lab[q].conn[2]}
<1>1. /\ Len(lab[q].conn) = 2 /\ IsInjective(lab[q].conn)
      /\ DOMAIN lab[q].conn = {1, 2} /\ lab[q].pc # "answered"
  BY LabTypes DEF LabInv, Holding
<1>2. lab[q].conn[1] \in Conn /\ lab[q].conn[2] \in Conn
  BY <1>1, LabTypes
<1> QED
  BY <1>1, <1>2 DEF Held, ToSet, IsInjective

\* What the steps of one request have in common: they leave the other requests,
\* their connections and so what these read as they are.
LEMMA RequestStep ==
  ASSUME LabInv, NEW q \in LabRequest,
         lab' \in [LabRequest -> LabRow],
         \A r \in LabRequest \ {q} : lab'[r] = lab[r],
         session' \in [Conn -> SessionRow],
         \A c \in Conn \ Held(q) : session'[c] = session[c],
         amounts' \in Seq(Nat), pool' \subseteq Conn,
         Held(q)' \cup pool' \subseteq Held(q) \cup pool,
         Held(q)' \cap pool' = {},
         LET n == Len(lab'[q].conn)  pc == lab'[q].pc
         IN  /\ pc = "takeA" => n = 0
             /\ pc = "takeB" => n = 1
             /\ pc \in {"truncate", "fill"} => n = 3
             /\ pc \in {"takeP", "begin", "first", "write", "second", "lockA",
                        "lockB", "cross"} => n = 2
             /\ pc # "answered" => IsInjective(lab'[q].conn),
         Reading(q)', Anomaly \notin lab'[q].results
  PROVE  LabInv'
<1>1. LabTypeOK'
  BY DEF LabTypeOK, LabRow, LabPc, Conns, Result, Branch, SessionRow, Usage
<1>2. ASSUME NEW r \in LabRequest \ {q}
      PROVE  /\ Held(r)' = Held(r) /\ Held(r) \cap Held(q) = {} /\ Held(r) \cap pool = {}
             /\ Held(r) \cap Held(q)' = {} /\ Held(r) \cap pool' = {}
  <2>1. Held(r)' = Held(r)
    BY DEF Held
  <2>2. Held(r) \cap Held(q) = {} /\ Held(r) \cap pool = {}
    BY DEF LabInv, Holding
  <2> QED
    BY <2>1, <2>2
<1>3. Holding(q)'
  BY <1>2 DEF Holding
<1>4. ASSUME NEW r \in LabRequest \ {q} PROVE Holding(r)' /\ Reading(r)'
  <2>1. Holding(r) /\ Reading(r) /\ lab'[r] = lab[r]
    BY DEF LabInv
  <2>2. Holding(r)'
    <3>1. \A s \in LabRequest \ {r} : Held(r)' \cap Held(s)' = {}
      <4>1. ASSUME NEW s \in LabRequest \ {r}, s # q PROVE Held(r)' \cap Held(s)' = {}
        BY <1>2, <2>1, <4>1 DEF Holding
      <4> QED
        BY <1>2, <4>1
    <3> QED
      BY <1>2, <2>1, <3>1 DEF Holding
  <2>3. Reading(r)'
    <3>1. CASE lab[r].pc \in {"first", "write", "second"}
      <4>1. lab[r].conn[1] \in Held(r) /\ lab[r].conn[1] \in Conn
        BY <3>1, TwoConns
      <4>2. session'[lab'[r].conn[1]] = session[lab[r].conn[1]]
        BY <1>2, <2>1, <4>1
      <4> QED
        BY <2>1, <4>2 DEF Reading, Answer
    <3>2. CASE lab[r].pc \notin {"first", "write", "second"}
      BY <2>1, <3>2 DEF Reading
    <3> QED
      BY <3>1, <3>2
  <2> QED
    BY <2>2, <2>3
<1>5. RepeatableStable'
  BY DEF RepeatableStable, LabInv, Anomaly
<1> QED
  BY <1>1, <1>3, <1>4, <1>5 DEF LabInv

\* Where a request goes from.
LEMMA PlaceFacts ==
  ASSUME LabInv, NEW q \in LabRequest, NEW to \in LabPc,
         lab' = [lab EXCEPT ![q].pc = to]
  PROVE  /\ lab' \in [LabRequest -> LabRow]
         /\ \A r \in LabRequest \ {q} : lab'[r] = lab[r]
         /\ lab'[q].pc = to /\ lab'[q].conn = lab[q].conn
         /\ lab'[q].scenario = lab[q].scenario /\ lab'[q].level = lab[q].level
         /\ lab'[q].first = lab[q].first /\ lab'[q].results = lab[q].results
         /\ Anomaly \notin lab'[q].results
<1>1. lab[q] \in LabRow /\ lab \in [LabRequest -> LabRow]
  BY LabTypes
<1>2. Anomaly \notin lab[q].results
  BY DEF LabInv, RepeatableStable, Anomaly
<1> QED
  BY <1>1, <1>2 DEF LabRow

\* The places where nothing is read yet, or any more.
LEMMA NotReading ==
  ASSUME NEW q \in LabRequest, lab'[q].pc \notin {"first", "write", "second"}
  PROVE  Reading(q)'
BY DEF Reading

\* A step that takes the request from a place with two connections to another one
\* and leaves the pool alone.
LEMMA PlaceStep ==
  ASSUME LabInv, NEW q \in LabRequest, NEW to \in LabPc,
         lab' = [lab EXCEPT ![q].pc = to], pool' = pool,
         lab[q].pc \in {"begin", "first", "write", "second", "lockA", "lockB", "cross"},
         to \in {"begin", "first", "write", "second", "lockA", "lockB", "cross"},
         session' \in [Conn -> SessionRow], amounts' \in Seq(Nat),
         \A c \in Conn \ Held(q) : session'[c] = session[c],
         Reading(q)'
  PROVE  LabInv'
<1>1. /\ Len(lab[q].conn) = 2 /\ IsInjective(lab[q].conn)
      /\ Held(q) \cap pool = {}
  BY TwoConns DEF LabInv, Holding
<1>2. Held(q)' = Held(q)
  BY PlaceFacts DEF Held
<1>3. pool \subseteq Conn
  BY LabTypes
<1> QED
  BY <1>1, <1>2, <1>3, PlaceFacts, RequestStep

LEMMA AddedSeq ==
  ASSUME LabInv, NEW c
  PROVE  /\ Added(c) \in Seq(Nat) /\ DOMAIN Added(c) = DOMAIN amounts
         /\ \A i \in DOMAIN amounts : Added(c)[i] \in {amounts[i], amounts[i] + 1}
<1>1. /\ amounts \in Seq(Nat) /\ Len(amounts) \in Nat
      /\ DOMAIN amounts = 1 .. Len(amounts)
      /\ \A i \in DOMAIN amounts : amounts[i] \in Nat
  BY LabTypes
<1>2. /\ DOMAIN Added(c) = 1 .. Len(amounts)
      /\ \A i \in 1 .. Len(amounts) :
           Added(c)[i] \in Nat /\ Added(c)[i] \in {amounts[i], amounts[i] + 1}
  BY <1>1 DEF Added
<1>3. Added(c) = [i \in 1 .. Len(amounts) |-> Added(c)[i]]
  BY <1>1 DEF Added
<1>4. Added(c) \in Seq(Nat)
  BY <1>1, <1>2, <1>3, IsASeq
<1> QED
  BY <1>1, <1>2, <1>4

LEMMA AnswerNat ==
  ASSUME NEW table \in Seq(Nat), NEW q
  PROVE  Answer(q, table) \in Nat
<1>1. /\ Len(table) \in Nat /\ DOMAIN table = 1 .. Len(table)
      /\ \A i \in DOMAIN table : table[i] \in Nat
      /\ table # << >> => 1 \in DOMAIN table
  OBVIOUS
<1>2. {i \in DOMAIN table : table[i] >= 100} \subseteq 1 .. Len(table)
  BY <1>1
<1>3. Cardinality({i \in DOMAIN table : table[i] >= 100}) \in Nat
  <2> DEFINE dear == {i \in DOMAIN table : table[i] >= 100}
             top  == Len(table)
  <2>1. IsFiniteSet(1 .. top)
    BY <1>1, FS_Interval
  <2>2. dear \subseteq 1 .. top
    BY <1>2
  <2> HIDE DEF dear, top
  <2>3. IsFiniteSet(dear)
    BY <2>1, <2>2, FS_Subset
  <2>4. Cardinality(dear) \in Nat
    BY <2>3, FS_CardinalityType
  <2> QED
    BY <2>4 DEF dear
<1> QED
  BY <1>1, <1>3 DEF Answer

LEMMA NoUseTyped == NoUse \in Usage /\ Level = {"RC", "RR"}
<1>1. << >> \in Seq(Nat)
  OBVIOUS
<1> QED
  BY <1>1 DEF NoUse, Usage, Level

LEMMA TakeStep ==
  ASSUME LabInv, NEW q \in LabRequest, Take(q)
  PROVE  LabInv'
<1> PICK c \in pool :
      /\ lab[q].pc \in {"takeA", "takeB", "takeP"}
      /\ pool' = pool \ {c} /\ session' = session /\ amounts' = amounts
      /\ lab' = [lab EXCEPT
           ![q].conn = Append(@, c),
           ![q].pc = CASE @ = "takeA" -> "takeB" [] @ = "takeB" -> "takeP"
                       [] @ = "takeP" -> "truncate"]
  BY DEF Take
<1> DEFINE conn == Append(lab[q].conn, c)
           to == CASE lab[q].pc = "takeA" -> "takeB" [] lab[q].pc = "takeB" -> "takeP"
                   [] lab[q].pc = "takeP" -> "truncate"
           n == Len(lab[q].conn)
<1>1. /\ lab[q] \in LabRow /\ lab[q].conn \in Seq(Conn) /\ c \in Conn
      /\ n = CASE lab[q].pc = "takeA" -> 0 [] lab[q].pc = "takeB" -> 1
               [] lab[q].pc = "takeP" -> 2
      /\ IsInjective(lab[q].conn) /\ Held(q) \cap pool = {}
  BY LabTypes DEF LabInv, Holding
<1>2. /\ conn \in Seq(Conn) /\ Len(conn) = n + 1 /\ n \in 0 .. 2
      /\ conn[n + 1] = c /\ \A i \in 1 .. n : conn[i] = lab[q].conn[i]
      /\ DOMAIN conn = 1 .. n + 1 /\ DOMAIN lab[q].conn = 1 .. n
  BY <1>1
<1>3. conn \in Conns
  <2>1. Len(conn) <= 3
    BY <1>2
  <2> QED
    BY <1>2, <2>1, ConnsAre
<1>4. to \in LabPc /\ to \notin {"first", "write", "second", "answered"}
      /\ to = CASE n = 0 -> "takeB" [] n = 1 -> "takeP" [] n = 2 -> "truncate"
  BY <1>1 DEF LabPc
<1> DEFINE row == [lab[q] EXCEPT !.conn = conn, !.pc = to]
<1>5. lab' = [lab EXCEPT ![q] = row]
  BY LabTypes DEF LabRow
<1> HIDE DEF conn, to, n
<1>6. row \in LabRow /\ row.pc = to /\ row.conn = conn /\ row.results = lab[q].results
  BY <1>1, <1>3, <1>4 DEF LabRow
<1> HIDE DEF row
<1>7. /\ lab' \in [LabRequest -> LabRow] /\ \A r \in LabRequest \ {q} : lab'[r] = lab[r]
      /\ lab'[q].pc = to /\ lab'[q].conn = conn /\ lab'[q].results = lab[q].results
  BY <1>5, <1>6, LabTypes
<1>8. IsInjective(conn) /\ ToSet(conn) = ToSet(lab[q].conn) \cup {c}
  <2>1. ToSet(conn) = ToSet(lab[q].conn) \cup {c}
    BY <1>2 DEF ToSet
  <2>2. \A i \in 1 .. n : lab[q].conn[i] # c
    BY <1>1, <1>2 DEF Held, ToSet
  <2> QED
    BY <1>1, <1>2, <2>1, <2>2 DEF IsInjective
<1>9. Held(q)' = Held(q) \cup {c}
  BY <1>4, <1>7, <1>8 DEF Held
<1>10. Anomaly \notin lab[q].results /\ Reading(q)'
  BY <1>4, <1>7, NotReading DEF LabInv, RepeatableStable, Anomaly
<1>11. /\ pool' \subseteq Conn /\ Held(q)' \cup pool' \subseteq Held(q) \cup pool
       /\ Held(q)' \cap pool' = {}
  BY <1>1, <1>9, LabTypes
<1>12. LET m == Len(conn)
       IN  /\ to = "takeB" => m = 1
           /\ to = "truncate" => m = 3
           /\ to = "takeP" => m = 2
           /\ to \in {"takeB", "truncate", "takeP"}
  BY <1>2, <1>4
<1>13. session' \in [Conn -> SessionRow] /\ amounts' \in Seq(Nat)
  BY LabTypes
<1> QED
  BY <1>7, <1>8, <1>10, <1>11, <1>12, <1>13, RequestStep

\* What prepareTable does with the third connection.
LEMMA ThreeConns ==
  ASSUME LabInv, NEW q \in LabRequest, lab[q].pc \in {"truncate", "fill"}
  PROVE  /\ lab[q].conn \in Seq(Conn) /\ Len(lab[q].conn) = 3
         /\ IsInjective(lab[q].conn)
         /\ lab[q].conn[1] \in Conn /\ lab[q].conn[2] \in Conn /\ lab[q].conn[3] \in Conn
         /\ Held(q) = {lab[q].conn[1], lab[q].conn[2], lab[q].conn[3]}
         /\ lab[q].conn[1] # lab[q].conn[2] /\ lab[q].conn[1] # lab[q].conn[3]
         /\ lab[q].conn[2] # lab[q].conn[3]
<1>1. /\ Len(lab[q].conn) = 3 /\ IsInjective(lab[q].conn)
      /\ DOMAIN lab[q].conn = {1, 2, 3} /\ lab[q].pc # "answered"
      /\ lab[q].conn \in Seq(Conn)
  BY LabTypes DEF LabInv, Holding
<1>2. lab[q].conn[1] \in Conn /\ lab[q].conn[2] \in Conn /\ lab[q].conn[3] \in Conn
  BY <1>1, LabTypes
<1> QED
  BY <1>1, <1>2 DEF Held, ToSet, IsInjective

LEMMA TruncateStep ==
  ASSUME LabInv, NEW q \in LabRequest, Truncate(q)
  PROVE  LabInv'
<1> DEFINE p == lab[q].conn[3]
<1>1. /\ lab[q].pc = "truncate" /\ lab' = [lab EXCEPT ![q].pc = "fill"]
      /\ session' = [session EXCEPT ![p].tx = NoUse]
      /\ amounts' = << >> /\ pool' = pool
  BY DEF Truncate, Place
<1>2. p \in Held(q) /\ p \in Conn /\ Len(lab[q].conn) = 3 /\ IsInjective(lab[q].conn)
  BY <1>1, ThreeConns
<1>3. /\ session' \in [Conn -> SessionRow]
      /\ \A c \in Conn \ Held(q) : session'[c] = session[c]
  BY <1>1, <1>2, LabTypes, NoUseTyped DEF SessionRow
<1>4. /\ lab' \in [LabRequest -> LabRow] /\ \A r \in LabRequest \ {q} : lab'[r] = lab[r]
      /\ lab'[q].pc = "fill" /\ lab'[q].conn = lab[q].conn
      /\ Anomaly \notin lab'[q].results
  BY <1>1, PlaceFacts DEF LabPc
<1>5. Held(q)' = Held(q) /\ Reading(q)' /\ Held(q) \cap pool = {}
  BY <1>1, <1>4, NotReading DEF Held, LabInv, Holding
<1>6. amounts' \in Seq(Nat) /\ pool' \subseteq Conn
  BY <1>1, LabTypes
<1> QED
  BY <1>1, <1>2, <1>3, <1>4, <1>5, <1>6, RequestStep

LEMMA FillStep ==
  ASSUME LabInv, NEW q \in LabRequest, Fill(q)
  PROVE  LabInv'
<1> DEFINE p    == lab[q].conn[3]
           more == IF lab[q].scenario = "deadlock" THEN <<10, 20>> ELSE <<100>>
           conn == SubSeq(lab[q].conn, 1, 2)
           row  == [lab[q] EXCEPT !.pc = "begin", !.conn = conn]
<1>1. /\ lab[q].pc = "fill" /\ amounts' = amounts \o more
      /\ lab' = [lab EXCEPT ![q].pc = "begin", ![q].conn = SubSeq(@, 1, 2)]
      /\ pool' = pool \cup {p} /\ session' = session
  BY DEF Fill
<1>2. /\ lab[q].conn \in Seq(Conn) /\ Len(lab[q].conn) = 3 /\ p \in Conn
      /\ Held(q) = {lab[q].conn[1], lab[q].conn[2], lab[q].conn[3]}
      /\ lab[q].conn[1] # lab[q].conn[2] /\ lab[q].conn[1] # p /\ lab[q].conn[2] # p
      /\ lab[q] \in LabRow
  BY <1>1, ThreeConns, LabTypes
<1>3. /\ conn \in Seq(Conn) /\ Len(conn) = 2 /\ DOMAIN conn = {1, 2}
      /\ conn[1] = lab[q].conn[1] /\ conn[2] = lab[q].conn[2]
  BY <1>2
<1>4. amounts' \in Seq(Nat)
  <2>1. more \in Seq(Nat)
    OBVIOUS
  <2> HIDE DEF more
  <2> QED
    BY <1>1, <2>1, LabTypes
<1>5. lab' = [lab EXCEPT ![q] = row]
  BY <1>1, LabTypes DEF LabRow
<1> HIDE DEF conn, more
<1>6. conn \in Conns
  <2>1. Len(conn) <= 3
    BY <1>3
  <2> QED
    BY <1>3, <2>1, ConnsAre
<1>7. row \in LabRow /\ row.pc = "begin" /\ row.conn = conn /\ row.results = lab[q].results
  BY <1>2, <1>6 DEF LabRow, LabPc
<1> HIDE DEF row
<1>8. /\ lab' \in [LabRequest -> LabRow] /\ \A r \in LabRequest \ {q} : lab'[r] = lab[r]
      /\ lab'[q].pc = "begin" /\ lab'[q].conn = conn
      /\ Anomaly \notin lab'[q].results
  BY <1>5, <1>7, LabTypes DEF LabInv, RepeatableStable, Anomaly
<1>9. /\ Held(q)' = {lab[q].conn[1], lab[q].conn[2]} /\ IsInjective(conn)
  BY <1>2, <1>3, <1>8 DEF Held, ToSet, IsInjective
<1>10. /\ Held(q)' \cup pool' \subseteq Held(q) \cup pool /\ Held(q)' \cap pool' = {}
       /\ pool' \subseteq Conn
  <2>1. Held(q) \cap pool = {}
    BY DEF LabInv, Holding
  <2> QED
    BY <1>1, <1>2, <1>9, <2>1, LabTypes
<1>11. Reading(q)' /\ session' \in [Conn -> SessionRow]
  BY <1>1, <1>8, NotReading, LabTypes
<1> QED
  BY <1>1, <1>3, <1>4, <1>8, <1>9, <1>10, <1>11, RequestStep

LEMMA BeginStep ==
  ASSUME LabInv, NEW q \in LabRequest, Begin(q)
  PROVE  LabInv'
<1> DEFINE a == lab[q].conn[1]
           b == lab[q].conn[2]
<1>1. /\ lab[q].pc = "begin" /\ lab' = [lab EXCEPT ![q].pc = "first"]
      /\ session' = [session EXCEPT ![a] = [level |-> lab[q].level, tx |-> NoUse],
                                    ![b].level = lab[q].level]
      /\ amounts' = Added(a) /\ pool' = pool
  BY DEF Begin, Place
<1>2. a \in Conn /\ b \in Conn /\ a # b /\ Held(q) = {a, b}
  BY <1>1, TwoConns
<1>3. lab[q].level \in Level
  BY LabTypes DEF LabRow
<1>4. /\ session' \in [Conn -> SessionRow] /\ session'[a].level = lab[q].level
      /\ \A c \in Conn \ Held(q) : session'[c] = session[c]
  BY <1>1, <1>2, <1>3, LabTypes, NoUseTyped DEF SessionRow
<1>5. amounts' \in Seq(Nat)
  BY <1>1, AddedSeq
<1>6. lab'[q].pc = "first" /\ lab'[q].conn = lab[q].conn /\ lab'[q].level = lab[q].level
  BY <1>1, PlaceFacts DEF LabPc
<1>7. Reading(q)'
  BY <1>4, <1>6 DEF Reading
<1> QED
  BY <1>1, <1>4, <1>5, <1>7, PlaceStep DEF LabPc

\* A reader whose snapshot gives the first answer.
LEMMA ReadingFixed ==
  ASSUME NEW q \in LabRequest, NEW c, NEW snap,
         lab'[q].conn[1] = c, lab'[q].scenario = lab[q].scenario,
         session'[c].level = lab'[q].level, session'[c].tx.snap = snap,
         lab'[q].first = Answer(q, snap)
  PROVE  Reading(q)'
BY DEF Reading, Answer

LEMMA FirstReadStep ==
  ASSUME LabInv, NEW q \in LabRequest, FirstRead(q)
  PROVE  LabInv'
<1> DEFINE a == lab[q].conn[1]
           b == lab[q].conn[2]
           answer == Answer(q, amounts)
           tx == [NoUse EXCEPT !.used = TRUE, !.snap = amounts]
           row == [lab[q] EXCEPT !.pc = "write", !.first = answer]
<1>1. /\ lab[q].pc = "first"
      /\ lab' = [lab EXCEPT ![q].pc = "write", ![q].first = answer]
      /\ session' = [session EXCEPT ![a].tx = tx, ![b].tx = NoUse]
      /\ amounts' = Added(b) /\ pool' = pool
  BY DEF FirstRead
<1>2. /\ a \in Conn /\ b \in Conn /\ a # b /\ Held(q) = {a, b} /\ Len(lab[q].conn) = 2
      /\ IsInjective(lab[q].conn) /\ Held(q) \cap pool = {}
  BY <1>1, TwoConns DEF LabInv, Holding
<1>3. /\ session[a].level = lab[q].level /\ lab[q] \in LabRow
      /\ answer \in Nat /\ amounts \in Seq(Nat)
  BY <1>1, AnswerNat, LabTypes DEF LabInv, Reading
<1>4. tx \in Usage /\ tx.snap = amounts
  BY <1>3 DEF NoUse, Usage
<1>5. lab' = [lab EXCEPT ![q] = row]
  BY <1>1, LabTypes DEF LabRow
<1> HIDE DEF answer, tx
<1>6. /\ row \in LabRow /\ row.pc = "write" /\ row.conn = lab[q].conn
      /\ row.results = lab[q].results /\ row.first = answer
      /\ row.level = lab[q].level /\ row.scenario = lab[q].scenario
  BY <1>3 DEF LabRow, LabPc
<1> HIDE DEF row
<1>7. /\ lab' \in [LabRequest -> LabRow] /\ \A r \in LabRequest \ {q} : lab'[r] = lab[r]
      /\ lab'[q] = row /\ Anomaly \notin lab'[q].results
  BY <1>5, <1>6, LabTypes DEF LabInv, RepeatableStable, Anomaly
<1>8. /\ session' \in [Conn -> SessionRow] /\ session'[a].level = lab[q].level
      /\ session'[a].tx = tx
      /\ \A c \in Conn \ Held(q) : session'[c] = session[c]
  <2>1. /\ session'[a] = [session[a] EXCEPT !.tx = tx]
        /\ session'[b] = [session[b] EXCEPT !.tx = NoUse]
        /\ \A c \in Conn \ {a, b} : session'[c] = session[c]
        /\ session' = [c \in Conn |-> session'[c]]
    BY <1>1, <1>2, LabTypes
  <2>2. /\ session'[a] \in SessionRow /\ session'[a].level = session[a].level
        /\ session'[a].tx = tx
        /\ session'[b] \in SessionRow
    BY <1>2, <1>4, <2>1, LabTypes, NoUseTyped DEF SessionRow
  <2> QED
    BY <1>2, <1>3, <2>1, <2>2, LabTypes
<1>9. Reading(q)'
  <2> PICK snap : snap = amounts
    OBVIOUS
  <2>1. lab'[q].first = Answer(q, snap) /\ session'[a].tx.snap = snap
    BY <1>4, <1>6, <1>7, <1>8 DEF answer
  <2>2. /\ lab'[q].conn[1] = a /\ lab'[q].scenario = lab[q].scenario
        /\ session'[a].level = lab'[q].level
    BY <1>6, <1>7, <1>8
  <2> QED
    BY <2>1, <2>2, ReadingFixed
<1>10. Held(q)' = Held(q) /\ amounts' \in Seq(Nat) /\ pool' \subseteq Conn
  BY <1>1, <1>6, <1>7, AddedSeq, LabTypes DEF Held
<1>11. /\ lab'[q].pc = "write" /\ lab'[q].conn = lab[q].conn
       /\ Held(q)' \cup pool' \subseteq Held(q) \cup pool /\ Held(q)' \cap pool' = {}
  BY <1>1, <1>2, <1>6, <1>7, <1>10
<1> QED
  BY <1>2, <1>7, <1>8, <1>9, <1>10, <1>11, RequestStep

LEMMA WriteLabStep ==
  ASSUME LabInv, NEW q \in LabRequest, WriteLab(q)
  PROVE  LabInv'
<1>1. /\ lab[q].pc = "write" /\ lab' = [lab EXCEPT ![q].pc = "second"]
      /\ session' = session /\ pool' = pool
      /\ \/ amounts' = [i \in DOMAIN amounts |-> IF i = 1 THEN 200 ELSE amounts[i]]
         \/ amounts' = Append(amounts, 150)
  BY DEF WriteLab, Place
<1>2. amounts' \in Seq(Nat)
  <2>1. /\ amounts \in Seq(Nat) /\ Len(amounts) \in Nat
        /\ DOMAIN amounts = 1 .. Len(amounts)
        /\ \A i \in DOMAIN amounts : amounts[i] \in Nat
    BY LabTypes
  <2>2. CASE amounts' = [i \in DOMAIN amounts |-> IF i = 1 THEN 200 ELSE amounts[i]]
    BY <2>1, <2>2, IsASeq
  <2>3. CASE amounts' = Append(amounts, 150)
    BY <2>1, <2>3
  <2> QED
    BY <1>1, <2>2, <2>3
<1>3. /\ lab'[q].pc = "second" /\ lab'[q].conn = lab[q].conn
      /\ lab'[q].level = lab[q].level /\ lab'[q].first = lab[q].first
      /\ lab'[q].scenario = lab[q].scenario
  BY <1>1, PlaceFacts DEF LabPc
<1>4. Reading(q)'
  BY <1>1, <1>3 DEF LabInv, Reading, Answer
<1>5. session' \in [Conn -> SessionRow]
  BY <1>1, LabTypes
<1> QED
  BY <1>1, <1>2, <1>4, <1>5, PlaceStep DEF LabPc

\* A request that gives its connections back, or keeps them after it failed.
LEMMA LeavingStep ==
  ASSUME LabInv, NEW q \in LabRequest, NEW row \in LabRow,
         lab' = [lab EXCEPT ![q] = row], row.conn = << >>,
         row.pc \in {"takeA", "answered", "failed"},
         Anomaly \notin row.results, lab[q].pc # "answered",
         session' \in [Conn -> SessionRow],
         \A c \in Conn \ Held(q) : session'[c] = session[c],
         pool' = pool \cup ToSet(lab[q].conn), amounts' = amounts
  PROVE  LabInv'
<1>1. /\ lab' \in [LabRequest -> LabRow] /\ \A r \in LabRequest \ {q} : lab'[r] = lab[r]
      /\ lab'[q] = row
  BY LabTypes
<1>2. ToSet(row.conn) = {} /\ IsInjective(row.conn) /\ Len(row.conn) = 0
  BY DEF ToSet, IsInjective
<1>3. Held(q)' = {} /\ Held(q) = ToSet(lab[q].conn)
  BY <1>1, <1>2 DEF Held
<1>4. ToSet(lab[q].conn) \subseteq Conn /\ pool' \subseteq Conn
  BY LabTypes DEF ToSet
<1>5. Reading(q)' /\ amounts' \in Seq(Nat)
  BY <1>1, NotReading, LabTypes
<1> QED
  BY <1>1, <1>2, <1>3, <1>4, <1>5, RequestStep

LEMMA SecondReadStep ==
  ASSUME LabInv, NEW q \in LabRequest, SecondRead(q)
  PROVE  LabInv'
<1> DEFINE a    == lab[q].conn[1]
           seen == Answer(q, IF session[a].level = "RC" THEN amounts
                                                        ELSE session[a].tx.snap)
           result == [level |-> lab[q].level, anomaly |-> lab[q].first # seen]
           to   == IF lab[q].level = "RC" THEN "takeA" ELSE "answered"
           row  == [lab[q] EXCEPT !.results = @ \cup {result}, !.pc = to,
                                  !.level = "RR", !.first = 0, !.conn = << >>]
<1>1. /\ lab[q].pc = "second"
      /\ lab' = [lab EXCEPT
           ![q].results = @ \cup {result}, ![q].pc = to,
           ![q].level = "RR", ![q].first = 0, ![q].conn = << >>]
      /\ session' = [session EXCEPT ![a].tx = NoUse]
      /\ pool' = pool \cup ToSet(lab[q].conn) /\ amounts' = amounts
  BY DEF SecondRead
<1>2. a \in Conn /\ a \in Held(q)
  BY <1>1, TwoConns
<1>3. /\ lab[q] \in LabRow /\ lab[q].level \in Level
      /\ session[a].level = lab[q].level /\ lab[q].first = Answer(q, session[a].tx.snap)
      /\ Anomaly \notin lab[q].results
  BY <1>1, LabTypes DEF LabInv, Reading, LabRow, RepeatableStable, Anomaly
<1>4. result \in Result /\ result # Anomaly
  <2>1. CASE lab[q].level = "RC"
    BY <2>1, <1>3 DEF Result, Anomaly
  <2>2. CASE lab[q].level # "RC"
    <3>1. seen = lab[q].first
      BY <1>3, <2>2
    <3> HIDE DEF seen
    <3>2. result = [level |-> lab[q].level, anomaly |-> FALSE]
      BY <3>1
    <3> QED
      BY <1>3, <3>2 DEF Result, Anomaly
  <2> QED
    BY <2>1, <2>2
<1> HIDE DEF result
<1>5. lab' = [lab EXCEPT ![q] = row]
  BY <1>1, LabTypes DEF LabRow
<1>6. to \in LabPc /\ to \in {"takeA", "answered"}
  BY DEF LabPc
<1> HIDE DEF to
<1>7. << >> \in Conns /\ "RR" \in Level
  BY ConnsAre DEF Level
<1>8. /\ row \in LabRow /\ row.conn = << >> /\ row.pc = to
      /\ row.results = lab[q].results \cup {result}
  BY <1>3, <1>4, <1>6, <1>7 DEF LabRow
<1> HIDE DEF row
<1>9. /\ session' \in [Conn -> SessionRow]
      /\ \A c \in Conn \ Held(q) : session'[c] = session[c]
  BY <1>1, <1>2, LabTypes, NoUseTyped DEF SessionRow
<1>10. Anomaly \notin row.results
  BY <1>3, <1>4, <1>8
<1> QED
  BY <1>1, <1>5, <1>6, <1>8, <1>9, <1>10, LeavingStep

LEMMA BeginBothStep ==
  ASSUME LabInv, NEW q \in LabRequest, BeginBoth(q)
  PROVE  LabInv'
<1> DEFINE a == lab[q].conn[1]
           b == lab[q].conn[2]
           fresh == [level |-> "RR", tx |-> NoUse]
<1>1. /\ lab[q].pc = "begin" /\ lab' = [lab EXCEPT ![q].pc = "lockA"]
      /\ session' = [c \in Conn |-> IF c \in {a, b} THEN fresh ELSE session[c]]
      /\ amounts' = [i \in DOMAIN amounts |-> Added(a)[i] + Added(b)[i] - amounts[i]]
      /\ pool' = pool
  BY DEF BeginBoth, Place
<1>2. a \in Conn /\ b \in Conn /\ Held(q) = {a, b}
  BY <1>1, TwoConns
<1>3. fresh \in SessionRow
  BY NoUseTyped DEF SessionRow
<1> HIDE DEF fresh
<1>4. /\ session' \in [Conn -> SessionRow]
      /\ \A c \in Conn \ Held(q) : session'[c] = session[c]
  BY <1>1, <1>2, <1>3, LabTypes
<1>5. amounts' \in Seq(Nat)
  <2>1. /\ amounts \in Seq(Nat) /\ Len(amounts) \in Nat
        /\ DOMAIN amounts = 1 .. Len(amounts)
        /\ \A i \in DOMAIN amounts : amounts[i] \in Nat
    BY LabTypes
  <2>2. ASSUME NEW i \in DOMAIN amounts PROVE Added(a)[i] + Added(b)[i] - amounts[i] \in Nat
    <3>1. /\ Added(a)[i] \in {amounts[i], amounts[i] + 1}
          /\ Added(b)[i] \in {amounts[i], amounts[i] + 1}
      BY AddedSeq
    <3> HIDE DEF a, b
    <3> QED
      BY <2>1, <3>1
  <2> QED
    BY <1>1, <2>1, <2>2, IsASeq
<1>6. Reading(q)'
  BY <1>1, PlaceFacts, NotReading DEF LabPc
<1> QED
  BY <1>1, <1>4, <1>5, <1>6, PlaceStep DEF LabPc

LEMMA TxReplaced ==
  \A s \in SessionRow, tx \in Usage : [s EXCEPT !.tx = tx] \in SessionRow
BY DEF SessionRow

LEMMA LockOwnStep ==
  ASSUME LabInv, NEW q \in LabRequest, NEW x \in {1, 2}, LockOwn(q, x)
  PROVE  LabInv'
<1> DEFINE c  == lab[q].conn[x]
           tx == Locked(session[c].tx, LockOf(x))
<1> PICK to \in {"lockB", "cross"} :
      /\ lab[q].pc \in {"lockA", "lockB"} /\ lab' = [lab EXCEPT ![q].pc = to]
      /\ session' = [session EXCEPT ![c].tx = Locked(@, LockOf(x))]
      /\ amounts' = amounts /\ pool' = pool
  BY DEF LockOwn, Place
<1>1. c \in Conn /\ c \in Held(q)
  BY TwoConns
<1>2. LockOf(x) \in 0 .. 2
  BY DEF LockOf, Gap
<1>3. tx \in Usage
  BY <1>1, <1>2, LabTypes DEF Usage, Locked
<1>4. session' = [session EXCEPT ![c].tx = tx]
  BY <1>1, LabTypes
<1> HIDE DEF tx
<1>5. /\ session' \in [Conn -> SessionRow]
      /\ \A d \in Conn \ Held(q) : session'[d] = session[d]
  <2>1. /\ session'[c] = [session[c] EXCEPT !.tx = tx]
        /\ \A d \in Conn \ {c} : session'[d] = session[d]
        /\ session' = [d \in Conn |-> session'[d]]
    BY <1>1, <1>4, LabTypes
  <2>2. session'[c] \in SessionRow
    BY <1>1, <1>3, <2>1, LabTypes, TxReplaced
  <2> QED
    BY <1>1, <2>1, <2>2, LabTypes
<1>6. Reading(q)' /\ amounts' \in Seq(Nat)
  BY PlaceFacts, NotReading, LabTypes DEF LabPc
<1> QED
  BY <1>5, <1>6, PlaceStep DEF LabPc

\* One of the two branches is through.
LEMMA SettleStep ==
  ASSUME LabInv, NEW q \in LabRequest, NEW x \in {1, 2}, NEW outcome \in Branch,
         Settle(q, x, outcome), amounts' \in Seq(Nat)
  PROVE  LabInv'
<1> DEFINE c == lab[q].conn[x]
           branch == [lab[q].branch EXCEPT ![x] = outcome]
           row == [lab[q] EXCEPT !.branch = branch]
<1>1. /\ lab[q].pc = "cross" /\ lab' = [lab EXCEPT ![q].branch[x] = outcome]
      /\ session' = [session EXCEPT ![c].tx = NoUse] /\ pool' = pool
  BY DEF Settle
<1>2. /\ c \in Conn /\ c \in Held(q) /\ Len(lab[q].conn) = 2
      /\ IsInjective(lab[q].conn) /\ Held(q) \cap pool = {} /\ lab[q] \in LabRow
  BY <1>1, TwoConns, LabTypes DEF LabInv, Holding
<1>3. branch \in [{1, 2} -> Branch]
  BY <1>2 DEF LabRow
<1>4. lab' = [lab EXCEPT ![q] = row]
  BY <1>1, LabTypes DEF LabRow
<1> HIDE DEF branch
<1>5. /\ row \in LabRow /\ row.pc = "cross" /\ row.conn = lab[q].conn
      /\ row.results = lab[q].results
  BY <1>1, <1>2, <1>3 DEF LabRow
<1> HIDE DEF row
<1>6. /\ lab' \in [LabRequest -> LabRow] /\ \A r \in LabRequest \ {q} : lab'[r] = lab[r]
      /\ lab'[q].pc = "cross" /\ lab'[q].conn = lab[q].conn
      /\ Anomaly \notin lab'[q].results
  BY <1>4, <1>5, LabTypes DEF LabInv, RepeatableStable, Anomaly
<1>7. /\ session' \in [Conn -> SessionRow]
      /\ \A d \in Conn \ Held(q) : session'[d] = session[d]
  BY <1>1, <1>2, LabTypes, NoUseTyped DEF SessionRow
<1>8. Held(q)' = Held(q) /\ pool' \subseteq Conn
  BY <1>1, <1>6, LabTypes DEF Held
<1>9. Reading(q)'
  BY <1>6, NotReading
<1> QED
  BY <1>1, <1>2, <1>6, <1>7, <1>8, <1>9, RequestStep

LEMMA BranchSteps ==
  ASSUME LabInv, NEW q \in LabRequest, NEW x \in {1, 2},
         CommitBranch(q, x) \/ RollBackVictim(q, x) \/ AbortBranch(q, x)
  PROVE  LabInv'
<1>1. CASE CommitBranch(q, x)
  <2> DEFINE c == lab[q].conn[x]
  <2>1. /\ amounts \in Seq(Nat) /\ Len(amounts) \in Nat
        /\ DOMAIN amounts = 1 .. Len(amounts)
        /\ \A i \in DOMAIN amounts : amounts[i] \in Nat
    BY LabTypes
  <2>2. /\ Settle(q, x, "committed")
        /\ amounts' = [i \in DOMAIN amounts |->
                         Added(c)[i] + IF i = 3 - x THEN 1 ELSE 0]
    BY <1>1 DEF CommitBranch
  <2>3. \A i \in DOMAIN amounts : Added(c)[i] + (IF i = 3 - x THEN 1 ELSE 0) \in Nat
    BY <2>1, AddedSeq
  <2>4. amounts' \in Seq(Nat)
    BY <2>1, <2>2, <2>3, IsASeq
  <2> QED
    BY <2>2, <2>4, SettleStep DEF Branch
<1>2. CASE RollBackVictim(q, x) \/ AbortBranch(q, x)
  BY <1>2, SettleStep, LabTypes DEF RollBackVictim, AbortBranch, Branch
<1> QED
  BY <1>1, <1>2

LEMMA AnswerDeadlockStep ==
  ASSUME LabInv, NEW q \in LabRequest, AnswerDeadlock(q)
  PROVE  LabInv'
<1>1. /\ lab[q].pc = "cross" /\ lab' = [lab EXCEPT ![q].pc = "answered"]
      /\ pool' = pool \cup ToSet(lab[q].conn) /\ session' = session /\ amounts' = amounts
  BY DEF AnswerDeadlock, Place
<1>2. /\ lab' \in [LabRequest -> LabRow] /\ \A r \in LabRequest \ {q} : lab'[r] = lab[r]
      /\ lab'[q].pc = "answered" /\ Anomaly \notin lab'[q].results
  BY <1>1, PlaceFacts DEF LabPc
<1>3. Held(q)' = {} /\ Held(q) = ToSet(lab[q].conn) /\ Held(q) \subseteq Conn
  BY <1>1, <1>2, TwoConns DEF Held
<1>4. Reading(q)' /\ pool' \subseteq Conn
  BY <1>1, <1>2, <1>3, NotReading, LabTypes
<1> QED
  BY <1>1, <1>2, <1>3, <1>4, LabTypes, RequestStep

LEMMA AbortStep ==
  ASSUME LabInv, NEW q \in LabRequest, Abort(q)
  PROVE  LabInv'
<1> DEFINE row == [lab[q] EXCEPT !.pc = "failed", !.conn = << >>]
           two == ToSet(SubSeq(lab[q].conn, 1, 2))
<1>1. /\ lab[q].pc \in LabPc \ {"takeA", "takeB", "cross", "answered", "failed"}
      /\ lab' = [lab EXCEPT ![q].pc = "failed", ![q].conn = << >>]
      /\ pool' = pool \cup ToSet(lab[q].conn) /\ amounts' = amounts
      /\ CleanUp(q) /\ lab[q] \in LabRow
  BY LabTypes DEF Abort, LabRow
<1>2. lab' = [lab EXCEPT ![q] = row]
  BY <1>1, LabTypes DEF LabRow
<1>3. row \in LabRow /\ row.pc = "failed" /\ row.conn = << >> /\ row.results = lab[q].results
  BY <1>1, ConnsAre DEF LabRow, LabPc
<1> HIDE DEF row
<1>4. Anomaly \notin row.results
  BY <1>3 DEF LabInv, RepeatableStable, Anomaly
<1>5. two \subseteq Held(q)
  <2>1. lab[q].conn \in Seq(Conn) /\ Len(lab[q].conn) \in {2, 3}
    BY <1>1, LabTypes, TwoConns, ThreeConns DEF LabPc
  <2>2. /\ Len(SubSeq(lab[q].conn, 1, 2)) = 2
        /\ DOMAIN SubSeq(lab[q].conn, 1, 2) = {1, 2}
        /\ \A i \in {1, 2} : SubSeq(lab[q].conn, 1, 2)[i] = lab[q].conn[i]
        /\ {1, 2} \subseteq DOMAIN lab[q].conn
    BY <2>1
  <2> QED
    BY <1>1, <2>2 DEF Held, ToSet
<1> HIDE DEF two
<1>6. /\ session' \in [Conn -> SessionRow]
      /\ \A c \in Conn \ Held(q) : session'[c] = session[c]
  <2>1. CASE lab[q].scenario = "deadlock"
    BY <1>1, <2>1, LabTypes DEF CleanUp
  <2>2. CASE lab[q].scenario # "deadlock"
    <3>1. session' = [c \in Conn |-> IF c \in two THEN [session[c] EXCEPT !.tx = NoUse]
                                                  ELSE session[c]]
      BY <1>1, <2>2 DEF CleanUp, two
    <3> QED
      BY <1>5, <3>1, LabTypes, NoUseTyped DEF SessionRow
  <2> QED
    BY <2>1, <2>2
<1> QED
  BY <1>1, <1>2, <1>3, <1>4, <1>6, LeavingStep

LEMMA TakeFailsStep ==
  ASSUME LabInv, NEW q \in LabRequest, TakeFails(q)
  PROVE  LabInv'
<1>1. /\ lab[q].pc \in {"takeA", "takeB"} /\ lab' = [lab EXCEPT ![q].pc = "failed"]
      /\ pool' = pool /\ session' = session /\ amounts' = amounts
  BY DEF TakeFails
<1>2. /\ lab' \in [LabRequest -> LabRow] /\ \A r \in LabRequest \ {q} : lab'[r] = lab[r]
      /\ lab'[q].pc = "failed" /\ Anomaly \notin lab'[q].results
      /\ lab'[q].conn = lab[q].conn
  BY <1>1, PlaceFacts DEF LabPc
<1>3. Held(q)' = Held(q) /\ Held(q) \cap pool = {} /\ IsInjective(lab[q].conn)
  BY <1>1, <1>2 DEF Held, LabInv, Holding
<1>4. Reading(q)'
  BY <1>2, NotReading
<1> QED
  BY <1>1, <1>2, <1>3, <1>4, LabTypes, RequestStep

LEMMA InitLab == LabInit => LabInv
<1> SUFFICES ASSUME LabInit PROVE LabInv
  OBVIOUS
<1>1. PICK scenario \in [LabRequest -> Scenario] :
        lab = [q \in LabRequest |->
                 [scenario |-> scenario[q], level |-> "RC", first |-> 0,
                  pc |-> "takeA", conn |-> << >>, results |-> {},
                  branch |-> [x \in {1, 2} |-> "open"]]]
  BY DEF LabInit
<1>2. << >> \in Conns /\ << >> \in Seq(Nat)
  BY ConnsAre
<1>3. ASSUME NEW q \in LabRequest
      PROVE  /\ lab[q] \in LabRow /\ lab[q].pc = "takeA" /\ lab[q].conn = << >>
             /\ lab[q].results = {}
  <2>1. [x \in {1, 2} |-> "open"] \in [{1, 2} -> Branch]
    BY DEF Branch
  <2> QED
    BY <1>1, <1>2, <2>1 DEF LabRow, LabPc, Level
<1>4. LabTypeOK
  <2>1. lab \in [LabRequest -> LabRow]
    BY <1>1, <1>3
  <2>2. session \in [Conn -> SessionRow]
    BY NoUseTyped DEF LabInit, SessionRow
  <2> QED
    BY <1>2, <2>1, <2>2 DEF LabTypeOK, LabInit, LabRow, LabPc, Conns, Result, Branch,
       SessionRow, Usage
<1>5. \A q \in LabRequest : Held(q) = {} /\ IsInjective(lab[q].conn)
  BY <1>3 DEF Held, ToSet, IsInjective
<1>6. \A q \in LabRequest : Holding(q) /\ Reading(q)
  BY <1>3, <1>5 DEF Holding, Reading
<1> QED
  BY <1>3, <1>4, <1>6 DEF LabInv, RepeatableStable

\* No two requests of the transactions lab work on the same connection, a reader
\* has the isolation level that its request set, whatever the connection was used
\* for before, and its snapshot is that of its first read.
THEOREM LabInvariance == LabSpec => []LabInv
<1>1. LabInit => LabInv
  BY InitLab
<1>2. LabInv /\ [LabNext]_labVars => LabInv'
  <2> SUFFICES ASSUME LabInv, [LabNext]_labVars PROVE LabInv'
    OBVIOUS
  <2>1. ASSUME NEW q \in LabRequest,
               LabStep(q) \/ Abort(q) \/ TakeFails(q)
                 \/ \E x \in {1, 2} : AbortBranch(q, x)
        PROVE  LabInv'
    <3>1. CASE Take(q) \/ Truncate(q) \/ Fill(q)
      BY <3>1, TakeStep, TruncateStep, FillStep
    <3>2. CASE Begin(q) \/ FirstRead(q) \/ WriteLab(q) \/ SecondRead(q)
      BY <3>2, BeginStep, FirstReadStep, WriteLabStep, SecondReadStep
    <3>3. CASE BeginBoth(q) \/ AnswerDeadlock(q)
      BY <3>3, BeginBothStep, AnswerDeadlockStep
    <3>4. ASSUME NEW x \in {1, 2}, LockOwn(q, x) PROVE LabInv'
      BY <3>4, LockOwnStep
    <3>5. ASSUME NEW x \in {1, 2},
                 CommitBranch(q, x) \/ RollBackVictim(q, x) \/ AbortBranch(q, x)
          PROVE  LabInv'
      BY <3>5, BranchSteps
    <3>6. CASE Abort(q) \/ TakeFails(q)
      BY <3>6, AbortStep, TakeFailsStep
    <3> QED
      BY <2>1, <3>1, <3>2, <3>3, <3>4, <3>5, <3>6 DEF LabStep
  <2>2. CASE UNCHANGED labVars
    <3>1. lab' = lab /\ pool' = pool /\ session' = session /\ amounts' = amounts
      BY <2>2 DEF labVars
    <3>2. \A q \in LabRequest : Held(q)' = Held(q)
      BY <3>1 DEF Held
    <3>3. \A q \in LabRequest : Holding(q)' /\ Reading(q)'
      BY <3>1, <3>2 DEF LabInv, Holding, Reading, Answer
    <3> QED
      BY <3>1, <3>3 DEF LabInv, LabTypeOK, RepeatableStable
  <2> QED
    BY <2>1, <2>2 DEF LabNext
<1> QED
  BY <1>1, <1>2, PTL DEF LabSpec

\* The REPEATABLE READ half of runNonRepeatableRead and runPhantomRead reports no
\* anomaly, with any number of requests on any number of connections, and failures
\* anywhere: the level is set on each connection that is taken from the pool, and
\* the snapshot of the first read lasts until the second.
THEOREM RepeatableReads == LabSpec => []RepeatableStable
<1>1. LabInv => RepeatableStable
  BY DEF LabInv
<1> QED
  BY <1>1, LabInvariance, PTL


\* An open transaction is on a connection of the request that opened it.
LEMMA InTxHeld ==
  ASSUME LabInv, NEW q \in LabRequest
  PROVE  InTx(q) \subseteq Held(q)
<1>1. CASE lab[q].pc \in {"write", "second", "lockB", "cross"}
  BY <1>1, TwoConns DEF InTx
<1>2. CASE lab[q].pc \notin {"write", "second", "lockB", "cross"}
  BY <1>2 DEF InTx
<1> QED
  BY <1>1, <1>2

LEMMA HeldConns == ASSUME LabInv, NEW q \in LabRequest PROVE Held(q) \subseteq Conn
<1>1. /\ DOMAIN lab[q].conn = 1 .. Len(lab[q].conn)
      /\ \A i \in 1 .. Len(lab[q].conn) : lab[q].conn[i] \in Conn
  BY LabTypes
<1> QED
  BY <1>1 DEF Held, ToSet

\* Unless a failure left it open.
LEMMA OwnClean ==
  ASSUME LabInv, NEW q \in LabRequest, NEW c \in Held(q) \ InTx(q), c \notin LeftOpen
  PROVE  Clean(c)
<1>1. c \in Conn
  BY HeldConns
<1>2. \A r \in LabRequest \ {q} : c \notin InTx(r)
  BY InTxHeld DEF LabInv, Holding
<1> QED
  BY <1>1, <1>2 DEF LeftOpen

\* What a step of q may leave behind on its own connections: lost is what it leaves
\* open.
LEMMA StepParts ==
  ASSUME LabInv, LabKept, NEW q \in LabRequest, NEW lost,
         \A r \in LabRequest \ {q} : lab'[r] = lab[r],
         Held(q) \union pool \subseteq Held(q)' \union pool',
         Held(q)' \union pool' \subseteq Conn,
         \A c \in Conn \ Held(q) : session'[c] = session[c],
         \A c \in Held(q) \ LeftOpen : Clean(c)' \/ c \in InTx(q)' \/ c \in lost,
         Locking(q)'
  PROVE  /\ Conn = pool' \union UNION {Held(r)' : r \in LabRequest}
         /\ \A r \in LabRequest : Locking(r)'
         /\ LeftOpen' \subseteq LeftOpen \union lost
         /\ Leaked' \subseteq Leaked \union IF lab'[q].pc = "failed" THEN Held(q)' ELSE {}
<1>1. \A r \in LabRequest \ {q} : /\ Held(r)' = Held(r) /\ InTx(r)' = InTx(r)
                                  /\ Held(r) \cap Held(q) = {}
                                  /\ Held(r) \subseteq Conn
  <2> TAKE r \in LabRequest \ {q}
  <2>1. Held(r)' = Held(r)
    BY DEF Held
  <2>2. InTx(r)' = InTx(r)
    <3>1. lab'[r] = lab[r]
      OBVIOUS
    <3> QED
      BY <3>1 DEF InTx
  <2>3. Held(r) \cap Held(q) = {}
    BY DEF LabInv, Holding
  <2> QED
    BY <2>1, <2>2, <2>3, HeldConns
<1>2. Conn = pool' \union UNION {Held(r)' : r \in LabRequest}
  <2>1. ASSUME NEW c \in Conn PROVE c \in pool' \union UNION {Held(r)' : r \in LabRequest}
    <3>1. c \in pool \/ \E r \in LabRequest : c \in Held(r)
      BY DEF LabKept
    <3> QED
      BY <1>1, <3>1
  <2>2. ASSUME NEW c \in pool' \union UNION {Held(r)' : r \in LabRequest} PROVE c \in Conn
    BY <1>1
  <2> QED
    BY <2>1, <2>2
<1>3. ASSUME NEW r \in LabRequest \ {q} PROVE Locking(r)'
  <2>1. Locking(r) /\ lab'[r] = lab[r]
    BY DEF LabKept
  <2>2. CASE lab[r].pc \in {"write", "second", "lockA", "lockB", "cross"}
    <3>1. /\ lab[r].conn[1] \in Held(r) /\ lab[r].conn[2] \in Held(r)
      BY <2>2, TwoConns
    <3>2. /\ session'[lab[r].conn[1]] = session[lab[r].conn[1]]
          /\ session'[lab[r].conn[2]] = session[lab[r].conn[2]]
      BY <1>1, <3>1
    <3> QED
      BY <2>1, <3>2 DEF Locking, Clean
  <2>3. CASE lab[r].pc \notin {"write", "second", "lockA", "lockB", "cross"}
    BY <2>1, <2>3 DEF Locking
  <2> QED
    BY <2>1, <2>2, <2>3
<1>4. ASSUME NEW c \in LeftOpen' PROVE c \in LeftOpen \union lost
  <2>1. c \in Conn /\ ~Clean(c)' /\ \A r \in LabRequest : c \notin InTx(r)'
    BY DEF LeftOpen
  <2>2. CASE c \in Held(q)
    BY <2>1, <2>2
  <2>3. CASE c \notin Held(q)
    <3>1. ~Clean(c)
      BY <2>1, <2>3 DEF Clean
    <3>2. c \notin InTx(q)
      BY <2>3, InTxHeld
    <3> QED
      BY <1>1, <2>1, <3>1, <3>2 DEF LeftOpen
  <2> QED
    BY <2>2, <2>3
<1>5. ASSUME NEW c \in Leaked'
      PROVE  c \in Leaked \union IF lab'[q].pc = "failed" THEN Held(q)' ELSE {}
  <2>1. PICK r \in LabRequest : c \in Held(r)' /\ lab'[r].pc = "failed"
    BY DEF Leaked
  <2>2. CASE r = q
    BY <2>1, <2>2
  <2>3. CASE r # q
    BY <1>1, <2>1, <2>3 DEF Leaked
  <2> QED
    BY <2>2, <2>3
<1> QED
  BY <1>2, <1>3, <1>4, <1>5

LEMMA LabCounted ==
  ASSUME LabInv
  PROVE  /\ Leaked \subseteq Conn /\ LeftOpen \subseteq Conn
         /\ \A S \in SUBSET Conn : IsFiniteSet(S) /\ Cardinality(S) \in Nat
<1>1. Leaked \subseteq Conn
  BY HeldConns DEF Leaked
<1> QED
  BY <1>1, LabAssumption, FS_Subset, FS_CardinalityType DEF LeftOpen

\* A failure loses one connection, in one way or the other.
LEMMA OneLost ==
  ASSUME LabInv, LostFew, labFails \in Nat, NEW c \in Conn,
         \/ /\ LeftOpen' \subseteq LeftOpen \union {c}
            /\ Leaked' \subseteq Leaked
         \/ /\ LeftOpen' \subseteq LeftOpen
            /\ Leaked' \subseteq Leaked \union {c},
         labFails' = labFails + 1
  PROVE  LostFew'
<1>1. ASSUME NEW S \in SUBSET Conn
      PROVE  Cardinality(S \union {c}) <= Cardinality(S) + 1
  <2>1. IsFiniteSet(S) /\ Cardinality(S) \in Nat
    BY LabCounted
  <2> QED
    BY <2>1, FS_AddElement
<1>2. /\ Cardinality(LeftOpen) \in Nat /\ Cardinality(Leaked) \in Nat
      /\ LeftOpen \union {c} \subseteq Conn /\ Leaked \union {c} \subseteq Conn
  BY LabCounted
<1>3. ASSUME NEW S \in SUBSET Conn, NEW U \in SUBSET S
      PROVE  Cardinality(U) <= Cardinality(S) /\ Cardinality(U) \in Nat
                /\ Cardinality(S) \in Nat
  <2>1. IsFiniteSet(S) /\ Cardinality(S) \in Nat /\ Cardinality(U) \in Nat
    BY LabCounted
  <2> QED
    BY <2>1, FS_Subset
<1>4. Cardinality(LeftOpen) + Cardinality(Leaked) <= labFails
  BY <1>2 DEF LostFew
<1>5. Cardinality(Leaked') + Cardinality(LeftOpen') <= labFails + 1
  <2>1. CASE LeftOpen' \subseteq LeftOpen \union {c} /\ Leaked' \subseteq Leaked
    <3>1. /\ Cardinality(LeftOpen') <= Cardinality(LeftOpen \union {c})
          /\ Cardinality(LeftOpen \union {c}) <= Cardinality(LeftOpen) + 1
          /\ Cardinality(Leaked') <= Cardinality(Leaked)
          /\ Cardinality(LeftOpen') \in Nat /\ Cardinality(Leaked') \in Nat
          /\ Cardinality(LeftOpen \union {c}) \in Nat
      BY <1>1, <1>2, <1>3, <2>1, LabCounted
    <3> QED
      BY <1>2, <1>4, <3>1
  <2>2. CASE LeftOpen' \subseteq LeftOpen /\ Leaked' \subseteq Leaked \union {c}
    <3>1. /\ Cardinality(Leaked') <= Cardinality(Leaked \union {c})
          /\ Cardinality(Leaked \union {c}) <= Cardinality(Leaked) + 1
          /\ Cardinality(LeftOpen') <= Cardinality(LeftOpen)
          /\ Cardinality(LeftOpen') \in Nat /\ Cardinality(Leaked') \in Nat
          /\ Cardinality(Leaked \union {c}) \in Nat
      BY <1>1, <1>2, <1>3, <2>2, LabCounted
    <3> QED
      BY <1>2, <1>4, <3>1
  <2> QED
    BY <2>1, <2>2
<1> QED
  BY <1>5 DEF LostFew

LEMMA NoneLost ==
  ASSUME LabInv, LostFew, labFails \in Nat, labFails' \in {labFails, labFails + 1},
         LeftOpen' \subseteq LeftOpen, Leaked' \subseteq Leaked
  PROVE  LostFew'
<1>1. /\ Cardinality(LeftOpen') <= Cardinality(LeftOpen)
      /\ Cardinality(Leaked') <= Cardinality(Leaked)
  BY LabCounted, FS_Subset
<1>2. /\ Cardinality(LeftOpen) \in Nat /\ Cardinality(Leaked) \in Nat
      /\ Cardinality(LeftOpen') \in Nat /\ Cardinality(Leaked') \in Nat
  BY LabCounted
<1>3. Cardinality(Leaked) + Cardinality(LeftOpen) <= labFails
  BY DEF LostFew
<1>4. Cardinality(Leaked') + Cardinality(LeftOpen') <= labFails'
  BY <1>1, <1>2, <1>3
<1> QED
  BY <1>4 DEF LostFew

\* The steps of q that leave nothing open that was not open before.
LEMMA KeptStep ==
  ASSUME LabInv, LabKept, labFails \in Nat, labFails' \in {labFails, labFails + 1},
         NEW q \in LabRequest,
         \A r \in LabRequest \ {q} : lab'[r] = lab[r],
         lab'[q].pc # "failed",
         Held(q) \union pool \subseteq Held(q)' \union pool',
         Held(q)' \union pool' \subseteq Conn,
         \A c \in Conn \ Held(q) : session'[c] = session[c],
         \A c \in Held(q) \ LeftOpen : Clean(c)' \/ c \in InTx(q)',
         Locking(q)'
  PROVE  LabKept'
<1>1. PICK lost : lost = {}
  OBVIOUS
<1>2. /\ Conn = pool' \union UNION {Held(r)' : r \in LabRequest}
      /\ \A r \in LabRequest : Locking(r)'
      /\ LeftOpen' \subseteq LeftOpen /\ Leaked' \subseteq Leaked
  BY <1>1, StepParts
<1>3. LostFew'
  BY <1>2, NoneLost DEF LabKept
<1> QED
  BY <1>2, <1>3 DEF LabKept

\* The steps that only move q to another place, and perhaps touch its sessions.
LEMMA KeptPlace ==
  ASSUME LabInv, LabKept, labFails \in Nat, labFails' = labFails, NEW q \in LabRequest,
         NEW to \in LabPc \ {"failed", "answered"}, lab' = [lab EXCEPT ![q].pc = to],
         pool' = pool, lab[q].pc # "answered",
         \A c \in Conn \ Held(q) : session'[c] = session[c],
         \A c \in Held(q) \ LeftOpen : Clean(c)' \/ c \in InTx(q)',
         Locking(q)'
  PROVE  LabKept'
<1>1. Held(q)' = Held(q)
  BY PlaceFacts DEF Held
<1>2. Held(q) \subseteq Conn /\ pool \subseteq Conn
  BY LabTypes, HeldConns
<1> QED
  BY <1>1, <1>2, PlaceFacts, KeptStep

LEMMA SameBranch ==
  ASSUME LabInv, NEW q \in LabRequest, NEW to \in LabPc, lab' = [lab EXCEPT ![q].pc = to]
  PROVE  lab'[q].branch = lab[q].branch
<1>1. lab[q] \in LabRow /\ lab \in [LabRequest -> LabRow]
  BY LabTypes
<1> QED
  BY <1>1 DEF LabRow

LEMMA NoneOpen ==
  ASSUME LabInv, LabKept, labFails \in Nat, NEW q \in LabRequest,
         lab[q].pc \notin {"write", "second", "lockB", "cross"}
  PROVE  \A c \in Held(q) \ LeftOpen : Clean(c) /\ c \in Conn
<1>1. InTx(q) = {}
  BY DEF InTx
<1>2. Held(q) \subseteq Conn
  BY HeldConns
<1> QED
  BY <1>1, <1>2, OwnClean

LEMMA TakeKept ==
  ASSUME LabInv, LabKept, labFails \in Nat, NEW q \in LabRequest, Take(q)
  PROVE  LabKept'
<1> PICK c \in pool :
      /\ lab[q].pc \in {"takeA", "takeB", "takeP"}
      /\ pool' = pool \ {c} /\ session' = session /\ labFails' = labFails
      /\ lab' = [lab EXCEPT
           ![q].conn = Append(@, c),
           ![q].pc = CASE @ = "takeA" -> "takeB" [] @ = "takeB" -> "takeP"
                       [] @ = "takeP" -> "truncate"]
  BY DEF Take
<1> DEFINE conn == Append(lab[q].conn, c)
           to == CASE lab[q].pc = "takeA" -> "takeB" [] lab[q].pc = "takeB" -> "takeP"
                   [] lab[q].pc = "takeP" -> "truncate"
           row == [lab[q] EXCEPT !.conn = conn, !.pc = to]
<1>1. lab[q] \in LabRow /\ lab[q].conn \in Seq(Conn) /\ pool \subseteq Conn
  BY LabTypes
<1>2. to \in {"takeB", "takeP", "truncate"}
  OBVIOUS
<1>3. lab' = [lab EXCEPT ![q] = row]
  BY LabTypes DEF LabRow
<1>4. ToSet(conn) = ToSet(lab[q].conn) \union {c}
  <2> DEFINE n == Len(lab[q].conn)
  <2>1. /\ n \in Nat /\ DOMAIN lab[q].conn = 1 .. n /\ DOMAIN conn = 1 .. n + 1
        /\ conn[n + 1] = c /\ \A i \in 1 .. n : conn[i] = lab[q].conn[i]
    BY <1>1
  <2> HIDE DEF conn, n
  <2> QED
    BY <2>1 DEF ToSet
<1> HIDE DEF conn, to
<1>5. row.pc = to /\ row.conn = conn /\ row.branch = lab[q].branch
  BY <1>1 DEF LabRow
<1> HIDE DEF row
<1>6. /\ \A r \in LabRequest \ {q} : lab'[r] = lab[r]
      /\ lab'[q].pc = to /\ lab'[q].conn = conn /\ lab'[q].branch = lab[q].branch
  BY <1>3, <1>5, LabTypes
<1>7. Held(q)' = Held(q) \union {c} /\ Held(q) \subseteq Conn
  <2>1. Held(q) = ToSet(lab[q].conn) /\ Held(q)' = ToSet(conn)
    BY <1>2, <1>6 DEF Held
  <2> QED
    BY <1>4, <2>1, HeldConns
<1>8. \A d \in Held(q) \ LeftOpen : Clean(d)'
  BY NoneOpen DEF Clean
<1>9. Locking(q)'
  <2>1. Locking(q)
    BY DEF LabKept
  <2> QED
    BY <1>2, <1>6, <2>1 DEF Locking
<1> QED
  BY <1>1, <1>2, <1>6, <1>7, <1>8, <1>9, KeptStep

LEMMA TruncateKept ==
  ASSUME LabInv, LabKept, labFails \in Nat, NEW q \in LabRequest, Truncate(q)
  PROVE  LabKept'
<1> DEFINE p == lab[q].conn[3]
<1>1. /\ lab[q].pc = "truncate" /\ lab' = [lab EXCEPT ![q].pc = "fill"]
      /\ session' = [session EXCEPT ![p].tx = NoUse]
      /\ pool' = pool /\ labFails' = labFails
  BY DEF Truncate, Place
<1>2. p \in Held(q) /\ p \in Conn
  BY <1>1, ThreeConns
<1>3. /\ \A c \in Conn \ {p} : session'[c] = session[c]
      /\ session'[p].tx = NoUse
  <2>1. session \in [Conn -> SessionRow]
    BY LabTypes
  <2> QED
    BY <1>1, <1>2, <2>1 DEF SessionRow
<1>4. \A c \in Held(q) \ LeftOpen : Clean(c)'
  <2>1. \A c \in Held(q) \ LeftOpen : Clean(c) /\ c \in Conn
    BY <1>1, NoneOpen
  <2> QED
    BY <1>3, <2>1 DEF Clean, NoUse
<1>5. lab'[q].pc = "fill" /\ lab'[q].branch = lab[q].branch
  BY <1>1, PlaceFacts, SameBranch DEF LabPc
<1>6. Locking(q)'
  BY <1>1, <1>5 DEF Locking, LabKept
<1> QED
  BY <1>1, <1>2, <1>3, <1>4, <1>6, KeptPlace DEF LabPc

LEMMA FillKept ==
  ASSUME LabInv, LabKept, labFails \in Nat, NEW q \in LabRequest, Fill(q)
  PROVE  LabKept'
<1> DEFINE p == lab[q].conn[3]
           conn == SubSeq(lab[q].conn, 1, 2)
           row  == [lab[q] EXCEPT !.pc = "begin", !.conn = conn]
<1>1. /\ lab[q].pc = "fill"
      /\ lab' = [lab EXCEPT ![q].pc = "begin", ![q].conn = SubSeq(@, 1, 2)]
      /\ pool' = pool \cup {p} /\ session' = session /\ labFails' = labFails
  BY DEF Fill
<1>2. /\ lab[q].conn \in Seq(Conn) /\ Len(lab[q].conn) = 3 /\ p \in Conn
      /\ Held(q) = {lab[q].conn[1], lab[q].conn[2], lab[q].conn[3]}
      /\ lab[q] \in LabRow /\ pool \subseteq Conn
  BY <1>1, ThreeConns, LabTypes
<1>3. /\ conn \in Seq(Conn) /\ Len(conn) = 2 /\ DOMAIN conn = {1, 2}
      /\ conn[1] = lab[q].conn[1] /\ conn[2] = lab[q].conn[2]
  BY <1>2
<1>4. lab' = [lab EXCEPT ![q] = row]
  BY <1>1, LabTypes DEF LabRow
<1> HIDE DEF conn
<1>5. row.pc = "begin" /\ row.conn = conn /\ row.branch = lab[q].branch
  BY <1>2 DEF LabRow
<1> HIDE DEF row
<1>6. /\ \A r \in LabRequest \ {q} : lab'[r] = lab[r]
      /\ lab'[q].pc = "begin" /\ lab'[q].conn = conn /\ lab'[q].branch = lab[q].branch
  BY <1>4, <1>5, LabTypes
<1>7. Held(q)' = {lab[q].conn[1], lab[q].conn[2]}
  BY <1>3, <1>6 DEF Held, ToSet
<1>8. /\ Held(q) \union pool \subseteq Held(q)' \union pool'
      /\ Held(q)' \union pool' \subseteq Conn
  BY <1>1, <1>2, <1>7, HeldConns
<1>9. \A c \in Held(q) \ LeftOpen : Clean(c)'
  BY <1>1, NoneOpen DEF Clean
<1>10. Locking(q)'
  BY <1>1, <1>6 DEF Locking, LabKept
<1> QED
  BY <1>1, <1>6, <1>8, <1>9, <1>10, KeptStep

LEMMA BeginKept ==
  ASSUME LabInv, LabKept, labFails \in Nat, NEW q \in LabRequest, Begin(q) \/ BeginBoth(q)
  PROVE  LabKept'
<1> DEFINE a == lab[q].conn[1]
           b == lab[q].conn[2]
<1>1. PICK to \in {"first", "lockA"} :
        /\ lab[q].pc = "begin" /\ lab' = [lab EXCEPT ![q].pc = to]
        /\ pool' = pool /\ labFails' = labFails
        /\ to = "lockA" => BeginBoth(q)
  BY DEF Begin, BeginBoth, Place
<1>2. /\ a \in Conn /\ b \in Conn /\ a # b /\ Held(q) = {a, b}
      /\ session \in [Conn -> SessionRow] /\ to \in LabPc \ {"failed", "answered"}
  BY <1>1, TwoConns, LabTypes DEF LabPc
<1>3. /\ \A c \in Conn \ Held(q) : session'[c] = session[c]
      /\ \A c \in {a, b} : session'[c].tx = NoUse \/ session'[c].tx = session[c].tx
      /\ BeginBoth(q) => session'[a].tx = NoUse /\ session'[b].tx = NoUse
  <2>1. CASE Begin(q) /\ ~BeginBoth(q)
    <3>1. session' = [session EXCEPT ![a] = [level |-> lab[q].level, tx |-> NoUse],
                                     ![b].level = lab[q].level]
      BY <2>1 DEF Begin
    <3>2. /\ \A c \in Conn \ Held(q) : session'[c] = session[c]
          /\ \A c \in {a, b} : session'[c].tx = NoUse \/ session'[c].tx = session[c].tx
      BY <1>2, <3>1 DEF SessionRow
    <3> QED
      BY <2>1, <3>2
  <2>2. CASE BeginBoth(q)
    <3>1. session' = [c \in Conn |-> IF c \in {a, b} THEN [level |-> "RR", tx |-> NoUse]
                                                   ELSE session[c]]
      BY <2>2 DEF BeginBoth
    <3> QED
      BY <1>2, <3>1
  <2> QED
    BY <2>1, <2>2
<1>4. \A c \in Held(q) \ LeftOpen : Clean(c)'
  <2>1. \A c \in Held(q) \ LeftOpen : Clean(c)
    BY <1>1, NoneOpen
  <2>2. ~NoUse.used /\ NoUse.locks = {}
    BY DEF NoUse
  <2> QED
    BY <1>2, <1>3, <2>1, <2>2 DEF Clean
<1>5. lab'[q].pc = to /\ lab'[q].branch = lab[q].branch
  BY <1>1, <1>2, PlaceFacts, SameBranch
<1>6. Locking(q)'
  <2>1. lab'[q].conn = lab[q].conn
    BY <1>1, <1>2, PlaceFacts
  <2>2. to = "lockA" => session'[a].tx = NoUse /\ session'[b].tx = NoUse
    BY <1>1, <1>3
  <2>3. \A x \in {1, 2} : lab'[q].branch[x] = "open"
    BY <1>1, <1>5 DEF Locking, LabKept
  <2>4. ~NoUse.used /\ NoUse.locks = {}
    BY DEF NoUse
  <2> QED
    BY <1>1, <1>5, <2>1, <2>2, <2>3, <2>4 DEF Locking, Clean
<1> QED
  BY <1>1, <1>2, <1>3, <1>4, <1>6, KeptPlace

LEMMA FirstReadKept ==
  ASSUME LabInv, LabKept, labFails \in Nat, NEW q \in LabRequest, FirstRead(q)
  PROVE  LabKept'
<1> DEFINE a == lab[q].conn[1]
           b == lab[q].conn[2]
           tx == [NoUse EXCEPT !.used = TRUE, !.snap = amounts]
           row == [lab[q] EXCEPT !.pc = "write", !.first = Answer(q, amounts)]
<1>1. /\ lab[q].pc = "first"
      /\ lab' = [lab EXCEPT ![q].pc = "write", ![q].first = Answer(q, amounts)]
      /\ session' = [session EXCEPT ![a].tx = tx, ![b].tx = NoUse]
      /\ pool' = pool /\ labFails' = labFails
  BY DEF FirstRead
<1>2. /\ a \in Conn /\ b \in Conn /\ a # b /\ Held(q) = {a, b}
      /\ session \in [Conn -> SessionRow] /\ lab[q] \in LabRow /\ pool \subseteq Conn
  BY <1>1, TwoConns, LabTypes
<1>3. lab' = [lab EXCEPT ![q] = row]
  BY <1>1, LabTypes DEF LabRow
<1>4. row.pc = "write" /\ row.conn = lab[q].conn /\ row.branch = lab[q].branch
  BY <1>2 DEF LabRow
<1> HIDE DEF row
<1>5. /\ \A r \in LabRequest \ {q} : lab'[r] = lab[r]
      /\ lab'[q].pc = "write" /\ lab'[q].conn = lab[q].conn /\ lab'[q].branch = lab[q].branch
  BY <1>3, <1>4, LabTypes
<1>6. tx.locks = {} /\ ~NoUse.used /\ NoUse.locks = {}
  BY DEF NoUse
<1> HIDE DEF tx
<1>7. /\ \A c \in Conn \ Held(q) : session'[c] = session[c]
      /\ session'[a].tx = tx /\ session'[b].tx = NoUse
  BY <1>1, <1>2 DEF SessionRow
<1>8. Held(q)' = Held(q)
  BY <1>1, <1>5 DEF Held
<1>9. a \in InTx(q)'
  BY <1>5 DEF InTx
<1>10. \A c \in Held(q) \ LeftOpen : Clean(c)' \/ c \in InTx(q)'
  BY <1>2, <1>6, <1>7, <1>9 DEF Clean
<1>11. Locking(q)'
  BY <1>1, <1>5, <1>6, <1>7 DEF Locking, LabKept
<1>12. /\ Held(q) \union pool \subseteq Held(q)' \union pool'
       /\ Held(q)' \union pool' \subseteq Conn
  BY <1>1, <1>2, <1>8, HeldConns
<1> QED
  BY <1>1, <1>5, <1>7, <1>10, <1>11, <1>12, KeptStep

LEMMA WriteLabKept ==
  ASSUME LabInv, LabKept, labFails \in Nat, NEW q \in LabRequest, WriteLab(q)
  PROVE  LabKept'
<1>1. /\ lab[q].pc = "write" /\ lab' = [lab EXCEPT ![q].pc = "second"]
      /\ pool' = pool /\ session' = session /\ labFails' = labFails
  BY DEF WriteLab, Place
<1>2. /\ lab'[q].pc = "second" /\ lab'[q].branch = lab[q].branch
      /\ lab'[q].conn = lab[q].conn
  BY <1>1, PlaceFacts, SameBranch DEF LabPc
<1>3. InTx(q)' = InTx(q) /\ Locking(q)'
  BY <1>1, <1>2 DEF InTx, Locking, LabKept
<1>4. \A c \in Held(q) \ LeftOpen : Clean(c)' \/ c \in InTx(q)'
  BY <1>1, <1>3, OwnClean DEF Clean
<1> QED
  BY <1>1, <1>3, <1>4, KeptPlace DEF LabPc

LEMMA SecondReadKept ==
  ASSUME LabInv, LabKept, labFails \in Nat, NEW q \in LabRequest, SecondRead(q)
  PROVE  LabKept'
<1> DEFINE a == lab[q].conn[1]
           b == lab[q].conn[2]
           seen == Answer(q, IF session[a].level = "RC" THEN amounts
                                                        ELSE session[a].tx.snap)
           results == lab[q].results \union {[level |-> lab[q].level,
                                             anomaly |-> lab[q].first # seen]}
           to == IF lab[q].level = "RC" THEN "takeA" ELSE "answered"
<1>1. /\ lab[q].pc = "second"
      /\ lab' = [lab EXCEPT
           ![q].results = results, ![q].pc = to,
           ![q].level = "RR", ![q].first = 0, ![q].conn = << >>]
      /\ session' = [session EXCEPT ![a].tx = NoUse]
      /\ pool' = pool \cup ToSet(lab[q].conn) /\ labFails' = labFails
  BY DEF SecondRead
<1>0. to \in {"takeA", "answered"}
  OBVIOUS
<1> HIDE DEF results, to
<1> DEFINE row == [lab[q] EXCEPT !.results = results, !.pc = to,
                                 !.level = "RR", !.first = 0, !.conn = << >>]
<1>2. /\ a \in Conn /\ b \in Conn /\ a # b /\ Held(q) = {a, b}
      /\ session \in [Conn -> SessionRow] /\ lab[q] \in LabRow /\ pool \subseteq Conn
      /\ Held(q) = ToSet(lab[q].conn)
  BY <1>1, TwoConns, LabTypes DEF Held
<1>3. lab' = [lab EXCEPT ![q] = row]
  BY <1>1, LabTypes DEF LabRow
<1>4. row.pc = to /\ row.conn = << >> /\ row.branch = lab[q].branch
  BY <1>2 DEF LabRow
<1> HIDE DEF row
<1>5. /\ \A r \in LabRequest \ {q} : lab'[r] = lab[r]
      /\ lab'[q].pc = to /\ lab'[q].conn = << >> /\ lab'[q].branch = lab[q].branch
  BY <1>3, <1>4, LabTypes
<1>6. Held(q)' = {}
  <2>1. ToSet(<< >>) = {}
    BY DEF ToSet
  <2> QED
    BY <1>5, <2>1 DEF Held
<1>7. /\ \A c \in Conn \ {a} : session'[c] = session[c]
      /\ session'[a].tx = NoUse
  BY <1>1, <1>2 DEF SessionRow
<1>8. \A c \in Held(q) \ LeftOpen : Clean(c)'
  <2>1. InTx(q) = {a}
    BY <1>1 DEF InTx
  <2>2. b \notin LeftOpen => Clean(b)
    BY <1>2, <2>1, OwnClean
  <2>3. ~NoUse.used /\ NoUse.locks = {}
    BY DEF NoUse
  <2> QED
    BY <1>2, <1>7, <2>2, <2>3 DEF Clean
<1>9. Locking(q)'
  BY <1>0, <1>1, <1>5 DEF Locking, LabKept
<1>10. /\ Held(q) \union pool \subseteq Held(q)' \union pool'
       /\ Held(q)' \union pool' \subseteq Conn
       /\ lab'[q].pc # "failed" /\ labFails' = labFails
       /\ \A c \in Conn \ Held(q) : session'[c] = session[c]
  BY <1>0, <1>1, <1>2, <1>5, <1>6, <1>7, HeldConns
<1>11. \A r \in LabRequest \ {q} : lab'[r] = lab[r]
  BY <1>5
<1> QED
  BY <1>8, <1>9, <1>10, <1>11, KeptStep

LEMMA LockOwnKept ==
  ASSUME LabInv, LabKept, labFails \in Nat, NEW q \in LabRequest, NEW x \in {1, 2}, LockOwn(q, x)
  PROVE  LabKept'
<1> DEFINE a == lab[q].conn[1]
           b == lab[q].conn[2]
           c == lab[q].conn[x]
           to == IF x = 1 THEN "lockB" ELSE "cross"
<1>1. /\ lab[q].pc = (IF x = 1 THEN "lockA" ELSE "lockB")
      /\ lab' = [lab EXCEPT ![q].pc = to]
      /\ session' = [session EXCEPT ![c].tx = Locked(@, LockOf(x))]
      /\ pool' = pool /\ labFails' = labFails
  BY DEF LockOwn, Place
<1>2. /\ a \in Conn /\ b \in Conn /\ a # b /\ Held(q) = {a, b} /\ c \in {a, b}
      /\ session \in [Conn -> SessionRow] /\ session[c].tx \in Usage
      /\ to \in LabPc \ {"failed", "answered"}
  BY <1>1, TwoConns, LabTypes DEF LabPc
<1>3. Clean(c) /\ (x = 1 => Clean(b)) /\ LockOf(x) \in {Gap, x}
  <2>1. Locking(q)
    BY DEF LabKept
  <2>2. CASE x = 1
    BY <1>1, <2>1, <2>2 DEF Locking, LockOf
  <2>3. CASE x = 2
    BY <1>1, <2>1, <2>3 DEF Locking, LockOf
  <2> QED
    BY <2>2, <2>3
<1>4. /\ \A d \in Conn \ {c} : session'[d] = session[d]
      /\ session'[c].tx = Locked(session[c].tx, LockOf(x))
  BY <1>1, <1>2 DEF SessionRow
<1>5. session'[c].tx.locks \subseteq {Gap, x}
  <2>1. Locked(session[c].tx, LockOf(x)).locks = session[c].tx.locks \union {LockOf(x)}
    BY <1>2 DEF Locked, Usage
  <2> QED
    BY <1>3, <1>4, <2>1 DEF Clean
<1>6. /\ lab'[q].pc = to /\ lab'[q].branch = lab[q].branch /\ lab'[q].conn = lab[q].conn
      /\ \A y \in {1, 2} : lab[q].branch[y] = "open"
  <2>1. \A y \in {1, 2} : lab[q].branch[y] = "open"
    BY <1>1 DEF LabKept, Locking
  <2>2. lab' = [lab EXCEPT ![q].pc = to] /\ to \in LabPc
    BY <1>1, <1>2
  <2> HIDE DEF to
  <2>3. lab'[q].pc = to /\ lab'[q].branch = lab[q].branch /\ lab'[q].conn = lab[q].conn
    BY <2>2, PlaceFacts, SameBranch
  <2> QED
    BY <2>1, <2>3
<1>7. InTx(q)' = IF x = 1 THEN {a} ELSE {a, b}
  BY <1>6 DEF InTx
<1>8. \A d \in Held(q) \ LeftOpen : Clean(d)' \/ d \in InTx(q)'
  BY <1>2, <1>3, <1>4, <1>7 DEF Clean
<1>9. Locking(q)'
  <2>1. CASE x = 1
    <3>1. session'[b] = session[b] /\ Clean(b)
      BY <1>2, <1>3, <1>4, <2>1
    <3> QED
      BY <1>5, <1>6, <2>1, <3>1 DEF Locking, Clean
  <2>2. CASE x = 2
    <3>1. session'[a].tx.locks \subseteq {Gap, 1}
      <4>1. session[a].tx.locks \subseteq {Gap, 1}
        BY <1>1, <2>2 DEF LabKept, Locking
      <4> QED
        BY <1>2, <1>4, <2>2, <4>1
    <3> QED
      BY <1>5, <1>6, <2>2, <3>1 DEF Locking
  <2> QED
    BY <2>1, <2>2
<1> QED
  BY <1>1, <1>2, <1>4, <1>8, <1>9, KeptPlace

LEMMA SettleKept ==
  ASSUME LabInv, LabKept, labFails \in Nat, labFails' \in {labFails, labFails + 1},
         NEW q \in LabRequest, NEW x \in {1, 2}, NEW outcome \in {"committed", "rolled_back"},
         Settle(q, x, outcome)
  PROVE  LabKept'
<1> DEFINE a == lab[q].conn[1]
           b == lab[q].conn[2]
           c == lab[q].conn[x]
           row == [lab[q] EXCEPT !.branch[x] = outcome]
<1>1. /\ lab[q].pc = "cross" /\ lab' = [lab EXCEPT ![q].branch[x] = outcome]
      /\ session' = [session EXCEPT ![c].tx = NoUse] /\ pool' = pool
  BY DEF Settle
<1>2. /\ a \in Conn /\ b \in Conn /\ a # b /\ Held(q) = {a, b} /\ c \in {a, b}
      /\ session \in [Conn -> SessionRow] /\ lab[q] \in LabRow /\ pool \subseteq Conn
  BY <1>1, TwoConns, LabTypes
<1>3. lab' = [lab EXCEPT ![q] = row]
  BY <1>1, LabTypes DEF LabRow
<1>4. /\ row.pc = "cross" /\ row.conn = lab[q].conn /\ row.branch[x] = outcome
      /\ \A y \in {1, 2} \ {x} : row.branch[y] = lab[q].branch[y]
  BY <1>1, <1>2 DEF LabRow
<1> HIDE DEF row
<1>5. /\ \A r \in LabRequest \ {q} : lab'[r] = lab[r]
      /\ lab'[q].pc = "cross" /\ lab'[q].conn = lab[q].conn /\ lab'[q].branch[x] = outcome
      /\ \A y \in {1, 2} \ {x} : lab'[q].branch[y] = lab[q].branch[y]
  BY <1>3, <1>4, LabTypes
<1>6. Held(q)' = Held(q)
  BY <1>1, <1>5 DEF Held
<1>7. /\ \A d \in Conn \ {c} : session'[d] = session[d]
      /\ session'[c].tx = NoUse /\ ~NoUse.used /\ NoUse.locks = {}
  BY <1>1, <1>2 DEF SessionRow, NoUse
<1>8. ASSUME NEW d \in Held(q) \ LeftOpen PROVE Clean(d)' \/ d \in InTx(q)'
  <2>1. CASE d = c
    BY <1>7, <2>1 DEF Clean
  <2>2. CASE d # c
    <3>1. PICK y \in {1, 2} \ {x} : d = lab[q].conn[y]
      BY <1>2, <2>2
    <3>2. d \in InTx(q) => lab[q].branch[y] = "open"
      BY <1>1, <1>2, <2>2, <3>1 DEF InTx
    <3>3. lab[q].branch[y] = "open" => d \in InTx(q)'
      BY <1>5, <3>1 DEF InTx
    <3>4. d \notin InTx(q) => Clean(d)
      BY OwnClean
    <3>5. Clean(d) => Clean(d)'
      BY <1>2, <1>7, <2>2 DEF Clean
    <3> QED
      BY <3>2, <3>3, <3>4, <3>5
  <2> QED
    BY <2>1, <2>2
<1>9. Locking(q)'
  <2>1. \A y \in {1, 2} :
          lab[q].branch[y] = "open" => session[lab[q].conn[y]].tx.locks \subseteq {Gap, y}
    BY <1>1 DEF LabKept, Locking
  <2>2. \A y \in {1, 2} :
          lab'[q].branch[y] = "open" => session'[lab'[q].conn[y]].tx.locks \subseteq {Gap, y}
    BY <1>2, <1>5, <1>7, <2>1
  <2> QED
    BY <1>5, <2>2 DEF Locking
<1>10. /\ Held(q) \union pool \subseteq Held(q)' \union pool'
       /\ Held(q)' \union pool' \subseteq Conn
       /\ \A d \in Conn \ Held(q) : session'[d] = session[d]
  BY <1>1, <1>2, <1>6, <1>7
<1> QED
  BY <1>5, <1>8, <1>9, <1>10, KeptStep

LEMMA AnswerDeadlockKept ==
  ASSUME LabInv, LabKept, labFails \in Nat, NEW q \in LabRequest, AnswerDeadlock(q)
  PROVE  LabKept'
<1>1. /\ lab[q].pc = "cross" /\ lab' = [lab EXCEPT ![q].pc = "answered"]
      /\ \A x \in {1, 2} : lab[q].branch[x] # "open"
      /\ pool' = pool \cup ToSet(lab[q].conn) /\ session' = session /\ labFails' = labFails
  BY DEF AnswerDeadlock, Place
<1>2. /\ \A r \in LabRequest \ {q} : lab'[r] = lab[r]
      /\ lab'[q].pc = "answered"
  BY <1>1, PlaceFacts DEF LabPc
<1>3. Held(q)' = {} /\ Held(q) = ToSet(lab[q].conn) /\ pool \subseteq Conn
  BY <1>1, <1>2, LabTypes DEF Held
<1>4. /\ Held(q) \union pool \subseteq Held(q)' \union pool'
      /\ Held(q)' \union pool' \subseteq Conn
  BY <1>1, <1>3, HeldConns
<1>5. InTx(q) = {}
  BY <1>1 DEF InTx
<1>6. \A c \in Held(q) \ LeftOpen : Clean(c)'
  BY <1>1, <1>5, OwnClean DEF Clean
<1>7. Locking(q)'
  BY <1>2 DEF Locking
<1> QED
  BY <1>1, <1>2, <1>4, <1>6, <1>7, KeptStep

\* A getConnection that fails outside of the try keeps the request's other connection.
LEMMA TakeFailsKept ==
  ASSUME LabInv, LabKept, labFails \in Nat, NEW q \in LabRequest, TakeFails(q)
  PROVE  LabKept'
<1>1. /\ lab[q].pc \in {"takeA", "takeB"} /\ lab' = [lab EXCEPT ![q].pc = "failed"]
      /\ pool' = pool /\ session' = session /\ labFails' = labFails + 1
  BY DEF TakeFails, FailsLab
<1>2. /\ \A r \in LabRequest \ {q} : lab'[r] = lab[r]
      /\ lab'[q].pc = "failed" /\ lab'[q].conn = lab[q].conn
      /\ lab'[q].branch = lab[q].branch
  BY <1>1, PlaceFacts, SameBranch DEF LabPc
<1>3. Held(q)' = Held(q) /\ Held(q) = ToSet(lab[q].conn)
  BY <1>1, <1>2 DEF Held
<1>4. /\ Held(q) \union pool \subseteq Held(q)' \union pool'
      /\ Held(q)' \union pool' \subseteq Conn
  BY <1>1, <1>3, HeldConns, LabTypes
<1>5. \A c \in Held(q) \ LeftOpen : Clean(c)'
  BY <1>1, NoneOpen DEF Clean
<1>6. Locking(q)'
  BY <1>1, <1>2 DEF Locking, LabKept
<1>7. PICK lost : lost = {}
  OBVIOUS
<1>8. /\ Conn = pool' \union UNION {Held(r)' : r \in LabRequest}
      /\ \A r \in LabRequest : Locking(r)'
      /\ LeftOpen' \subseteq LeftOpen /\ Leaked' \subseteq Leaked \union Held(q)
  BY <1>1, <1>2, <1>3, <1>4, <1>5, <1>6, <1>7, StepParts
<1>9. LostFew'
  <2>1. lab[q].conn \in Seq(Conn) /\ DOMAIN lab[q].conn = 1 .. Len(lab[q].conn)
    BY LabTypes
  <2>2. CASE lab[q].pc = "takeA"
    <3>1. Len(lab[q].conn) = 0
      BY <2>2 DEF LabInv, Holding
    <3>2. Held(q) = {}
      BY <1>3, <2>1, <3>1 DEF ToSet
    <3> QED
      BY <1>1, <1>8, <3>2, NoneLost DEF LabKept
  <2>3. CASE lab[q].pc = "takeB"
    <3>1. Len(lab[q].conn) = 1
      BY <2>3 DEF LabInv, Holding
    <3>2. Held(q) = {lab[q].conn[1]} /\ lab[q].conn[1] \in Conn
      BY <1>3, <2>1, <3>1 DEF ToSet
    <3>3. PICK c \in Conn : Held(q) = {c}
      BY <3>2
    <3>4. LeftOpen' \subseteq LeftOpen /\ Leaked' \subseteq Leaked \union {c}
      BY <1>8, <3>3
    <3> QED
      BY <1>1, <3>4, OneLost DEF LabKept
  <2> QED
    BY <1>1, <2>2, <2>3
<1> QED
  BY <1>8, <1>9 DEF LabKept

\* A statement that fails between the two row locks leaves the first transaction open.
LEMMA AbortKept ==
  ASSUME LabInv, LabKept, labFails \in Nat, NEW q \in LabRequest, Abort(q)
  PROVE  LabKept'
<1> DEFINE row == [lab[q] EXCEPT !.pc = "failed", !.conn = << >>]
<1>1. /\ lab[q].pc \in LabPc \ {"takeA", "takeB", "cross", "answered", "failed"}
      /\ lab' = [lab EXCEPT ![q].pc = "failed", ![q].conn = << >>]
      /\ pool' = pool \cup ToSet(lab[q].conn) /\ labFails' = labFails + 1
      /\ CleanUp(q) /\ lab[q] \in LabRow
  BY LabTypes DEF Abort, LabRow, FailsLab
<1>2. lab' = [lab EXCEPT ![q] = row]
  BY <1>1, LabTypes DEF LabRow
<1>3. row.pc = "failed" /\ row.conn = << >> /\ row.branch = lab[q].branch
  BY <1>1 DEF LabRow
<1> HIDE DEF row
<1>4. /\ \A r \in LabRequest \ {q} : lab'[r] = lab[r]
      /\ lab'[q].pc = "failed" /\ lab'[q].conn = << >> /\ lab'[q].branch = lab[q].branch
  BY <1>2, <1>3, LabTypes
<1>5. Held(q)' = {} /\ Held(q) = ToSet(lab[q].conn) /\ lab[q].conn[1] \in Held(q)
  <2>1. ToSet(<< >>) = {}
    BY DEF ToSet
  <2>2. lab[q].conn[1] \in Held(q)
    BY <1>1, TwoConns, ThreeConns DEF LabPc
  <2> QED
    BY <1>1, <1>4, <2>1, <2>2 DEF Held
<1>6. PICK a \in Conn : a = lab[q].conn[1]
  BY <1>5, HeldConns
<1>7. \A c \in Conn : session'[c] = session[c] \/ (c \in Held(q) /\ session'[c].tx = NoUse)
  <2>1. CASE lab[q].scenario = "deadlock"
    <3>1. session' = session
      BY <1>1, <2>1 DEF CleanUp
    <3> QED
      BY <3>1
  <2>2. CASE lab[q].scenario # "deadlock"
    <3> DEFINE two == ToSet(SubSeq(lab[q].conn, 1, 2))
    <3>1. two \subseteq Held(q)
      <4>1. lab[q].conn \in Seq(Conn) /\ Len(lab[q].conn) \in {2, 3}
        BY <1>1, LabTypes, TwoConns, ThreeConns DEF LabPc
      <4>2. /\ DOMAIN SubSeq(lab[q].conn, 1, 2) = {1, 2}
            /\ \A i \in {1, 2} : SubSeq(lab[q].conn, 1, 2)[i] = lab[q].conn[i]
            /\ {1, 2} \subseteq DOMAIN lab[q].conn
        BY <4>1
      <4> QED
        BY <1>5, <4>2 DEF ToSet
    <3>2. session' = [c \in Conn |-> IF c \in two THEN [session[c] EXCEPT !.tx = NoUse]
                                                  ELSE session[c]]
      BY <1>1, <2>2 DEF CleanUp
    <3> HIDE DEF two
    <3>3. \A c \in Conn : session[c] \in SessionRow
      BY LabTypes
    <3>4. ASSUME NEW c \in Conn, c \in two PROVE session'[c].tx = NoUse
      BY <3>2, <3>3, <3>4 DEF SessionRow
    <3>5. ASSUME NEW c \in Conn, c \notin two PROVE session'[c] = session[c]
      BY <3>2, <3>5
    <3> QED
      BY <3>1, <3>4, <3>5
  <2> QED
    BY <2>1, <2>2
<1>8. \A c \in Held(q) \ LeftOpen : Clean(c)' \/ c \in {a}
  <2>1. InTx(q) \subseteq {a}
    BY <1>1, <1>6 DEF InTx
  <2>2. \A c \in Held(q) \ LeftOpen : c = a \/ Clean(c)
    BY <2>1, OwnClean
  <2>3. ~NoUse.used /\ NoUse.locks = {}
    BY DEF NoUse
  <2> QED
    BY <1>7, <2>2, <2>3, HeldConns DEF Clean
<1>9. Locking(q)'
  BY <1>1, <1>4 DEF Locking, LabKept
<1>10. /\ Held(q) \union pool \subseteq Held(q)' \union pool'
       /\ Held(q)' \union pool' \subseteq Conn
       /\ \A c \in Conn \ Held(q) : session'[c] = session[c]
  BY <1>1, <1>5, <1>7, HeldConns, LabTypes
<1>11. PICK lost : lost = {a}
  OBVIOUS
<1>12. /\ Conn = pool' \union UNION {Held(r)' : r \in LabRequest}
       /\ \A r \in LabRequest : Locking(r)'
       /\ LeftOpen' \subseteq LeftOpen \union {a} /\ Leaked' \subseteq Leaked
  <2>1. \A c \in Held(q) \ LeftOpen : Clean(c)' \/ c \in InTx(q)' \/ c \in lost
    BY <1>8, <1>11
  <2> QED
    BY <1>4, <1>5, <1>9, <1>10, <1>11, <2>1, StepParts
<1>13. LostFew'
  BY <1>1, <1>12, OneLost DEF LabKept
<1> QED
  BY <1>12, <1>13 DEF LabKept

\* Every connection of the pool is free, in use, or was lost to a failure of its own, or
\* a failure left a transaction open on it; nothing else takes one from the pool or
\* leaves a row locked, whatever fails, for any pool and any number of requests.
THEOREM NothingLost == LabSpec => [](labFails \in Nat /\ LabKept)
<1> DEFINE Inv == labFails \in Nat /\ LabKept
<1>1. LabInit => Inv
  <2> SUFFICES ASSUME LabInit PROVE Inv
    OBVIOUS
  <2>1. LabInv
    BY InitLab
  <2>2. \A q \in LabRequest : /\ lab[q].pc = "takeA"
                              /\ \A x \in {1, 2} : lab[q].branch[x] = "open"
    BY DEF LabInit
  <2>3. \A q \in LabRequest : Held(q) \subseteq Conn /\ Locking(q)
    BY <2>1, <2>2, HeldConns DEF Locking
  <2>4. Leaked = {} /\ LeftOpen = {}
    BY <2>2 DEF LabInit, Clean, NoUse, Leaked, LeftOpen
  <2>5. pool = Conn /\ labFails = 0
    BY DEF LabInit
  <2>6. LostFew
    <3>1. Cardinality(Leaked) = 0 /\ Cardinality(LeftOpen) = 0
      BY <2>4, FS_EmptySet
    <3> QED
      BY <2>5, <3>1 DEF LostFew
  <2> QED
    BY <2>3, <2>5, <2>6 DEF LabKept
<1>2. Inv /\ LabInv /\ [LabNext]_labVars => Inv'
  <2> SUFFICES ASSUME Inv, LabInv, [LabNext]_labVars PROVE Inv'
    OBVIOUS
  <2>1. ASSUME NEW q \in LabRequest, LabStep(q) PROVE Inv'
    <3>1. labFails' = labFails
      BY <2>1 DEF LabStep, Take, Truncate, Fill, Begin, FirstRead, WriteLab, SecondRead,
                  BeginBoth, AnswerDeadlock, LockOwn, CommitBranch, RollBackVictim
    <3>2. CASE Take(q) \/ Truncate(q) \/ Fill(q)
      BY <3>1, <3>2, TakeKept, TruncateKept, FillKept
    <3>3. CASE Begin(q) \/ BeginBoth(q) \/ FirstRead(q)
      BY <3>1, <3>3, BeginKept, FirstReadKept
    <3>4. CASE WriteLab(q) \/ SecondRead(q) \/ AnswerDeadlock(q)
      BY <3>1, <3>4, WriteLabKept, SecondReadKept, AnswerDeadlockKept
    <3>5. ASSUME NEW x \in {1, 2}, LockOwn(q, x) PROVE LabKept'
      BY <3>5, LockOwnKept
    <3>6. ASSUME NEW x \in {1, 2}, CommitBranch(q, x) \/ RollBackVictim(q, x)
          PROVE  LabKept'
      BY <3>1, <3>6, SettleKept DEF CommitBranch, RollBackVictim
    <3> QED
      BY <2>1, <3>1, <3>2, <3>3, <3>4, <3>5, <3>6 DEF LabStep
  <2>2. ASSUME NEW q \in LabRequest, Abort(q) \/ TakeFails(q) PROVE Inv'
    <3>1. labFails' = labFails + 1
      BY <2>2 DEF Abort, TakeFails, FailsLab
    <3> QED
      BY <2>2, <3>1, AbortKept, TakeFailsKept
  <2>3. ASSUME NEW q \in LabRequest, NEW x \in {1, 2}, AbortBranch(q, x) PROVE Inv'
    <3>1. labFails' = labFails + 1 /\ Settle(q, x, "rolled_back")
      BY <2>3 DEF AbortBranch, FailsLab
    <3> QED
      BY <3>1, SettleKept
  <2>4. CASE UNCHANGED labVars
    <3>1. lab' = lab /\ pool' = pool /\ session' = session /\ labFails' = labFails
      BY <2>4 DEF labVars
    <3>2. /\ \A q \in LabRequest : /\ Held(q)' = Held(q) /\ InTx(q)' = InTx(q)
                                   /\ Locking(q)' = Locking(q)
          /\ \A c \in Conn : Clean(c)' = Clean(c)
      BY <3>1 DEF Held, InTx, Locking, Clean
    <3>3. Leaked' = Leaked /\ LeftOpen' = LeftOpen
      BY <3>1, <3>2 DEF Leaked, LeftOpen
    <3>4. LostFew'
      BY <3>1, <3>3 DEF LabKept, LostFew
    <3> QED
      BY <3>1, <3>2, <3>4 DEF LabKept
  <2> QED
    BY <2>1, <2>2, <2>3, <2>4 DEF LabNext
<1> QED
  BY <1>1, <1>2, LabInvariance, PTL DEF LabSpec

LEMMA TwoAtMost ==
  ASSUME NEW a, NEW b
  PROVE  IsFiniteSet({a, b}) /\ Cardinality({a, b}) \in 1 .. 2
<1>1. IsFiniteSet({a}) /\ Cardinality({a}) = 1
  BY FS_Singleton
<1>2. /\ IsFiniteSet({a} \union {b})
      /\ Cardinality({a} \union {b}) = IF b \in {a} THEN Cardinality({a})
                                                    ELSE Cardinality({a}) + 1
  BY <1>1, FS_AddElement
<1>3. {a} \union {b} = {a, b}
  OBVIOUS
<1>4. Cardinality({a} \union {b}) \in 1 .. 2
  BY <1>1, <1>2
<1> QED
  BY <1>2, <1>3, <1>4

\* A request that waits alone waits for nothing that exists: the others hold no
\* connection and no lock, and its own locks are not in its way.
LEMMA AloneReady ==
  ASSUME LabInv, LabKept, Cardinality(Conn \ Leaked) >= 3, LeftOpen = {},
         NEW q \in LabRequest,
         lab[q].pc \notin {"answered", "failed"}, lab[q].conn # << >>,
         \A r \in LabRequest \ {q} :
           lab[r].pc \in {"answered", "failed"} \/ lab[r].conn = << >>
  PROVE  Ready(q)
<1> DEFINE conn == lab[q].conn
           pc == lab[q].pc
<1>1. /\ pc \in LabPc \ {"failed", "answered"} /\ conn \in Seq(Conn) /\ Len(conn) \in 0 .. 3
      /\ \A c \in Conn : /\ session[c].tx.used \in BOOLEAN
                         /\ session[c].tx.locks \subseteq 0 .. 2
  BY LabTypes DEF LabKept, LabRow, Usage
<1>2. \A r \in LabRequest \ {q} : Held(r) \subseteq Leaked /\ InTx(r) = {}
  <2> TAKE r \in LabRequest \ {q}
  <2>1. CASE lab[r].pc \in {"answered", "failed"}
    BY <2>1 DEF Held, Leaked, InTx
  <2>2. CASE lab[r].conn = << >>
    <3>1. Held(r) = {}
      BY <2>2 DEF Held, ToSet
    <3> QED
      BY <3>1, InTxHeld
  <2> QED
    BY <2>1, <2>2
<1>3. \A c \in Conn \ Leaked : c \in pool \/ c \in Held(q)
  BY <1>2 DEF LabKept
<1>4. \A c \in Conn \ InTx(q) : Clean(c)
  BY <1>2 DEF LeftOpen
<1>5. \A r \in LabRequest : lab[r].pc = "truncate" => r = q
  <2> SUFFICES ASSUME NEW r \in LabRequest \ {q}, lab[r].pc = "truncate" PROVE FALSE
    OBVIOUS
  <2>1. Len(lab[r].conn) = 3
    BY ThreeConns
  <2>2. Len(<< >>) = 0
    OBVIOUS
  <2> QED
    BY <2>1, <2>2
<1>6. pc \in {"takeA", "takeB", "takeP"} => Ready(q)
  <2> SUFFICES ASSUME pc \in {"takeA", "takeB", "takeP"}, pool = {} PROVE FALSE
    BY DEF Ready
  <2>1. \E a, b : Held(q) \subseteq {a, b}
    <3>1. CASE pc = "takeP"
      BY <3>1, TwoConns
    <3>2. CASE pc # "takeP"
      <4>1. Len(conn) \in 0 .. 1 /\ DOMAIN conn = 1 .. Len(conn)
        BY <1>1, <3>2 DEF LabInv, Holding
      <4>2. Held(q) \subseteq {conn[1]}
        BY <1>1, <4>1 DEF Held, ToSet
      <4>3. PICK a : a = conn[1]
        OBVIOUS
      <4>4. Held(q) \subseteq {a, a}
        BY <4>2, <4>3
      <4> QED
        BY <4>4
    <3> QED
      BY <3>1, <3>2
  <2>0. PICK a, b : Held(q) \subseteq {a, b}
    BY <2>1
  <2>2. Conn \ Leaked \subseteq {a, b}
    BY <1>3, <2>0
  <2>3. IsFiniteSet({a, b}) /\ Cardinality({a, b}) \in 1 .. 2
    BY TwoAtMost
  <2>4. /\ Cardinality(Conn \ Leaked) <= Cardinality({a, b})
        /\ Cardinality(Conn \ Leaked) \in Nat /\ Cardinality({a, b}) \in Nat
    BY <2>2, <2>3, FS_Subset, FS_CardinalityType
  <2>5. Cardinality(Conn \ Leaked) >= 3
    OBVIOUS
  <2> QED
    BY <2>3, <2>4, <2>5
<1>7. pc \in {"truncate", "fill"} => Ready(q)
  <2> SUFFICES ASSUME pc \in {"truncate", "fill"} PROVE Ready(q)
    OBVIOUS
  <2>1. \A c \in Conn : Clean(c)
    BY <1>4 DEF InTx
  <2>2. pc = "fill" => Shared(conn[3])
    BY <1>5 DEF Shared
  <2> QED
    BY <2>1, <2>2 DEF Ready, RowFree, Clean
<1>8. pc \in {"begin", "second", "first"} => Ready(q)
  <2>1. pc = "first" => Shared(conn[1])
    BY <1>5 DEF Shared
  <2> QED
    BY <2>1 DEF Ready
<1>9. pc = "write" => Ready(q)
  <2> SUFFICES ASSUME pc = "write" PROVE Ready(q)
    OBVIOUS
  <2>1. Shared(conn[2])
    BY <1>5 DEF Shared
  <2>2. \A c \in Conn : session[c].tx.locks = {}
    <3>1. InTx(q) = {conn[1]} /\ session[conn[1]].tx.locks = {}
      BY DEF InTx, LabKept, Locking
    <3> QED
      BY <1>4, <3>1 DEF Clean
  <2> QED
    BY <2>1, <2>2 DEF Ready, RowFree
<1>10. pc \in {"lockA", "lockB"} => Ready(q)
  <2> SUFFICES ASSUME pc \in {"lockA", "lockB"} PROVE Ready(q)
    OBVIOUS
  <2>1. Shared(conn[1]) /\ Shared(conn[2])
    BY <1>5 DEF Shared
  <2>2. CASE pc = "lockA"
    <3>1. \A c \in Conn : session[c].tx.locks = {}
      BY <1>4, <2>2 DEF InTx, Clean
    <3>2. RowFree(conn[1], 1)
      BY <3>1 DEF RowFree
    <3> QED
      BY <2>1, <2>2, <3>2 DEF Ready
  <2>3. CASE pc = "lockB"
    <3>1. InTx(q) = {conn[1]} /\ session[conn[1]].tx.locks \subseteq {Gap, 1}
      BY <2>3 DEF InTx, LabKept, Locking
    <3>2. \A c \in Conn : 2 \notin session[c].tx.locks
      BY <1>4, <3>1 DEF Clean, Gap
    <3>3. RowFree(conn[2], 2)
      BY <3>2 DEF RowFree
    <3> QED
      BY <2>1, <2>3, <3>3 DEF Ready
  <2> QED
    BY <2>2, <2>3
\* The branches: unless both hold the row that the other one needs, one commits.
<1>11. pc = "cross" => Ready(q)
  <2> SUFFICES ASSUME pc = "cross" PROVE Ready(q)
    OBVIOUS
  <2> DEFINE Open(x) == lab[q].branch[x] = "open"
             Has(x) == x \in session[conn[x]].tx.locks
  <2>1. conn[1] \in Conn /\ conn[2] \in Conn /\ conn[1] # conn[2]
    BY TwoConns
  <2>2. \A x \in {1, 2} : 3 - x \in {1, 2} /\ 3 - (3 - x) = x
    OBVIOUS
  <2>3. ASSUME NEW x \in {1, 2}, Open(x), ~(Open(3 - x) /\ Has(3 - x)) PROVE Ready(q)
    <3>1. \A c \in Conn \ {conn[x]} : 3 - x \notin session[c].tx.locks
      <4> SUFFICES ASSUME NEW c \in Conn \ {conn[x]} PROVE 3 - x \notin session[c].tx.locks
        OBVIOUS
      <4>1. CASE c \in InTx(q)
        <5>1. PICK y \in {1, 2} : c = conn[y] /\ Open(y)
          BY <4>1 DEF InTx
        <5>2. y = 3 - x
          BY <2>3, <5>1
        <5> QED
          BY <2>3, <5>1, <5>2
      <4>2. CASE c \notin InTx(q)
        BY <1>4, <4>2 DEF Clean
      <4> QED
        BY <4>1, <4>2
    <3>2. RowFree(conn[x], 3 - x)
      BY <3>1 DEF RowFree
    <3> QED
      BY <2>3, <3>2 DEF Ready
  <2>4. CASE \A x \in {1, 2} : ~Open(x)
    BY <2>4 DEF Ready
  <2>5. CASE \A x \in {1, 2} : Open(x) /\ Has(x)
    BY <2>5 DEF Ready
  <2>6. CASE \E x \in {1, 2} : Open(x) /\ ~(Open(3 - x) /\ Has(3 - x))
    BY <2>3, <2>6
  <2> QED
    BY <2>2, <2>4, <2>5, <2>6
<1> QED
  BY <1>1, <1>6, <1>7, <1>8, <1>9, <1>10, <1>11 DEF LabPc

\* Whatever the three scenarios wait for, connections, metadata locks or rows, a request
\* that waits for ever does not wait alone, unless failures left fewer than the three
\* connections that it needs or a transaction open; and each failure did so at most once,
\* for any pool and any number of requests.
THEOREM NoneWaitsAlone == LabSpec => []StuckOnlyTogether
<1>1. LabKept /\ LabInv => StuckOnlyTogether
  <2> SUFFICES ASSUME LabKept, LabInv PROVE StuckOnlyTogether
    OBVIOUS
  <2>1. ASSUME ~(Cardinality(Conn \ Leaked) < 3), LeftOpen = {},
               NEW q \in LabRequest, lab[q].pc \notin {"answered", "failed"},
               lab[q].conn # << >>,
               \A r \in LabRequest :
                 /\ lab[r].pc \notin {"answered", "failed"} /\ lab[r].conn # << >>
                 => r = q
        PROVE  Ready(q)
    <3>1. Cardinality(Conn \ Leaked) \in Nat
      BY LabCounted
    <3>2. Cardinality(Conn \ Leaked) >= 3
      BY <2>1, <3>1
    <3> QED
      BY <2>1, <3>2, AloneReady
  <2>2. LostFew
    BY DEF LabKept
  <2> QED
    BY <2>1, <2>2 DEF StuckOnlyTogether
<1> QED
  BY <1>1, NothingLost, LabInvariance, PTL
-----------------------------------------------------------------------------
(* Shutdown.                                                               *)

Phase     == {"starting", "serving", "closing", "exited"}
AppRow    == [phase : Phase, listeners : SUBSET Signal, since : 0 .. TotalTimeout]
WorkerRow == [timer : BOOLEAN, stopping : BOOLEAN, running : BOOLEAN,
              waited : 0 .. TotalTimeout]
ProbePc   == {"new", "sql", "storage", "worker", "ok", "failed"}
ProbeRow  == [pc : ProbePc, open : BOOLEAN]

LEMMA ShutdownTypes ==
  ASSUME ShutdownInv
  PROVE  /\ TotalTimeout \in Nat /\ OutboxTimeout \in Nat
         /\ app \in AppRow /\ app.since \in 0 .. TotalTimeout
         /\ worker \in [Worker -> WorkerRow]
         /\ \A w \in Worker : /\ worker[w] \in WorkerRow /\ WaitLimit(w) \in Nat
                              /\ worker[w].waited \in 0 .. TotalTimeout
                              /\ worker[w].timer \in BOOLEAN
                              /\ worker[w].stopping \in BOOLEAN
                              /\ worker[w].running \in BOOLEAN
         /\ part \in [Part -> {"down", "up", "closing", "closed"}]
         /\ probe \in [Probe -> ProbeRow] /\ surprise \in BOOLEAN
         /\ Worker \subseteq Part /\ "outbox" \in Worker /\ "inbox" \in Worker
         /\ "http" \in Part /\ "pool" \in Part
         /\ "http" \notin Worker /\ "pool" \notin Worker
BY ShutdownAssumption
   DEF ShutdownInv, ShutdownTypeOK, AppRow, Phase, WorkerRow, ProbeRow, ProbePc,
       Worker, Part, WaitLimit

\* What a step says of each worker and probe, brought together.
LEMMA ShutdownTogether ==
  ASSUME app' \in AppRow, worker' \in [Worker -> WorkerRow],
         part' \in [Part -> {"down", "up", "closing", "closed"}],
         probe' \in [Probe -> ProbeRow], surprise' \in BOOLEAN,
         part'["http"] # "down" => \A x \in Part : part'[x] # "down",
         \A w \in Worker : WorkerKept(w)',
         \A p \in Probe : ProbeKept(p)' /\ (probe'[p].pc = "ok" => probe'[p].open),
         Alive' \/ surprise' \/ app'.since = TotalTimeout
           \/ \A x \in Part : part'[x] = "closed"
  PROVE  ShutdownInv'
<1>1. ShutdownTypeOK'
  BY DEF ShutdownTypeOK, AppRow, Phase, WorkerRow, ProbeRow, ProbePc
<1> QED
  BY <1>1 DEF ShutdownInv

\* A step that leaves the workers, their parts and the clock alone.
LEMMA WorkersKept ==
  ASSUME ShutdownInv, worker' = worker, app'.since = app.since,
         \A w \in Worker : part'[w] = part[w]
  PROVE  \A w \in Worker : WorkerKept(w)'
BY DEF ShutdownInv, WorkerKept

\* A step that leaves the probes alone, and does not revive the outbox worker.
LEMMA ProbesKept ==
  ASSUME ShutdownInv, probe' = probe, ~IsHealthy => ~IsHealthy',
         part["http"] # "down" => part'["http"] # "down"
  PROVE  \A p \in Probe : ProbeKept(p)' /\ (probe'[p].pc = "ok" => probe'[p].open)
BY DEF ShutdownInv, ProbeKept

LEMMA InitPoolStep ==
  ASSUME ShutdownInv, InitPool
  PROVE  ShutdownInv'
<1>1. /\ worker' = worker /\ probe' = probe
      /\ app.phase = "starting" /\ part["pool"] = "down"
      /\ \/ part' = [part EXCEPT !["pool"] = "up"] /\ app' = app /\ surprise' = surprise
         \/ /\ app' = [app EXCEPT !.phase = "exited"]
            /\ surprise' = TRUE /\ part' = part
  BY DEF InitPool, Exited
<1>2. /\ app' \in AppRow /\ app'.since = app.since
      /\ part' \in [Part -> {"down", "up", "closing", "closed"}]
      /\ \A x \in Part \ {"pool"} : part'[x] = part[x]
      /\ surprise' \in BOOLEAN
  BY <1>1, ShutdownTypes DEF AppRow, Phase
<1>3. part["http"] = "down"
  BY <1>1, ShutdownTypes DEF ShutdownInv
<1>4. Alive' \/ surprise'
  BY <1>1, ShutdownTypes DEF Alive, AppRow
<1>5. \A w \in Worker : WorkerKept(w)'
  BY <1>1, <1>2, WorkersKept, ShutdownTypes
<1>6. \A p \in Probe : ProbeKept(p)' /\ (probe'[p].pc = "ok" => probe'[p].open)
  BY <1>1, <1>3, ProbesKept DEF IsHealthy
<1> QED
  BY <1>1, <1>2, <1>3, <1>4, <1>5, <1>6, ShutdownTogether, ShutdownTypes

LEMMA InitWorkerStep ==
  ASSUME ShutdownInv, NEW w \in Worker, InitWorker(w)
  PROVE  ShutdownInv'
<1>1. /\ app' = app /\ probe' = probe /\ surprise' = surprise
      /\ app.phase = "starting" /\ part[w] = "down"
      /\ part' = [part EXCEPT ![w] = "up"]
      /\ worker' = [worker EXCEPT ![w].timer = TRUE, ![w].running = TRUE]
  BY DEF InitWorker
<1>2. /\ part' \in [Part -> {"down", "up", "closing", "closed"}]
      /\ part'[w] = "up" /\ \A x \in Part \ {w} : part'[x] = part[x]
  BY <1>1, ShutdownTypes
<1>3. /\ worker' \in [Worker -> WorkerRow]
      /\ \A v \in Worker \ {w} : worker'[v] = worker[v]
      /\ worker'[w].timer /\ worker'[w].running
      /\ worker'[w].stopping = worker[w].stopping
      /\ worker'[w].waited = worker[w].waited
  BY <1>1, ShutdownTypes DEF WorkerRow
<1>4. part["http"] = "down" /\ Alive
  BY <1>1, ShutdownTypes DEF ShutdownInv, Alive
<1>5. \A v \in Worker : WorkerKept(v)'
  BY <1>1, <1>2, <1>3, ShutdownTypes DEF ShutdownInv, WorkerKept
<1>6. \A p \in Probe : ProbeKept(p)' /\ (probe'[p].pc = "ok" => probe'[p].open)
  BY <1>1, <1>4 DEF ShutdownInv, ProbeKept
<1> QED
  BY <1>1, <1>2, <1>3, <1>4, <1>5, <1>6, ShutdownTogether, ShutdownTypes DEF Alive

LEMMA ListenStep ==
  ASSUME ShutdownInv, Listen
  PROVE  ShutdownInv'
<1>1. /\ worker' = worker /\ probe' = probe /\ surprise' = surprise
      /\ \A x \in Part \ {"http"} : part[x] = "up"
      /\ part' = [part EXCEPT !["http"] = "up"]
      /\ app' = [app EXCEPT !.phase = "serving", !.listeners = Signal]
  BY DEF Listen
<1>2. /\ part' \in [Part -> {"down", "up", "closing", "closed"}]
      /\ \A x \in Part : part'[x] = "up"
      /\ \A w \in Worker : part'[w] = part[w]
  BY <1>1, ShutdownTypes
<1>3. app' \in AppRow /\ app'.since = app.since /\ app'.phase = "serving"
  BY <1>1, ShutdownTypes DEF AppRow, Phase
<1>4. \A w \in Worker : WorkerKept(w)'
  BY <1>1, <1>2, <1>3, WorkersKept
<1>5. \A p \in Probe : ProbeKept(p)' /\ (probe'[p].pc = "ok" => probe'[p].open)
  BY <1>1, <1>2, ProbesKept, ShutdownTypes DEF IsHealthy
<1> QED
  BY <1>1, <1>2, <1>3, <1>4, <1>5, ShutdownTogether, ShutdownTypes DEF Alive

\* A batch begins, while the worker is told nothing, or ends.
LEMMA BatchStep ==
  ASSUME ShutdownInv, NEW w \in Worker, StartBatch(w) \/ BatchEnds(w)
  PROVE  ShutdownInv'
<1> PICK runs \in BOOLEAN :
      /\ app' = app /\ probe' = probe /\ surprise' = surprise /\ part' = part /\ Alive
      /\ worker' = [worker EXCEPT ![w].running = runs]
      /\ runs => worker[w].timer
  BY DEF StartBatch, BatchEnds
<1>1. /\ worker' \in [Worker -> WorkerRow]
      /\ \A v \in Worker \ {w} : worker'[v] = worker[v]
      /\ worker'[w].timer = worker[w].timer /\ worker'[w].running = runs
      /\ worker'[w].stopping = worker[w].stopping
      /\ worker'[w].waited = worker[w].waited
  BY ShutdownTypes DEF WorkerRow
<1>2. \A v \in Worker : WorkerKept(v)'
  BY <1>1, ShutdownTypes DEF ShutdownInv, WorkerKept
<1>3. IsHealthy' <=> IsHealthy
  BY <1>1, ShutdownTypes DEF IsHealthy
<1>4. \A p \in Probe : ProbeKept(p)' /\ (probe'[p].pc = "ok" => probe'[p].open)
  BY <1>3, ProbesKept
<1> QED
  BY <1>1, <1>2, <1>4, ShutdownTogether, ShutdownTypes DEF ShutdownInv, Alive

\* Steps of the process alone: a rejected batch, a signal, the exit.
LEMMA AppStep ==
  ASSUME ShutdownInv, UNCHANGED <<worker, part, probe>>, app' \in AppRow,
         app'.since = app.since, surprise' \in BOOLEAN,
         Alive' \/ surprise' \/ app.since = TotalTimeout
           \/ \A x \in Part : part[x] = "closed"
  PROVE  ShutdownInv'
<1>1. \A w \in Worker : WorkerKept(w)'
  BY WorkersKept
<1>2. \A p \in Probe : ProbeKept(p)' /\ (probe'[p].pc = "ok" => probe'[p].open)
  BY ProbesKept DEF IsHealthy
<1>3. part'["http"] # "down" => \A x \in Part : part'[x] # "down"
  BY DEF ShutdownInv
<1> QED
  BY <1>1, <1>2, <1>3, ShutdownTogether, ShutdownTypes

LEMMA InboxRejectsStep ==
  ASSUME ShutdownInv, InboxRejects
  PROVE  ShutdownInv'
<1>1. app' \in AppRow /\ app'.since = app.since
  BY ShutdownTypes DEF InboxRejects, Exited, AppRow, Phase
<1> QED
  BY <1>1, AppStep DEF InboxRejects

LEMMA ReceiveStep ==
  ASSUME ShutdownInv, NEW s \in Signal, Receive(s)
  PROVE  ShutdownInv'
<1>1. UNCHANGED <<worker, part, probe>>
  BY DEF Receive
<1>2. CASE s \in app.listeners
  <2>1. /\ app' = [app EXCEPT !.listeners = @ \ {s}, !.phase = "closing"]
        /\ surprise' = surprise
    BY <1>2 DEF Receive
  <2>2. app' \in AppRow /\ app'.since = app.since /\ app'.phase = "closing"
    BY <2>1, ShutdownTypes DEF AppRow, Phase
  <2> QED
    BY <1>1, <2>1, <2>2, AppStep, ShutdownTypes DEF Alive
<1>3. CASE s \notin app.listeners
  <2>1. app' = [app EXCEPT !.phase = "exited"] /\ surprise' = TRUE
    BY <1>3 DEF Receive, Exited
  <2>2. app' \in AppRow /\ app'.since = app.since
    BY <2>1, ShutdownTypes DEF AppRow, Phase
  <2> QED
    BY <1>1, <2>1, <2>2, AppStep
<1> QED
  BY <1>2, <1>3

LEMMA ExitStep ==
  ASSUME ShutdownInv, Exit
  PROVE  ShutdownInv'
<1>1. app' \in AppRow /\ app'.since = app.since
  BY ShutdownTypes DEF Exit, Exited, AppRow, Phase
<1> QED
  BY <1>1, AppStep, ShutdownTypes DEF Exit

\* A probe moves on; it passes the last check only if the worker is healthy.
LEMMA ProbeStep ==
  ASSUME ShutdownInv, NEW p \in Probe,
         UNCHANGED <<app, worker, part, surprise>>, Alive,
         part["http"] # "down", probe' \in [Probe -> ProbeRow],
         \A q \in Probe \ {p} : probe'[q] = probe[q],
         probe'[p].open \/ ~IsHealthy,
         probe'[p].pc = "ok" => probe'[p].open
  PROVE  ShutdownInv'
<1>1. \A w \in Worker : WorkerKept(w)'
  BY WorkersKept
<1>2. IsHealthy' <=> IsHealthy
  BY DEF IsHealthy
<1>3. \A q \in Probe : ProbeKept(q)' /\ (probe'[q].pc = "ok" => probe'[q].open)
  BY <1>2 DEF ShutdownInv, ProbeKept
<1> QED
  BY <1>1, <1>3, ShutdownTogether, ShutdownTypes DEF ShutdownInv, Alive

LEMMA AskStep ==
  ASSUME ShutdownInv, NEW p \in Probe, Ask(p)
  PROVE  ShutdownInv'
<1> DEFINE healthy == IsHealthy
           to == IF part["pool"] = "up" THEN "sql" ELSE "failed"
<1>1. /\ UNCHANGED <<app, worker, part, surprise>> /\ Alive /\ part["http"] = "up"
      /\ probe' = [probe EXCEPT ![p] = [pc |-> to, open |-> healthy]]
      /\ healthy \in BOOLEAN /\ to \in {"sql", "failed"}
  BY DEF Ask, IsHealthy
<1> HIDE DEF healthy, to
<1>2. /\ probe' \in [Probe -> ProbeRow]
      /\ \A q \in Probe \ {p} : probe'[q] = probe[q]
      /\ probe'[p].open = healthy /\ probe'[p].pc = to
  BY <1>1, ShutdownTypes DEF ProbeRow, ProbePc
<1>3. probe'[p].open \/ ~IsHealthy
  BY <1>2 DEF healthy
<1>4. probe'[p].pc # "ok"
  BY <1>1, <1>2
<1> QED
  BY <1>1, <1>2, <1>3, <1>4, ProbeStep

LEMMA CheckedStep ==
  ASSUME ShutdownInv, NEW p \in Probe, NEW from \in ProbePc \ {"new"},
         NEW to \in ProbePc, NEW passed \in BOOLEAN, Checked(p, from, passed, to),
         to = "ok" => (passed => IsHealthy)
  PROVE  ShutdownInv'
<1> DEFINE next == IF passed THEN to ELSE "failed"
<1>1. /\ UNCHANGED <<app, worker, part, surprise>> /\ Alive /\ probe[p].pc # "new"
      /\ probe' = [probe EXCEPT ![p].pc = next]
      /\ next \in ProbePc /\ (next = "ok" => IsHealthy)
  BY DEF Checked, ProbePc
<1> HIDE DEF next
<1>2. /\ probe' \in [Probe -> ProbeRow]
      /\ \A q \in Probe \ {p} : probe'[q] = probe[q]
      /\ probe'[p].open = probe[p].open /\ probe'[p].pc = next
  BY <1>1, ShutdownTypes DEF ProbeRow
<1>3. part["http"] # "down" /\ (~probe[p].open => ~IsHealthy)
  BY <1>1 DEF ShutdownInv, ProbeKept
<1>4. probe'[p].open \/ ~IsHealthy
  BY <1>2, <1>3
<1>5. probe'[p].pc = "ok" => probe'[p].open
  BY <1>1, <1>2, <1>3
<1> QED
  BY <1>1, <1>2, <1>3, <1>4, <1>5, ProbeStep

LEMMA ProbesStep ==
  ASSUME ShutdownInv, NEW p \in Probe, CheckSql(p) \/ CheckStorage(p) \/ CheckWorker(p)
  PROVE  ShutdownInv'
<1>1. CASE CheckSql(p)
  <2>1. PICK reached \in BOOLEAN :
          Checked(p, "sql", reached /\ part["pool"] # "closed", "storage")
    BY <1>1 DEF CheckSql
  <2> DEFINE passed == reached /\ part["pool"] # "closed"
  <2>2. passed \in BOOLEAN /\ Checked(p, "sql", passed, "storage")
    BY <2>1
  <2> HIDE DEF passed
  <2> QED
    BY <2>2, CheckedStep DEF ProbePc
<1>2. CASE CheckStorage(p)
  BY <1>2, CheckedStep DEF CheckStorage, ProbePc
<1>3. CASE CheckWorker(p)
  <2>1. PICK ping \in BOOLEAN : Checked(p, "worker", IsHealthy /\ ping, "ok")
    BY <1>3 DEF CheckWorker
  <2> DEFINE passed == IsHealthy /\ ping
  <2>2. passed \in BOOLEAN /\ Checked(p, "worker", passed, "ok") /\ (passed => IsHealthy)
    BY <2>1 DEF IsHealthy
  <2> HIDE DEF passed
  <2> QED
    BY <2>2, CheckedStep DEF ProbePc
<1> QED
  BY <1>1, <1>2, <1>3

LEMMA CloseStep ==
  ASSUME ShutdownInv, NEW x \in Part, Close(x)
  PROVE  ShutdownInv'
<1>1. /\ app' = app /\ probe' = probe /\ surprise' = surprise
      /\ app.phase = "closing" /\ part[x] = "up"
      /\ part' = [part EXCEPT ![x] = "closing"]
      /\ worker' = [w \in Worker |->
           IF w = x THEN [worker[w] EXCEPT !.timer = FALSE, !.stopping = TRUE]
                    ELSE worker[w]]
  BY DEF Close
<1>2. /\ part' \in [Part -> {"down", "up", "closing", "closed"}]
      /\ part'[x] = "closing" /\ \A y \in Part \ {x} : part'[y] = part[y]
  BY <1>1, ShutdownTypes
<1>3. /\ worker' \in [Worker -> WorkerRow]
      /\ \A v \in Worker \ {x} : worker'[v] = worker[v]
      /\ \A v \in Worker : /\ worker'[v].running = worker[v].running
                           /\ worker'[v].waited = worker[v].waited
      /\ x \in Worker => ~worker'[x].timer /\ worker'[x].stopping
  BY <1>1, ShutdownTypes DEF WorkerRow
<1>4. ASSUME NEW v \in Worker PROVE WorkerKept(v)'
  <2>1. WorkerKept(v) /\ v \in Part
    BY ShutdownTypes DEF ShutdownInv
  <2>2. CASE v = x
    BY <1>1, <1>2, <1>3, <2>1, <2>2, ShutdownTypes DEF WorkerKept
  <2>3. CASE v # x
    BY <1>1, <1>2, <1>3, <2>1, <2>3, ShutdownTypes DEF WorkerKept
  <2> QED
    BY <2>2, <2>3
<1>5. ~IsHealthy => ~IsHealthy'
  BY <1>3, ShutdownTypes DEF IsHealthy
<1>6. \A p \in Probe : ProbeKept(p)' /\ (probe'[p].pc = "ok" => probe'[p].open)
  BY <1>1, <1>2, <1>5, ProbesKept, ShutdownTypes
<1>7. part'["http"] # "down" => \A y \in Part : part'[y] # "down"
  BY <1>1, <1>2, ShutdownTypes DEF ShutdownInv
<1> QED
  BY <1>1, <1>2, <1>3, <1>4, <1>6, <1>7, ShutdownTogether, ShutdownTypes DEF Alive

LEMMA ClosedStep ==
  ASSUME ShutdownInv, NEW x \in Part, Closed(x),
         x \in Worker /\ worker[x].running => worker[x].waited = WaitLimit(x)
  PROVE  ShutdownInv'
<1>1. /\ app' = app /\ probe' = probe /\ surprise' = surprise /\ worker' = worker
      /\ app.phase = "closing" /\ part[x] = "closing"
      /\ part' = [part EXCEPT ![x] = "closed"]
  BY DEF Closed
<1>2. /\ part' \in [Part -> {"down", "up", "closing", "closed"}]
      /\ part'[x] = "closed" /\ \A y \in Part \ {x} : part'[y] = part[y]
  BY <1>1, ShutdownTypes
<1>3. ASSUME NEW v \in Worker PROVE WorkerKept(v)'
  <2>1. WorkerKept(v) /\ v \in Part
    BY ShutdownTypes DEF ShutdownInv
  <2> QED
    BY <1>1, <1>2, <2>1, ShutdownTypes DEF WorkerKept
<1>4. \A p \in Probe : ProbeKept(p)' /\ (probe'[p].pc = "ok" => probe'[p].open)
  BY <1>1, <1>2, ProbesKept, ShutdownTypes DEF IsHealthy
<1>5. part'["http"] # "down" => \A y \in Part : part'[y] # "down"
  BY <1>1, <1>2, ShutdownTypes DEF ShutdownInv
<1> QED
  BY <1>1, <1>2, <1>3, <1>4, <1>5, ShutdownTogether, ShutdownTypes DEF Alive

LEMMA ElapseStep ==
  ASSUME ShutdownInv, Elapse
  PROVE  ShutdownInv'
<1>1. /\ part' = part /\ probe' = probe /\ surprise' = surprise
      /\ app.phase = "closing" /\ app.since < TotalTimeout
      /\ \A w \in Worker : part[w] = "closing" => worker[w].waited < WaitLimit(w)
      /\ app' = [app EXCEPT !.since = @ + 1]
      /\ worker' = [w \in Worker |->
           IF part[w] = "closing" THEN [worker[w] EXCEPT !.waited = @ + 1] ELSE worker[w]]
  BY DEF Elapse
<1>2. app' \in AppRow /\ app'.since = app.since + 1 /\ app'.phase = "closing"
  BY <1>1, ShutdownTypes DEF AppRow
<1>3. \A w \in Worker : worker[w].waited <= app.since
  BY DEF ShutdownInv, WorkerKept
<1>4. ASSUME NEW w \in Worker
      PROVE  /\ worker'[w] \in WorkerRow
             /\ worker'[w].timer = worker[w].timer
             /\ worker'[w].stopping = worker[w].stopping
             /\ worker'[w].running = worker[w].running
             /\ worker'[w].waited = IF part[w] = "closing" THEN worker[w].waited + 1
                                                           ELSE worker[w].waited
  BY <1>1, <1>3, ShutdownTypes DEF WorkerRow
<1>5. worker' \in [Worker -> WorkerRow]
  BY <1>1, <1>4
<1>6. ASSUME NEW w \in Worker PROVE WorkerKept(w)'
  <2>1. WorkerKept(w)
    BY DEF ShutdownInv
  <2> QED
    BY <1>1, <1>2, <1>4, <2>1, ShutdownTypes DEF WorkerKept
<1>7. IsHealthy' <=> IsHealthy
  BY <1>4, ShutdownTypes DEF IsHealthy
<1>8. \A p \in Probe : ProbeKept(p)' /\ (probe'[p].pc = "ok" => probe'[p].open)
  BY <1>1, <1>7, ProbesKept
<1>9. part'["http"] # "down" => \A x \in Part : part'[x] # "down"
  BY <1>1 DEF ShutdownInv
<1> QED
  BY <1>1, <1>2, <1>5, <1>6, <1>8, <1>9, ShutdownTogether, ShutdownTypes DEF Alive

LEMMA InitShutdown == ShutdownInit => ShutdownInv
<1> SUFFICES ASSUME ShutdownInit PROVE ShutdownInv
  OBVIOUS
<1>1. TotalTimeout \in Nat /\ \A w \in Worker : WaitLimit(w) \in Nat
  BY ShutdownAssumption DEF WaitLimit
<1>2. ShutdownTypeOK
  <2>1. /\ part \in [Part -> {"down", "up", "closing", "closed"}]
        /\ probe \in [Probe -> ProbeRow] /\ surprise \in BOOLEAN
    BY DEF ShutdownInit, ProbeRow, ProbePc
  <2>2. app \in AppRow
    BY <1>1 DEF ShutdownInit, AppRow, Phase
  <2>3. worker \in [Worker -> WorkerRow]
    BY <1>1 DEF ShutdownInit, WorkerRow
  <2> QED
    BY <2>1, <2>2, <2>3 DEF ShutdownTypeOK, AppRow, Phase, ProbeRow, ProbePc, WorkerRow
<1>3. \A w \in Worker : WorkerKept(w)
  BY <1>1 DEF ShutdownInit, WorkerKept, Worker, Part
<1>4. part["http"] = "down" /\ Alive /\ \A p \in Probe : probe[p].pc = "new"
  BY DEF ShutdownInit, Alive, Part
<1> QED
  BY <1>2, <1>3, <1>4 DEF ShutdownInv, ProbeKept

\* The state of one process from its start to its exit, with any timeouts and any
\* number of readiness probes: a worker's flags are those of its hook, and what a
\* probe learnt of the worker stays true.
THEOREM ShutdownInvariance == ShutdownSpec => []ShutdownInv
<1>1. ShutdownInit => ShutdownInv
  BY InitShutdown
<1>2. ShutdownInv /\ [ShutdownNext]_shutdownVars => ShutdownInv'
  <2> SUFFICES ASSUME ShutdownInv, [ShutdownNext]_shutdownVars PROVE ShutdownInv'
    OBVIOUS
  <2>1. CASE InitPool
    BY <2>1, InitPoolStep
  <2>2. CASE Listen
    BY <2>2, ListenStep
  <2>3. CASE PoolEnded \/ HttpClosed
    BY <2>3, ClosedStep, ShutdownTypes DEF PoolEnded, HttpClosed
  <2>4. CASE Exit
    BY <2>4, ExitStep
  <2>5. CASE Elapse
    BY <2>5, ElapseStep
  <2>6. CASE InboxRejects
    BY <2>6, InboxRejectsStep
  <2>7. ASSUME NEW w \in Worker, InitWorker(w) PROVE ShutdownInv'
    BY <2>7, InitWorkerStep
  <2>8. ASSUME NEW w \in Worker, StartBatch(w) \/ BatchEnds(w) PROVE ShutdownInv'
    BY <2>8, BatchStep
  <2>9. ASSUME NEW w \in Worker, Stopped(w) PROVE ShutdownInv'
    BY <2>9, ClosedStep, ShutdownTypes DEF Stopped
  <2>10. ASSUME NEW p \in Probe, Ask(p) PROVE ShutdownInv'
    BY <2>10, AskStep
  <2>11. ASSUME NEW p \in Probe, CheckSql(p) \/ CheckStorage(p) \/ CheckWorker(p)
         PROVE  ShutdownInv'
    BY <2>11, ProbesStep
  <2>12. ASSUME NEW s \in Signal, Receive(s) PROVE ShutdownInv'
    BY <2>12, ReceiveStep
  <2>13. ASSUME NEW x \in Part, Close(x) PROVE ShutdownInv'
    BY <2>13, CloseStep
  <2>14. CASE UNCHANGED shutdownVars
    BY <2>14 DEF shutdownVars, ShutdownInv, ShutdownTypeOK, WorkerKept, ProbeKept,
       IsHealthy, Alive
  <2> QED
    BY <2>1, <2>2, <2>3, <2>4, <2>5, <2>6, <2>7, <2>8, <2>9, <2>10, <2>11, <2>12,
       <2>13, <2>14 DEF ShutdownNext
<1> QED
  BY <1>1, <1>2, PTL DEF ShutdownSpec

\* The process of main.ts exits with every part closed, or after the whole timeout,
\* or by one of the named surprises; a worker that its hook let go is idle unless
\* its batch outlasted the wait; and a probe that came after the outbox worker was
\* told to stop is never answered ok, in whatever order the parts are destroyed.
THEOREM ShutdownIsOrderly == ShutdownSpec => []ShutdownOrderly
<1>1. ShutdownInv => ShutdownOrderly
  BY DEF ShutdownInv, ShutdownOrderly, ExitExplained, ReadyMeansOpen, WorkerKept
<1> QED
  BY <1>1, ShutdownInvariance, PTL

-----------------------------------------------------------------------------
(* Seed: what is in a table and what a run holds.                          *)

SeedRow   == [by : SeedRun \cup {Others, Nobody}, number : 0 .. Wanted]
SeedPc    == {"insert", "note", "ended", "failed"}
Offsets   == 0 .. Wanted - 1
NotedIds  == [Noting -> Seq(Nat)]
SeedPlace == [pc : SeedPc, table : Tables, offset : Offsets, insertId : Nat,
              ids : NotedIds]

LEMMA SeedTypes ==
  ASSUME SeedInv
  PROVE  /\ stored \in [Tables -> Seq(SeedRow)] /\ seed \in [SeedRun -> SeedPlace]
         /\ \A t \in Tables : /\ stored[t] \in Seq(SeedRow) /\ Len(stored[t]) \in Nat
                              /\ DOMAIN stored[t] = 1 .. Len(stored[t])
         /\ \A r \in SeedRun : /\ seed[r] \in SeedPlace /\ seed[r].table \in 1 .. 4
                               /\ seed[r].offset \in Nat /\ seed[r].insertId \in Nat
                               /\ seed[r].ids \in NotedIds
<1>1. stored \in [Tables -> Seq(SeedRow)] /\ seed \in [SeedRun -> SeedPlace]
  BY DEF SeedInv, SeedTypeOK, SeedRow, SeedPc, Offsets, NotedIds, SeedPlace
<1>2. \A t \in Tables : /\ stored[t] \in Seq(SeedRow) /\ Len(stored[t]) \in Nat
                        /\ DOMAIN stored[t] = 1 .. Len(stored[t])
  BY <1>1
<1>3. \A r \in SeedRun : seed[r] \in SeedPlace
  BY <1>1
<1>4. \A w \in SeedPlace : /\ w.table \in 1 .. 4 /\ w.offset \in Offsets
                           /\ w.insertId \in Nat /\ w.ids \in NotedIds
  BY DEF SeedPlace, Tables
<1>5. Offsets \subseteq Nat
  BY SeedAssumption DEF Offsets
<1> QED
  BY <1>1, <1>2, <1>3, <1>4, <1>5

\* A batch has at least one row and ends within what is wanted; it is the last
\* one exactly when another batch would not.
LEMMA SizeIs ==
  ASSUME SeedInv, NEW r \in SeedRun
  PROVE  /\ Size(r) \in Nat /\ 0 < Size(r) /\ Size(r) <= BatchSize
         /\ seed[r].offset + Size(r) \in Nat /\ seed[r].offset + Size(r) <= Wanted
         /\ seed[r].offset + BatchSize < Wanted => Size(r) = BatchSize
         /\ seed[r].offset + BatchSize >= Wanted => seed[r].offset + Size(r) = Wanted
<1>1. Wanted \in Nat /\ BatchSize \in Nat /\ BatchSize > 0
  BY SeedAssumption
<1>2. seed[r].offset \in Nat /\ seed[r].offset < Wanted
  BY <1>1, SeedTypes DEF SeedPlace, Offsets
<1> QED
  BY <1>1, <1>2 DEF Size

LEMMA RowsFinite ==
  ASSUME SeedInv, NEW r, NEW t \in Tables
  PROVE  /\ RowsOf(r, t) \subseteq 1 .. Len(stored[t])
         /\ IsFiniteSet(RowsOf(r, t)) /\ Cardinality(RowsOf(r, t)) \in Nat
<1>1. RowsOf(r, t) \subseteq 1 .. Len(stored[t]) /\ Len(stored[t]) \in Nat
  BY SeedTypes DEF RowsOf
<1>2. IsFiniteSet(1 .. Len(stored[t]))
  BY <1>1, FS_Interval
<1>3. IsFiniteSet(RowsOf(r, t))
  BY <1>1, <1>2, FS_Subset
<1> QED
  BY <1>1, <1>3, FS_CardinalityType

RowsBy(tab, q) == {id \in DOMAIN tab : tab[id].by = q}

\* An INSERT into table t adds rows of one actor, at the end.
LEMMA RowsAppended ==
  ASSUME SeedInv, NEW t \in Tables, NEW rows \in Seq(SeedRow), NEW who,
         stored'[t] = stored[t] \o rows, \A u \in Tables \ {t} : stored'[u] = stored[u],
         \A i \in 1 .. Len(rows) : rows[i].by = who
  PROVE  /\ ToSet(stored[1]) \subseteq ToSet(stored'[1])
         /\ ToSet(rows) \subseteq ToSet(stored'[t])
         /\ \A q, u : u \in Tables /\ (q # who \/ u # t) => RowsBy(stored'[u], q) = RowsOf(q, u)
         /\ RowsBy(stored'[t], who) = RowsOf(who, t)
              \cup ((Len(stored[t]) + 1) .. (Len(stored[t]) + Len(rows)))
<1> DEFINE old == stored[t]  new == old \o rows
<1>1. /\ old \in Seq(SeedRow) /\ Len(old) \in Nat /\ DOMAIN old = 1 .. Len(old)
      /\ Len(rows) \in Nat /\ DOMAIN rows = 1 .. Len(rows)
  BY SeedTypes
<1>2. /\ new \in Seq(SeedRow) /\ DOMAIN new = 1 .. (Len(old) + Len(rows))
      /\ \A i \in 1 .. (Len(old) + Len(rows)) :
           new[i] = IF i <= Len(old) THEN old[i] ELSE rows[i - Len(old)]
  BY <1>1
<1>3. stored'[t] = new /\ \A u \in Tables : u # t => stored'[u] = stored[u]
  OBVIOUS
<1> HIDE DEF new, old
<1>5. ToSet(old) \subseteq ToSet(new) /\ ToSet(rows) \subseteq ToSet(new)
  <2>1. ASSUME NEW i \in DOMAIN old PROVE i \in DOMAIN new /\ new[i] = old[i]
    BY <1>1, <1>2, <2>1
  <2>2. ASSUME NEW i \in DOMAIN rows
        PROVE  Len(old) + i \in DOMAIN new /\ new[Len(old) + i] = rows[i]
    BY <1>1, <1>2, <2>2
  <2> QED
    BY <2>1, <2>2 DEF ToSet
<1>6. ToSet(stored[1]) \subseteq ToSet(stored'[1])
  <2>1. CASE t = 1
    BY <1>3, <1>5, <2>1 DEF old
  <2>2. CASE t # 1
    BY <1>3, <2>2 DEF Tables
  <2> QED
    BY <2>1, <2>2
<1>7. ASSUME NEW q, NEW u \in Tables, u # t PROVE RowsBy(stored'[u], q) = RowsOf(q, u)
  BY <1>3, <1>7 DEF RowsOf, RowsBy
<1>8. ASSUME NEW q
      PROVE  RowsBy(stored'[t], q) = RowsOf(q, t) \cup
               {i \in (Len(old) + 1) .. (Len(old) + Len(rows)) : who = q}
  <2>1. ASSUME NEW i
        PROVE  i \in RowsBy(stored'[t], q) <=>
                 \/ i \in RowsOf(q, t)
                 \/ i \in (Len(old) + 1) .. (Len(old) + Len(rows)) /\ who = q
    <3>1. i \in RowsBy(stored'[t], q) <=> i \in DOMAIN new /\ new[i].by = q
      BY <1>3 DEF RowsBy
    <3>2. i \in RowsOf(q, t) <=> i \in DOMAIN old /\ old[i].by = q
      BY DEF RowsOf, old
    <3>3. CASE i \in 1 .. Len(old)
      <4>1. i \in DOMAIN new /\ new[i] = old[i]
            /\ i \notin (Len(old) + 1) .. (Len(old) + Len(rows))
        BY <1>1, <1>2, <3>3
      <4> QED
        BY <1>1, <3>1, <3>2, <3>3, <4>1
    <3>4. CASE i \in (Len(old) + 1) .. (Len(old) + Len(rows))
      <4>1. i \in DOMAIN new /\ i \notin DOMAIN old /\ i - Len(old) \in 1 .. Len(rows)
            /\ new[i] = rows[i - Len(old)]
        BY <1>1, <1>2, <3>4
      <4> QED
        BY <3>1, <3>2, <3>4, <4>1
    <3>5. CASE i \notin 1 .. (Len(old) + Len(rows))
      <4>1. i \notin DOMAIN new /\ i \notin DOMAIN old
            /\ i \notin (Len(old) + 1) .. (Len(old) + Len(rows))
        BY <1>1, <1>2, <3>5
      <4> QED
        BY <3>1, <3>2, <4>1
    <3> QED
      BY <1>1, <3>3, <3>4, <3>5
  <2> QED
    BY <2>1
<1>9. \A q : q # who => RowsBy(stored'[t], q) = RowsOf(q, t)
  <2>1. ASSUME NEW q, q # who
        PROVE  {i \in (Len(old) + 1) .. (Len(old) + Len(rows)) : who = q} = {}
    BY <2>1
  <2> QED
    BY <1>8, <2>1
<1>10. RowsBy(stored'[t], who) = RowsOf(who, t) \cup ((Len(old) + 1) .. (Len(old) + Len(rows)))
  BY <1>8
<1> QED
  BY <1>3, <1>5, <1>6, <1>7, <1>9, <1>10 DEF old

\* The ids that are noted behind others.
LEMMA IdsExtended ==
  ASSUME NEW s \in Seq(Nat), NEW first \in Nat, NEW n \in Nat, IsInjective(s),
         \A id \in ToSet(s) : id < first
  PROVE  LET noted == [i \in 1 .. n |-> first + i - 1] IN
         /\ s \o noted \in Seq(Nat) /\ Len(s \o noted) = Len(s) + n
         /\ IsInjective(s \o noted)
         /\ ToSet(s \o noted) \subseteq ToSet(s) \cup (first .. first + n - 1)
<1> DEFINE noted == [i \in 1 .. n |-> first + i - 1]  all == s \o noted
<1>1. noted \in Seq(Nat) /\ Len(noted) = n /\ \A i \in 1 .. n : noted[i] = first + i - 1
  <2>1. \A i \in 1 .. n : first + i - 1 \in Nat
    OBVIOUS
  <2> QED
    BY <2>1
<1> HIDE DEF noted
<1>2. /\ all \in Seq(Nat) /\ Len(all) = Len(s) + n /\ Len(s) \in Nat
      /\ DOMAIN all = 1 .. (Len(s) + n) /\ DOMAIN s = 1 .. Len(s)
      /\ \A i \in 1 .. (Len(s) + n) :
           all[i] = IF i <= Len(s) THEN s[i] ELSE noted[i - Len(s)]
  <2>1. Len(s) \in Nat /\ DOMAIN s = 1 .. Len(s) /\ DOMAIN noted = 1 .. Len(noted)
    BY <1>1
  <2>2. all \in Seq(Nat) /\ Len(all) = Len(s) + Len(noted)
    BY <1>1
  <2>3. DOMAIN all = 1 .. (Len(s) + Len(noted))
    BY <2>2
  <2>4. ASSUME NEW t \in Seq(Nat), NEW i \in 1 .. (Len(s) + Len(t))
        PROVE  (s \o t)[i] = IF i <= Len(s) THEN s[i] ELSE t[i - Len(s)]
    OBVIOUS
  <2> QED
    BY <1>1, <2>1, <2>2, <2>3, <2>4
<1> HIDE DEF all
<1>3. \A i \in 1 .. Len(s) : /\ all[i] = s[i] /\ all[i] \in ToSet(s)
                             /\ all[i] \in Nat /\ all[i] < first
  <2>1. \A i \in 1 .. Len(s) : all[i] = s[i] /\ all[i] \in Nat
    BY <1>2
  <2> QED
    BY <1>2, <2>1 DEF ToSet
<1>4. ASSUME NEW i \in (Len(s) + 1) .. (Len(s) + n)
      PROVE  all[i] = first + (i - Len(s)) - 1 /\ i - Len(s) \in 1 .. n
  <2>1. i - Len(s) \in 1 .. n /\ i \in 1 .. (Len(s) + n) /\ ~(i <= Len(s))
    BY <1>2
  <2> QED
    BY <1>1, <1>2, <2>1
<1>5. ASSUME NEW i \in 1 .. (Len(s) + n)
      PROVE  \/ i \in 1 .. Len(s) /\ all[i] = s[i] /\ all[i] \in Nat /\ all[i] < first
                                  /\ all[i] \in ToSet(s)
             \/ /\ i \in Nat /\ i > Len(s) /\ all[i] = first + (i - Len(s)) - 1
                /\ all[i] \in Nat /\ all[i] >= first /\ all[i] <= first + n - 1
  <2>1. i \in 1 .. Len(s) \/ i \in (Len(s) + 1) .. (Len(s) + n)
    BY <1>2
  <2>2. CASE i \in 1 .. Len(s)
    BY <1>3, <2>2
  <2>3. CASE i \in (Len(s) + 1) .. (Len(s) + n)
    <3>1. all[i] = first + (i - Len(s)) - 1 /\ i - Len(s) \in 1 .. n
      BY <1>4, <2>3
    <3>2. ASSUME NEW m \in Nat, NEW x, i \in (m + 1) .. (m + n), x = first + (i - m) - 1
          PROVE  i \in Nat /\ i > m /\ x \in Nat /\ x >= first /\ x <= first + n - 1
      BY <3>2
    <3> QED
      BY <1>2, <2>3, <3>1, <3>2
  <2> QED
    BY <2>1, <2>2, <2>3
<1>6. IsInjective(all)
  <2> SUFFICES ASSUME NEW i \in 1 .. (Len(s) + n), NEW j \in 1 .. (Len(s) + n),
                      all[i] = all[j]
               PROVE  i = j
    BY <1>2 DEF IsInjective
  <2>1. CASE i \in 1 .. Len(s) /\ j \in 1 .. Len(s)
    <3>1. s[i] = s[j]
      BY <1>3, <2>1
    <3> QED
      BY <1>2, <2>1, <3>1 DEF IsInjective
  <2>2. CASE i \in 1 .. Len(s) /\ j \notin 1 .. Len(s)
    <3>1. all[i] < first /\ all[i] \in Nat
      BY <1>3, <2>2
    <3>2. all[j] >= first /\ all[j] \in Nat
      BY <1>5, <2>2
    <3> QED
      BY <3>1, <3>2
  <2>3. CASE i \notin 1 .. Len(s) /\ j \in 1 .. Len(s)
    <3>1. all[j] < first /\ all[j] \in Nat
      BY <1>3, <2>3
    <3>2. all[i] >= first /\ all[i] \in Nat
      BY <1>5, <2>3
    <3> QED
      BY <3>1, <3>2
  <2>4. CASE i \notin 1 .. Len(s) /\ j \notin 1 .. Len(s)
    <3>1. /\ all[i] = first + (i - Len(s)) - 1 /\ all[j] = first + (j - Len(s)) - 1
          /\ i \in Nat /\ j \in Nat
      BY <1>5, <2>4
    <3>2. ASSUME NEW m \in Nat, first + (i - m) - 1 = first + (j - m) - 1 PROVE i = j
      BY <3>1, <3>2
    <3> QED
      BY <1>2, <3>1, <3>2
  <2> QED
    BY <2>1, <2>2, <2>3, <2>4
<1>7. \A i \in DOMAIN all : all[i] \in ToSet(s) \cup (first .. first + n - 1)
  BY <1>2, <1>5
<1> QED
  BY <1>2, <1>6, <1>7 DEF ToSet, all, noted

\* What a run holds depends on its own place and rows only.
LEMMA AccountedKept ==
  ASSUME NEW r, seed'[r] = seed[r], seed[r].table \in Tables, Accounted(r),
         \A t \in Tables : RowsOf(r, t)' = RowsOf(r, t)
  PROVE  Accounted(r)'
<1>1. Size(r)' = Size(r) /\ \A t : Noted(r, t)' = Noted(r, t)
  BY DEF Size, Noted
<1>2. \A t : Put(r, t)' = Put(r, t)
  BY <1>1 DEF Put
<1>3. AnswerHolds(r)' <=> AnswerHolds(r)
  BY <1>1 DEF AnswerHolds
<1>4. Noting \subseteq Tables
  BY DEF Noting, Tables
<1> QED
  BY <1>1, <1>2, <1>3, <1>4 DEF Accounted

\* A step of one run, or of none.
LEMMA SeedTogether ==
  ASSUME SeedInv, NEW r \in SeedRun,
         stored' \in [Tables -> Seq(SeedRow)], ToSet(stored[1]) \subseteq ToSet(stored'[1]),
         seed' \in [SeedRun -> SeedPlace], \A q \in SeedRun \ {r} : seed'[q] = seed[q],
         \A q \in SeedRun \ {r}, t \in Tables : RowsOf(q, t)' = RowsOf(q, t),
         Accounted(r)',
         \/ seed'[r].insertId = seed[r].insertId
         \/ /\ seed'[r].insertId # 0 /\ \A q \in Filling : q = r
            /\ [by |-> r, number |-> 1] \in ToSet(stored'[1]),
         seed'[r].insertId = 0 =>
           seed'[r].pc \in {"insert", "failed"} /\ seed'[r].table = 1 /\ seed'[r].offset = 0
  PROVE  SeedInv'
<1>1. SeedTypeOK'
  BY DEF SeedTypeOK, SeedRow, SeedPc, Offsets, NotedIds, SeedPlace
<1>2. ASSUME NEW q \in SeedRun, q # r PROVE q \in Filling' <=> q \in Filling
  BY <1>2 DEF Filling
<1>3. \A q \in SeedRun \ Filling' : /\ seed'[q].pc \in {"insert", "failed"}
                                    /\ seed'[q].table = 1 /\ seed'[q].offset = 0
  BY <1>2 DEF Filling, SeedInv
<1>6. /\ \A q \in Filling' : [by |-> q, number |-> 1] \in ToSet(stored'[1])
      /\ \A p, q \in Filling' : p = q
  <2>1. CASE seed'[r].insertId = seed[r].insertId
    <3>1. Filling' = Filling
      BY <1>2, <2>1 DEF Filling
    <3>2. \A q \in Filling' : [by |-> q, number |-> 1] \in ToSet(stored'[1])
      BY <3>1 DEF SeedInv
    <3>3. \A p, q \in Filling' : p = q
      BY <3>1 DEF SeedInv
    <3> QED
      BY <3>2, <3>3
  <2>2. CASE /\ seed'[r].insertId # 0 /\ \A q \in Filling : q = r
             /\ [by |-> r, number |-> 1] \in ToSet(stored'[1])
    <3>1. \A q \in Filling' : q = r
      BY <1>2, <2>2 DEF Filling
    <3>2. \A p, q \in Filling' : p = q
      BY <3>1
    <3>3. \A q \in Filling' : [by |-> q, number |-> 1] \in ToSet(stored'[1])
      BY <2>2, <3>1
    <3> QED
      BY <3>2, <3>3
  <2> QED
    BY <2>1, <2>2
<1>7. ASSUME NEW q \in SeedRun PROVE Accounted(q)'
  <2>1. CASE q # r
    <3>1. Accounted(q) /\ seed[q].table \in Tables
      BY SeedTypes DEF SeedInv, Tables
    <3> QED
      BY <2>1, <3>1, AccountedKept
  <2> QED
    BY <2>1
<1> QED
  BY <1>1, <1>3, <1>6, <1>7 DEF SeedInv

\* The place of a run of which a step changes the pc, and perhaps the insertId.
LEMMA PlaceMoved ==
  ASSUME SeedInv, NEW r \in SeedRun, NEW pc \in SeedPc, NEW id \in Nat,
         seed' = [seed EXCEPT ![r] = [seed[r] EXCEPT !.pc = pc, !.insertId = id]]
  PROVE  /\ seed' \in [SeedRun -> SeedPlace]
         /\ \A q \in SeedRun \ {r} : seed'[q] = seed[q]
         /\ seed'[r].pc = pc /\ seed'[r].insertId = id
         /\ seed'[r].table = seed[r].table /\ seed'[r].offset = seed[r].offset
         /\ seed'[r].ids = seed[r].ids
         /\ Size(r)' = Size(r) /\ \A t : Noted(r, t)' = Noted(r, t)
<1> DEFINE row == [seed[r] EXCEPT !.pc = pc, !.insertId = id]
<1>1. /\ row \in SeedPlace /\ row.pc = pc /\ row.insertId = id
      /\ row.table = seed[r].table /\ row.offset = seed[r].offset
      /\ row.ids = seed[r].ids
  BY SeedTypes DEF SeedPlace
<1>2. seed' = [seed EXCEPT ![r] = row]
  OBVIOUS
<1> HIDE DEF row
<1>3. /\ seed' \in [SeedRun -> SeedPlace] /\ seed'[r] = row
      /\ \A q \in SeedRun \ {r} : seed'[q] = seed[q]
  BY <1>1, <1>2, SeedTypes
<1>4. Size(r)' = Size(r) /\ \A t : Noted(r, t)' = Noted(r, t)
  BY <1>1, <1>3 DEF Size, Noted
<1> QED
  BY <1>1, <1>3, <1>4

\* The rows of the next batch of r, entered by itself or by nobody.
LEMMA BatchRows ==
  ASSUME SeedInv, NEW r \in SeedRun, NEW who \in SeedRun \cup {Others, Nobody}
  PROVE  LET rows == [i \in 1 .. Size(r) |-> [by |-> who, number |-> seed[r].offset + i]] IN
         /\ rows \in Seq(SeedRow) /\ Len(rows) = Size(r)
         /\ \A i \in 1 .. Len(rows) : rows[i].by = who
         /\ 1 \in 1 .. Len(rows) /\ rows[1] = [by |-> who, number |-> seed[r].offset + 1]
<1> DEFINE rows == [i \in 1 .. Size(r) |-> [by |-> who, number |-> seed[r].offset + i]]
<1>1. Size(r) \in Nat /\ 0 < Size(r)
  BY SizeIs
<1>2. ASSUME NEW i \in 1 .. Size(r) PROVE seed[r].offset + i \in 0 .. Wanted
  <2>1. /\ seed[r].offset \in Nat /\ Wanted \in Nat
        /\ seed[r].offset + Size(r) <= Wanted
    BY SizeIs, SeedTypes, SeedAssumption
  <2> QED
    BY <1>1, <2>1
<1>3. ASSUME NEW i \in 1 .. Size(r)
      PROVE  [by |-> who, number |-> seed[r].offset + i] \in SeedRow
  <2> DEFINE n == seed[r].offset + i
  <2>1. n \in 0 .. Wanted
    BY <1>2
  <2> HIDE DEF n
  <2>2. [by |-> who, number |-> n] \in SeedRow
    BY <2>1 DEF SeedRow
  <2> QED
    BY <2>2 DEF n
<1>4. rows \in [1 .. Size(r) -> SeedRow]
  BY <1>3
<1>5. /\ \A i \in 1 .. Size(r) : rows[i].by = who
      /\ rows[1] = [by |-> who, number |-> seed[r].offset + 1]
  BY <1>1
<1> HIDE DEF rows
<1>6. rows \in Seq(SeedRow) /\ Len(rows) = Size(r)
  BY <1>1, <1>4
<1>7. 1 \in 1 .. Len(rows)
  BY <1>1, <1>6
<1> QED
  BY <1>5, <1>6, <1>7 DEF rows

\* The rows behind the last are new.
LEMMA CountAppended ==
  ASSUME NEW last \in Nat, NEW n \in Nat, NEW S, S \subseteq 1 .. last
  PROVE  Cardinality(S \cup ((last + 1) .. (last + n))) = Cardinality(S) + n
<1> DEFINE T == (last + 1) .. (last + n)
<1>1. IsFiniteSet(1 .. last)
  BY FS_Interval
<1>2. IsFiniteSet(S) /\ Cardinality(S) \in Nat
  BY <1>1, FS_Subset, FS_CardinalityType
<1>3. IsFiniteSet(T) /\ Cardinality(T) = n
  <2>1. last + 1 \in Int /\ last + n \in Int
    OBVIOUS
  <2>2. IsFiniteSet(T) /\ Cardinality(T) = IF last + 1 > last + n THEN 0 ELSE (last + n) - (last + 1) + 1
    BY <2>1, FS_Interval
  <2> QED
    BY <2>2
<1>4. S \cap T = {}
  OBVIOUS
<1> HIDE DEF T
<1>5. Cardinality(S \cup T) = Cardinality(S) + Cardinality(T) - Cardinality(S \cap T)
  BY <1>2, <1>3, FS_Union
<1>6. Cardinality(S \cap T) = 0
  BY <1>4, FS_EmptySet
<1>7. Cardinality(S \cup T) = Cardinality(S) + n
  BY <1>2, <1>3, <1>5, <1>6
<1> QED
  BY <1>7 DEF T

\* The first INSERT that is not refused finds no other run filling: the first
\* row of that run would have the e-mail of this one's.
LEMMA NoOtherFills ==
  ASSUME SeedInv, NEW r \in SeedRun, ~EmailTaken(r)
  PROVE  \A q \in Filling : q = r
<1> SUFFICES ASSUME NEW q \in Filling, q # r PROVE FALSE
  OBVIOUS
<1>1. r \notin Filling /\ q \in SeedRun
  BY DEF SeedInv, Filling
<1>2. seed[r].table = 1 /\ seed[r].offset = 0
  BY <1>1 DEF SeedInv
<1>3. PICK id \in DOMAIN stored[1] : stored[1][id] = [by |-> q, number |-> 1]
  BY DEF SeedInv, ToSet
<1>4. 1 \in seed[r].offset + 1 .. seed[r].offset + Size(r)
  <2>1. Size(r) \in Nat /\ 0 < Size(r)
    BY SizeIs
  <2> QED
    BY <1>2, <2>1
<1>5. EmailTaken(r)
  BY <1>1, <1>2, <1>3, <1>4 DEF EmailTaken
<1> QED
  BY <1>5

LEMMA InsertBatchStep ==
  ASSUME SeedInv, NEW r \in SeedRun, InsertBatch(r)
  PROVE  SeedInv'
<1>0. PICK t, n, last : t = seed[r].table /\ n = Size(r) /\ last = Len(stored[t])
  OBVIOUS
<1>1. /\ t \in Tables /\ n \in Nat /\ n > 0 /\ last \in Nat /\ seed[r].offset \in Nat
      /\ seed[r].ids \in NotedIds
  BY <1>0, SeedTypes, SizeIs DEF Tables
<1>2. PICK rows \in Seq(SeedRow) :
        /\ Len(rows) = n /\ \A i \in 1 .. Len(rows) : rows[i].by = r
        /\ 1 \in 1 .. Len(rows) /\ rows[1] = [by |-> r, number |-> seed[r].offset + 1]
        /\ stored' = [stored EXCEPT ![t] = stored[t] \o rows]
  <2> DEFINE batch == [i \in 1 .. Size(r) |-> [by |-> r, number |-> seed[r].offset + i]]
  <2>1. /\ batch \in Seq(SeedRow) /\ Len(batch) = Size(r)
        /\ \A i \in 1 .. Len(batch) : batch[i].by = r
        /\ 1 \in 1 .. Len(batch) /\ batch[1] = [by |-> r, number |-> seed[r].offset + 1]
    BY BatchRows
  <2>2. stored' = [stored EXCEPT ![t] = stored[t] \o batch]
    BY <1>0 DEF InsertBatch, AddRows
  <2> HIDE DEF batch
  <2> QED
    BY <1>0, <2>1, <2>2
<1>3. /\ stored' \in [Tables -> Seq(SeedRow)]
      /\ stored'[t] = stored[t] \o rows /\ \A u \in Tables \ {t} : stored'[u] = stored[u]
  <2>1. stored[t] \o rows \in Seq(SeedRow)
    BY <1>1, <1>2, SeedTypes
  <2> QED
    BY <1>1, <1>2, <2>1, SeedTypes
<1>4. seed[r].pc = "insert" /\ ~EmailTaken(r)
  BY DEF InsertBatch
<1>5. seed' = [seed EXCEPT ![r] = [seed[r] EXCEPT !.pc = "note", !.insertId = last + 1]]
  BY <1>0 DEF InsertBatch, InsertId
<1>6. /\ ToSet(stored[1]) \subseteq ToSet(stored'[1])
      /\ ToSet(rows) \subseteq ToSet(stored'[t])
      /\ \A q, u : u \in Tables /\ (q # r \/ u # t) => RowsOf(q, u)' = RowsOf(q, u)
      /\ RowsOf(r, t)' = RowsOf(r, t) \cup ((last + 1) .. (last + n))
  <2>1. /\ ToSet(stored[1]) \subseteq ToSet(stored'[1])
        /\ ToSet(rows) \subseteq ToSet(stored'[t])
        /\ \A q, u : u \in Tables /\ (q # r \/ u # t) =>
                       RowsBy(stored'[u], q) = RowsOf(q, u)
        /\ RowsBy(stored'[t], r) = RowsOf(r, t) \cup
             ((Len(stored[t]) + 1) .. (Len(stored[t]) + Len(rows)))
    BY <1>1, <1>2, <1>3, RowsAppended
  <2>2. \A q, u : RowsOf(q, u)' = RowsBy(stored'[u], q)
    BY DEF RowsOf, RowsBy
  <2> QED
    BY <1>0, <1>2, <2>1, <2>2
<1>8. /\ seed' \in [SeedRun -> SeedPlace]
      /\ \A q \in SeedRun \ {r} : seed'[q] = seed[q]
      /\ seed'[r].pc = "note" /\ seed'[r].insertId = last + 1
      /\ seed'[r].table = t /\ seed'[r].offset = seed[r].offset
      /\ seed'[r].ids = seed[r].ids
      /\ Size(r)' = n /\ \A u : Noted(r, u)' = Noted(r, u)
  <2>1. "note" \in SeedPc /\ last + 1 \in Nat
    BY <1>1 DEF SeedPc
  <2>2. PICK id \in Nat : id = last + 1
    BY <2>1
  <2>3. seed' = [seed EXCEPT ![r] = [seed[r] EXCEPT !.pc = "note", !.insertId = id]]
    BY <1>5, <2>2
  <2>4. /\ seed' \in [SeedRun -> SeedPlace]
        /\ \A q \in SeedRun \ {r} : seed'[q] = seed[q]
        /\ seed'[r].pc = "note" /\ seed'[r].insertId = id
        /\ seed'[r].table = seed[r].table /\ seed'[r].offset = seed[r].offset
        /\ seed'[r].ids = seed[r].ids
        /\ Size(r)' = Size(r) /\ \A u : Noted(r, u)' = Noted(r, u)
    BY <2>1, <2>3, PlaceMoved
  <2> QED
    BY <1>0, <2>2, <2>4
<1>9. Accounted(r) /\ RowsOf(r, t) \subseteq 1 .. last
  BY <1>0, <1>1, RowsFinite DEF SeedInv
<1>10. AnswerHolds(r)'
  <2>1. (last + 1) .. (last + 1 + n - 1) \subseteq RowsOf(r, t)'
    BY <1>1, <1>6
  <2>2. ASSUME t \in Noting, NEW id \in ToSet(seed[r].ids[t]) PROVE id < last + 1
    <3>1. id \in 1 .. last
      BY <1>9, <2>2 DEF Accounted
    <3> QED
      BY <1>1, <3>1
  <2> QED
    BY <1>8, <2>1, <2>2 DEF AnswerHolds
<1>11. ASSUME NEW u \in Tables PROVE Cardinality(RowsOf(r, u)') \in Put(r, u)'
  <2>1. CASE u = t
    <3>1. Cardinality(RowsOf(r, t)) = seed[r].offset
      BY <1>0, <1>1, <1>4, <1>9 DEF Accounted, Put, Tables
    <3>2. Cardinality(RowsOf(r, t) \cup ((last + 1) .. (last + n)))
            = Cardinality(RowsOf(r, t)) + n
      BY <1>1, <1>9, CountAppended
    <3>3. Put(r, t)' = {seed[r].offset + n}
      BY <1>0, <1>1, <1>8 DEF Put, Tables
    <3> QED
      BY <1>6, <2>1, <3>1, <3>2, <3>3
  <2>2. CASE u # t
    <3>1. RowsOf(r, u)' = RowsOf(r, u)
      BY <1>6, <2>2
    <3>2. u < t \/ u > t
      BY <1>1, <2>2 DEF Tables
    <3>3. Put(r, u)' = Put(r, u)
      BY <1>0, <1>1, <1>8, <3>2 DEF Put, Tables
    <3> QED
      BY <1>9, <3>1, <3>3 DEF Accounted
  <2> QED
    BY <2>1, <2>2
<1>12. ASSUME NEW u \in Noting
       PROVE  /\ Len(seed'[r].ids[u]) = Noted(r, u)' /\ IsInjective(seed'[r].ids[u])
              /\ ToSet(seed'[r].ids[u]) \subseteq RowsOf(r, u)'
  <2>1. RowsOf(r, u) \subseteq RowsOf(r, u)'
    <3>1. u \in Tables
      BY DEF Noting, Tables
    <3>2. CASE u = t
      BY <1>6, <3>2
    <3>3. CASE u # t
      BY <1>6, <3>1, <3>3
    <3> QED
      BY <3>2, <3>3
  <2> QED
    BY <1>8, <1>9, <2>1 DEF Accounted
<1>13. Accounted(r)'
  BY <1>8, <1>10, <1>11, <1>12 DEF Accounted
<1>14. \A q \in Filling : q = r
  BY <1>4, NoOtherFills
<1>15. [by |-> r, number |-> 1] \in ToSet(stored'[1])
  <2>1. CASE r \in Filling
    BY <1>6, <2>1 DEF SeedInv
  <2>2. CASE r \notin Filling
    <3>1. t = 1 /\ seed[r].offset = 0
      BY <1>0, <2>2 DEF SeedInv
    <3>2. rows[1] \in ToSet(rows)
      BY <1>2 DEF ToSet
    <3>3. rows[1] \in ToSet(stored'[1])
      BY <1>6, <3>1, <3>2
    <3>4. rows[1] = [by |-> r, number |-> 1]
      BY <1>2, <3>1
    <3> QED
      BY <3>3, <3>4
  <2> QED
    BY <2>1, <2>2
<1>16. seed'[r].insertId # 0
  BY <1>1, <1>8
<1>17. \A q \in SeedRun \ {r}, u \in Tables : RowsOf(q, u)' = RowsOf(q, u)
  BY <1>6
<1> QED
  BY <1>3, <1>6, <1>8, <1>13, <1>14, <1>15, <1>16, <1>17, SeedTogether

\* A run that gives up keeps what it holds.
LEMMA GivesUp ==
  ASSUME SeedInv, NEW r \in SeedRun, seed[r].pc \in {"insert", "note"},
         seed' = [seed EXCEPT ![r].pc = "failed"],
         stored' \in [Tables -> Seq(SeedRow)], ToSet(stored[1]) \subseteq ToSet(stored'[1]),
         \A q \in SeedRun, t \in Tables : RowsOf(q, t)' = RowsOf(q, t)
  PROVE  SeedInv'
<1>1. seed' = [seed EXCEPT ![r] = [seed[r] EXCEPT !.pc = "failed", !.insertId = seed[r].insertId]]
  <2>1. seed[r] \in SeedPlace
    BY SeedTypes
  <2>2. [seed[r] EXCEPT !.pc = "failed"]
          = [seed[r] EXCEPT !.pc = "failed", !.insertId = seed[r].insertId]
    BY <2>1 DEF SeedPlace
  <2> QED
    BY <2>2
<1>2. /\ seed' \in [SeedRun -> SeedPlace]
      /\ \A q \in SeedRun \ {r} : seed'[q] = seed[q]
      /\ seed'[r].pc = "failed" /\ seed'[r].insertId = seed[r].insertId
      /\ seed'[r].table = seed[r].table /\ seed'[r].offset = seed[r].offset
      /\ seed'[r].ids = seed[r].ids
      /\ Size(r)' = Size(r) /\ \A t : Noted(r, t)' = Noted(r, t)
  <2>1. "failed" \in SeedPc /\ seed[r].insertId \in Nat
    BY SeedTypes DEF SeedPc
  <2> QED
    BY <1>1, <2>1, PlaceMoved
<1>3. Accounted(r)
  BY DEF SeedInv
<1>4. \A t \in Tables : Put(r, t) \subseteq Put(r, t)'
  BY <1>2 DEF Put
<1>5. Accounted(r)'
  <2>1. \A t \in Tables : Cardinality(RowsOf(r, t)') \in Put(r, t)'
    BY <1>3, <1>4 DEF Accounted
  <2>2. Noting \subseteq Tables
    BY DEF Noting, Tables
  <2> QED
    BY <1>2, <1>3, <2>1, <2>2 DEF Accounted
<1>6. seed'[r].insertId = 0 =>
        seed'[r].pc \in {"insert", "failed"} /\ seed'[r].table = 1 /\ seed'[r].offset = 0
  BY <1>2 DEF SeedInv, Filling
<1> QED
  BY <1>2, <1>5, <1>6, SeedTogether

LEMMA InsertRefusedStep ==
  ASSUME SeedInv, NEW r \in SeedRun, InsertRefused(r)
  PROVE  SeedInv'
<1>0. PICK t, none : t = seed[r].table /\ none = Nobody
  OBVIOUS
<1>1. t \in Tables
  BY <1>0, SeedTypes DEF Tables
<1>2. PICK rows \in Seq(SeedRow) :
        /\ \A i \in 1 .. Len(rows) : rows[i].by = none
        /\ stored' = [stored EXCEPT ![t] = stored[t] \o rows]
  <2> DEFINE batch == [i \in 1 .. Size(r) |-> [by |-> Nobody, number |-> seed[r].offset + i]]
  <2>1. batch \in Seq(SeedRow) /\ \A i \in 1 .. Len(batch) : batch[i].by = Nobody
    BY BatchRows
  <2>2. stored' = [stored EXCEPT ![t] = stored[t] \o batch]
    BY <1>0 DEF InsertRefused, AddRows
  <2> HIDE DEF batch
  <2> QED
    BY <1>0, <2>1, <2>2
<1>3. /\ stored' \in [Tables -> Seq(SeedRow)]
      /\ stored'[t] = stored[t] \o rows /\ \A u \in Tables \ {t} : stored'[u] = stored[u]
  <2>1. stored[t] \o rows \in Seq(SeedRow)
    BY <1>1, <1>2, SeedTypes
  <2> QED
    BY <1>1, <1>2, <2>1, SeedTypes
<1>4. /\ ToSet(stored[1]) \subseteq ToSet(stored'[1])
      /\ \A q, u : u \in Tables /\ (q # none \/ u # t) => RowsOf(q, u)' = RowsOf(q, u)
  <2>1. /\ ToSet(stored[1]) \subseteq ToSet(stored'[1])
        /\ ToSet(rows) \subseteq ToSet(stored'[t])
        /\ \A q, u : u \in Tables /\ (q # none \/ u # t) =>
                       RowsBy(stored'[u], q) = RowsOf(q, u)
        /\ RowsBy(stored'[t], none) = RowsOf(none, t) \cup
             ((Len(stored[t]) + 1) .. (Len(stored[t]) + Len(rows)))
    BY <1>1, <1>2, <1>3, RowsAppended
  <2>2. \A q, u : RowsOf(q, u)' = RowsBy(stored'[u], q)
    BY DEF RowsOf, RowsBy
  <2> QED
    BY <2>1, <2>2
<1>5. \A q \in SeedRun : q # none
  BY <1>0, SeedAssumption DEF Nobody
<1>6. seed[r].pc = "insert" /\ seed' = [seed EXCEPT ![r].pc = "failed"]
  BY DEF InsertRefused
<1> QED
  BY <1>3, <1>4, <1>5, <1>6, GivesUp

LEMMA BreakOffStep ==
  ASSUME SeedInv, NEW r \in SeedRun, BreakOff(r)
  PROVE  SeedInv'
<1>1. /\ seed[r].pc \in {"insert", "note"} /\ seed' = [seed EXCEPT ![r].pc = "failed"]
      /\ stored' = stored
  BY DEF BreakOff
<1>2. stored \in [Tables -> Seq(SeedRow)]
  BY SeedTypes
<1>3. \A q, t : RowsOf(q, t)' = RowsOf(q, t)
  BY <1>1 DEF RowsOf
<1> QED
  BY <1>1, <1>2, <1>3, GivesUp

\* The place behind a batch of which the ids are noted.
LEMMA Proceeds ==
  ASSUME SeedInv, NEW r \in SeedRun, NEW ids \in NotedIds, NEW s \in SeedPlace,
         s = [seed[r] EXCEPT !.ids = ids],
         seed' = [seed EXCEPT ![r] = Proceeded(s)]
  PROVE  /\ seed' \in [SeedRun -> SeedPlace]
         /\ \A q \in SeedRun \ {r} : seed'[q] = seed[q]
         /\ seed'[r].insertId = seed[r].insertId /\ seed'[r].ids = ids
         /\ \/ /\ seed[r].offset + BatchSize < Wanted
               /\ seed'[r].pc = "insert" /\ seed'[r].table = seed[r].table
               /\ seed'[r].offset = seed[r].offset + BatchSize
            \/ /\ seed[r].offset + BatchSize >= Wanted /\ seed[r].table < 4
               /\ seed'[r].pc = "insert" /\ seed'[r].table = seed[r].table + 1
               /\ seed'[r].offset = 0
            \/ /\ seed[r].offset + BatchSize >= Wanted /\ seed[r].table = 4
               /\ seed'[r].pc = "ended" /\ seed'[r].table = 4
               /\ seed'[r].offset = seed[r].offset
<1> DEFINE old == seed[r]
<1>1. /\ Wanted \in Nat /\ BatchSize \in Nat /\ Wanted > 0
      /\ seed \in [SeedRun -> SeedPlace] /\ old \in SeedPlace
      /\ old.table \in 1 .. 4 /\ old.offset \in Nat /\ old.offset \in Offsets
  BY SeedAssumption, SeedTypes DEF SeedPlace
<1>2. /\ s.ids = ids /\ s.table = old.table /\ s.offset = old.offset
      /\ s.insertId = old.insertId
  BY DEF SeedPlace
<1>3. PICK w : w = Proceeded(s)
  OBVIOUS
<1> HIDE DEF old
<1>4. /\ w \in SeedPlace /\ w.insertId = old.insertId /\ w.ids = ids
      /\ \/ /\ old.offset + BatchSize < Wanted
            /\ w.pc = "insert" /\ w.table = old.table /\ w.offset = old.offset + BatchSize
         \/ /\ old.offset + BatchSize >= Wanted /\ old.table < 4
            /\ w.pc = "insert" /\ w.table = old.table + 1 /\ w.offset = 0
         \/ /\ old.offset + BatchSize >= Wanted /\ old.table = 4
            /\ w.pc = "ended" /\ w.table = 4 /\ w.offset = old.offset
  <2>1. CASE old.offset + BatchSize < Wanted
    <3>1. PICK further \in Offsets : further = old.offset + BatchSize
      BY <1>1, <2>1 DEF Offsets
    <3>2. w = [s EXCEPT !.pc = "insert", !.offset = further]
      BY <1>1, <1>2, <1>3, <2>1, <3>1 DEF Proceeded
    <3>3. w \in SeedPlace /\ w.pc = "insert" /\ w.offset = further
          /\ w.table = s.table /\ w.insertId = s.insertId /\ w.ids = s.ids
      BY <3>2 DEF SeedPlace, SeedPc
    <3> QED
      BY <1>2, <2>1, <3>1, <3>3
  <2>2. CASE old.offset + BatchSize >= Wanted /\ old.table < 4
    <3>1. PICK next \in Tables : next = old.table + 1
      BY <1>1, <2>2 DEF Tables
    <3>2. w = [s EXCEPT !.pc = "insert", !.offset = 0, !.table = next]
      BY <1>1, <1>2, <1>3, <2>2, <3>1 DEF Proceeded
    <3>3. 0 \in Offsets
      BY <1>1 DEF Offsets
    <3>4. w \in SeedPlace /\ w.pc = "insert" /\ w.offset = 0
          /\ w.table = next /\ w.insertId = s.insertId /\ w.ids = s.ids
      BY <3>2, <3>3 DEF SeedPlace, SeedPc
    <3> QED
      BY <1>2, <2>2, <3>1, <3>4
  <2>3. CASE old.offset + BatchSize >= Wanted /\ ~(old.table < 4)
    <3>1. old.table = 4
      BY <1>1, <2>3
    <3>2. w = [s EXCEPT !.pc = "ended"]
      BY <1>1, <1>2, <1>3, <2>3 DEF Proceeded
    <3>3. w \in SeedPlace /\ w.pc = "ended" /\ w.offset = s.offset
          /\ w.table = s.table /\ w.insertId = s.insertId /\ w.ids = s.ids
      BY <3>2 DEF SeedPlace, SeedPc
    <3> QED
      BY <1>2, <2>3, <3>1, <3>3
  <2> QED
    BY <1>1, <2>1, <2>2, <2>3
<1>5. /\ seed' \in [SeedRun -> SeedPlace] /\ seed'[r] = w
      /\ \A q \in SeedRun \ {r} : seed'[q] = seed[q]
  BY <1>1, <1>3, <1>4
<1> QED
  BY <1>4, <1>5 DEF old

\* The ids of a batch, noted behind those of the same table.
LEMMA BatchNoted ==
  ASSUME SeedInv, NEW r \in SeedRun, NoteIds(r)
  PROVE  \E ids \in NotedIds, s \in SeedPlace :
           /\ s = [seed[r] EXCEPT !.ids = ids]
           /\ seed' = [seed EXCEPT ![r] = Proceeded(s)]
           /\ \A u \in Noting :
                /\ Len(ids[u]) = IF u = seed[r].table THEN seed[r].offset + Size(r)
                                                      ELSE Noted(r, u)
                /\ IsInjective(ids[u]) /\ ToSet(ids[u]) \subseteq RowsOf(r, u)
<1>1. PICK t, n, first : t = seed[r].table /\ n = Size(r) /\ first = seed[r].insertId
  OBVIOUS
<1>2. /\ t \in Tables /\ n \in Nat /\ n > 0 /\ first \in Nat /\ seed[r] \in SeedPlace
      /\ seed[r].ids \in NotedIds /\ seed[r].offset \in Nat
      /\ \A u \in Noting : seed[r].ids[u] \in Seq(Nat)
  BY <1>1, SeedTypes, SizeIs DEF Tables, NotedIds
<1>3. Accounted(r) /\ seed[r].pc = "note" /\ stored' = stored
  BY DEF SeedInv, NoteIds
<1>4. AnswerHolds(r)
  BY <1>3 DEF Accounted
<1>5. \A u \in Noting : /\ Len(seed[r].ids[u]) = Noted(r, u) /\ IsInjective(seed[r].ids[u])
                        /\ ToSet(seed[r].ids[u]) \subseteq RowsOf(r, u)
  BY <1>3 DEF Accounted
<1>6. CASE t \notin Noting
  <2>1. seed' = [seed EXCEPT ![r] = Proceeded(seed[r])]
    <3>1. Pushed(r) = seed[r]
      BY <1>1, <1>6 DEF Pushed
    <3>2. seed' = [seed EXCEPT ![r] = Proceeded(Pushed(r))]
      BY DEF NoteIds
    <3> QED
      BY <3>1, <3>2
  <2>2. seed[r] = [seed[r] EXCEPT !.ids = seed[r].ids]
    BY <1>2 DEF SeedPlace
  <2>3. \A u \in Noting : u # seed[r].table
    BY <1>1, <1>6
  <2> QED
    BY <1>2, <1>5, <2>1, <2>2, <2>3
<1>7. CASE t \in Noting
  <2>1. PICK batch : batch = [i \in 1 .. n |-> first + i - 1]
    OBVIOUS
  <2>2. PICK old \in Seq(Nat) : old = seed[r].ids[t]
    BY <1>2, <1>7
  <2>3. IsInjective(old) /\ \A id \in ToSet(old) : id < first
    BY <1>1, <1>4, <1>5, <1>7, <2>2 DEF AnswerHolds
  <2>4. /\ old \o batch \in Seq(Nat) /\ Len(old \o batch) = Len(old) + n
        /\ IsInjective(old \o batch)
        /\ ToSet(old \o batch) \subseteq ToSet(old) \cup (first .. first + n - 1)
    BY <1>2, <2>1, <2>3, IdsExtended
  <2>5. PICK all \in Seq(Nat) : all = old \o batch
    BY <2>4
  <2>6. PICK ids : ids = [seed[r].ids EXCEPT ![t] = all]
    OBVIOUS
  <2>7. /\ ids \in NotedIds /\ ids[t] = all
        /\ \A u \in Noting : u # t => ids[u] = seed[r].ids[u]
    BY <1>2, <1>7, <2>5, <2>6 DEF NotedIds
  <2>8. PICK s : s = [seed[r] EXCEPT !.ids = ids]
    OBVIOUS
  <2>9. s \in SeedPlace
    BY <1>2, <2>7, <2>8 DEF SeedPlace
  <2>10. seed' = [seed EXCEPT ![r] = Proceeded(s)]
    <3>1. s = [seed[r] EXCEPT !.ids[t] = @ \o batch]
      BY <1>2, <2>2, <2>5, <2>6, <2>8 DEF SeedPlace
    <3>2. Pushed(r) = s
      BY <1>1, <1>7, <2>1, <3>1 DEF Pushed
    <3>3. seed' = [seed EXCEPT ![r] = Proceeded(Pushed(r))]
      BY DEF NoteIds
    <3> QED
      BY <3>2, <3>3
  <2>11. Len(all) = seed[r].offset + n
    <3>1. Len(old) = seed[r].offset
      BY <1>1, <1>2, <1>5, <1>7, <2>2 DEF Noted, Tables
    <3> QED
      BY <2>4, <2>5, <3>1
  <2>12. IsInjective(all) /\ ToSet(all) \subseteq RowsOf(r, t)
    <3>1. first .. first + n - 1 \subseteq RowsOf(r, t)
      BY <1>1, <1>4 DEF AnswerHolds
    <3>2. ToSet(old) \subseteq RowsOf(r, t)
      BY <1>5, <1>7, <2>2
    <3> QED
      BY <2>4, <2>5, <3>1, <3>2
  <2>13. \A u \in Noting :
           /\ Len(ids[u]) = IF u = t THEN seed[r].offset + n ELSE Noted(r, u)
           /\ IsInjective(ids[u]) /\ ToSet(ids[u]) \subseteq RowsOf(r, u)
    BY <1>5, <2>7, <2>11, <2>12
  <2> QED
    BY <1>1, <2>7, <2>8, <2>9, <2>10, <2>13
<1> QED
  BY <1>6, <1>7

LEMMA NoteIdsStep ==
  ASSUME SeedInv, NEW r \in SeedRun, NoteIds(r)
  PROVE  SeedInv'
<1>1. PICK ids \in NotedIds, s \in SeedPlace :
        /\ s = [seed[r] EXCEPT !.ids = ids]
        /\ seed' = [seed EXCEPT ![r] = Proceeded(s)]
        /\ \A u \in Noting :
             /\ Len(ids[u]) = IF u = seed[r].table THEN seed[r].offset + Size(r)
                                                   ELSE Noted(r, u)
             /\ IsInjective(ids[u]) /\ ToSet(ids[u]) \subseteq RowsOf(r, u)
  BY BatchNoted
<1>2. /\ seed' \in [SeedRun -> SeedPlace]
      /\ \A q \in SeedRun \ {r} : seed'[q] = seed[q]
      /\ seed'[r].insertId = seed[r].insertId /\ seed'[r].ids = ids
      /\ \/ /\ seed[r].offset + BatchSize < Wanted
            /\ seed'[r].pc = "insert" /\ seed'[r].table = seed[r].table
            /\ seed'[r].offset = seed[r].offset + BatchSize
         \/ /\ seed[r].offset + BatchSize >= Wanted /\ seed[r].table < 4
            /\ seed'[r].pc = "insert" /\ seed'[r].table = seed[r].table + 1
            /\ seed'[r].offset = 0
         \/ /\ seed[r].offset + BatchSize >= Wanted /\ seed[r].table = 4
            /\ seed'[r].pc = "ended" /\ seed'[r].table = 4
            /\ seed'[r].offset = seed[r].offset
  BY <1>1, Proceeds
<1>3. Accounted(r) /\ seed[r].pc = "note" /\ stored' = stored
  BY DEF SeedInv, NoteIds
<1>4. /\ seed[r].table \in 1 .. 4 /\ seed[r].offset \in Nat /\ Wanted \in Nat /\ BatchSize \in Nat
      /\ Size(r) \in Nat
      /\ seed[r].offset + BatchSize < Wanted => Size(r) = BatchSize
      /\ seed[r].offset + BatchSize >= Wanted => seed[r].offset + Size(r) = Wanted
  BY SeedAssumption, SeedTypes, SizeIs
<1>5. \A u : RowsOf(r, u)' = RowsOf(r, u)
  BY <1>3 DEF RowsOf
<1>6. \A q, u : RowsOf(q, u)' = RowsOf(q, u)
  BY <1>3 DEF RowsOf
<1>7. ASSUME NEW u \in Tables PROVE Put(r, u) = Put(r, u)'
  <2>1. u \in 1 .. 4
    BY DEF Tables
  <2>2. CASE seed[r].offset + BatchSize < Wanted
    <3>1. /\ seed'[r].pc = "insert" /\ seed'[r].table = seed[r].table
          /\ seed'[r].offset = seed[r].offset + Size(r)
      BY <1>2, <1>4, <2>2
    <3> QED
      BY <1>3, <1>4, <2>1, <3>1 DEF Put
  <2>3. CASE seed[r].offset + BatchSize >= Wanted /\ seed[r].table < 4
    <3>1. /\ seed'[r].pc = "insert" /\ seed'[r].table = seed[r].table + 1
          /\ seed'[r].offset = 0 /\ seed[r].offset + Size(r) = Wanted
      BY <1>2, <1>4, <2>3
    <3>2. u < seed[r].table \/ u = seed[r].table \/ u = seed[r].table + 1
            \/ u > seed[r].table + 1
      BY <1>4, <2>1
    <3>3. CASE u < seed[r].table
      BY <1>3, <1>4, <2>1, <3>1, <3>3 DEF Put
    <3>4. CASE u = seed[r].table
      BY <1>3, <1>4, <2>1, <3>1, <3>4 DEF Put
    <3>5. CASE u = seed[r].table + 1
      BY <1>3, <1>4, <2>1, <3>1, <3>5 DEF Put
    <3>6. CASE u > seed[r].table + 1
      BY <1>3, <1>4, <2>1, <3>1, <3>6 DEF Put
    <3> QED
      BY <3>2, <3>3, <3>4, <3>5, <3>6
  <2>4. CASE seed[r].offset + BatchSize >= Wanted /\ seed[r].table = 4
    <3>1. /\ seed'[r].pc = "ended" /\ seed'[r].table = seed[r].table
          /\ seed[r].offset + Size(r) = Wanted
      BY <1>2, <1>4, <2>4
    <3> QED
      BY <1>3, <1>4, <2>1, <3>1 DEF Put
  <2> QED
    BY <1>2, <2>2, <2>3, <2>4
<1>8. ASSUME NEW u \in Noting PROVE Len(ids[u]) = Noted(r, u)'
  <2>1. u \in 1 .. 3
    BY DEF Noting
  <2>2. Len(ids[u]) = IF u = seed[r].table THEN seed[r].offset + Size(r) ELSE Noted(r, u)
    BY <1>1
  <2> QED
    BY <1>2, <1>4, <2>1, <2>2 DEF Noted
<1>9. Accounted(r)'
  <2>1. seed'[r].pc # "note" /\ (seed'[r].pc = "ended" => seed'[r].table = 4)
    BY <1>2
  <2>2. \A u \in Tables : Cardinality(RowsOf(r, u)') \in Put(r, u)'
    BY <1>3, <1>5, <1>7 DEF Accounted
  <2>3. \A u \in Noting : /\ Len(seed'[r].ids[u]) = Noted(r, u)'
                          /\ IsInjective(seed'[r].ids[u])
                          /\ ToSet(seed'[r].ids[u]) \subseteq RowsOf(r, u)'
    BY <1>1, <1>2, <1>5, <1>8
  <2> QED
    BY <2>1, <2>2, <2>3 DEF Accounted
<1>10. seed[r].insertId # 0
  BY <1>3 DEF SeedInv, Filling
<1>11. stored' \in [Tables -> Seq(SeedRow)] /\ ToSet(stored[1]) \subseteq ToSet(stored'[1])
  BY <1>3, SeedTypes
<1> QED
  BY <1>2, <1>6, <1>9, <1>10, <1>11, SeedTogether

\* Rows of others are nobody's that seeds.
LEMMA ApiInsertsStep ==
  ASSUME SeedInv, NEW t \in Tables, ApiInserts(t)
  PROVE  SeedInv'
<1>1. seed' = seed
  BY DEF ApiInserts
<1>0. PICK others : others = Others
  OBVIOUS
<1>2. PICK rows \in Seq(SeedRow) :
        /\ \A i \in 1 .. Len(rows) : rows[i].by = others
        /\ stored' = [stored EXCEPT ![t] = stored[t] \o rows]
  <2> DEFINE row == [by |-> Others, number |-> 0]
  <2>1. row \in SeedRow /\ row.by = Others
    BY SeedAssumption DEF SeedRow
  <2>2. stored' = [stored EXCEPT ![t] = Append(stored[t], row)]
    BY DEF ApiInserts
  <2> HIDE DEF row
  <2>3. stored[t] \in Seq(SeedRow)
    BY SeedTypes
  <2>4. Append(stored[t], row) = stored[t] \o <<row>>
    BY <2>1, <2>3
  <2>5. /\ <<row>> \in Seq(SeedRow) /\ Len(<<row>>) = 1
        /\ \A i \in 1 .. 1 : <<row>>[i].by = Others
    BY <2>1
  <2>6. PICK rows : rows = <<row>>
    OBVIOUS
  <2>7. stored' = [stored EXCEPT ![t] = stored[t] \o rows]
    BY <2>2, <2>4, <2>6
  <2> QED
    BY <1>0, <2>5, <2>6, <2>7
<1>3. /\ stored' \in [Tables -> Seq(SeedRow)]
      /\ stored'[t] = stored[t] \o rows /\ \A u \in Tables \ {t} : stored'[u] = stored[u]
  <2>1. stored[t] \o rows \in Seq(SeedRow)
    BY <1>2, SeedTypes
  <2> QED
    BY <1>2, <2>1, SeedTypes
<1>4. /\ ToSet(stored[1]) \subseteq ToSet(stored'[1])
      /\ \A q, u : u \in Tables /\ (q # others \/ u # t) => RowsOf(q, u)' = RowsOf(q, u)
  <2>1. /\ ToSet(stored[1]) \subseteq ToSet(stored'[1])
        /\ ToSet(rows) \subseteq ToSet(stored'[t])
        /\ \A q, u : u \in Tables /\ (q # others \/ u # t) =>
                       RowsBy(stored'[u], q) = RowsOf(q, u)
        /\ RowsBy(stored'[t], others) = RowsOf(others, t) \cup
             ((Len(stored[t]) + 1) .. (Len(stored[t]) + Len(rows)))
    BY <1>2, <1>3, RowsAppended
  <2>2. \A q, u : RowsOf(q, u)' = RowsBy(stored'[u], q)
    BY DEF RowsOf, RowsBy
  <2> QED
    BY <2>1, <2>2
<1>5. \A q \in SeedRun : q # others
  BY <1>0, SeedAssumption DEF Others
<1>6. \A q \in SeedRun, u \in Tables : RowsOf(q, u)' = RowsOf(q, u)
  BY <1>4, <1>5
<1>7. seed \in [SeedRun -> SeedPlace]
  BY SeedTypes
<1>8. CASE SeedRun = {}
  <2>1. SeedTypeOK'
    BY <1>1, <1>3, <1>7 DEF SeedTypeOK, SeedRow, SeedPc, Offsets, NotedIds, SeedPlace
  <2>2. Filling' = {}
    BY <1>8 DEF Filling
  <2> QED
    BY <1>8, <2>1, <2>2 DEF SeedInv
<1>9. ASSUME NEW r \in SeedRun PROVE SeedInv'
  <2>1. Accounted(r) /\ seed[r].table \in Tables
    BY SeedTypes DEF SeedInv, Tables
  <2>2. Accounted(r)'
    BY <1>1, <1>6, <2>1, AccountedKept
  <2>3. seed'[r].insertId = 0 =>
          seed'[r].pc \in {"insert", "failed"} /\ seed'[r].table = 1 /\ seed'[r].offset = 0
    BY <1>1 DEF SeedInv, Filling
  <2> QED
    BY <1>1, <1>3, <1>4, <1>6, <1>7, <2>2, <2>3, SeedTogether
<1> QED
  BY <1>8, <1>9

LEMMA InitSeed == SeedInit => SeedInv
<1> SUFFICES ASSUME SeedInit PROVE SeedInv
  OBVIOUS
<1>1. Wanted \in Nat /\ Wanted > 0 /\ BatchSize \in Nat /\ BatchSize > 0
  BY SeedAssumption
<1>2. stored = [t \in Tables |-> << >>]
  BY DEF SeedInit
<1>3. \A r \in SeedRun : /\ seed[r].pc = "insert" /\ seed[r].table = 1 /\ seed[r].offset = 0
                         /\ seed[r].insertId = 0 /\ seed[r].ids = [t \in Noting |-> << >>]
  BY DEF SeedInit
<1>4. SeedTypeOK
  <2>1. stored \in [Tables -> Seq(SeedRow)]
    BY <1>2
  <2>2. PICK none : none = [t \in Noting |-> << >>]
    OBVIOUS
  <2>3. none \in NotedIds
    BY <2>2 DEF NotedIds
  <2>4. 0 \in Offsets /\ 1 \in Tables /\ "insert" \in SeedPc
    BY <1>1 DEF Offsets, Tables, SeedPc
  <2>5. [pc |-> "insert", table |-> 1, offset |-> 0, insertId |-> 0, ids |-> none] \in SeedPlace
    BY <2>3, <2>4 DEF SeedPlace
  <2>6. seed \in [SeedRun -> SeedPlace]
    BY <2>2, <2>5 DEF SeedInit
  <2> QED
    BY <2>1, <2>6 DEF SeedTypeOK, SeedRow, SeedPc, Offsets, NotedIds, SeedPlace
<1>5. Filling = {}
  BY <1>3 DEF Filling
<1>6. ASSUME NEW r \in SeedRun PROVE Accounted(r)
  <2>1. \A t \in Tables : RowsOf(r, t) = {}
    BY <1>2 DEF RowsOf
  <2>2. \A t \in Tables : Cardinality(RowsOf(r, t)) = 0
    BY <2>1, FS_EmptySet
  <2>3. \A t \in Tables : 0 \in Put(r, t)
    BY <1>3 DEF Put, Tables
  <2>4. \A t \in Noting : Noted(r, t) = 0
    BY <1>3 DEF Noted, Noting
  <2>5. \A t \in Noting : seed[r].ids[t] = << >>
    BY <1>3
  <2>6. Len(<< >>) = 0 /\ IsInjective(<< >>) /\ ToSet(<< >>) = {}
    BY DEF IsInjective, ToSet
  <2> QED
    BY <1>3, <2>2, <2>3, <2>4, <2>5, <2>6 DEF Accounted
<1> QED
  BY <1>3, <1>4, <1>5, <1>6 DEF SeedInv

LEMMA SeedSteps == SeedInv /\ [SeedNext]_seedVars => SeedInv'
<1> SUFFICES ASSUME SeedInv, [SeedNext]_seedVars PROVE SeedInv'
  OBVIOUS
<1>1. ASSUME NEW r \in SeedRun, InsertBatch(r) PROVE SeedInv'
  BY <1>1, InsertBatchStep
<1>2. ASSUME NEW r \in SeedRun, InsertRefused(r) PROVE SeedInv'
  BY <1>2, InsertRefusedStep
<1>3. ASSUME NEW r \in SeedRun, NoteIds(r) PROVE SeedInv'
  BY <1>3, NoteIdsStep
<1>4. ASSUME NEW r \in SeedRun, BreakOff(r) PROVE SeedInv'
  BY <1>4, BreakOffStep
<1>5. ASSUME NEW t \in Tables, ApiInserts(t) PROVE SeedInv'
  BY <1>5, ApiInsertsStep
<1>6. CASE UNCHANGED seedVars
  <2>1. stored' = stored /\ seed' = seed
    BY <1>6 DEF seedVars
  <2> QED
    <3>1. SeedTypeOK' /\ Filling' = Filling
      BY <2>1 DEF SeedInv, SeedTypeOK, Filling
    <3>2. \A r, t : RowsOf(r, t)' = RowsOf(r, t)
      BY <2>1 DEF RowsOf
    <3>3. ASSUME NEW r \in SeedRun PROVE Accounted(r)'
      <4>1. Accounted(r) /\ seed[r].table \in Tables /\ seed'[r] = seed[r]
        BY <2>1, SeedTypes DEF SeedInv, Tables
      <4> QED
        BY <3>2, <4>1, AccountedKept
    <3> QED
      BY <2>1, <3>1, <3>3 DEF SeedInv
<1> QED
  BY <1>1, <1>2, <1>3, <1>4, <1>5, <1>6 DEF SeedNext

\* What the invariant says of a run that has inserted anything.
LEMMA SeedMeans == SeedInv => SeedExact
<1> SUFFICES ASSUME SeedInv PROVE SeedExact
  OBVIOUS
<1>1. Wanted \in Nat /\ Wanted > 0 /\ BatchSize \in Nat /\ BatchSize > 0
  BY SeedAssumption
<1>2. Cardinality(Filling) <= 1
  <2>1. CASE Filling = {}
    BY <2>1, FS_EmptySet
  <2>2. CASE Filling # {}
    <3>1. PICK r : Filling = {r}
      BY <2>2 DEF SeedInv
    <3>2. Cardinality({r}) = 1
      BY FS_Singleton
    <3> QED
      BY <3>1, <3>2
  <2> QED
    BY <2>1, <2>2
<1>3. ASSUME NEW r \in SeedRun, NEW t \in Noting
      PROVE  /\ Cardinality(RowsOf(r, t)) <= Len(seed[r].ids[t]) + BatchSize
             /\ RowsOf(r, t + 1) # {} => Len(seed[r].ids[t]) = Wanted
  <2>1. /\ t \in 1 .. 3 /\ t \in Tables /\ t + 1 \in Tables
        /\ seed[r].table \in 1 .. 4 /\ seed[r].offset \in Nat
        /\ Size(r) \in Nat /\ Size(r) <= BatchSize
    BY SeedTypes, SizeIs DEF Noting, Tables
  <2>2. /\ Cardinality(RowsOf(r, t)) \in Put(r, t) /\ Len(seed[r].ids[t]) = Noted(r, t)
        /\ Cardinality(RowsOf(r, t + 1)) \in Put(r, t + 1)
        /\ seed[r].pc = "ended" => seed[r].table = 4
    BY <2>1 DEF SeedInv, Accounted
  <2>3. seed[r].pc \in SeedPc
    BY SeedTypes DEF SeedPlace
  <2>4. \/ Cardinality(RowsOf(r, t)) = Noted(r, t)
        \/ Cardinality(RowsOf(r, t)) = Noted(r, t) + Size(r)
    BY <1>1, <2>1, <2>2, <2>3 DEF Put, Noted, SeedPc
  <2>5. Noted(r, t) \in Nat
    BY <1>1, <2>1 DEF Noted
  <2>6. ASSUME RowsOf(r, t + 1) # {} PROVE Len(seed[r].ids[t]) = Wanted
    <3>1. IsFiniteSet(RowsOf(r, t + 1))
      BY <2>1, RowsFinite
    <3>2. Cardinality(RowsOf(r, t + 1)) # 0
      BY <2>6, <3>1, FS_EmptySet
    <3>3. t < seed[r].table
      BY <2>1, <2>2, <3>2 DEF Put
    <3> QED
      BY <2>1, <2>2, <3>3 DEF Noted
  <2>7. Cardinality(RowsOf(r, t)) <= Len(seed[r].ids[t]) + BatchSize
    BY <1>1, <2>1, <2>2, <2>4, <2>5
  <2> QED
    BY <2>6, <2>7
<1>4. ASSUME NEW r \in SeedRun, seed[r].pc = "ended", NEW t \in Tables
      PROVE  Cardinality(RowsOf(r, t)) = Wanted
  <2>1. /\ seed[r].table = 4 /\ Cardinality(RowsOf(r, t)) \in Put(r, t) /\ t \in 1 .. 4
    BY <1>4 DEF SeedInv, Accounted, Tables
  <2> QED
    BY <1>4, <2>1 DEF Put
<1>5. \A r \in SeedRun, t \in Noting : /\ IsInjective(seed[r].ids[t])
                                       /\ ToSet(seed[r].ids[t]) \subseteq RowsOf(r, t)
  BY DEF SeedInv, Accounted
<1>6. Filling \subseteq SeedRun
  BY DEF Filling
<1> QED
  BY <1>2, <1>3, <1>4, <1>5, <1>6 DEF SeedExact

\* The place of every run, the rows of the tables and the ids that it noted
\* agree in every reachable state, however many run db:seed.
THEOREM SeedInvariance == SeedSpec => []SeedInv
<1>1. SeedInit => SeedInv
  BY InitSeed
<1>2. SeedInv /\ [SeedNext]_seedVars => SeedInv'
  BY SeedSteps
<1> QED
  BY <1>1, <1>2, PTL DEF SeedSpec

\* A run refers to its own rows only, ends with exactly what was wanted, and is
\* the only one of all that inserts anything.
THEOREM SeedIsExact == SeedSpec => []SeedExact
<1>1. SeedInv => SeedExact
  BY SeedMeans
<1> QED
  BY <1>1, SeedInvariance, PTL

-----------------------------------------------------------------------------
(* Pages.                                                                  *)

WalkKind == {"cursor", "offset", "list"}
WalkPc   == {"new", "more", "end"}
WalkRow(rows) == [kind : WalkKind, all : BOOLEAN, pc : WalkPc, place : Nat, pages : Seq(rows)]

LEMMA PagesTypes ==
  ASSUME PagesTypeOK
  PROVE  /\ made \in Seq(Order) /\ Len(made) \in Nat /\ Len(made) <= MaxOrder
         /\ DOMAIN made = 1 .. Len(made)
         /\ \A i \in DOMAIN made : i \in Nat /\ i >= 1 /\ made[i] \in Order /\ made[i].at \in Nat
         /\ walk \in WalkRow(DOMAIN made) /\ walk.pages \in Seq(DOMAIN made)
         /\ Len(walk.pages) \in Nat /\ DOMAIN walk.pages = 1 .. Len(walk.pages)
         /\ \A i \in DOMAIN walk.pages : walk.pages[i] \in DOMAIN made
         /\ walk.place \in Nat /\ walk.pc \in WalkPc /\ walk.kind \in WalkKind
<1>1. made \in Seq(Order) /\ Len(made) <= MaxOrder /\ walk \in WalkRow(DOMAIN made)
  BY DEF PagesTypeOK, WalkRow, WalkKind, WalkPc
<1>2. Len(made) \in Nat /\ DOMAIN made = 1 .. Len(made)
  BY <1>1, LenProperties
<1>3. \A i \in DOMAIN made : i \in Nat /\ i >= 1 /\ made[i] \in Order
  BY <1>1, <1>2
<1>4. \A x \in Order : x.at \in Nat
  BY PagesAssumption DEF Order
<1>5. /\ walk.pages \in Seq(DOMAIN made) /\ walk.place \in Nat /\ walk.pc \in WalkPc
      /\ walk.kind \in WalkKind
  BY <1>1 DEF WalkRow
<1>6. Len(walk.pages) \in Nat /\ DOMAIN walk.pages = 1 .. Len(walk.pages)
  BY <1>5, LenProperties
<1>7. \A i \in DOMAIN walk.pages : walk.pages[i] \in DOMAIN made
  BY <1>5, <1>6, ElementOfSeq
<1> QED
  BY <1>1, <1>2, <1>3, <1>4, <1>5, <1>6, <1>7

\* ORDER BY created_at DESC, id DESC is a total order of the orders.
LEMMA NewerOrders ==
  ASSUME PagesTypeOK, NEW i \in DOMAIN made, NEW j \in DOMAIN made
  PROVE  /\ Newer(i, j) => i # j /\ ~Newer(j, i)
         /\ i # j => Newer(i, j) \/ Newer(j, i)
         /\ \A k \in DOMAIN made : Newer(i, j) /\ Newer(j, k) => Newer(i, k)
<1>1. \A k \in DOMAIN made : k \in Nat /\ made[k].at \in Nat
  BY PagesTypes
<1> QED
  BY <1>1 DEF Newer

LEMMA SeenIs ==
  ASSUME PagesTypeOK
  PROVE  Seen \subseteq DOMAIN made /\ IsFiniteSet(Seen) /\ IsFiniteSet(DOMAIN made)
         /\ \A S \in SUBSET DOMAIN made : IsFiniteSet(S) /\ Cardinality(S) <= MaxOrder
<1>1. Len(made) \in Nat /\ Len(made) <= MaxOrder /\ DOMAIN made = 1 .. Len(made)
  BY PagesTypes
<1>2. IsFiniteSet(DOMAIN made) /\ Cardinality(DOMAIN made) = Len(made)
  <2> DEFINE n == Len(made)
  <2> HIDE DEF n
  <2>1. n \in Nat /\ DOMAIN made = 1 .. n
    BY <1>1 DEF n
  <2>2. IsFiniteSet(1 .. n) /\ Cardinality(1 .. n) = n
    BY <2>1, FS_Interval
  <2> QED
    BY <2>1, <2>2 DEF n
<1>3. Seen \subseteq DOMAIN made
  BY DEF Seen, Sees, AllOrders
<1>4. ASSUME NEW S \in SUBSET DOMAIN made
      PROVE  IsFiniteSet(S) /\ Cardinality(S) <= MaxOrder
  <2>1. IsFiniteSet(S) /\ Cardinality(S) <= Cardinality(DOMAIN made)
    BY <1>2, FS_Subset
  <2>2. Cardinality(S) \in Nat
    BY <2>1, FS_CardinalityType
  <2> QED
    BY <1>1, <1>2, <2>1, <2>2, PagesAssumption
<1> QED
  BY <1>2, <1>3, <1>4

\* A SELECT returns each of its rows once.
LEMMA RowsRead ==
  ASSUME NEW S, IsFiniteSet(S), NEW s \in SetToSeqs(S)
  PROVE  /\ s \in Seq(S) /\ Len(s) = Cardinality(S) /\ Len(s) \in Nat /\ DOMAIN s = 1 .. Len(s)
         /\ \A i \in 1 .. Len(s) : s[i] \in S
         /\ \A x \in S : \E i \in 1 .. Len(s) : s[i] = x
         /\ \A i, j \in 1 .. Len(s) : i # j => s[i] # s[j]
<1> DEFINE n == Cardinality(S)
<1>1. n \in Nat
  BY FS_CardinalityType
<1>2. s \in [1 .. n -> S] /\ \A i, j \in 1 .. n : i # j => s[i] # s[j]
  BY DEF SetToSeqs
<1>3. s \in Injection(1 .. n, S)
  BY <1>2 DEF Injection, IsInjective
<1>4. Cardinality(1 .. n) = n
  BY <1>1, FS_Interval
<1>5. s \in Surjection(1 .. n, S)
  BY <1>3, <1>4, FS_Injection
<1>6. \A x \in S : \E i \in 1 .. n : s[i] = x
  BY <1>5 DEF Surjection
<1>7. s \in Seq(S) /\ Len(s) = n /\ DOMAIN s = 1 .. n
  BY <1>1, <1>2
<1> QED
  BY <1>1, <1>2, <1>6, <1>7

\* LIMIT n OFFSET offset.
LEMMA CutIs ==
  ASSUME NEW S, NEW rows \in Seq(S), NEW offset \in Nat, NEW n \in Nat
  PROVE  /\ Cut(rows, offset, n) \in Seq(S) /\ Len(Cut(rows, offset, n)) \in 0 .. n
         /\ Len(Cut(rows, offset, n)) > 0 => offset + Len(Cut(rows, offset, n)) <= Len(rows)
         /\ Len(Cut(rows, offset, n)) < n => Len(rows) <= offset + Len(Cut(rows, offset, n))
         /\ \A i \in 1 .. Len(Cut(rows, offset, n)) : Cut(rows, offset, n)[i] = rows[offset + i]
<1> DEFINE last == IF offset + n < Len(rows) THEN offset + n ELSE Len(rows)
           page == SubSeq(rows, offset + 1, last)
<1>1. Len(rows) \in Nat
  BY LenProperties
<1>2. last \in Nat /\ last <= Len(rows)
  BY <1>1
<1>3. \A i \in offset + 1 .. last : rows[i] \in S
  BY <1>2
<1>4. /\ page \in Seq(S)
      /\ Len(page) = IF offset + 1 <= last THEN last - (offset + 1) + 1 ELSE 0
      /\ \A i \in 1 .. last - (offset + 1) + 1 : page[i] = rows[offset + 1 + i - 1]
  <2> HIDE DEF last
  <2> QED
    BY <1>2, <1>3, SubSeqProperties
<1>5. Cut(rows, offset, n) = page
  BY DEF Cut
<1> HIDE DEF page
<1>6. /\ Len(page) \in 0 .. n
      /\ Len(page) > 0 => offset + Len(page) <= Len(rows)
      /\ Len(page) < n => Len(rows) <= offset + Len(page)
  BY <1>1, <1>4
<1>7. \A i \in 1 .. Len(page) : page[i] = rows[offset + i]
  <2> TAKE i \in 1 .. Len(page)
  <2>1. i \in 1 .. last - (offset + 1) + 1 /\ offset + 1 + i - 1 = offset + i
    BY <1>2, <1>4, <1>6
  <2> QED
    BY <1>4, <2>1
<1> QED
  BY <1>4, <1>5, <1>6, <1>7

\* The rows of a query, newest first, and the page that is cut from them.
LEMMA SortedRows ==
  ASSUME PagesTypeOK, NEW S \in SUBSET DOMAIN made, NEW rows \in Sorted(S)
  PROVE  /\ rows \in Seq(S) /\ Len(rows) = Cardinality(S) /\ Len(rows) \in Nat
         /\ Len(rows) <= MaxOrder /\ DOMAIN rows = 1 .. Len(rows)
         /\ \A i \in 1 .. Len(rows) : rows[i] \in S /\ rows[i] \in DOMAIN made
         /\ \A x \in S : \E i \in 1 .. Len(rows) : rows[i] = x
         /\ \A i, j \in 1 .. Len(rows) : i < j => Newer(rows[i], rows[j])
<1>1. IsFiniteSet(S) /\ Cardinality(S) <= MaxOrder
  BY SeenIs
<1>2. rows \in SetToSeqs(S) /\ \A i, j \in DOMAIN rows : i < j => Newer(rows[i], rows[j])
  BY DEF Sorted
<1> QED
  BY <1>1, <1>2, RowsRead

\* A page appended to the pages before it: all of its rows come after all of theirs.
LEMMA Appended ==
  ASSUME NEW S, NEW T \in Seq(S), NEW page \in Seq(S)
  PROVE  /\ T \o page \in Seq(S) /\ DOMAIN (T \o page) = 1 .. Len(T \o page)
         /\ Len(T) \in Nat /\ Len(page) \in Nat /\ Len(T \o page) = Len(T) + Len(page)
         /\ DOMAIN T = 1 .. Len(T) /\ DOMAIN page = 1 .. Len(page)
         /\ \A i \in 1 .. Len(T) : i \in DOMAIN (T \o page) /\ (T \o page)[i] = T[i]
         /\ \A i \in 1 .. Len(page) : /\ Len(T) + i \in DOMAIN (T \o page)
                                      /\ (T \o page)[Len(T) + i] = page[i]
         /\ \A i \in 1 .. Len(T \o page) :
              \/ i \in 1 .. Len(T) /\ (T \o page)[i] = T[i]
              \/ /\ i > Len(T) /\ i - Len(T) \in 1 .. Len(page)
                 /\ (T \o page)[i] = page[i - Len(T)]
         /\ ToSet(T \o page) = ToSet(T) \union ToSet(page)
<1>1. /\ T \o page \in Seq(S) /\ Len(T \o page) = Len(T) + Len(page)
      /\ \A i \in 1 .. Len(T) + Len(page) :
           (T \o page)[i] = IF i <= Len(T) THEN T[i] ELSE page[i - Len(T)]
  BY ConcatProperties
<1>2. Len(T) \in Nat /\ Len(page) \in Nat /\ DOMAIN T = 1 .. Len(T) /\ DOMAIN page = 1 .. Len(page)
      /\ DOMAIN (T \o page) = 1 .. Len(T) + Len(page)
  BY <1>1, LenProperties
<1>3. \A i \in 1 .. Len(T) : i \in DOMAIN (T \o page) /\ (T \o page)[i] = T[i]
  BY <1>1, <1>2
<1>4. \A i \in 1 .. Len(page) : /\ Len(T) + i \in DOMAIN (T \o page)
                                /\ (T \o page)[Len(T) + i] = page[i]
  <2> TAKE i \in 1 .. Len(page)
  <2>1. Len(T) + i \in 1 .. Len(T) + Len(page) /\ ~(Len(T) + i <= Len(T)) /\ Len(T) + i - Len(T) = i
    BY <1>2
  <2> QED
    BY <1>1, <1>2, <2>1
<1>5. \A i \in 1 .. Len(T) + Len(page) :
        \/ i \in 1 .. Len(T) /\ (T \o page)[i] = T[i]
        \/ /\ i > Len(T) /\ i - Len(T) \in 1 .. Len(page)
           /\ (T \o page)[i] = page[i - Len(T)]
  BY <1>1, <1>2
<1>6. ToSet(T \o page) = ToSet(T) \union ToSet(page)
  <2>1. ASSUME NEW x \in ToSet(T \o page) PROVE x \in ToSet(T) \union ToSet(page)
    <3>1. PICK i \in 1 .. Len(T) + Len(page) : x = (T \o page)[i]
      BY <1>2 DEF ToSet
    <3> QED
      BY <1>2, <1>5, <3>1 DEF ToSet
  <2>2. ASSUME NEW x \in ToSet(T) PROVE x \in ToSet(T \o page)
    BY <1>2, <1>3 DEF ToSet
  <2>3. ASSUME NEW x \in ToSet(page) PROVE x \in ToSet(T \o page)
    BY <1>2, <1>4 DEF ToSet
  <2> QED
    BY <2>1, <2>2, <2>3
<1> QED
  BY <1>1, <1>2, <1>3, <1>4, <1>5, <1>6

LEMMA DescendingOn ==
  ASSUME NEW T \in Seq(DOMAIN made), NEW page \in Seq(DOMAIN made),
         \A i, j \in 1 .. Len(T) : i < j => Newer(T[i], T[j]),
         \A i, j \in 1 .. Len(page) : i < j => Newer(page[i], page[j]),
         \A i \in 1 .. Len(T), j \in 1 .. Len(page) : Newer(T[i], page[j])
  PROVE  \A i, j \in 1 .. Len(T \o page) : i < j => Newer((T \o page)[i], (T \o page)[j])
<1> DEFINE n == Len(T)
<1> SUFFICES ASSUME NEW i \in 1 .. Len(T \o page), NEW j \in 1 .. Len(T \o page), i < j
             PROVE  Newer((T \o page)[i], (T \o page)[j])
  OBVIOUS
<1>1. n \in Nat /\ Len(T \o page) \in Nat
  <2>1. n \in Nat /\ Len(page) \in Nat /\ Len(T \o page) = n + Len(page)
    BY Appended
  <2> QED
    BY <2>1
<1>2. CASE j \in 1 .. n
  <2>1. i \in 1 .. n
    BY <1>1, <1>2
  <2>2. (T \o page)[i] = T[i] /\ (T \o page)[j] = T[j]
    BY <1>2, <2>1, Appended
  <2> QED
    BY <1>2, <2>1, <2>2
<1>3. CASE j \notin 1 .. n
  <2>1. j - n \in 1 .. Len(page) /\ (T \o page)[j] = page[j - n]
    BY <1>3, Appended
  <2>2. CASE i \in 1 .. n
    <3>1. (T \o page)[i] = T[i]
      BY <2>2, Appended
    <3> QED
      BY <2>1, <2>2, <3>1
  <2>3. CASE i \notin 1 .. n
    <3>1. i - n \in 1 .. Len(page) /\ (T \o page)[i] = page[i - n]
      BY <2>3, Appended
    <3>2. i - n < j - n
      BY <1>1
    <3> HIDE DEF n
    <3> QED
      BY <2>1, <3>1, <3>2
  <2> QED
    BY <2>2, <2>3
<1> QED
  BY <1>2, <1>3

\* What a page does to the walk.
Turned(page, place, more) ==
  /\ walk' = [walk EXCEPT !.pages = @ \o page, !.place = place,
                          !.pc = IF more THEN "more" ELSE "end"]
  /\ First /\ UNCHANGED writes

LEMMA TurnedIs ==
  ASSUME PagesInv, NEW page \in Seq(Seen), NEW place \in Nat, NEW more \in BOOLEAN,
         place <= MaxOrder + (IF more THEN 0 ELSE PageLimit),
         walk.pc # "end", Turned(page, place, more)
  PROVE  /\ walk'.kind = walk.kind /\ walk'.all = walk.all /\ walk'.place = place
         /\ walk'.pages = walk.pages \o page /\ walk'.pc = IF more THEN "more" ELSE "end"
         /\ made' = made /\ Seen' = Seen /\ always' \subseteq Seen /\ quiet' \in BOOLEAN
         /\ walk.pc = "new" => /\ always' = Seen /\ quiet' = TRUE
                               /\ walk.pages = << >> /\ walk.place = 0
         /\ walk.pc # "new" => walk.pc = "more" /\ always' = always /\ quiet' = quiet
         /\ PagesTypeOK' /\ (always \subseteq Seen)'
         /\ (walk.pc = "new" => walk.pages = << >> /\ walk.place = 0)'
<1>1. /\ walk \in WalkRow(DOMAIN made) /\ Seen \subseteq DOMAIN made
      /\ walk.pages \in Seq(DOMAIN made) /\ PagesTypeOK
  BY PagesTypes, SeenIs DEF PagesInv
<1>2. page \in Seq(DOMAIN made)
  BY <1>1, SeqMonotonic
<1>3. walk.pages \o page \in Seq(DOMAIN made)
  BY <1>1, <1>2, ConcatProperties
<1>4. /\ walk'.kind = walk.kind /\ walk'.all = walk.all /\ walk'.place = place
      /\ walk'.pages = walk.pages \o page /\ walk'.pc = IF more THEN "more" ELSE "end"
      /\ walk' \in WalkRow(DOMAIN made)
  BY <1>1, <1>3 DEF Turned, WalkRow, WalkPc
<1>5. /\ made' = made /\ open' = open /\ gone' = gone /\ hidden' = hidden /\ now' = now
  BY DEF Turned, writes
<1>6. Seen' = Seen
  BY <1>4, <1>5 DEF Seen, Sees, AllOrders
<1>7. always \subseteq Seen /\ quiet \in BOOLEAN
  BY DEF PagesInv, PagesTypeOK
<1>8. /\ walk.pc = "new" => /\ always' = Seen /\ quiet' = TRUE
                            /\ walk.pages = << >> /\ walk.place = 0
      /\ walk.pc # "new" => walk.pc = "more" /\ always' = always /\ quiet' = quiet
  BY <1>1 DEF Turned, First, PagesInv, WalkRow, WalkPc
<1>9. always' \subseteq Seen /\ quiet' \in BOOLEAN
  BY <1>7, <1>8
<1>10. PagesTypeOK'
  <2>1. walk' \in WalkRow(DOMAIN made)'
    BY <1>4, <1>5 DEF WalkRow
  <2>2. walk'.place <= MaxOrder + (IF walk'.pc = "end" THEN PageLimit ELSE 0)
    BY <1>4
  <2>3. always' \subseteq DOMAIN made
    BY <1>1, <1>9
  <2> QED
    BY <1>1, <1>5, <1>9, <2>1, <2>2, <2>3 DEF PagesTypeOK, WalkRow, WalkKind, WalkPc
<1> QED
  BY <1>4, <1>5, <1>6, <1>8, <1>9, <1>10

LEMMA CursorPageStep == ASSUME PagesInv, CursorPage PROVE PagesInv'
<1> DEFINE S == {i \in Seen : After(i)}
           T == walk.pages
           place == walk.place
<1>1. PagesTypeOK /\ Seen \subseteq DOMAIN made /\ S \subseteq DOMAIN made
  BY SeenIs DEF PagesInv
<1>2. PICK rows \in Sorted(S) : Answered(rows, NextCursor(Cut(rows, 0, PageLimit)))
  BY DEF CursorPage
<1> DEFINE page == Cut(rows, 0, PageLimit)
           more == Len(rows) > PageLimit
           next == NextCursor(page)
<1>3. /\ walk.kind = "cursor" /\ walk.pc # "end" /\ Turned(page, next, more) /\ CursorWalk
  BY <1>2 DEF CursorPage, Answered, Turned, PagesInv
<1>4. /\ rows \in Seq(S) /\ Len(rows) \in Nat /\ Len(rows) <= MaxOrder
      /\ \A i \in 1 .. Len(rows) : rows[i] \in S /\ rows[i] \in DOMAIN made
      /\ \A x \in S : \E i \in 1 .. Len(rows) : rows[i] = x
      /\ \A i, j \in 1 .. Len(rows) : i < j => Newer(rows[i], rows[j])
  BY <1>1, SortedRows
<1>5. /\ page \in Seq(S) /\ Len(page) \in 0 .. PageLimit
      /\ Len(page) <= Len(rows)
      /\ Len(page) < PageLimit => Len(rows) = Len(page)
      /\ \A i \in 1 .. Len(page) : page[i] = rows[i] /\ i \in 1 .. Len(rows)
  <2>1. PageLimit \in Nat
    BY PagesAssumption
  <2>2. /\ page \in Seq(S) /\ Len(page) \in 0 .. PageLimit
        /\ Len(page) > 0 => 0 + Len(page) <= Len(rows)
        /\ Len(page) < PageLimit => Len(rows) <= 0 + Len(page)
        /\ \A i \in 1 .. Len(page) : page[i] = rows[0 + i]
    BY <1>4, <2>1, CutIs
  <2>3. \A i \in 1 .. Len(page) : 0 + i = i
    BY <2>2
  <2> HIDE DEF page
  <2>4. \A i \in 1 .. Len(page) : page[i] = rows[i]
    BY <2>2, <2>3
  <2>5. Len(page) <= Len(rows)
    BY <1>4, <2>1, <2>2
  <2>6. \A i \in 1 .. Len(page) : i \in 1 .. Len(rows)
    BY <1>4, <2>2, <2>5
  <2>7. Len(page) < PageLimit => Len(rows) = Len(page)
    BY <1>4, <2>1, <2>2, <2>5
  <2> QED
    BY <2>2, <2>4, <2>5, <2>6, <2>7
<1> HIDE DEF page, next
<1>6. page \in Seq(Seen) /\ page \in Seq(DOMAIN made)
  <2>1. S \subseteq Seen
    OBVIOUS
  <2> QED
    BY <1>1, <1>5, <2>1, SeqMonotonic
<1>7. /\ page = << >> => Len(page) = 0 /\ next = place
      /\ page # << >> => Len(page) > 0 /\ next = page[Len(page)] /\ next \in DOMAIN made
      /\ more => page # << >>
  <2>1. page = << >> => Len(page) = 0 /\ next = place
    BY DEF next, NextCursor
  <2>2. page # << >> => Len(page) > 0 /\ next = page[Len(page)]
    BY <1>5, EmptySeq DEF next, NextCursor, Last
  <2>3. page # << >> => next \in DOMAIN made
    <3>1. page # << >> => Len(page) \in 1 .. Len(page)
      BY <1>5, <2>2
    <3>2. page # << >> => page[Len(page)] = rows[Len(page)] /\ Len(page) \in 1 .. Len(rows)
      BY <1>5, <3>1
    <3> QED
      BY <1>4, <2>2, <3>2
  <2>4. more => page # << >>
    BY <1>4, <1>5, <2>1, PagesAssumption
  <2> QED
    BY <2>1, <2>2, <2>3, <2>4
<1>8. next \in Nat /\ next <= MaxOrder + (IF more THEN 0 ELSE PageLimit)
  <2>1. place \in Nat /\ place <= MaxOrder
    BY <1>1, <1>3, PagesTypes, PagesAssumption DEF PagesTypeOK
  <2>2. \A i \in DOMAIN made : i \in Nat /\ i <= MaxOrder
    BY <1>1, PagesTypes, PagesAssumption
  <2>3. MaxOrder \in Nat /\ PageLimit \in Nat
    BY PagesAssumption
  <2>4. next \in Nat /\ next <= MaxOrder
    BY <1>7, <2>1, <2>2
  <2> QED
    BY <2>3, <2>4
<1>9. more \in BOOLEAN
  OBVIOUS
<1> HIDE DEF more
<1>10. /\ walk'.kind = walk.kind /\ walk'.place = next /\ walk'.pages = T \o page
       /\ walk'.pc = IF more THEN "more" ELSE "end"
       /\ made' = made /\ Seen' = Seen
       /\ walk.pc = "new" => always' = Seen /\ T = << >> /\ place = 0
       /\ walk.pc # "new" => walk.pc = "more" /\ always' = always
       /\ PagesTypeOK' /\ (always \subseteq Seen)'
       /\ (walk.pc = "new" => walk.pages = << >> /\ walk.place = 0)'
  BY <1>3, <1>6, <1>8, <1>9, TurnedIs
<1>11. T \in Seq(DOMAIN made) /\ Len(T) \in Nat /\ DOMAIN T = 1 .. Len(T)
       /\ \A i \in 1 .. Len(T) : T[i] \in DOMAIN made
  BY <1>1, PagesTypes
<1>12. \A i, j \in 1 .. Len(T) : i < j => Newer(T[i], T[j])
  BY <1>3, <1>11 DEF CursorWalk, Descending
\* A later page asks for what is after the last row of the page before.
<1>13. walk.pc = "more" => /\ Len(T) \in 1 .. Len(T) /\ place = T[Len(T)]
                           /\ \A x \in S : Newer(place, x)
  <2> SUFFICES ASSUME walk.pc = "more"
               PROVE  /\ Len(T) \in 1 .. Len(T) /\ place = T[Len(T)]
                      /\ \A x \in S : Newer(place, x)
    OBVIOUS
  <2>1. T # << >> /\ place = T[Len(T)]
    BY <1>3 DEF CursorWalk, Last
  <2>2. Len(T) \in 1 .. Len(T)
    BY <1>11, <2>1, EmptySeq
  <2>3. place \in DOMAIN made
    BY <1>11, <2>1, <2>2
  <2>4. place # 0
    BY <1>1, <2>3, PagesTypes
  <2> QED
    BY <2>1, <2>2, <2>4 DEF After, NoCursor
<1>14. \A i \in 1 .. Len(T), x \in S : Newer(T[i], x)
  <2> SUFFICES ASSUME NEW i \in 1 .. Len(T), NEW x \in S PROVE Newer(T[i], x)
    OBVIOUS
  <2>1. walk.pc = "more"
    BY <1>10
  <2>2. i = Len(T) \/ Newer(T[i], T[Len(T)])
    BY <1>11, <1>12, <1>13, <2>1
  <2>3. T[i] \in DOMAIN made /\ T[Len(T)] \in DOMAIN made /\ x \in DOMAIN made
    BY <1>1, <1>11, <1>13, <2>1
  <2> QED
    BY <1>1, <1>13, <2>1, <2>2, <2>3, NewerOrders
<1>15. \A i, j \in 1 .. Len(T \o page) : i < j => Newer((T \o page)[i], (T \o page)[j])
  <2>1. \A i, j \in 1 .. Len(page) : i < j => Newer(page[i], page[j])
    <3> SUFFICES ASSUME NEW i \in 1 .. Len(page), NEW j \in 1 .. Len(page), i < j
                 PROVE  Newer(page[i], page[j])
      OBVIOUS
    <3>1. page[i] = rows[i] /\ page[j] = rows[j] /\ i \in 1 .. Len(rows) /\ j \in 1 .. Len(rows)
      BY <1>5
    <3>2. Newer(rows[i], rows[j])
      BY <1>4, <3>1
    <3> QED
      BY <3>1, <3>2
  <2>2. \A i \in 1 .. Len(T), j \in 1 .. Len(page) : Newer(T[i], page[j])
    <3> SUFFICES ASSUME NEW i \in 1 .. Len(T), NEW j \in 1 .. Len(page)
                 PROVE  Newer(T[i], page[j])
      OBVIOUS
    <3>1. page[j] \in S
      BY <1>4, <1>5
    <3> QED
      BY <1>14, <3>1
  <2> QED
    BY <1>6, <1>11, <1>12, <2>1, <2>2, DescendingOn
<1>16. /\ T \o page \in Seq(DOMAIN made) /\ DOMAIN (T \o page) = 1 .. Len(T \o page)
       /\ ToSet(T \o page) = ToSet(T) \union ToSet(page)
       /\ Len(T) + Len(page) = Len(T \o page) /\ DOMAIN page = 1 .. Len(page)
  BY <1>6, <1>11, Appended
<1>17. Descending'
  <2>1. PICK s : s = T \o page
    OBVIOUS
  <2>2. \A i, j \in DOMAIN s : i < j => Newer(s[i], s[j])
    BY <1>15, <1>16, <2>1
  <2>3. walk'.pages = s /\ made' = made
    BY <1>10, <2>1
  <2> QED
    BY <2>2, <2>3 DEF Descending, Newer
\* What the walk owes is in the rows of the query.
<1>18. \A x \in always' \ ToSet(T) : x \in S
  <2> SUFFICES ASSUME NEW x \in always', x \notin ToSet(T) PROVE x \in S
    OBVIOUS
  <2>1. CASE walk.pc = "new"
    BY <1>10, <2>1 DEF After, NoCursor
  <2>2. CASE walk.pc # "new"
    <3>1. x \in always /\ x \in Seen /\ walk.pc = "more"
      BY <1>10, <2>2 DEF PagesInv
    <3>2. Newer(place, x)
      BY <1>3, <3>1 DEF CursorWalk, Returned
    <3> QED
      BY <3>1, <3>2 DEF After
  <2> QED
    BY <2>1, <2>2
<1>19. more => \A x \in S : x \in ToSet(page) \/ Newer(next, x)
  <2> SUFFICES ASSUME more, NEW x \in S, x \notin ToSet(page) PROVE Newer(next, x)
    OBVIOUS
  <2>1. PICK k \in 1 .. Len(rows) : rows[k] = x
    BY <1>4
  <2>2. k \notin 1 .. Len(page)
    BY <1>5, <1>16, <2>1 DEF ToSet
  <2>3. Len(page) \in 1 .. Len(rows) /\ Len(page) < k
    <3>1. Len(page) \in Nat /\ Len(page) > 0 /\ Len(page) <= Len(rows)
      BY <1>5, <1>7
    <3>2. ASSUME NEW m \in Nat, NEW n \in Nat, NEW i \in 1 .. n, m > 0, m <= n, i \notin 1 .. m
          PROVE  m \in 1 .. n /\ m < i
      BY <3>2
    <3> QED
      BY <1>4, <2>2, <3>1, <3>2
  <2>4. next = rows[Len(page)]
    BY <1>5, <1>7, <2>3
  <2> QED
    BY <1>4, <2>1, <2>3, <2>4
<1>20. ~more => \A x \in S : x \in ToSet(page)
  <2> SUFFICES ASSUME ~more, NEW x \in S PROVE x \in ToSet(page)
    OBVIOUS
  <2>1. PICK k \in 1 .. Len(rows) : rows[k] = x
    BY <1>4
  <2>2. k \in 1 .. Len(page)
    <3>1. Len(page) = Len(rows)
      BY <1>4, <1>5, PagesAssumption DEF more
    <3> QED
      BY <3>1
  <2> QED
    BY <1>5, <1>16, <2>1, <2>2 DEF ToSet
<1>21. more => T \o page # << >> /\ next = Last(T \o page)
  <2> SUFFICES ASSUME more PROVE T \o page # << >> /\ next = Last(T \o page)
    OBVIOUS
  <2>1. Len(page) \in 1 .. Len(page) /\ next = page[Len(page)]
    BY <1>5, <1>7
  <2>2. (T \o page)[Len(T) + Len(page)] = page[Len(page)]
    BY <1>6, <1>11, <2>1, Appended
  <2>3. Len(T \o page) # 0
    BY <1>11, <1>16, <2>1
  <2>4. T \o page # << >>
    BY <2>3
  <2> QED
    BY <1>16, <2>1, <2>2, <2>4 DEF Last
<1>22. CursorWalk'
  <2>1. (walk.pc = "more" =>
           /\ walk.pages # << >> /\ walk.place = Last(walk.pages)
           /\ \A i \in always \ Returned : Newer(walk.place, i))'
    <3>1. more => \A x \in always' \ ToSet(T \o page) : Newer(next, x)
      BY <1>16, <1>18, <1>19
    <3> QED
      BY <1>10, <1>21, <3>1 DEF Returned, Newer
  <2>2. (walk.pc = "end" => always \subseteq Returned)'
    BY <1>10, <1>16, <1>18, <1>20 DEF Returned
  <2> QED
    BY <1>17, <2>1, <2>2 DEF CursorWalk
<1>23. ~Undisturbed'
  BY <1>3, <1>10 DEF Undisturbed
<1> QED
  BY <1>10, <1>22, <1>23 DEF PagesInv

LEMMA Counted ==
  ASSUME NEW S, NEW n \in Nat, NEW f \in [1 .. n -> S],
         \A i, j \in 1 .. n : i # j => f[i] # f[j]
  PROVE  IsFiniteSet({f[i] : i \in 1 .. n}) /\ Cardinality({f[i] : i \in 1 .. n}) = n
<1> DEFINE R == {f[i] : i \in 1 .. n}
<1>1. f \in Surjection(1 .. n, R) /\ f \in Injection(1 .. n, R)
  BY DEF Surjection, Injection, IsInjective
<1>2. IsFiniteSet(1 .. n) /\ Cardinality(1 .. n) = n
  BY FS_Interval
<1> HIDE DEF R
<1>3. IsFiniteSet(R) /\ (Cardinality(R) = Cardinality(1 .. n) <=> f \in Injection(1 .. n, R))
  BY <1>1, <1>2, FS_Surjection
<1> QED
  BY <1>1, <1>2, <1>3 DEF R

\* Of a totally ordered set only one part of a given size lies before the rest: what
\* a walk returned is what the first rows of its next query are.
LEMMA SameTop ==
  ASSUME PagesTypeOK, NEW S \in SUBSET DOMAIN made, NEW U \in SUBSET S, NEW V \in SUBSET S,
         \A x \in U, y \in S : Newer(y, x) => y \in U,
         \A x \in V, y \in S : Newer(y, x) => y \in V,
         Cardinality(U) = Cardinality(V)
  PROVE  U = V
<1>1. IsFiniteSet(U) /\ IsFiniteSet(V)
  BY SeenIs
<1>2. CASE U \subseteq V
  BY <1>1, <1>2, FS_Subset
<1>3. CASE ~(U \subseteq V)
  <2>1. PICK x \in U : x \notin V
    BY <1>3
  <2>2. V \subseteq U
    <3> SUFFICES ASSUME NEW y \in V PROVE y \in U
      OBVIOUS
    <3>1. x # y /\ ~Newer(x, y)
      BY <2>1
    <3>2. Newer(y, x)
      BY <3>1, NewerOrders
    <3> QED
      BY <3>2
  <2> QED
    BY <1>1, <2>2, FS_Subset
<1> QED
  BY <1>2, <1>3

LEMMA FirstRowsReturned ==
  ASSUME PagesTypeOK, NEW S \in SUBSET DOMAIN made, NEW rows \in Sorted(S),
         NEW T \in Seq(DOMAIN made), ToSet(T) \subseteq S,
         \A i, j \in 1 .. Len(T) : i < j => Newer(T[i], T[j]),
         \A x \in ToSet(T), y \in S : Newer(y, x) => y \in ToSet(T)
  PROVE  Len(T) <= Len(rows) /\ ToSet(T) = {rows[i] : i \in 1 .. Len(T)}
<1> DEFINE n == Len(T)
           U == {T[i] : i \in 1 .. n}
           V == {rows[i] : i \in 1 .. n}
<1>1. n \in Nat /\ T \in [1 .. n -> DOMAIN made] /\ DOMAIN T = 1 .. n
  BY LenProperties
<1>2. ToSet(T) = U
  BY <1>1 DEF ToSet
<1>3. \A i, j \in 1 .. n : i # j => T[i] # T[j]
  <2> SUFFICES ASSUME NEW i \in 1 .. n, NEW j \in 1 .. n, i # j PROVE T[i] # T[j]
    OBVIOUS
  <2>1. i < j \/ j < i
    BY <1>1
  <2>2. T[i] \in DOMAIN made /\ T[j] \in DOMAIN made
    BY <1>1
  <2> QED
    BY <2>1, <2>2, NewerOrders
<1>4. IsFiniteSet(U) /\ Cardinality(U) = n
  <2> HIDE DEF n
  <2> QED
    BY <1>1, <1>3, Counted
<1>5. /\ rows \in Seq(S) /\ Len(rows) = Cardinality(S) /\ Len(rows) \in Nat
      /\ DOMAIN rows = 1 .. Len(rows)
      /\ \A i \in 1 .. Len(rows) : rows[i] \in S /\ rows[i] \in DOMAIN made
      /\ \A x \in S : \E i \in 1 .. Len(rows) : rows[i] = x
      /\ \A i, j \in 1 .. Len(rows) : i < j => Newer(rows[i], rows[j])
  BY SortedRows
<1>6. n <= Len(rows)
  <2>1. IsFiniteSet(S)
    BY SeenIs
  <2>2. Cardinality(U) <= Cardinality(S)
    BY <1>2, <2>1, FS_Subset
  <2> QED
    BY <1>4, <1>5, <2>2
<1> HIDE DEF n
<1>7. \A i \in 1 .. n : i \in 1 .. Len(rows)
  BY <1>1, <1>5, <1>6
<1>8. V \subseteq S
  BY <1>5, <1>7
<1>9. Cardinality(V) = n
  <2> DEFINE f == [i \in 1 .. n |-> rows[i]]
  <2>1. f \in [1 .. n -> S]
    BY <1>5, <1>7
  <2>2. \A i, j \in 1 .. n : i # j => f[i] # f[j]
    <3> SUFFICES ASSUME NEW i \in 1 .. n, NEW j \in 1 .. n, i # j PROVE f[i] # f[j]
      OBVIOUS
    <3>1. i < j \/ j < i
      BY <1>1
    <3>2. i \in 1 .. Len(rows) /\ j \in 1 .. Len(rows)
      BY <1>7
    <3>3. rows[i] # rows[j]
      BY <1>5, <3>1, <3>2, NewerOrders
    <3> QED
      BY <3>3
  <2>3. {f[i] : i \in 1 .. n} = V
    OBVIOUS
  <2> HIDE DEF f, V
  <2>4. Cardinality({f[i] : i \in 1 .. n}) = n
    BY <1>1, <2>1, <2>2, Counted
  <2> QED
    BY <2>3, <2>4
<1>10. \A x \in V, y \in S : Newer(y, x) => y \in V
  <2> SUFFICES ASSUME NEW x \in V, NEW y \in S, Newer(y, x) PROVE y \in V
    OBVIOUS
  <2>1. PICK i \in 1 .. n : x = rows[i]
    OBVIOUS
  <2>2. PICK j \in 1 .. Len(rows) : y = rows[j]
    BY <1>5
  <2>3. i \in 1 .. Len(rows) /\ i # j
    BY <1>5, <1>7, <2>1, <2>2, NewerOrders
  <2>4. ~(i < j)
    BY <1>5, <2>1, <2>2, <2>3, NewerOrders
  <2>5. j \in 1 .. n
    BY <1>1, <1>5, <2>3, <2>4
  <2> QED
    BY <2>2, <2>5
<1>11. U = V
  <2>1. \A x \in U, y \in S : Newer(y, x) => y \in U
    BY <1>2
  <2>2. U \in SUBSET S /\ V \in SUBSET S /\ Cardinality(U) = Cardinality(V)
    BY <1>2, <1>4, <1>8, <1>9
  <2> HIDE DEF U, V
  <2> QED
    BY <1>10, <2>1, <2>2, SameTop
<1> QED
  BY <1>2, <1>6, <1>11 DEF n

LEMMA PlaceBound ==
  ASSUME PagesTypeOK, walk.pc # "end" PROVE walk.place <= MaxOrder
BY PagesAssumption, PagesTypes DEF PagesTypeOK

LEMMA PageByOffset ==
  ASSUME PagesInv, walk.kind # "cursor", walk.pc # "end",
         NEW rows \in SetToSeqs(Seen), NEW page \in Seq(Seen), NEW more \in BOOLEAN,
         Turned(page, walk.place + PageLimit, more),
         \A i \in 1 .. Len(page) : /\ walk.place + i \in 1 .. Len(rows)
                                   /\ page[i] = rows[walk.place + i],
         more => Len(page) = PageLimit /\ walk.place + PageLimit <= Len(rows),
         ~more => Len(rows) <= walk.place + Len(page),
         Undisturbed' => rows \in Sorted(Seen)
  PROVE  PagesInv'
<1> DEFINE T == walk.pages
           place == walk.place
           size == Len(page)
           last == Len(rows)
<1>1. PagesTypeOK /\ Seen \subseteq DOMAIN made /\ IsFiniteSet(Seen) /\ place \in Nat
      /\ Cardinality(Seen) <= MaxOrder /\ T \in Seq(DOMAIN made) /\ Len(T) \in Nat
      /\ DOMAIN T = 1 .. Len(T) /\ \A i \in DOMAIN T : T[i] \in DOMAIN made
  BY SeenIs, PagesTypes DEF PagesInv
<1>2. PageLimit \in Nat /\ MaxOrder \in Nat /\ size \in Nat /\ DOMAIN page = 1 .. size
  BY PagesAssumption, LenProperties
<1>3. /\ last <= MaxOrder /\ last \in Nat
      /\ \A i \in 1 .. last : rows[i] \in Seen
      /\ \A x \in Seen : \E i \in 1 .. last : rows[i] = x
  BY <1>1, RowsRead
<1>0. /\ \A i \in 1 .. size : place + i \in 1 .. last /\ page[i] = rows[place + i]
      /\ more => size = PageLimit /\ place + PageLimit <= last
      /\ ~more => last <= place + size
      /\ place <= MaxOrder
  BY <1>1, PlaceBound
<1> HIDE DEF size, last
<1>4. place + PageLimit \in Nat /\ place + PageLimit <= MaxOrder + (IF more THEN 0 ELSE PageLimit)
  <2>1. ASSUME NEW p \in Nat, p <= MaxOrder, more => p + PageLimit <= last
        PROVE  p + PageLimit \in Nat /\ p + PageLimit <= MaxOrder + (IF more THEN 0 ELSE PageLimit)
    BY <1>2, <1>3, <2>1
  <2> QED
    BY <1>0, <1>1, <2>1
<1>5. /\ walk'.kind = walk.kind /\ walk'.place = place + PageLimit /\ walk'.pages = T \o page
      /\ walk'.pc = IF more THEN "more" ELSE "end"
      /\ made' = made /\ Seen' = Seen
      /\ walk.pc = "new" => T = << >> /\ place = 0
      /\ walk.pc # "new" => walk.pc = "more" /\ quiet' = quiet
      /\ PagesTypeOK' /\ (always \subseteq Seen)'
      /\ (walk.pc = "new" => walk.pages = << >> /\ walk.place = 0)'
  BY <1>4, TurnedIs
<1>6. (walk.kind = "cursor" => CursorWalk)'
  BY <1>5
<1>7. ASSUME Undisturbed' PROVE OffsetWalk'
  <2>1. rows \in Sorted(Seen)
    BY <1>7
  <2>2. \A i, j \in 1 .. last : i < j => Newer(rows[i], rows[j])
    BY <1>1, <2>1, SortedRows DEF last
  \* The walk so far.
  <2>3. /\ \A i, j \in 1 .. Len(T) : i < j => Newer(T[i], T[j])
        /\ ToSet(T) \subseteq Seen
        /\ \A x \in ToSet(T), y \in Seen : Newer(y, x) => y \in ToSet(T)
        /\ place = Len(T)
    <3>1. CASE walk.pc = "new"
      <4>1. T = << >> /\ place = 0 /\ Len(T) = 0 /\ DOMAIN T = {}
        BY <1>1, <1>5, <3>1
      <4>2. ToSet(T) = {}
        BY <4>1 DEF ToSet
      <4> QED
        BY <4>1, <4>2
    <3>2. CASE walk.pc # "new"
      <4>1. Undisturbed
        BY <1>5, <1>7, <3>2 DEF Undisturbed
      <4>2. OffsetWalk /\ walk.pc = "more"
        BY <1>5, <3>2, <4>1 DEF PagesInv
      <4> QED
        BY <1>1, <4>2 DEF OffsetWalk, Descending, Returned
    <3> QED
      BY <3>1, <3>2
  <2>4. ToSet(T) = {rows[i] : i \in 1 .. place} /\ place <= last
    <3>1. Len(T) <= Len(rows) /\ ToSet(T) = {rows[i] : i \in 1 .. Len(T)}
      <4>1. Seen \in SUBSET DOMAIN made
        BY <1>1
      <4>2. \A i, j \in 1 .. Len(T) : i < j => Newer(T[i], T[j])
        BY <2>3
      <4>3. ToSet(T) \subseteq Seen
        BY <2>3
      <4>4. \A x \in ToSet(T), y \in Seen : Newer(y, x) => y \in ToSet(T)
        BY <2>3
      <4>5. PagesTypeOK /\ T \in Seq(DOMAIN made)
        BY <1>1
      <4> QED
        BY <2>1, <4>1, <4>2, <4>3, <4>4, <4>5, FirstRowsReturned
    <3> QED
      BY <2>3, <3>1 DEF last
  <2>5. page \in Seq(DOMAIN made)
    BY <1>1, SeqMonotonic
  <2>6. /\ T \o page \in Seq(DOMAIN made) /\ DOMAIN (T \o page) = 1 .. Len(T \o page)
        /\ ToSet(T \o page) = ToSet(T) \union ToSet(page)
        /\ place + size = Len(T \o page)
    BY <1>1, <2>3, <2>5, Appended DEF size
  \* What is returned now are again the first rows of the query.
  <2>0. PICK p \in Nat : p = place
    BY <1>1
  <2> DEFINE k == p + size
  <2>7. k \in Nat /\ k >= p /\ p <= last /\ ToSet(T) = {rows[i] : i \in 1 .. p}
        /\ \A i \in 1 .. size : p + i \in 1 .. last /\ page[i] = rows[p + i]
    <3>1. /\ p <= last /\ ToSet(T) = {rows[i] : i \in 1 .. p}
          /\ \A i \in 1 .. size : page[i] = rows[p + i]
      BY <1>2, <2>0, <2>4
    <3>2. k \in Nat /\ k >= p
      BY <1>2, <2>0
    <3>3. \A i \in 1 .. size : p + i \in 1 .. last
      BY <1>0, <1>2, <2>0
    <3> QED
      BY <3>1, <3>2, <3>3
  <2>8. \A x \in ToSet(T \o page) : \E i \in 1 .. k : i \in 1 .. last /\ x = rows[i]
    <3> SUFFICES ASSUME NEW x \in ToSet(T \o page)
                 PROVE  \E i \in 1 .. k : i \in 1 .. last /\ x = rows[i]
      OBVIOUS
    <3>1. CASE x \in ToSet(T)
      <4>1. PICK i \in 1 .. p : x = rows[i]
        BY <2>7, <3>1
      <4>2. i \in 1 .. k /\ i \in 1 .. last
        BY <1>2, <1>3, <2>7
      <4> QED
        BY <4>1, <4>2
    <3>2. CASE x \in ToSet(page)
      <4>1. PICK i \in 1 .. size : x = page[i]
        BY <1>2, <3>2 DEF ToSet
      <4>2. p + i \in 1 .. k
        BY <1>2
      <4> QED
        BY <2>7, <4>1, <4>2
    <3> QED
      BY <2>6, <3>1, <3>2
  <2>9. \A i \in 1 .. k : i \in 1 .. last => rows[i] \in ToSet(T \o page)
    <3> SUFFICES ASSUME NEW i \in 1 .. k PROVE rows[i] \in ToSet(T \o page)
      OBVIOUS
    <3>1. CASE i \in 1 .. p
      BY <2>6, <2>7, <3>1
    <3>2. CASE i \notin 1 .. p
      <4>1. i - p \in 1 .. size /\ p + (i - p) = i
        BY <1>2, <3>2
      <4>2. page[i - p] = rows[i]
        BY <2>7, <4>1
      <4>3. rows[i] \in ToSet(page)
        BY <1>2, <4>1, <4>2 DEF ToSet
      <4> QED
        BY <2>6, <4>3
    <3> QED
      BY <3>1, <3>2
  <2> HIDE DEF k
  <2>10. \A i, j \in 1 .. Len(T \o page) : i < j => Newer((T \o page)[i], (T \o page)[j])
    <3>1. \A i, j \in 1 .. size : i < j => Newer(page[i], page[j])
      <4> SUFFICES ASSUME NEW i \in 1 .. size, NEW j \in 1 .. size, i < j
                   PROVE  Newer(page[i], page[j])
        OBVIOUS
      <4>1. p + i < p + j
        BY <1>2
      <4> QED
        BY <2>2, <2>7, <4>1
    <3>2. \A i \in 1 .. Len(T), j \in 1 .. size : Newer(T[i], page[j])
      <4> SUFFICES ASSUME NEW i \in 1 .. Len(T), NEW j \in 1 .. size
                   PROVE  Newer(T[i], page[j])
        OBVIOUS
      <4>1. T[i] \in ToSet(T)
        BY <1>1 DEF ToSet
      <4>2. PICK a \in 1 .. p : T[i] = rows[a]
        BY <2>7, <4>1
      <4>3. a < p + j /\ a \in 1 .. last
        BY <1>2, <1>3, <2>7
      <4> QED
        BY <2>2, <2>7, <4>2, <4>3
    <3> QED
      BY <1>1, <2>3, <2>5, <3>1, <3>2, DescendingOn DEF size
  <2>11. Descending'
    <3>1. PICK s : s = T \o page
      OBVIOUS
    <3>2. \A i, j \in DOMAIN s : i < j => Newer(s[i], s[j])
      BY <2>6, <2>10, <3>1
    <3>3. walk'.pages = s /\ made' = made
      BY <1>5, <3>1
    <3> QED
      BY <3>2, <3>3 DEF Descending, Newer
  <2>12. \A x \in ToSet(T \o page) : x \in Seen
    BY <1>3, <2>8
  <2>13. \A x \in ToSet(T \o page), y \in Seen : Newer(y, x) => y \in ToSet(T \o page)
    <3> SUFFICES ASSUME NEW x \in ToSet(T \o page), NEW y \in Seen, Newer(y, x)
                 PROVE  y \in ToSet(T \o page)
      OBVIOUS
    <3>1. PICK i \in 1 .. k : i \in 1 .. last /\ x = rows[i]
      BY <2>8
    <3>2. PICK j \in 1 .. last : y = rows[j]
      BY <1>3
    <3>3. x \in DOMAIN made /\ y \in DOMAIN made
      BY <1>1, <2>12
    <3>4. i # j /\ ~(i < j)
      BY <1>1, <2>2, <3>1, <3>2, <3>3, NewerOrders
    <3>5. j \in 1 .. k
      BY <1>3, <2>7, <3>1, <3>4
    <3> QED
      BY <2>9, <3>2, <3>5
  <2>14. more => place + PageLimit = Len(T \o page)
    BY <1>0, <2>6
  <2>15. ~more => Seen \subseteq ToSet(T \o page)
    <3> SUFFICES ASSUME ~more, NEW y \in Seen PROVE y \in ToSet(T \o page)
      OBVIOUS
    <3>1. PICK j \in 1 .. last : y = rows[j]
      BY <1>3
    <3>2. last <= k
      BY <1>0, <2>0 DEF k
    <3>3. j \in 1 .. k
      BY <1>3, <2>7, <3>2
    <3> QED
      BY <2>9, <3>1, <3>3
  <2>16. Returned' = ToSet(T \o page)
    BY <1>5 DEF Returned
  <2>17. (\A i \in Returned, j \in Seen : Newer(j, i) => j \in Returned)'
    BY <1>5, <2>13, <2>16 DEF Newer
  <2> QED
    BY <1>5, <2>11, <2>12, <2>14, <2>15, <2>16, <2>17 DEF OffsetWalk
<1> QED
  BY <1>5, <1>6, <1>7 DEF PagesInv

LEMMA OffsetPageStep == ASSUME PagesInv, OffsetPage PROVE PagesInv'
<1> DEFINE n == PageLimit
           place == walk.place
<1>1. PagesTypeOK /\ place \in Nat /\ n \in Nat \ {0} /\ n + 1 \in Nat /\ 0 \in Nat
      /\ Seen \subseteq DOMAIN made
  BY PagesTypes, PagesAssumption, SeenIs DEF PagesInv
<1>2. PICK rows \in Sorted(Seen) : Answered(Cut(rows, place, n + 1), NextOffset(place))
  BY DEF OffsetPage
<1> DEFINE top == Cut(rows, place, n + 1)
           page == Cut(top, 0, n)
           more == Len(top) > n
<1>3. /\ walk.kind # "cursor" /\ walk.pc # "end" /\ more \in BOOLEAN
      /\ Turned(page, place + n, more)
  BY <1>2 DEF OffsetPage, Answered, NextOffset, Turned
<1>4. rows \in Seq(Seen) /\ Len(rows) \in Nat /\ rows \in SetToSeqs(Seen)
  BY <1>1, SortedRows DEF Sorted
<1>5. /\ top \in Seq(Seen) /\ Len(top) \in 0 .. n + 1
      /\ Len(top) > 0 => place + Len(top) <= Len(rows)
      /\ Len(top) < n + 1 => Len(rows) <= place + Len(top)
      /\ \A i \in 1 .. Len(top) : top[i] = rows[place + i]
  BY <1>1, <1>4, CutIs
<1> HIDE DEF top
<1>6. /\ page \in Seq(Seen) /\ Len(page) \in 0 .. n
      /\ Len(page) > 0 => 0 + Len(page) <= Len(top)
      /\ Len(page) < n => Len(top) <= 0 + Len(page)
      /\ \A i \in 1 .. Len(page) : page[i] = top[0 + i]
  BY <1>1, <1>5, CutIs
<1> HIDE DEF page
<1>7. /\ Len(page) <= Len(top)
      /\ more => Len(page) = n /\ place + n <= Len(rows)
      /\ ~more => Len(page) = Len(top) /\ Len(rows) <= place + Len(page)
  <2>1. ASSUME NEW p \in 0 .. n, NEW t \in 0 .. n + 1, NEW r \in Nat,
               p > 0 => 0 + p <= t, p < n => t <= 0 + p,
               t > 0 => place + t <= r, t < n + 1 => r <= place + t
        PROVE  /\ p <= t
               /\ t > n => p = n /\ place + n <= r
               /\ ~(t > n) => p = t /\ r <= place + p
    BY <1>1, <2>1
  <2> QED
    BY <1>4, <1>5, <1>6, <2>1
<1>8. ASSUME NEW i \in 1 .. Len(page)
      PROVE  place + i \in 1 .. Len(rows) /\ page[i] = rows[place + i]
  <2>1. ASSUME NEW p \in 0 .. n, NEW t \in 0 .. n + 1, NEW r \in Nat, p <= t,
               t > 0 => place + t <= r, NEW x \in 1 .. p
        PROVE  x \in 1 .. t /\ place + x \in 1 .. r /\ 0 + x = x
    BY <1>1, <2>1
  <2>2. i \in 1 .. Len(top) /\ place + i \in 1 .. Len(rows) /\ 0 + i = i
    BY <1>4, <1>5, <1>6, <1>7, <1>8, <2>1
  <2> QED
    BY <1>5, <1>6, <1>8, <2>2
<1> HIDE DEF more
<1> QED
  BY <1>2, <1>3, <1>4, <1>6, <1>7, <1>8, PageByOffset

LEMMA ListPageStep == ASSUME PagesInv, ListPage PROVE PagesInv'
<1> DEFINE n == PageLimit
           place == walk.place
<1>1. PagesTypeOK /\ place \in Nat /\ n \in Nat \ {0} /\ n \in Nat
      /\ Seen \subseteq DOMAIN made /\ IsFiniteSet(Seen)
  BY PagesTypes, PagesAssumption, SeenIs DEF PagesInv
<1>2. PICK rows \in Sortings(Seen) :
        LET page == Cut(rows, place, n) IN
        walk' = [walk EXCEPT !.pages = @ \o page, !.place = @ + n,
                             !.pc = IF Len(page) = n THEN "more" ELSE "end"]
  BY DEF ListPage
<1> DEFINE page == Cut(rows, place, n)
           more == Len(page) = n
<1>3. /\ walk.kind = "list" /\ walk.pc # "end" /\ more \in BOOLEAN
      /\ Turned(page, place + n, more)
  BY <1>2 DEF ListPage, Turned
<1>4. /\ rows \in SetToSeqs(Seen) /\ rows \in Seq(Seen) /\ Len(rows) \in Nat
      /\ DOMAIN rows = 1 .. Len(rows)
      /\ \A i \in 1 .. Len(rows) : rows[i] \in DOMAIN made
      /\ \A x, y \in 1 .. Len(rows) : x # y => rows[x] # rows[y]
      /\ \A i \in 1 .. Len(rows) : rows[i] \in Seen
  BY <1>1, RowsRead DEF Sortings
<1>5. /\ page \in Seq(Seen) /\ Len(page) \in 0 .. n
      /\ Len(page) > 0 => place + Len(page) <= Len(rows)
      /\ Len(page) < n => Len(rows) <= place + Len(page)
      /\ \A i \in 1 .. Len(page) : page[i] = rows[place + i]
  <2>1. rows \in Seq(Seen) /\ place \in Nat /\ n \in Nat
    BY <1>1, <1>4
  <2> QED
    BY <2>1, CutIs
<1> HIDE DEF page
<1>6. /\ more => Len(page) = n /\ place + n <= Len(rows)
      /\ ~more => Len(rows) <= place + Len(page)
  <2>1. ASSUME NEW p \in 0 .. n, NEW r \in Nat,
               p > 0 => place + p <= r, p < n => r <= place + p
        PROVE  /\ p = n => place + n <= r
               /\ ~(p = n) => r <= place + p
    BY <1>1, <2>1
  <2> QED
    BY <1>4, <1>5, <2>1
<1>7. ASSUME NEW i \in 1 .. Len(page)
      PROVE  place + i \in 1 .. Len(rows) /\ page[i] = rows[place + i]
  <2>1. ASSUME NEW p \in 0 .. n, NEW r \in Nat, p > 0 => place + p <= r, NEW x \in 1 .. p
        PROVE  place + x \in 1 .. r
    BY <1>1, <2>1
  <2>2. place + i \in 1 .. Len(rows)
    BY <1>4, <1>5, <1>7, <2>1
  <2> QED
    BY <1>5, <1>7, <2>2
\* Without ties the time alone orders the rows.
<1>8. Undisturbed' => rows \in Sorted(Seen)
  <2> SUFFICES ASSUME Undisturbed'
               PROVE  \A i, j \in 1 .. Len(rows) : i < j => Newer(rows[i], rows[j])
    BY <1>4 DEF Sorted
  <2>1. walk'.kind = "list" /\ walk'.all = walk.all
    <3>1. walk \in WalkRow(DOMAIN made)
      BY <1>1, PagesTypes
    <3> QED
      BY <1>3, <3>1 DEF Turned, WalkRow
  <2>2. made' = made /\ Seen' = Seen
    BY <1>3, <2>1 DEF Turned, writes, Seen, Sees, AllOrders
  <2>3. \A x, y \in Seen : x # y => made[x].at # made[y].at
    BY <2>1, <2>2 DEF Undisturbed
  <2> SUFFICES ASSUME NEW i \in 1 .. Len(rows), NEW j \in 1 .. Len(rows), i < j
               PROVE  Newer(rows[i], rows[j])
    OBVIOUS
  <2>4. made[rows[i]].at >= made[rows[j]].at
    BY <1>4 DEF Sortings
  <2>5. rows[i] # rows[j]
    BY <1>4
  <2>6. made[rows[i]].at \in Nat /\ made[rows[j]].at \in Nat
    BY <1>1, <1>4, PagesTypes
  <2> QED
    BY <1>4, <2>3, <2>4, <2>5, <2>6 DEF Newer
<1> HIDE DEF more
<1> QED
  BY <1>3, <1>4, <1>5, <1>6, <1>7, <1>8, PageByOffset

\* What the others write leaves what was returned and the order of the rows alone.
LEMMA WriteStep ==
  ASSUME PagesInv, walk' = walk, Wrote,
         made' \in Seq(Order), Len(made') <= MaxOrder, DOMAIN made \subseteq DOMAIN made',
         \A i \in DOMAIN made : made'[i] = made[i],
         open' \union gone' \subseteq DOMAIN made', hidden' \subseteq PlaceMap, now' = now
  PROVE  PagesInv'
<1>1. PagesTypeOK /\ Seen \subseteq DOMAIN made /\ always \subseteq Seen
  BY SeenIs DEF PagesInv
<1>2. /\ always' = always \intersect Seen' /\ quiet' = (quiet /\ Seen' = Seen)
  BY DEF Wrote, Seen
<1>3. PagesTypeOK'
  <2>1. walk \in WalkRow(DOMAIN made) /\ now \in 1 .. MaxTime
        /\ walk.place <= MaxOrder + (IF walk.pc = "end" THEN PageLimit ELSE 0)
    BY <1>1, PagesTypes DEF PagesTypeOK
  <2>2. \A s \in Seq(DOMAIN made) : s \in Seq(DOMAIN made')
    BY SeqMonotonic
  <2>3. walk \in WalkRow(DOMAIN made')
    BY <2>1, <2>2 DEF WalkRow
  <2>4. always' \subseteq DOMAIN made' /\ quiet' \in BOOLEAN
    BY <1>1, <1>2 DEF PagesTypeOK
  <2> QED
    BY <2>1, <2>3, <2>4 DEF PagesTypeOK, WalkRow, WalkKind, WalkPc
<1>4. (always \subseteq Seen)'
  BY <1>2
<1>5. \A i, j \in DOMAIN made : Newer(i, j) <=> Newer(i, j)'
  BY DEF Newer
<1>6. /\ \A i \in DOMAIN walk.pages : walk.pages[i] \in DOMAIN made
      /\ Returned \subseteq DOMAIN made /\ Returned' = Returned
  <2>1. \A i \in DOMAIN walk.pages : walk.pages[i] \in DOMAIN made
    BY <1>1, PagesTypes
  <2> QED
    BY <2>1 DEF Returned, ToSet
<1>7. Descending => Descending'
  <2> SUFFICES ASSUME Descending, NEW i \in DOMAIN walk.pages, NEW j \in DOMAIN walk.pages, i < j
               PROVE  Newer(walk.pages[i], walk.pages[j])'
    BY DEF Descending
  <2>1. Newer(walk.pages[i], walk.pages[j])
    BY DEF Descending
  <2> QED
    BY <1>6, <2>1 DEF Newer
<1>8. CursorWalk => CursorWalk'
  <2> SUFFICES ASSUME CursorWalk PROVE CursorWalk'
    OBVIOUS
  <2>1. Descending'
    BY <1>7 DEF CursorWalk
  <2>2. ASSUME walk.pc = "more"
        PROVE  /\ walk.pages # << >> /\ walk.place = Last(walk.pages)
               /\ \A i \in always' \ Returned : Newer(walk.place, i)'
    <3>1. /\ walk.pages # << >> /\ walk.place = Last(walk.pages)
          /\ \A i \in always \ Returned : Newer(walk.place, i)
      BY <2>2 DEF CursorWalk
    <3>2. Len(walk.pages) \in DOMAIN walk.pages
      <4>1. walk.pages \in Seq(DOMAIN made) /\ DOMAIN walk.pages = 1 .. Len(walk.pages)
        BY <1>1, PagesTypes
      <4>2. Len(walk.pages) \in Nat \ {0}
        BY <3>1, <4>1, EmptySeq
      <4> QED
        BY <4>1, <4>2
    <3>3. walk.place \in DOMAIN made
      BY <1>6, <3>1, <3>2 DEF Last
    <3>4. \A i \in always' \ Returned : i \in always /\ i \in DOMAIN made
      BY <1>1, <1>2
    <3> QED
      BY <3>1, <3>3, <3>4 DEF Newer
  <2>3. walk.pc = "end" => always' \subseteq Returned'
    BY <1>2, <1>6 DEF CursorWalk
  <2> QED
    BY <1>6, <2>1, <2>2, <2>3 DEF CursorWalk
<1>9. ASSUME Undisturbed' PROVE OffsetWalk'
  <2>1. Seen' = Seen /\ quiet
    BY <1>2, <1>9 DEF Undisturbed
  <2>2. Undisturbed
    BY <1>1, <1>9, <2>1 DEF Undisturbed
  <2>3. OffsetWalk
    BY <2>2 DEF PagesInv
  <2>4. Descending'
    BY <1>7, <2>3 DEF OffsetWalk
  <2>5. \A i \in Returned, j \in Seen : Newer(j, i)' => j \in Returned
    BY <1>1, <1>5, <1>6, <2>3 DEF OffsetWalk
  <2> QED
    BY <1>6, <2>1, <2>3, <2>4, <2>5 DEF OffsetWalk
<1> QED
  BY <1>3, <1>4, <1>8, <1>9 DEF PagesInv

LEMMA InsertOrderStep == ASSUME PagesInv, InsertOrder PROVE PagesInv'
<1>1. PICK m \in PlaceMap : made' = Append(made, [at |-> now, map |-> m])
  BY DEF InsertOrder
<1>2. PagesTypeOK /\ made \in Seq(Order) /\ Len(made) \in Nat /\ DOMAIN made = 1 .. Len(made)
  BY PagesTypes DEF PagesInv
<1>3. [at |-> now, map |-> m] \in Order
  BY <1>2 DEF PagesTypeOK, Order
<1>4. PICK order \in Order : made' = Append(made, order)
  BY <1>1, <1>3
<1>5. /\ made' \in Seq(Order) /\ Len(made') = Len(made) + 1
      /\ \A i \in 1 .. Len(made) : made'[i] = made[i]
  BY <1>2, <1>4
<1>6. DOMAIN made' = 1 .. Len(made) + 1
  BY <1>5, LenProperties
<1>7. Len(made) < MaxOrder /\ open' = open \union {Len(made) + 1}
      /\ gone' = gone /\ hidden' = hidden /\ now' = now /\ walk' = walk /\ Wrote
  BY DEF InsertOrder
<1>8. Len(made') <= MaxOrder
  BY <1>2, <1>5, <1>7, PagesAssumption
<1>9. DOMAIN made \subseteq DOMAIN made' /\ Len(made) + 1 \in DOMAIN made'
  BY <1>2, <1>6
<1>10. open' \union gone' \subseteq DOMAIN made' /\ hidden' \subseteq PlaceMap
  BY <1>2, <1>7, <1>9 DEF PagesTypeOK
<1>11. \A i \in DOMAIN made : made'[i] = made[i]
  BY <1>2, <1>5
<1> QED
  BY <1>5, <1>7, <1>8, <1>9, <1>10, <1>11, WriteStep

LEMMA OtherWrites ==
  ASSUME PagesInv,
         (\E i \in open : EndInsert(i)) \/ (\E m \in PlaceMap : Hide(m))
  PROVE  PagesInv'
<1>1. PagesTypeOK /\ made \in Seq(Order) /\ Len(made) <= MaxOrder
  BY PagesTypes DEF PagesInv
<1>2. ASSUME NEW i \in open, EndInsert(i)
      PROVE  open' \union gone' \subseteq DOMAIN made /\ hidden' \subseteq PlaceMap
  BY <1>1, <1>2 DEF EndInsert, PagesTypeOK
<1>3. ASSUME NEW m \in PlaceMap, Hide(m)
      PROVE  open' \union gone' \subseteq DOMAIN made /\ hidden' \subseteq PlaceMap
  BY <1>1, <1>3 DEF Hide, PagesTypeOK
<1>4. made' = made /\ now' = now /\ walk' = walk /\ Wrote
  BY DEF EndInsert, Hide
<1> QED
  BY <1>1, <1>2, <1>3, <1>4, WriteStep

LEMMA TickStep == ASSUME PagesInv, Tick \/ UNCHANGED pageVars PROVE PagesInv'
<1>1. /\ made' = made /\ open' = open /\ gone' = gone /\ hidden' = hidden /\ walk' = walk
      /\ always' = always /\ quiet' = quiet
  BY DEF Tick, pageVars
<1>2. now' \in 1 .. MaxTime
  BY PagesAssumption DEF Tick, pageVars, PagesInv, PagesTypeOK
<1>3. Seen' = Seen /\ Returned' = Returned
  BY <1>1 DEF Seen, Sees, AllOrders, Returned
<1>4. PagesTypeOK' /\ (always \subseteq Seen)'
  BY <1>1, <1>2, <1>3 DEF PagesInv, PagesTypeOK
<1>5. (Undisturbed' <=> Undisturbed) /\ (Descending' <=> Descending)
  BY <1>1, <1>3 DEF Undisturbed, Descending, Newer
<1>6. (CursorWalk => CursorWalk') /\ (OffsetWalk => OffsetWalk')
  BY <1>1, <1>3, <1>5 DEF CursorWalk, OffsetWalk, Newer
<1> QED
  BY <1>1, <1>4, <1>5, <1>6 DEF PagesInv

LEMMA InitPages == PagesInit => PagesInv
<1> SUFFICES ASSUME PagesInit PROVE PagesInv
  OBVIOUS
<1>1. PICK n \in 0 .. MaxOrder - 1 : made \in [1 .. n -> Order]
  BY DEF PagesInit
<1>2. MaxOrder \in Nat /\ MaxTime \in Nat \ {0} /\ n \in Nat /\ n <= MaxOrder
  BY <1>1, PagesAssumption
<1>3. made \in Seq(Order) /\ Len(made) = n /\ Len(made) <= MaxOrder
  BY <1>1, <1>2
<1>4. now \in 1 .. MaxTime
  <2>1. CASE made = << >>
    BY <1>2, <2>1 DEF PagesInit
  <2>2. CASE made # << >>
    <3>1. Len(made) \in 1 .. Len(made)
      BY <1>2, <1>3, <2>2, EmptySeq
    <3>2. made[Len(made)] \in Order
      BY <1>3, <3>1
    <3> QED
      BY <2>2, <3>2 DEF PagesInit, Order
  <2> QED
    BY <2>1, <2>2
<1>5. PICK kind \in WalkKind, all \in BOOLEAN :
        walk = [kind |-> kind, all |-> all, pc |-> "new", place |-> 0, pages |-> << >>]
  BY DEF PagesInit, WalkKind
<1>6. /\ walk.kind = kind /\ walk.pc = "new" /\ walk.place = 0 /\ walk.pages = << >>
      /\ walk \in WalkRow(DOMAIN made)
  <2>1. << >> \in Seq(DOMAIN made)
    BY EmptySeq
  <2> QED
    BY <1>5, <2>1 DEF WalkRow, WalkPc
<1>7. open = {} /\ gone = {} /\ hidden = {} /\ always = {} /\ quiet = TRUE
  BY DEF PagesInit
<1>8. PagesTypeOK
  BY <1>2, <1>3, <1>4, <1>6, <1>7 DEF PagesTypeOK, WalkRow, WalkKind, WalkPc
<1>9. Descending /\ ~Undisturbed
  BY <1>6 DEF Descending, Undisturbed
<1> QED
  BY <1>6, <1>7, <1>8, <1>9 DEF PagesInv, CursorWalk

\* The pages of a walk by cursor are in strictly descending order, the cursor is their
\* last row, and every order seen all the time is in them or after it; the pages of an
\* undisturbed walk by offset are the newest rows, as many as the offset says.
THEOREM PagesInvariance == PagesSpec => []PagesInv
<1>1. PagesInit => PagesInv
  BY InitPages
<1>2. PagesInv /\ [PagesNext]_pageVars => PagesInv'
  <2> SUFFICES ASSUME PagesInv, [PagesNext]_pageVars PROVE PagesInv'
    OBVIOUS
  <2>1. CASE CursorPage
    BY <2>1, CursorPageStep
  <2>2. CASE OffsetPage
    BY <2>2, OffsetPageStep
  <2>3. CASE ListPage
    BY <2>3, ListPageStep
  <2>4. CASE InsertOrder
    BY <2>4, InsertOrderStep
  <2>5. CASE (\E i \in open : EndInsert(i)) \/ (\E m \in PlaceMap : Hide(m))
    BY <2>5, OtherWrites
  <2>6. CASE Tick \/ UNCHANGED pageVars
    BY <2>6, TickStep
  <2> QED
    BY <2>1, <2>2, <2>3, <2>4, <2>5, <2>6 DEF PagesNext
<1> QED
  BY <1>1, <1>2, PTL DEF PagesSpec

LEMMA ExactlyOnce ==
  ASSUME PagesTypeOK, Descending PROVE IsInjective(walk.pages)
<1> SUFFICES ASSUME NEW i \in DOMAIN walk.pages, NEW j \in DOMAIN walk.pages,
                    walk.pages[i] = walk.pages[j], i # j
             PROVE  FALSE
  BY DEF IsInjective
<1>1. i < j \/ j < i
  BY PagesTypes
<1>2. walk.pages[i] \in DOMAIN made /\ walk.pages[j] \in DOMAIN made
  BY PagesTypes
<1> QED
  BY <1>1, <1>2, NewerOrders DEF Descending

\* findActivity and findOrdersPage by cursor return no order twice and miss none that
\* they could see all the time, whatever is inserted, hidden or restored between two
\* pages, with any number of orders and any limit; by offset, and in the lists, the
\* same holds of walks that nothing disturbs.
THEOREM PagesAreExact == PagesSpec => []PagesExact
<1>1. PagesInv => PagesExact
  <2> SUFFICES ASSUME PagesInv PROVE PagesExact
    OBVIOUS
  <2>1. CursorExact
    BY ExactlyOnce DEF PagesInv, CursorExact, CursorWalk, Returned
  <2>2. OffsetExact
    <3> SUFFICES ASSUME Undisturbed
                 PROVE  /\ IsInjective(walk.pages)
                        /\ walk.pc = "end" => ToSet(walk.pages) = Seen
      BY DEF OffsetExact
    <3>1. OffsetWalk
      BY DEF PagesInv
    <3> QED
      BY <3>1, ExactlyOnce DEF PagesInv, OffsetWalk, Returned
  <2> QED
    BY <2>1, <2>2 DEF PagesExact
<1> QED
  BY <1>1, PagesInvariance, PTL

-----------------------------------------------------------------------------
(* The composition that TLC runs: five components, one of which moves.     *)

(* Each step of the composition is a step of each component or leaves its  *)
(* variables alone, so every run of it is a run of all five: what is true  *)
(* of a component alone is true of it in the composition, and what TLC     *)
(* finds in the composition says something of the component.               *)
THEOREM DatabaseIsItsParts ==
  DatabaseSpec =>
    MigrationsSpec /\ SeedSpec /\ LabSpec /\ PagesSpec /\ ShutdownSpec
<1> DEFINE vars == <<migrationVars, seedVars, labVars, pageVars, shutdownVars,
                     moving>>
<1>1. DatabaseInit =>
        /\ MigrationsInit /\ SeedInit /\ LabInit /\ PagesInit /\ ShutdownInit
  BY DEF DatabaseInit
<1>2. [DatabaseNext]_vars => [MigrationsNext]_migrationVars
  BY DEF DatabaseNext
<1>3. [DatabaseNext]_vars => [SeedNext]_seedVars
  BY DEF DatabaseNext
<1>4. [DatabaseNext]_vars => [LabNext]_labVars
  BY DEF DatabaseNext
<1>5. [DatabaseNext]_vars => [PagesNext]_pageVars
  BY DEF DatabaseNext
<1>6. [DatabaseNext]_vars => [ShutdownNext]_shutdownVars
  BY DEF DatabaseNext
<1> QED
  BY <1>1, <1>2, <1>3, <1>4, <1>5, <1>6, PTL
  DEF DatabaseSpec, MigrationsSpec, SeedSpec, LabSpec, PagesSpec, ShutdownSpec

(* The invariant of the composition, that TLC checks on the small          *)
(* instance, for every instance: the inductive invariant of whichever      *)
(* component moves.                                                        *)
THEOREM DatabaseInvariance == DatabaseSpec => []DatabaseInv
<1>1. MigrationsInv /\ SeedInv /\ LabInv /\ (labFails \in Nat /\ LabKept)
        /\ PagesInv /\ ShutdownInv => DatabaseInv
  BY DEF DatabaseInv
<1> QED
  BY <1>1, DatabaseIsItsParts, MigrationsInvariance, SeedInvariance,
     LabInvariance, NothingLost, PagesInvariance, ShutdownInvariance, PTL
=============================================================================
